------------------------------- MODULE MCEscrow -------------------------------
(***************************************************************************)
(* A small instance of the bond.  Evidence k1 and k2 are type B keys of    *)
(* two epochs that share a leaf; k3 is a type A key of the first epoch.    *)
(***************************************************************************)
EXTENDS EquivocationEscrow, TLC

CONSTANTS a1, a2, e1, e2, k1, k2, k3, l1, l2

MCEpochOf == (k1 :> e1) @@ (k2 :> e2) @@ (k3 :> e1)
MCLeavesOf == (k1 :> {l1, l2}) @@ (k2 :> {l2}) @@ (k3 :> {})

HashOf(a, k) == [by |-> a, payTo |-> a, evidence |-> k]

\* Two submitters with the same key and with another key of one fork, and one of
\* them proves a second fork.
MCHashes == {HashOf(a1, k1), HashOf(a2, k1), HashOf(a2, k3), HashOf(a1, k2)}
=============================================================================
