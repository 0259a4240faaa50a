-------------------------------- MODULE Sums --------------------------------
(***************************************************************************)
(* Sums of amounts of money.  A sum is counted, not folded: the total of f *)
(* over S is the number of units in all the amounts, where amount f[x] is  *)
(* the set of units <<x,1>> ... <<x,f[x]>>.  For natural numbers this is   *)
(* the usual sum, and a proof about it needs no induction: the facts about *)
(* the cardinality of finite sets are enough (Sums_proofs).                *)
(***************************************************************************)
EXTENDS Naturals, FiniteSets

Units(f, S) == UNION {{x} \X (1 .. f[x]) : x \in S}

Sum(f, S) == Cardinality(Units(f, S))
=============================================================================
