---------------------------- MODULE MCReceiptLog ----------------------------
(***************************************************************************)
(* A log with its genesis leaf, or one in which an earlier version left a  *)
(* raced head: the root of one leaf under the size two.                    *)
(***************************************************************************)
EXTENDS ReceiptLog, TLC

CONSTANTS p1, p2, genesis, old, t1, t2

Fresh == <<Leaf(0, genesis)>>
Raced == <<Leaf(0, genesis), Leaf(1, old), TreeHead(2, <<genesis>>)>>

MCJournals == {Fresh, Raced}
FreshOnly == {Fresh}
MCSymmetry == Permutations({p1, p2})
=============================================================================
