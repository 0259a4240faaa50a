---------------------------- MODULE MCSpendService ----------------------------
(* Two external request ids under one funder's cap. *)
EXTENDS SpendService, TLC

CONSTANTS e1, e2, funder

MCRequests == {e1, e2}
MCLegs == {funder}
MCCap == funder :> 2
MCAmounts == 1 .. 2
MCSymmetry == Permutations(MCRequests)
=============================================================================
