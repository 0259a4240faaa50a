---------------------------- MODULE MCMeteredCall ----------------------------
(* Three paid calls of one agent, some of them under a session delegation. *)
EXTENDS MeteredCall, TLC

CONSTANTS c1, c2, c3, agent, session

MCRequests == {c1, c2, c3}
MCLegs == {agent, session}
MCBookLegs == {agent}
MCCap == (agent :> 2) @@ (session :> 1)
MCAmounts == 1 .. 2
MCSymmetry == Permutations(MCRequests)
=============================================================================
