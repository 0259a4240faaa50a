----------------------------- MODULE MCStoreLock -----------------------------
(***************************************************************************)
(* Processes on one challenge store.                                       *)
(***************************************************************************)
EXTENDS ChallengeStoreLock, TLC

CONSTANTS p1, p2, p3, n1, n2
=============================================================================
