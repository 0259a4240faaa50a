----------------------------- MODULE MCBoardJob -----------------------------
(* A bidder whose two bids may land as one or as two, and two payments. *)
EXTENDS BoardJob

CONSTANTS a1, h1, h2, q1, q2
=============================================================================
