-------------------------- MODULE MCAnchorIntents --------------------------
(* Two heads; see the bounds in the configuration. *)
EXTENDS AnchorIntents
=============================================================================
