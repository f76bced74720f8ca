------------------------- MODULE MCAdaptiveControl -------------------------
(* TLC instance of AdaptiveControl. *)
EXTENDS AdaptiveControl
=============================================================================
