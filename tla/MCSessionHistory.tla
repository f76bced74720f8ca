-------------------------- MODULE MCSessionHistory --------------------------
(* TLC instance of SessionHistory. *)
EXTENDS SessionHistory, TLC
=============================================================================
