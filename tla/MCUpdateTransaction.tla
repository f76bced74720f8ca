------------------------- MODULE MCUpdateTransaction -------------------------
(* TLC instance of UpdateTransaction. *)
EXTENDS UpdateTransaction, TLC
=============================================================================
