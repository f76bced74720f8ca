------------------------- MODULE MCConfigTransaction -------------------------
(* TLC instance of ConfigTransaction: file contents are interchangeable. *)
EXTENDS ConfigTransaction, TLC

BytesSymmetry == Permutations(Bytes)
=============================================================================
