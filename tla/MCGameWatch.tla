----------------------------- MODULE MCGameWatch ------------------------------
(* TLC instance of GameWatch: the bounds on what the game does bring all of its *)
(* parts to an end.                                                          *)
EXTENDS GameWatch, TLC

(* Swap chains can be told apart by nothing but what is presented to them.  *)
Symmetry == Permutations(Chains)
=============================================================================
