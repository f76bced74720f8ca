------------------------- MODULE MCProtectedSession -------------------------
(* TLC instance of ProtectedSession. *)
EXTENDS ProtectedSession, TLC

(* Bound: a history ends when KF2 overtakes work that relies on its being   *)
(* closed.  The safety properties say nothing of what follows.              *)
NotOvertaken == ~overtaken
=============================================================================
