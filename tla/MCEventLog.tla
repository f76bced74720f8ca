----------------------------- MODULE MCEventLog -----------------------------
(* TLC instance of EventLog. *)
EXTENDS EventLog
=============================================================================
