---------------------------- MODULE SessionHistory ----------------------------
(***************************************************************************)
(* ProtectedSession with a history variable: the graphics settings the      *)
(* player chose in the game and the optimizer has read and confirmed, as    *)
(* long as the player has not chosen others since.                          *)
(***************************************************************************)
EXTENDS ProtectedSession

VARIABLE confirmed

HInit == Init /\ confirmed = NoValue

HNext ==
    /\ Next
    /\ confirmed' = IF \E v \in Values : GameRewrite(v) \/ Apply(v) THEN NoValue
                    ELSE IF Awake /\ native' \notin {native, NoValue} THEN native'
                    ELSE confirmed

HSpec == HInit /\ [][HNext]_<<vars, confirmed>>

(* Confirmed graphics changes survive a failed restoration of the session   *)
(* and a restart of the optimizer: when the session is over and nothing is  *)
(* reported, the INI holds them (restore_session_video_settings and the     *)
(* recovery in the constructor of UiRuntime).                               *)
ConfirmedChangeKept ==
    pc = "idle" /\ ~snapshot /\ ~banner /\ game = "off" /\ confirmed # NoValue
        => graphics = confirmed
=============================================================================
