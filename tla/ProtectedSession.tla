--------------------------- MODULE ProtectedSession ---------------------------
(***************************************************************************)
(* The protected session of KF2 Optimizer Next: before a game session it    *)
(* captures every INI of Killing Floor 2 (src/config/session_guard.cpp),    *)
(* stages temporary session values over them, and after the session puts    *)
(* the captured files back together with the graphics changes the player    *)
(* confirmed inside the game (src/app/application_video_state.cpp,          *)
(* src/features/telemetry/telemetry_effect_stage.cpp).                      *)
(*                                                                         *)
(* The optimizer is one thread that may die between any two steps, every    *)
(* call of it may fail, and the game is started, played and closed by the   *)
(* user or by Steam at any moment.  The value of the graphics settings is   *)
(* all that is kept of the player's INIs.  "Reset on restore" of temporal   *)
(* antialiasing is the one session value that stays and is not counted.     *)
(***************************************************************************)
EXTENDS FiniteSets

CONSTANTS
    Files,          \* INI files a session captures and stages values in
    VideoFile,      \* the one that holds the graphics settings
    Values,         \* graphics settings a player may choose
    NoValue         \* no graphics settings known

ASSUME SessionAssumption ==
    /\ IsFiniteSet(Files) /\ VideoFile \in Files
    /\ Values # {} /\ NoValue \notin Values

Surfaces == {"provider", "flex"}

VARIABLES
    \* the player's INIs and the optional game files
    graphics,   \* graphics settings in VideoFile
    temp,       \* INIs that hold temporary session values
    staged,     \* installed runtime packages
    \* state_root/session-config/active and session.marker
    copies,     \* files present under files/
    saved,      \* graphics settings in the copy of VideoFile, if it is there
    savedTemp,  \* copies that hold session values
    manifest,   \* is manifest.txt there?
    replay,     \* graphics-replay.txt, NoValue = absent
    marker,     \* clean_shutdown of session.marker
    \* the game
    game,       \* "starting" = a process without a window
    gameTemp,   \* INIs whose session values the process has loaded
    overtaken,  \* history: has KF2 ever been started between the check that
                \* it does not run and the end of the work relying on it?
    \* memory of the optimizer
    snapshot,   \* session_config_snapshot
    launch,     \* waiting_for_launch with launch_deadline: "ready" has none
    native,     \* session_video_native_changes
    seen,       \* session_video_runtime
    bound,      \* game_process; "gone" = it has exited, not noticed yet
    handoff,    \* game_restart_handoff_*; "settings" = restart announced
    capturing,  \* final_graphics_capture_pending
    owns,       \* final_graphics_owns_recovery_requirement
    banner,     \* recovery_required
    \* its control state
    pc, caller, purpose, todo, complete

inis == <<graphics, temp>>
snapshotFiles == <<copies, saved, savedTemp, manifest>>
disk == <<inis, staged, snapshotFiles, replay, marker>>
world == <<game, gameTemp, overtaken>>
video == <<native, seen>>
process == <<bound, handoff>>
final == <<capturing, owns>>
memory == <<snapshot, launch, video, process, final, banner>>
control == <<pc, caller, purpose, todo, complete>>
vars == <<disk, world, memory, control>>

BootSteps == {"bootCap", "bootSurfaces", "bootSession", "bootCapSync", "mark"}
PrepareSteps == {"prepare", "capture", "captureFiles", "captureManifest",
                 "stage", "stageSurfaces", "unprepared", "shellExecute"}
RestoreSteps == {"provider", "session", "restoreFiles", "temporalAA", "replay",
                 "verify", "removeFiles", "removeReplay", "removeManifest", "flex",
                 "capSync", "failed", "restored"}
Relying == {"bootCap", "bootSurfaces", "bootSession", "provider", "session",
            "restoreFiles", "temporalAA", "replay", "verify", "removeFiles",
            "removeReplay", "removeManifest"}
Callers == {"none", "bootRunning", "bootStopped", "closed", "settled", "finalize",
            "unprepared", "launch", "graphics", "close", "fallback"}
Purposes == {"none", "start", "rearm", "graphics", "rollback", "launch", "monitor"}

TypeOK ==
    /\ graphics \in Values /\ temp \subseteq Files /\ staged \subseteq Surfaces
    /\ copies \subseteq Files /\ savedTemp \subseteq copies
    /\ IF VideoFile \in copies THEN saved \in Values ELSE saved = NoValue
    /\ manifest \in BOOLEAN /\ replay \in Values \cup {NoValue}
    /\ marker \in {"clean", "open"}
    /\ game \in {"off", "starting", "running"} /\ gameTemp \subseteq Files
    /\ overtaken \in BOOLEAN
    /\ snapshot \in BOOLEAN /\ launch \in {"none", "ready", "armed"}
    /\ native \in Values \cup {NoValue} /\ seen \in Values \cup {NoValue}
    /\ bound \in {"none", "live", "gone"} /\ handoff \in {"none", "plain", "settings"}
    /\ capturing \in BOOLEAN /\ owns \in BOOLEAN /\ banner \in BOOLEAN
    /\ pc \in {"off", "idle", "restore", "apply"}
                \cup BootSteps \cup PrepareSteps \cup RestoreSteps
    /\ caller \in Callers /\ purpose \in Purposes
    /\ todo \subseteq Files /\ complete \in BOOLEAN

Forgotten ==
    /\ snapshot = FALSE /\ launch = "none" /\ native = NoValue /\ seen = NoValue
    /\ bound = "none" /\ handoff = "none" /\ capturing = FALSE /\ owns = FALSE
    /\ banner = FALSE

AtRest == /\ caller = "none" /\ purpose = "none" /\ todo = {} /\ complete = TRUE

(* A player whose settings were chosen in the game before the optimizer was *)
(* ever started.                                                            *)
Init ==
    /\ graphics \in Values /\ saved = NoValue
    /\ temp = {} /\ staged = {} /\ copies = {} /\ savedTemp = {}
    /\ manifest = FALSE /\ replay = NoValue /\ marker = "clean"
    /\ game = "off" /\ gameTemp = {} /\ overtaken = FALSE
    /\ Forgotten /\ pc = "off" /\ AtRest

-----------------------------------------------------------------------------
(* Helpers *)

(* validate_snapshot_tree, parse_manifest and the hashes of resume and of   *)
(* restore succeed                                                          *)
Usable == manifest /\ copies = Files

(* rebase_video_changes: what changed between from and to, applied to base *)
Rebase(base, from, to) == IF to = from THEN base ELSE to

(* session_video_native_changes, else video_saved; during a session         *)
(* video_saved holds the captured settings                                  *)
Confirmed == IF native = NoValue THEN saved ELSE native

Goto(step) == pc' = step /\ UNCHANGED <<caller, purpose, todo, complete>>
Idle == pc' = "idle" /\ caller' = "none" /\ purpose' = "none" /\ todo' = {} /\ complete' = TRUE
Halt == pc' = "off" /\ caller' = "none" /\ purpose' = "none" /\ todo' = {} /\ complete' = TRUE
Forget ==
    /\ snapshot' = FALSE /\ launch' = "none" /\ native' = NoValue /\ seen' = NoValue
    /\ bound' = "none" /\ handoff' = "none" /\ capturing' = FALSE /\ owns' = FALSE
    /\ banner' = FALSE

CallRestore(who) == pc' = "restore" /\ caller' = who /\ UNCHANGED <<purpose, todo, complete>>
CallPrepare(why) ==
    /\ pc' = "prepare" /\ purpose' = why /\ caller' = "none"
    /\ UNCHANGED <<todo, complete>>

RaiseBanner == banner' = TRUE /\ UNCHANGED <<snapshot, launch, video, process, final>>
UntouchedMemory == UNCHANGED memory

-----------------------------------------------------------------------------
(* The game: started by launch, by Steam or from a shortcut, at any moment: *)
(* nothing keeps it from starting while the optimizer relies on its being   *)
(* closed.                                                                  *)

GameStart ==
    /\ game = "off"
    /\ game' = "starting" /\ gameTemp' = temp
    /\ overtaken' = IF pc \in Relying THEN TRUE ELSE overtaken
    /\ UNCHANGED <<disk, memory, control>>

GameWindow ==
    /\ game = "starting" /\ game' = "running"
    /\ UNCHANGED <<gameTemp, overtaken, disk, memory, control>>

(* The player changes the graphics settings: KF2 writes its INIs with the   *)
(* session values it has loaded.                                            *)
GameRewrite(v) ==
    /\ game = "running" /\ v # graphics
    /\ graphics' = v /\ temp' = temp \cup gameTemp
    /\ UNCHANGED <<staged, snapshotFiles, replay, marker, world, memory, control>>

GameExit ==
    /\ game # "off"
    /\ game' = "off" /\ gameTemp' = {}
    /\ bound' = IF bound = "live" THEN "gone" ELSE bound
    /\ UNCHANGED <<overtaken, disk, snapshot, launch, video, handoff, final, banner, control>>

Crash ==
    /\ pc # "off"
    /\ Forget /\ Halt
    /\ UNCHANGED <<disk, world>>

-----------------------------------------------------------------------------
(* Start of the optimizer, whose recovery of configuration transactions may *)
(* have raised the banner already.  Whether KF2 runs is asked once; a query *)
(* that fails counts as running.                                            *)

Boot ==
    /\ pc = "off"
    /\ caller' \in IF game = "off" THEN {"bootStopped", "bootRunning"} ELSE {"bootRunning"}
    /\ pc' = "bootCap" /\ UNCHANGED <<purpose, todo, complete>>
    /\ UntouchedMemory \/ RaiseBanner
    /\ UNCHANGED <<disk, world>>

(* Mutant: recovery of the cap fails without a banner *)
BootCap_Quiet ==
    /\ pc = "bootCap"
    /\ \/ Goto("bootSurfaces") /\ UntouchedMemory
       \/ Goto("bootCapSync") /\ UntouchedMemory
    /\ UNCHANGED <<disk, world>>

(* recover_frame_rate_cap; all other recovery waits for it *)
BootCap ==
    /\ pc = "bootCap"
    /\ \/ Goto("bootSurfaces") /\ UntouchedMemory
       \/ Goto("bootCapSync") /\ RaiseBanner
    /\ UNCHANGED <<disk, world>>

(* Provider and FleX packages stay while KF2 runs and are removed otherwise *)
BootSurfaces ==
    /\ pc = "bootSurfaces"
    /\ Goto("bootSession")
    /\ IF caller = "bootRunning" THEN UNCHANGED staged ELSE staged' \in SUBSET staged
    /\ \/ caller = "bootStopped" /\ staged' # {} /\ RaiseBanner
       \/ caller = "bootStopped" /\ staged' = {} /\ UntouchedMemory
       \/ caller = "bootRunning" /\ (RaiseBanner \/ UntouchedMemory)
    /\ UNCHANGED <<inis, snapshotFiles, replay, marker, world>>

(* resume_session_config: a tree without a manifest is removed *)
BootNoSession ==
    /\ pc = "bootSession" /\ ~manifest
    /\ copies' = {} /\ saved' = NoValue /\ savedTemp' = {} /\ replay' = NoValue
    /\ Goto("bootCapSync")
    /\ UntouchedMemory
    /\ UNCHANGED <<inis, staged, manifest, marker, world>>

(* Mutant: a snapshot that cannot be resumed is thrown away *)
BootSessionFails_Discards ==
    /\ pc = "bootSession"
    /\ Goto("bootCapSync") /\ RaiseBanner
    /\ copies' = {} /\ saved' = NoValue /\ savedTemp' = {}
    /\ manifest' = FALSE /\ replay' = NoValue
    /\ UNCHANGED <<inis, staged, marker, world>>

BootSessionFails ==
    /\ pc = "bootSession"
    /\ Goto("bootCapSync") /\ RaiseBanner
    /\ UNCHANGED <<disk, world>>

(* A usable snapshot is kept for the running game, restored otherwise *)
BootSession ==
    /\ pc = "bootSession" /\ Usable
    /\ snapshot' = TRUE
    /\ Goto(IF caller = "bootStopped" THEN "session" ELSE "bootCapSync")
    /\ banner' = (banner \/ (caller = "bootRunning" /\ replay # NoValue))
    /\ UNCHANGED <<disk, world, launch, video, process, final>>

(* Without a banner the frame cap is synchronised and the next launch is    *)
(* prepared; then the session marker is opened.                             *)
BootCapSync ==
    /\ pc = "bootCapSync"
    /\ \/ banner /\ Goto("mark") /\ UntouchedMemory
       \/ ~banner /\ CallPrepare("start") /\ UntouchedMemory
       \/ ~banner /\ game = "off" /\ CallPrepare("start") /\ RaiseBanner
    /\ UNCHANGED <<disk, world>>

(* SessionGuard::start.  If it, or the window, cannot be created the        *)
(* runtime is destroyed again.                                              *)
Mark ==
    /\ pc = "mark"
    /\ \/ marker' = "open" /\ Idle
       \/ UNCHANGED marker /\ CallRestore("fallback")
    /\ UNCHANGED <<inis, staged, snapshotFiles, replay, world, memory>>

-----------------------------------------------------------------------------
(* Preparation of a protected launch                                        *)

(* prepare_automatic_external_launch_profile: a snapshot there is is reused *)
(* if it is prepared, nothing is done while KF2 may be running.             *)
Prepare ==
    /\ pc = "prepare"
    /\ \/ snapshot /\ launch = "ready"
            /\ IF purpose = "start" THEN Goto("mark") ELSE Idle
       \/ snapshot /\ launch # "ready" /\ Goto("unprepared")
       \/ ~snapshot /\ game = "off" /\ Goto("capture")
       \/ ~snapshot /\ Goto("unprepared")
    /\ UNCHANGED <<disk, world, memory>>

(* Its callers: a start and a rearmed session go on without a prepared      *)
(* launch, a change of graphics settings raises the banner.                 *)
Unprepared ==
    /\ pc = "unprepared"
    /\ IF purpose = "graphics" THEN RaiseBanner ELSE UntouchedMemory
    /\ IF purpose = "start" THEN Goto("mark") ELSE Idle
    /\ UNCHANGED <<disk, world>>

(* A capture that fails is an error, for which a failed change of graphics  *)
(* settings, too, raises the banner.  Monitoring goes on without a snapshot. *)
CaptureFails ==
    /\ pc \in {"capture", "captureFiles", "captureManifest"}
    /\ banner' = (banner \/ purpose = "rollback")
    /\ launch' = IF purpose = "monitor" THEN "none" ELSE launch
    /\ IF purpose \in {"monitor", "launch"} THEN Idle ELSE Goto("unprepared")
    /\ UNCHANGED <<disk, world, snapshot, video, process, final>>

(* capture_session_config: an unfinished tree is removed, a finished one is *)
(* never replaced; the manifest is written last.                            *)
CaptureBegin ==
    /\ pc = "capture" /\ ~manifest
    /\ copies' = {} /\ saved' = NoValue /\ savedTemp' = {} /\ replay' = NoValue
    /\ pc' = "captureFiles" /\ todo' = Files /\ UNCHANGED <<caller, purpose, complete>>
    /\ UNCHANGED <<inis, staged, manifest, marker, world, memory>>

CaptureFile(f) ==
    /\ pc = "captureFiles" /\ f \in todo
    /\ copies' = copies \cup {f} /\ savedTemp' = savedTemp \cup ({f} \cap temp)
    /\ saved' = IF f = VideoFile THEN graphics ELSE saved
    /\ todo' = todo \ {f}
    /\ pc' = IF todo' = {} THEN "captureManifest" ELSE "captureFiles"
    /\ UNCHANGED <<caller, purpose, complete>>
    /\ UNCHANGED <<inis, staged, manifest, replay, marker, world, memory>>

CaptureManifest ==
    /\ pc = "captureManifest"
    /\ manifest' = TRUE /\ snapshot' = TRUE
    /\ launch' = IF purpose = "monitor" THEN "none" ELSE launch
    /\ IF purpose = "monitor" THEN Idle
       ELSE pc' = "stage" /\ todo' = Files /\ UNCHANGED <<caller, purpose, complete>>
    /\ UNCHANGED <<inis, staged, copies, saved, savedTemp, replay, marker, world,
                   video, process, final, banner>>

(* Launch profile, overlay-compatible display mode and provider logging     *)
StageFile(f) ==
    /\ pc = "stage" /\ f \in todo
    /\ temp' = temp \cup {f}
    /\ todo' = todo \ {f}
    /\ pc' = IF todo' = {} THEN "stageSurfaces" ELSE "stage"
    /\ UNCHANGED <<caller, purpose, complete>>
    /\ UNCHANGED <<graphics, staged, snapshotFiles, replay, marker, world, memory>>

(* FleX and provider packages; the launch is prepared without a deadline,   *)
(* or, for a start from the optimizer, armed before ShellExecute is called. *)
StageSurfaces ==
    /\ pc = "stageSurfaces"
    /\ staged' = Surfaces
    /\ launch' = IF purpose = "launch" THEN "armed" ELSE "ready"
    /\ CASE purpose = "launch" -> Goto("shellExecute")
         [] purpose = "start" -> Goto("mark")
         [] OTHER -> Idle
    /\ UNCHANGED <<inis, snapshotFiles, replay, marker, world, snapshot, video,
                   process, final, banner>>

(* fail_preparation, and the failing steps of launch *)
StageFails ==
    /\ pc \in {"stage", "stageSurfaces"}
    /\ staged' \in IF pc = "stage" THEN {staged} ELSE {s \cup staged : s \in SUBSET Surfaces}
    /\ CallRestore(IF purpose = "launch" THEN "launch" ELSE "unprepared")
    /\ UNCHANGED <<inis, snapshotFiles, replay, marker, world, memory>>

(* launch: refused while KF2 may be running or while a snapshot is not      *)
(* prepared.  The recovery banner is not consulted.                         *)
Launch ==
    /\ pc = "idle" /\ game = "off"
    /\ \/ /\ snapshot /\ launch = "ready"
          /\ launch' = "armed"
          /\ pc' = "shellExecute" /\ purpose' = "launch" /\ UNCHANGED <<caller, todo, complete>>
       \/ /\ ~snapshot
          /\ pc' = "capture" /\ purpose' = "launch" /\ UNCHANGED <<caller, todo, complete>>
          /\ UNCHANGED launch
    /\ UNCHANGED <<disk, world, snapshot, video, process, final, banner>>

(* ShellExecuteExW: Steam starts the process later, GameStart *)
ShellExecute ==
    /\ pc = "shellExecute"
    /\ Idle \/ CallRestore("launch")
    /\ UNCHANGED <<disk, world, memory>>

-----------------------------------------------------------------------------
(* restore_protected_session_config                                         *)

Return(ok) == Goto(IF ok THEN "restored" ELSE "failed")

RestoreBlocked ==
    /\ pc = "restore"
    /\ Return(FALSE) /\ RaiseBanner
    /\ UNCHANGED <<disk, world>>

(* Mutant: nobody asks whether KF2 runs *)
RestoreBegin_Unchecked ==
    /\ pc = "restore" /\ ~capturing
    /\ handoff' = "none"
    /\ pc' = "provider" /\ complete' = TRUE /\ UNCHANGED <<caller, purpose, todo>>
    /\ UNCHANGED <<disk, world, snapshot, launch, video, bound, final, banner>>

(* Not while the final graphics are unread, KF2 runs, or an interrupted     *)
(* change of the frame cap is pending                                       *)
RestoreBegin ==
    /\ pc = "restore" /\ ~capturing /\ game = "off"
    /\ handoff' = "none"
    /\ pc' = "provider" /\ complete' = TRUE /\ UNCHANGED <<caller, purpose, todo>>
    /\ UNCHANGED <<disk, world, snapshot, launch, video, bound, final, banner>>

(* The surfaces are independent: a failure of one is remembered and the     *)
(* next one is restored all the same.                                       *)
RestoreProvider ==
    /\ pc = "provider"
    /\ pc' = IF snapshot THEN "session" ELSE "flex"
    /\ \/ staged' = staged \ {"provider"} /\ UNCHANGED complete /\ UntouchedMemory
       \/ UNCHANGED staged /\ complete' = FALSE /\ RaiseBanner
    /\ UNCHANGED <<caller, purpose, todo, inis, snapshotFiles, replay, marker, world>>

(* restore_session_video_settings fails: everything is retained.  It may    *)
(* fail wherever it reads, verifies or writes.                              *)
SessionFails ==
    /\ pc \in {"session", "restoreFiles", "temporalAA", "replay", "verify",
               "removeFiles", "removeReplay", "removeManifest"}
    /\ IF caller = "bootStopped"
       THEN pc' = "bootCapSync" /\ UNCHANGED complete
       ELSE pc' = "flex" /\ complete' = FALSE
    /\ todo' = {} /\ RaiseBanner
    /\ UNCHANGED <<caller, purpose, disk, world>>

(* The confirmed graphics are recorded in the snapshot before anything is   *)
(* written; a record that is already there is used instead of them.         *)
Session ==
    /\ pc = "session" /\ (replay # NoValue \/ native # NoValue => Usable) /\ manifest
    /\ replay' = IF replay = NoValue THEN native ELSE replay
    /\ native' = replay'
    /\ pc' = "restoreFiles" /\ todo' = Files /\ UNCHANGED <<caller, purpose, complete>>
    /\ UNCHANGED <<inis, staged, snapshotFiles, marker, world, snapshot, launch,
                   seen, process, final, banner>>

RestoreFile(f) ==
    /\ pc = "restoreFiles" /\ f \in todo /\ f \in copies
    /\ temp' = (temp \ {f}) \cup (savedTemp \cap {f})
    /\ graphics' = IF f = VideoFile THEN saved ELSE graphics
    /\ todo' = todo \ {f}
    /\ pc' = IF todo' = {} THEN "temporalAA" ELSE "restoreFiles"
    /\ UNCHANGED <<caller, purpose, complete>>
    /\ UNCHANGED <<staged, snapshotFiles, replay, marker, world, memory>>

TemporalAA ==
    /\ pc = "temporalAA"
    /\ IF replay = NoValue
       THEN pc' = "removeFiles" /\ todo' = Files /\ UNCHANGED <<caller, purpose, complete>>
       ELSE Goto("replay")
    /\ UNCHANGED <<disk, world, memory>>

(* The record is applied to the restored files as a configuration           *)
(* transaction, which is refused while a game process is bound.             *)
ApplyReplay ==
    /\ pc = "replay"
    /\ graphics = native \/ bound = "none"
    /\ graphics' = native
    /\ Goto("verify")
    /\ UNCHANGED <<temp, staged, snapshotFiles, replay, marker, world, memory>>

VerifyReplay ==
    /\ pc = "verify" /\ graphics = native
    /\ pc' = "removeFiles" /\ todo' = Files /\ UNCHANGED <<caller, purpose, complete>>
    /\ UNCHANGED <<disk, world, memory>>

(* complete_session_config and remove_all: files, replay, manifest *)
RemoveFile(f) ==
    /\ pc = "removeFiles" /\ f \in todo
    /\ copies' = copies \ {f} /\ savedTemp' = savedTemp \ {f}
    /\ saved' = IF f = VideoFile THEN NoValue ELSE saved
    /\ todo' = todo \ {f}
    /\ pc' = IF todo' = {} THEN "removeReplay" ELSE "removeFiles"
    /\ UNCHANGED <<caller, purpose, complete>>
    /\ UNCHANGED <<inis, staged, manifest, replay, marker, world, memory>>

RemoveReplay ==
    /\ pc = "removeReplay"
    /\ replay' = NoValue
    /\ Goto("removeManifest")
    /\ UNCHANGED <<inis, staged, snapshotFiles, marker, world, memory>>

RemoveManifest ==
    /\ pc = "removeManifest"
    /\ manifest' = FALSE
    /\ snapshot' = FALSE /\ launch' = "none" /\ native' = NoValue /\ seen' = NoValue
    /\ Goto(IF caller = "bootStopped" THEN "bootCapSync" ELSE "flex")
    /\ UNCHANGED <<inis, staged, copies, saved, savedTemp, replay, marker, world,
                   process, final, banner>>

(* restore_optimized_flex_runtime asks once more whether KF2 runs *)
RestoreFlex ==
    /\ pc = "flex"
    /\ pc' = "capSync"
    /\ \/ /\ game = "off" \/ "flex" \notin staged
          /\ staged' = staged \ {"flex"} /\ UNCHANGED complete /\ UntouchedMemory
       \/ UNCHANGED staged /\ complete' = FALSE /\ RaiseBanner
    /\ UNCHANGED <<caller, purpose, todo, inis, snapshotFiles, replay, marker, world>>

RestoreCap ==
    /\ pc = "capSync"
    /\ \/ Return(complete) /\ UntouchedMemory
       \/ Return(FALSE) /\ RaiseBanner
    /\ UNCHANGED <<disk, world>>

(* What the callers do with the result                                      *)

(* finalize_ended_game_session prepares the next launch unless a recovery   *)
(* is required; a change of graphics settings is applied now; the final     *)
(* readback takes back the banner it raised itself.                         *)
Restored ==
    /\ pc = "restored" /\ caller \notin {"close", "fallback"}
    /\ CASE caller = "graphics" -> Goto("apply")
         [] caller = "finalize" /\ ~banner -> CallPrepare("rearm")
         [] caller = "unprepared" -> Goto("unprepared")
         [] OTHER -> Idle
    /\ banner' = ((banner /\ ~(caller = "settled" /\ owns))
                    \/ (caller = "unprepared" /\ purpose = "rollback"))
    /\ owns' = (owns /\ caller # "settled")
    /\ UNCHANGED <<disk, world, snapshot, launch, video, process, capturing>>

NotRestored ==
    /\ pc = "failed" /\ caller \notin {"close", "fallback"}
    /\ IF caller = "unprepared" THEN Goto("unprepared") ELSE Idle
    /\ banner' = (banner \/ caller = "unprepared")
    /\ owns' = (owns /\ caller # "settled")
    /\ UNCHANGED <<disk, world, snapshot, launch, video, process, capturing>>

-----------------------------------------------------------------------------
(* The user saves graphics settings: apply_video_settings                   *)

(* synchronize_video_settings_from_game with a protected session *)
Synchronize ==
    IF snapshot /\ seen # NoValue /\ graphics # seen
    THEN native' = Rebase(Confirmed, seen, graphics) /\ seen' = graphics
    ELSE UNCHANGED video

(* A prepared launch is dismantled first *)
SaveGraphics ==
    /\ pc = "idle" /\ game = "off"
    /\ Synchronize
    /\ IF snapshot
       THEN pc' = "restore" /\ caller' = "graphics" /\ purpose' = "graphics"
       ELSE pc' = "apply" /\ purpose' = "none" /\ UNCHANGED caller
    /\ UNCHANGED <<todo, complete, disk, world, snapshot, launch, process, final, banner>>

(* Written as a configuration transaction told that KF2 is not running *)
Apply(v) ==
    /\ pc = "apply" /\ v # graphics
    /\ graphics' = v
    /\ IF purpose = "graphics" THEN CallPrepare("graphics") ELSE Idle
    /\ UNCHANGED <<temp, staged, snapshotFiles, replay, marker, world, memory>>

(* Failures before and during the transaction *)
ApplyFails ==
    /\ pc = "apply"
    /\ \/ purpose = "graphics" /\ (CallPrepare("graphics") \/ CallPrepare("rollback"))
       \/ purpose = "none" /\ Idle
    /\ UNCHANGED <<disk, world, memory>>

-----------------------------------------------------------------------------
(* runtime_tick and try_attach_telemetry; ShellExecute pumps messages, so   *)
(* they run inside it, too.  A query that fails or a deadline that has not  *)
(* passed is a tick that does nothing.                                      *)

Awake == pc \in {"idle", "shellExecute"}

Poll ==
    /\ Awake /\ snapshot /\ seen # NoValue /\ graphics # seen
    /\ Synchronize
    /\ UNCHANGED <<disk, world, snapshot, launch, process, final, banner, control>>

(* The system resumes from sleep, or a frame is rejected *)
Detach ==
    /\ Awake /\ bound # "none"
    /\ bound' = "none"
    /\ UNCHANGED <<disk, world, snapshot, launch, video, handoff, final, banner, control>>

(* begin_game_restart_handoff: the log of the process tells whether it      *)
(* restarts to apply new settings.                                          *)
NoticeExit ==
    /\ Awake /\ bound = "gone"
    /\ bound' = "none" /\ handoff' \in {"plain", "settings"}
    /\ UNCHANGED <<disk, world, snapshot, launch, video, final, banner, control>>

(* A process is found: refresh_game_configuration_for_process_start. Only a *)
(* restart announced for new settings contributes a change; if the INIs     *)
(* cannot be read nothing does.                                             *)
Attach ==
    /\ Awake /\ bound = "none" /\ game # "off"
    /\ bound' = "live" /\ handoff' = "none"
    /\ \/ UNCHANGED video
       \/ /\ native' = IF ~snapshot THEN NoValue
                       ELSE IF handoff = "settings" /\ seen # NoValue
                       THEN Rebase(Confirmed, seen, graphics) ELSE native
          /\ seen' = IF snapshot THEN graphics ELSE NoValue
    /\ UNCHANGED <<disk, world, snapshot, launch, final, banner, control>>

(* Its window ends the wait for the launch; a session that was not prepared *)
(* is captured now.                                                         *)
Window ==
    /\ Awake /\ bound = "live" /\ game = "running"
    /\ IF snapshot
       THEN launch # "none" /\ launch' = "none" /\ UNCHANGED control
       ELSE pc' = "capture" /\ purpose' = "monitor" /\ UNCHANGED <<caller, todo, complete, launch>>
    /\ UNCHANGED <<disk, world, snapshot, video, process, final, banner>>

(* Mutant: the deadline of a launch is not looked at *)
Closed_Waiting ==
    /\ Awake /\ bound = "none" /\ game = "off" /\ handoff = "none"
    /\ snapshot /\ launch = "none"
    /\ IF capturing THEN Synchronize ELSE UNCHANGED video
    /\ CallRestore(IF capturing THEN "settled" ELSE "closed")
    /\ capturing' = FALSE
    /\ UNCHANGED <<disk, world, snapshot, launch, process, owns, banner>>

(* No process, no handoff: the session is over, or the launch took too long *)
Closed ==
    /\ Awake /\ bound = "none" /\ game = "off" /\ handoff = "none"
    /\ snapshot /\ launch # "ready"
    /\ IF capturing THEN Synchronize ELSE UNCHANGED video
    /\ CallRestore(IF capturing THEN "settled" ELSE "closed")
    /\ capturing' = FALSE
    /\ UNCHANGED <<disk, world, snapshot, launch, process, owns, banner>>

(* finalize_ended_game_session: no replacement appeared in time *)
Finalize ==
    /\ Awake /\ bound = "none" /\ game = "off" /\ handoff # "none" /\ snapshot
    /\ handoff' = "none"
    /\ Synchronize
    /\ capturing' = FALSE /\ owns' = FALSE
    /\ CallRestore("finalize")
    /\ UNCHANGED <<disk, world, snapshot, launch, bound, banner>>

(* The last write of the game is not stable: nothing is restored yet *)
FinalizeUnstable ==
    /\ Awake /\ bound = "none" /\ game = "off" /\ handoff # "none"
    /\ snapshot /\ seen # NoValue
    /\ handoff' = "none"
    /\ capturing' = TRUE /\ owns' = ~banner /\ banner' = TRUE
    /\ UNCHANGED <<disk, world, snapshot, launch, video, bound, control>>

(* Without a session only the frame cap is synchronised *)
FinalizeUnprotected ==
    /\ Awake /\ bound = "none" /\ game = "off" /\ handoff # "none" /\ ~snapshot
    /\ handoff' = "none"
    /\ \/ banner' = banner /\ (IF banner THEN UNCHANGED control ELSE CallPrepare("rearm"))
       \/ banner' = TRUE /\ UNCHANGED control
    /\ UNCHANGED <<disk, world, snapshot, launch, video, bound, final>>

-----------------------------------------------------------------------------
(* The optimizer is closed.  A restore that is not complete is tried once   *)
(* more when the runtime is destroyed; only a complete one closes the       *)
(* session marker, if the event log could be written.                       *)

Close ==
    /\ pc = "idle"
    /\ CallRestore("close")
    /\ UNCHANGED <<disk, world, memory>>

CloseComplete ==
    /\ pc = "restored" /\ caller = "close"
    /\ marker' \in {"clean", marker}
    /\ Forget /\ Halt
    /\ UNCHANGED <<inis, staged, snapshotFiles, replay, world>>

CloseIncomplete ==
    /\ pc = "failed" /\ caller = "close"
    /\ CallRestore("fallback")
    /\ UNCHANGED <<disk, world, memory>>

Destroyed ==
    /\ pc \in {"restored", "failed"} /\ caller = "fallback"
    /\ Forget /\ Halt
    /\ UNCHANGED <<disk, world>>

-----------------------------------------------------------------------------
Starting ==
    \/ Boot \/ BootCap \/ BootSurfaces \/ BootNoSession \/ BootSessionFails
    \/ BootSession \/ BootCapSync \/ Mark
Preparing ==
    \/ Prepare \/ Unprepared \/ CaptureFails \/ CaptureBegin \/ CaptureManifest
    \/ \E f \in Files : CaptureFile(f) \/ StageFile(f)
    \/ StageSurfaces \/ StageFails \/ ShellExecute
Restoring ==
    \/ RestoreBlocked \/ RestoreBegin \/ RestoreProvider \/ SessionFails \/ Session
    \/ \E f \in Files : RestoreFile(f) \/ RemoveFile(f)
    \/ TemporalAA \/ ApplyReplay \/ VerifyReplay \/ RemoveReplay \/ RemoveManifest
    \/ RestoreFlex \/ RestoreCap \/ Restored \/ NotRestored
Saving == (\E v \in Values : Apply(v)) \/ ApplyFails
Closing == CloseComplete \/ CloseIncomplete \/ Destroyed
Ticking ==
    \/ Poll \/ NoticeExit \/ Attach \/ Window \/ Closed
    \/ Finalize \/ FinalizeUnstable \/ FinalizeUnprotected
Asked == Launch \/ SaveGraphics \/ Close \/ Detach
Outside ==
    \/ GameStart \/ GameWindow \/ GameExit \/ Crash
    \/ \E v \in Values : GameRewrite(v)

Next == Starting \/ Preparing \/ Restoring \/ Saving \/ Closing \/ Ticking \/ Asked \/ Outside

(* The thread runs whatever it has begun to its end, and its timer ticks;   *)
(* nobody has to start, play, save or close anything.                       *)
Spec == /\ Init /\ [][Next]_vars
        /\ WF_vars(Preparing \/ Restoring \/ Saving \/ Closing)
        /\ WF_vars(Ticking)

-----------------------------------------------------------------------------
(* Safety.  Once KF2 has overtaken work that relied on its being closed it  *)
(* may write back session values whose snapshot is being removed; nothing   *)
(* is claimed from then on.                                                 *)

(* Original values: a finished snapshot holds no session values, however    *)
(* captures, staging and interrupted removals follow each other; so what a  *)
(* restore writes (session_guard.cpp, restore_session_config) is what the   *)
(* player had.                                                              *)
SnapshotIsPreSession == manifest => savedTemp = {}

(* As long as any INI holds a session value, the snapshot that takes it     *)
(* back is on disk, finished and whole, through every crash and failure of  *)
(* capture, staging, restore and removal.                                   *)
TempIsCovered == temp # {} => Usable

(* Every session value can be taken back to what the player had, as long as *)
(* KF2 has not overtaken a restoration.                                     *)
SessionIsCovered == overtaken \/ (SnapshotIsPreSession /\ TempIsCovered)

(* Without a banner nothing of a finished session is left where the user    *)
(* would not look for it: at rest, with no session in memory and KF2        *)
(* closed, every INI is the player's.                                       *)
QuietMeansClean ==
    pc = "idle" /\ ~snapshot /\ ~banner /\ game = "off" => temp = {}

(* A launch that is offered as prepared is prepared as a whole, unless the  *)
(* user has been told that recovery is required: a restore that stops       *)
(* halfway leaves waiting_for_launch set.                                   *)
ReadyIsPrepared ==
    pc = "idle" /\ snapshot /\ launch = "ready" /\ ~banner
        => temp = Files /\ staged = Surfaces /\ Usable

(* What the user is not told of is as he would expect it, as long as KF2    *)
(* has not overtaken a restoration.                                         *)
NothingIsHidden == overtaken \/ (QuietMeansClean /\ ReadyIsPrepared)

(* The snapshot is given up only when it has done its work: every INI is    *)
(* restored, and the graphics settings are the captured ones or the change  *)
(* confirmed in the game (restore_session_video_settings).                  *)
DiscardedWhenRestored ==
    [][Usable /\ ~Usable' => overtaken \/ (temp = {} /\ graphics = Confirmed)]_vars

(* A record of confirmed graphics survives failing restores and restarts,   *)
(* unchanged, until the live INI holds it.                                  *)
ReplayHonoured ==
    [][replay # NoValue /\ replay' # replay => overtaken \/ graphics = replay]_vars

(* Neither record of what the player had is given up before its time, as    *)
(* long as KF2 has not overtaken a restoration.                             *)
RecordsServeTheirTime == DiscardedWhenRestored /\ ReplayHonoured

(* Once KF2 is closed a session does not stay open unnoticed: it is         *)
(* restored, prepared for the next launch, or the banner is up.             *)
SessionSettles ==
    (pc = "idle" /\ snapshot /\ game = "off")
        ~> (game # "off" \/ pc = "off" \/ ~snapshot \/ banner \/ launch = "ready")
=============================================================================
