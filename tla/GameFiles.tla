----------------------------- MODULE GameFiles --------------------------------
(***************************************************************************)
(* The parts that change what belongs to KF2: its runtime libraries, its    *)
(* telemetry provider and its configuration files.  They share no state, so *)
(* a behaviour is about one of them and the others stay at an initial state.*)
(* The optimizer may leave the runtime alone for ever; in the other parts   *)
(* TLC looks for deadlocks.  FrameCap is extended, the others instantiated. *)
(***************************************************************************)
EXTENDS FrameCap

CONSTANTS
    Settings, StagingFaults, StagingEdits,  \* ProviderStaging
    Odd, Menus, MaxChanges, MaxForeign      \* VideoSettings

VARIABLES
    part,           \* the part this behaviour is about
    files, runtimeMarker, inUse, up, op, runtimePlan, ready, runtimeTold, changed,
    published, brewed, clutter, module, stagingMarker, engine, game, user, stagingRunning,
    stagingPc, job, stagingHeld, health, stagingFaults, edits, late,
    menu, doc, stamp, videoHeld, writing, videoRunning, videoPc, purpose, before, snap,
    videoSaved, pending, times, videoPlan, videoAsked, changes, foreign

Runtime == INSTANCE FlexTransaction WITH
    marker <- runtimeMarker, plan <- runtimePlan, told <- runtimeTold

Staging == INSTANCE ProviderStaging WITH
    marker <- stagingMarker, running <- stagingRunning, pc <- stagingPc, held <-
    stagingHeld, faults <- stagingFaults, MaxFaults <- StagingFaults, MaxEdits <- StagingEdits

Video == INSTANCE VideoSettings WITH
    held <- videoHeld, running <- videoRunning, pc <- videoPc, saved <- videoSaved, plan
    <- videoPlan, asked <- videoAsked

(* A part that is not looked at starts from one state, and stays there.     *)
FilesInit ==
    /\ part \in {"Runtime", "Staging", "Cap", "Video"}
    /\ Runtime!Init /\ (part # "Runtime" =>
           runtimeMarker = Runtime!NoMarker /\ files["helper"] = "own")
    /\ Staging!Init /\ (part # "Staging" =>
           /\ module = "legacy" /\ engine.view = "native"
           /\ \A s \in Settings : game[s] = CHOOSE v \in Staging!Values : TRUE)
    /\ Init /\ (part # "Cap" =>
           /\ record = None /\ saved = (CHOOSE t \in Targets : TRUE) /\ ~running
           /\ \A f \in Files : disk[f].cap = Stock)
    /\ Video!Init /\ (part # "Video" =>
           menu = {"overall"} /\ ~videoRunning)

ofRuntime == <<files, runtimeMarker, inUse, up, op, runtimePlan, ready, runtimeTold,
    changed>>
ofStaging == <<published, brewed, clutter, module, stagingMarker, engine, game, user,
    stagingRunning, stagingPc, job, stagingHeld, health, stagingFaults, edits, late>>
ofVideo == <<menu, doc, stamp, videoHeld, writing, videoRunning, videoPc, purpose,
    before, snap, videoSaved, pending, times, videoPlan, videoAsked, changes, foreign>>
filesVars == <<part, ofRuntime, ofStaging, vars, ofVideo>>

FilesNext ==
    \/ /\ part = "Runtime" /\ Runtime!Next
       /\ UNCHANGED <<part, ofStaging, vars, ofVideo>>
    \/ /\ part = "Staging" /\ Staging!Next
       /\ UNCHANGED <<part, ofRuntime, vars, ofVideo>>
    \/ /\ part = "Cap" /\ Next
       /\ UNCHANGED <<part, ofRuntime, ofStaging, ofVideo>>
    \/ /\ part = "Video" /\ Video!Next
       /\ UNCHANGED <<part, ofRuntime, ofStaging, vars>>
    \/ /\ part \in {"Runtime"}
       /\ UNCHANGED filesVars

FilesSpec == FilesInit /\ [][FilesNext]_filesVars

ASSUME FilesAssumption == Staging!StagingAssumption /\ Video!VideoAssumption /\ CapAssumption

(* What a page shows is what the files hold: the frame rate and the graphics *)
(* settings (Finish of the cap; reload_video_settings).                     *)
ShownIsThere == ShownIsCapped /\ Video!ShownIsCurrent

(* What KF2, Steam or the player wrote, and was there when an operation      *)
(* looked, is never overwritten or removed by that operation: a library, a   *)
(* package, an edit of a cap, a setting nobody asked to change.  A library   *)
(* that Steam brings after the look, or a package that the player puts there *)
(* between the look of a staging and its copy, is outside this promise       *)
(* (require_known_current, install_offline_telemetry_lab); a removal spares  *)
(* a package that comes late as well (remove_authenticated_module).          *)
ForeignWritesKept ==
    /\ Runtime!ForeignKept /\ Staging!ForeignPackageKept
    /\ EditsKept /\ Video!OthersKept

\* The runtime of the game can always be used, returned, or its state is known
\* to the user.
RuntimeIsWhole == Runtime!RuntimeIsWhole

\* Staging can be taken back from wherever it stopped, and is reported as
\* taken back only when it is.
StagingIsReversible == Staging!StagingIsReversible

(* Saved graphics read back as what the player asked for, whichever of the  *)
(* three files KF2 rewrote meanwhile and however often the save had to be   *)
(* retried (read_video_settings, build_video_preview).                      *)
SavedIsAsked == Video!SavedIsAsked
=============================================================================
