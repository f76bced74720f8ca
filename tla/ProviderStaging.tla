---------------------------- MODULE ProviderStaging ----------------------------
(***************************************************************************)
(* The telemetry provider of a protected KF2 start: the package copied into *)
(* the game's Published directory under a marker (src/game/                 *)
(* offline_telemetry_lab.cpp), and the settings of KFEngine.ini and         *)
(* KFGame.ini that load it and make KF2 log (src/game/gameplay_log_lab      *)
(* .cpp).  Staging, restoring and start-up recovery are sequences of file   *)
(* operations; the optimizer may stop between any two of them, any of them  *)
(* may fail, and the player edits the same files and directory.             *)
(*                                                                         *)
(* Nobody writes an INI between the moment an operation reads it and the    *)
(* moment it replaces it: the code holds no lock on it.  The session        *)
(* snapshot that normally brings the INIs back first is not part of this    *)
(* module; what is here is what is left when it is gone.                    *)
(***************************************************************************)
EXTENDS Naturals, FiniteSets, TLC

CONSTANTS
    Settings,   \* the KF2 logging settings, kLoggingSettings
    MaxFaults,  \* bound of this model on failing file operations
    MaxEdits    \* bound of this model on what the player does

StagingAssumption == MaxFaults \in Nat /\ MaxEdits \in Nat

VARIABLES
    published, brewed, \* the directories Published and Published/BrewedPC
    clutter,    \* BrewedPC holds a file of the player
    module,     \* the file in place of the package
    marker,     \* module.marker
    engine,     \* KFEngine.ini: viewport class, telemetry section, baseline
    game,       \* KFGame.ini: the logging settings
    user,       \* the value the player last gave each of them
    running,    \* KF2 runs
    pc,         \* the next step of the operation in progress
    job,        \* what the operation holds
    held,       \* a removal has opened the file that is still in place
    health,     \* what the last operation established
    faults, edits, \* failures and edits so far
    late        \* has the player put a file in place of the package since a
                \* staging found that place free?  (History, read by no step.)

disk == <<published, brewed, clutter, module, marker, late>>
inis == <<engine, game>>
control == <<pc, job, held, health>>
vars == <<disk, inis, user, running, control, faults, edits>>

Absent == "none"
Values == {"True", "False", "Missing"}
Policies == {"pinned_or_legacy", "exact_hash", "exact_hash_and_signature"}
NoMarker == [state |-> Absent, created |-> {}]
NoBaseline == <<>>
NoJob == [created |-> {}, policy |-> Absent, strict |-> FALSE, then |-> Absent,
          otherwise |-> Absent, final |-> Absent]

TypeOK ==
    /\ published \in BOOLEAN /\ brewed \in BOOLEAN /\ clutter \in BOOLEAN
    /\ module \in {Absent, "ours", "legacy", "foreign"}
    /\ marker \in [state : {Absent, "installing", "installed"},
                   created : SUBSET {"published", "brewed"}]
    /\ engine.view \in {"native", "ours", "foreign"}
    /\ engine.section \in BOOLEAN
    /\ engine.baseline \in {NoBaseline} \/ engine.baseline \in [Settings -> Values]
    /\ game \in [Settings -> Values] /\ user \in [Settings -> Values]
    /\ running \in BOOLEAN /\ held \in BOOLEAN /\ late \in BOOLEAN
    /\ health \in {"unknown", "staged", "clean", "blocked"}

Init ==
    /\ module \in {Absent, "legacy", "foreign"}
    /\ published \in BOOLEAN /\ brewed = published
    /\ module # Absent => brewed
    /\ clutter = FALSE /\ marker = NoMarker
    /\ engine \in [view : {"native", "foreign"}, section : {FALSE},
                   baseline : {NoBaseline}]
    /\ game \in [Settings -> Values] /\ user = game
    /\ running = FALSE
    /\ pc = "boot" /\ job = NoJob /\ held = FALSE /\ health = "unknown"
    /\ faults = 0 /\ edits = 0 /\ late = FALSE

Goto(label) == pc' = label
Fault == faults < MaxFaults /\ faults' = faults + 1
Blocked == Goto("idle") /\ job' = NoJob /\ held' = FALSE /\ health' = "blocked"

(***************************************************************************)
(* remove_authenticated_module: the file is opened and hashed, then it is   *)
(* deleted through the handle if it is still the one in place.              *)
(***************************************************************************)

Owned(policy) ==
    \/ module = "ours"
    \/ module = "legacy" /\ policy = "pinned_or_legacy"

\* A removal goes on to `then`; one that fails, to `otherwise`.
Remove(policy, strict, then, otherwise, final) ==
    /\ Goto("remove")
    /\ job' = [job EXCEPT !.policy = policy, !.strict = strict, !.then = then,
                          !.otherwise = otherwise, !.final = final]

Authenticate ==
    /\ pc = "remove"
    /\ CASE Owned(job.policy) -> held' = TRUE /\ Goto("delete")
         [] module = Absent -> UNCHANGED held /\ Goto(job.then)
         [] OTHER -> UNCHANGED held
                     /\ Goto(IF job.strict THEN job.otherwise ELSE job.then)
    /\ UNCHANGED <<disk, inis, user, running, job, health, faults, edits>>

\* What is in place after the file that was opened has been deleted.
Deleted == IF held THEN Absent ELSE module

DeleteModule ==
    /\ pc = "delete"
    /\ module' = Deleted
    /\ held' = FALSE
    /\ Goto(IF module' = Absent THEN job.then ELSE job.otherwise)
    /\ UNCHANGED <<published, brewed, clutter, marker, late, inis, user, running,
                   job, health, faults, edits>>

RemoveFails ==
    /\ pc \in {"remove", "delete"} /\ Fault
    /\ held' = FALSE /\ Goto(job.otherwise)
    /\ UNCHANGED <<disk, inis, user, running, job, health, edits>>

\* remove_created_empty_directories: those this staging created, innermost
\* first; one that is not empty stays, and the cleanup is incomplete.
Empty == ~clutter /\ module = Absent
Cleared(created) ==
    LET inner == "brewed" \in created /\ Empty
        outer == "published" \in created /\ (inner \/ ~brewed)
    IN  [brewed |-> brewed /\ ~inner, published |-> published /\ ~outer,
         complete |-> /\ "brewed" \in created => (inner \/ ~brewed)
                      /\ "published" \in created => (outer \/ ~published)]
ClearDirectories(created) ==
    /\ brewed' = Cleared(created).brewed
    /\ published' = Cleared(created).published

(***************************************************************************)
(* Staging: install_offline_telemetry_lab, then                             *)
(* enable_offline_gameplay_logging.                                         *)
(***************************************************************************)

BeginStage ==
    /\ pc = "idle" /\ ~running
    /\ IF marker # NoMarker
       THEN health' = "blocked" /\ UNCHANGED <<pc, job>>
       ELSE /\ health' = "unknown"
            /\ Remove("pinned_or_legacy", FALSE, "occupied", "refused", Absent)
    /\ UNCHANGED <<disk, inis, user, running, held, faults, edits>>

\* The directories that are not there yet.
Created == (IF published THEN {} ELSE {"published"}) \cup (IF brewed THEN {} ELSE {"brewed"})

\* Mutant: an occupied place is not looked at.
OccupiedUnseen == FALSE

\* A file that is not the optimizer's is not overwritten.
Occupied == module # Absent

\* Directories made before one that cannot be made stay, with nothing on
\* record.
MakeDirectories ==
    /\ pc = "occupied"
    /\ IF Occupied
       THEN Blocked /\ UNCHANGED <<published, brewed, late, faults>>
       ELSE /\ late' = FALSE
            /\ \/ /\ job' = [job EXCEPT !.created = Created]
                  /\ published' = TRUE /\ brewed' = TRUE
                  /\ Goto("mark")
                  /\ UNCHANGED <<held, health, faults>>
               \/ /\ Fault /\ Blocked
                  /\ published' \in {published, TRUE}
                  /\ brewed' \in {brewed, published'}
    /\ UNCHANGED <<clutter, module, marker, inis, user, running, edits>>

Mark(state, created) == marker' = [state |-> state, created |-> created]

WriteMarker ==
    /\ pc = "mark"
    /\ \/ Mark("installing", job.created) /\ Goto("copy")
          /\ UNCHANGED <<published, brewed, job, held, health, faults>>
       \/ Fault /\ ClearDirectories(job.created) /\ Blocked /\ UNCHANGED marker
    /\ UNCHANGED <<clutter, module, late, inis, user, running, edits>>

\* The package is copied; a replacement that reports a failure may have
\* happened all the same.
CopyModule ==
    /\ pc = "copy"
    /\ \/ module' = "ours" /\ Goto("commit")
          /\ UNCHANGED <<marker, published, brewed, job, held, health, faults>>
       \/ /\ Fault /\ module' \in {module, "ours"}
          /\ marker' = NoMarker
          /\ IF module' = Absent THEN ClearDirectories(job.created)
             ELSE UNCHANGED <<published, brewed>>
          /\ Blocked
    /\ UNCHANGED <<clutter, late, inis, user, running, edits>>

\* The copy is hashed and the marker committed; otherwise it is removed.
CommitModule ==
    /\ pc = "commit"
    /\ \/ /\ module = "ours"
          /\ Mark("installed", job.created) /\ Goto("enable")
          /\ UNCHANGED <<job, faults>>
       \/ /\ module # "ours" \/ faults < MaxFaults
          /\ faults' = IF module = "ours" THEN faults + 1 ELSE faults
          /\ Remove("exact_hash", TRUE, "undo", "refused", Absent)
          /\ UNCHANGED marker
    /\ UNCHANGED <<published, brewed, clutter, module, late, inis, user, running,
                   held, health, edits>>

UndoInstall ==
    /\ pc = "undo"
    /\ marker' \in {NoMarker} \cup (IF faults < MaxFaults THEN {marker} ELSE {})
    /\ faults' = IF marker' = marker THEN faults + 1 ELSE faults
    /\ ClearDirectories(job.created)
    /\ Blocked
    /\ UNCHANGED <<clutter, module, late, inis, user, running, edits>>

\* A removal that failed ends the operation.
Refuse ==
    /\ pc = "refused" /\ Blocked
    /\ UNCHANGED <<disk, inis, user, running, faults, edits>>

\* The baseline is captured once and must still explain what is in the game's
\* INI: the settings may only be what they were or what staging made them.
Baseline == IF engine.baseline = NoBaseline THEN game ELSE engine.baseline
Explained == \A s \in Settings : game[s] \in {"True", Baseline[s]}

\* What loads the package: the viewport class, the launch option, the package
\* path and the redirects.  Nothing of another provider is replaced.
Bootstrap(view) == IF view = "foreign" THEN Absent ELSE "ours"

\* The optimizer's own section, with the settings of the session.
Staged == [view |-> Bootstrap(engine.view), section |-> TRUE,
           baseline |-> Baseline]

\* A prepared start is given new settings of the session.
Restage ==
    /\ pc = "idle" /\ ~running /\ health = "staged"
    /\ Goto("enable")
    /\ UNCHANGED <<disk, inis, user, running, job, held, health, faults, edits>>

WriteEngine ==
    /\ pc = "enable"
    /\ \/ /\ Explained /\ Bootstrap(engine.view) # Absent
          /\ engine' = Staged
          /\ Goto("log") /\ UNCHANGED <<job, held, health, faults>>
       \/ /\ ~Explained \/ Bootstrap(engine.view) = Absent
          /\ Blocked /\ UNCHANGED <<engine, faults>>
       \/ Fault /\ Blocked /\ UNCHANGED engine
    /\ UNCHANGED <<disk, game, user, running, edits>>

\* Ownership is read back before the game's INI is changed.
WriteLogging ==
    /\ pc = "log"
    /\ \/ /\ engine.baseline # NoBaseline
          /\ game' = [s \in Settings |-> "True"]
          /\ Goto("verify") /\ UNCHANGED <<job, held, health, faults>>
       \/ engine.baseline = NoBaseline /\ Blocked /\ UNCHANGED <<game, faults>>
       \/ Fault /\ Blocked /\ UNCHANGED game
    /\ UNCHANGED <<disk, engine, user, running, edits>>

\* Both INIs are read again.
VerifyStaged ==
    /\ pc = "verify"
    /\ \/ /\ engine = Staged /\ game = [s \in Settings |-> "True"]
          /\ Goto("idle") /\ job' = NoJob /\ health' = "staged"
          /\ UNCHANGED <<held, faults>>
       \/ Fault /\ Blocked
    /\ UNCHANGED <<disk, inis, user, running, edits>>

(***************************************************************************)
(* restore_offline_telemetry_lab, after the game or at the next start.      *)
(***************************************************************************)

\* Where it goes from here: the orphaned package, or the marked one.
Restoring(final) ==
    IF marker = NoMarker
    THEN Remove("pinned_or_legacy", FALSE, final, "refused", final)
    ELSE Remove("exact_hash_and_signature", TRUE, "clear", "refused", final)

BeginRestore ==
    /\ pc = "idle" /\ ~running
    /\ health' = "unknown"
    /\ Restoring("done")
    /\ UNCHANGED <<disk, inis, user, running, held, faults, edits>>

ClearMarked ==
    /\ pc = "clear"
    /\ ClearDirectories(marker.created)
    /\ IF Cleared(marker.created).complete
       THEN Goto("unmark") /\ UNCHANGED <<job, held, health>>
       ELSE Blocked
    /\ UNCHANGED <<clutter, module, marker, late, inis, user, running, faults,
                   edits>>

Unmark ==
    /\ pc = "unmark"
    /\ \/ marker' = NoMarker /\ Goto(job.final)
          /\ UNCHANGED <<job, held, health, faults>>
       \/ Fault /\ Blocked /\ UNCHANGED marker
    /\ UNCHANGED <<published, brewed, clutter, module, late, inis, user, running,
                   edits>>

\* After a game the settings are left to the session snapshot.
Done ==
    /\ pc = "done"
    /\ Goto("idle") /\ job' = NoJob /\ held' = FALSE
    /\ UNCHANGED <<disk, inis, user, running, health, faults, edits>>

\* At a start the settings follow the package, unless the session snapshot
\* could not be recovered.
Restored ==
    /\ pc = "restored"
    /\ \/ Goto("cleanup") /\ UNCHANGED <<job, held, health>>
       \/ Blocked
    /\ UNCHANGED <<disk, inis, user, running, faults, edits>>

(***************************************************************************)
(* Start-up: recover_offline_telemetry_lab, then                            *)
(* cleanup_stale_offline_gameplay_configuration.                            *)
(***************************************************************************)

Boot ==
    /\ pc = "boot"
    /\ IF running
       THEN Blocked
       ELSE Restoring("restored") /\ UNCHANGED <<held, health>>
    /\ UNCHANGED <<disk, inis, user, running, faults, edits>>

Stale == engine.view = "ours" \/ engine.section

\* restore_logging_setting refuses a value that is neither what staging wrote
\* nor the baseline.
Restorable == engine.baseline # NoBaseline /\
              \A s \in Settings : game[s] \in {"True", engine.baseline[s]}

\* Mutant: the settings are cleaned before the game's INI is restored.
RestoreGameSkipping ==
    /\ pc = "cleanup" /\ Stale
    /\ Goto("engine") /\ UNCHANGED <<game, job, held, health, faults>>

\* The game's INI goes first, so that the baseline is there until it is used.
RestoreGame ==
    /\ pc = "cleanup" /\ Stale
    /\ \/ /\ Restorable
          /\ game' = engine.baseline
          /\ Goto("engine") /\ UNCHANGED <<job, held, health, faults>>
       \/ ~Restorable /\ Blocked /\ UNCHANGED <<game, faults>>
       \/ Fault /\ Blocked /\ UNCHANGED game

Cleanup ==
    /\ \/ RestoreGame
       \/ /\ pc = "cleanup" /\ ~Stale
          /\ Goto("idle") /\ job' = NoJob /\ held' = FALSE
          /\ health' = "clean" /\ UNCHANGED <<game, faults>>
    /\ UNCHANGED <<disk, engine, user, running, edits>>

Cleaned == [view |-> IF engine.view = "ours" THEN "native" ELSE engine.view,
            section |-> FALSE, baseline |-> NoBaseline]

CleanEngine ==
    /\ pc = "engine"
    /\ \/ engine' = Cleaned /\ Goto("cleaned")
          /\ UNCHANGED <<job, held, health, faults>>
       \/ Fault /\ Blocked /\ UNCHANGED engine
    /\ UNCHANGED <<disk, game, user, running, edits>>

\* Both INIs are read again.
VerifyClean ==
    /\ pc = "cleaned"
    /\ \/ /\ engine = Cleaned
          /\ Goto("idle") /\ job' = NoJob /\ held' = FALSE
          /\ health' = "clean" /\ UNCHANGED faults
       \/ Fault /\ Blocked
    /\ UNCHANGED <<disk, inis, user, running, edits>>

(***************************************************************************)
(* The optimizer stops and starts, KF2 runs, the player edits.              *)
(***************************************************************************)

Crash ==
    /\ pc # "boot"
    /\ Goto("boot") /\ job' = NoJob /\ held' = FALSE /\ health' = "unknown"
    /\ UNCHANGED <<disk, inis, user, running, faults, edits>>

GameStarts ==
    /\ ~running
    /\ running' = TRUE
    /\ UNCHANGED <<disk, inis, user, control, faults, edits>>

GameEnds ==
    /\ running
    /\ running' = FALSE
    /\ UNCHANGED <<disk, inis, user, control, faults, edits>>

Edit == edits < MaxEdits /\ edits' = edits + 1

\* The player, or KF2 on its behalf, sets a logging setting.  While the
\* optimizer owns them, setting one to True cannot be told from its own.
EditLogging(s, v) ==
    /\ Edit /\ pc \in {"idle", "boot"}
    /\ game[s] # v
    /\ v = "True" => engine.baseline = NoBaseline
    /\ game' = [game EXCEPT ![s] = v]
    /\ user' = [user EXCEPT ![s] = v]
    /\ UNCHANGED <<disk, engine, running, control, faults>>

EditView ==
    /\ Edit /\ pc \in {"idle", "boot"}
    /\ engine' = [engine EXCEPT !.view = "foreign"]
    /\ UNCHANGED <<disk, game, user, running, control, faults>>

\* At any moment, between two steps of a removal or of a staging too.
PutFile ==
    /\ Edit /\ brewed
    /\ \/ module' = "foreign" /\ held' = FALSE /\ late' = TRUE /\ UNCHANGED clutter
       \/ clutter' = TRUE /\ UNCHANGED <<module, held, late>>
    /\ UNCHANGED <<published, brewed, marker, inis, user, running, pc, job,
                   health, faults>>

Removal == Authenticate \/ DeleteModule \/ RemoveFails
Install == BeginStage \/ MakeDirectories \/ WriteMarker \/ CopyModule
               \/ CommitModule \/ UndoInstall \/ Refuse
Enable == Restage \/ WriteEngine \/ WriteLogging \/ VerifyStaged
Restore == BeginRestore \/ ClearMarked \/ Unmark \/ Done
Recover == Boot \/ Restored \/ Cleanup \/ CleanEngine \/ VerifyClean
Player == EditView \/ PutFile
              \/ \E s \in Settings, v \in Values : EditLogging(s, v)

Next == Removal \/ Install \/ Enable \/ Restore \/ Recover \/ Player
            \/ Crash \/ GameStarts \/ GameEnds

Spec == Init /\ [][Next]_vars

--------------------------------------------------------------------------------
(***************************************************************************)
(* Properties.                                                              *)
(***************************************************************************)

\* Wherever the optimizer stops, a logging setting differs from what the
\* player wants only by the value staging gave it, and the value to return it
\* to is on disk; an edit of the player is never undone.
LoggingIsOwed ==
    \A s \in Settings : game[s] # user[s] =>
        /\ game[s] = "True"
        /\ engine.baseline # NoBaseline /\ engine.baseline[s] = user[s]

\* When a start-up or a restore says that nothing is left, there is no package
\* of any version, no marker, no setting, and the player's logging.  Empty
\* directories may stay.
CleanIsClean ==
    health = "clean" =>
        /\ module \notin {"ours", "legacy"} /\ marker = NoMarker
        /\ engine.view # "ours" /\ ~engine.section
        /\ game = user

\* Staging can be taken back from wherever it stopped, and is reported as
\* taken back only when package, marker and settings are.
StagingIsReversible == LoggingIsOwed /\ CleanIsClean

\* A file of the player in place of the package is never removed, also not one
\* that gets there between the check of a removal and the deletion; and it is
\* overwritten by a staging only if it got there after the staging had found
\* the place free (remove_authenticated_module; install_offline_telemetry_lab,
\* whose replacement does not ask again).
ForeignPackageKept ==
    [][ (module = "foreign" /\ module' # "foreign") => (pc = "copy" /\ late) ]_vars

\* What the staging's own message claims of an occupied place, "it was not
\* overwritten", without that exception: TLC refutes it.
OccupiedNeverOverwritten ==
    [][ module = "foreign" => module' = "foreign" ]_vars
================================================================================
