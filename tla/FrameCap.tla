------------------------------- MODULE FrameCap -------------------------------
(***************************************************************************)
(* The native frame-rate cap (src/src/game/frame_rate_cap.cpp).  One target *)
(* is written into two files the program does not own, KF2's                *)
(* ConsoleVariables.ini and KFGame.ini, and into the program's own          *)
(* settings.  The two files are a transaction: their bytes and the hashes   *)
(* of the bytes about to be written go to a recovery record first, each     *)
(* file is replaced only if it still holds the bytes that were read, both   *)
(* are read back, and the record is emptied last.  KF2 and the player edit  *)
(* the same files at any moment, any call may fail, and the program may be  *)
(* killed between any two of them.                                          *)
(*                                                                          *)
(* A file's content is its cap and the number of edits others have made to  *)
(* the rest of it: two contents with the same cap and different edits have  *)
(* different bytes, and different hashes.                                   *)
(***************************************************************************)
EXTENDS Integers, Sequences, FiniteSets

CONSTANTS
    Targets,        \* the target rates the player may choose
    None,           \* no record, no remembered value
    Foreign,        \* a damaged record, or one of another installation
    MaxEdits,       \* bound: edits made by others to each file
    MaxFaults,      \* bound: calls that fail
    MaxCrashes      \* bound: kills of the program

Files == {"console", "game"}

(* No cap key, two cap keys, a rate nobody chose here.                      *)
Missing == 0
Doubled == -1
Stock == -2

Contents == [cap : Targets \cup {Missing, Doubled, Stock}, edits : 0..MaxEdits]
Records == [was : [Files -> Contents], applied : [Files -> Contents]]

CapAssumption ==
    /\ Targets \subseteq Nat \ {0}
    /\ None \notin Records /\ Foreign \notin Records
    /\ MaxEdits \in Nat /\ MaxFaults \in Nat /\ MaxCrashes \in Nat

VARIABLES
    disk,           \* the content of the two files
    record,         \* the recovery record on disk: None, or the originals and what is applied
    saved,          \* target_fps of the settings file
    target,         \* optimizer_settings.target_fps, the target the window shows
    previous,       \* the target to return to when the change under way fails
    pc,             \* where the program stands
    caller,         \* who called persist_frame_rate_cap
    asked,          \* who called recover_frame_rate_cap
    seen,           \* the contents persist_frame_rate_cap read
    severe,         \* what failed has left the recovery record behind
    told,           \* what the player is shown: "nothing", "failure", "recovery" (the banner)
    staged,         \* the cap was left for the next start because KF2 ran
    running,        \* KF2 runs
    faults, crashes

vars == <<disk, record, saved, target, previous, pc, caller, asked, seen, severe,
          told, staged, running, faults, crashes>>
choice == <<saved, target, previous, told, staged, caller>>

(* What replace_unique makes of a document: the key takes the new value; a  *)
(* missing key is added to the console file's section only, and two keys    *)
(* are refused (config/ini_document.cpp, IniDocument::replace).             *)
Replaceable(f, c) == c.cap # Doubled /\ (f = "game" => c.cap # Missing)
Capped(c) == [c EXCEPT !.cap = target]
Proposed == [f \in Files |-> Capped(seen[f])]

(* The recovery record: the originals, and what is about to be written.  A  *)
(* record that fails its checksum or names another installation restores    *)
(* nothing, and nothing replaces it.                                        *)
RecordOf(was) == [was |-> was, applied |-> [f \in Files |-> Capped(was[f])]]
Ours(r) == r \notin {None, Foreign}

TypeOK ==
    /\ disk \in [Files -> Contents]
    /\ record \in {None, Foreign} \cup Records
    /\ {saved, target} \subseteq Targets /\ previous \in Targets \cup {None}
    /\ pc \in {"down", "idle", "recover", "restore console", "restore game", "retire", "booted",
               "read", "arm", "check record", "write console", "write game", "verify",
               "finish", "done", "failed"}
    /\ caller \in {"boot", "set", "return", "sync"}
    /\ asked \in {"boot", "persist", "rollback"}
    /\ seen = None \/ seen \in [Files -> Contents]
    /\ told \in {"nothing", "failure", "recovery"}
    /\ severe \in BOOLEAN /\ staged \in BOOLEAN /\ running \in BOOLEAN
    /\ faults \in 0..MaxFaults /\ crashes \in 0..MaxCrashes

(* The two files as KF2 installed them, or as somebody left them.           *)
Init ==
    /\ disk \in [Files -> [cap : {Stock, Missing, Doubled}, edits : {0}]]
    /\ record \in {None, Foreign} /\ saved \in Targets /\ target = saved /\ previous = None
    /\ pc = "down" /\ caller = "boot" /\ asked = "boot" /\ seen = None
    /\ severe = FALSE /\ told = "nothing" /\ staged = FALSE
    /\ running \in BOOLEAN /\ faults = 0 /\ crashes = 0

Fault == faults < MaxFaults /\ faults' = faults + 1
Fine == UNCHANGED faults

(***************************************************************************)
(* recover_frame_rate_cap                                                   *)
(***************************************************************************)

(* The call: nothing to do without a record; with one, KF2 must not run, as *)
(* far as the caller knows (the start-up asks, the others checked before).  *)
Recover ==
    /\ pc = "recover"
    /\ \/ Fine /\ record = None
          /\ pc' = IF asked = "persist" THEN "read" ELSE "booted"
       \/ Fine /\ Ours(record) /\ ~(asked = "boot" /\ running) /\ pc' = "restore console"
       \/ Fine /\ record = Foreign /\ pc' = "failed"
       \/ Fine /\ record # None /\ asked = "boot" /\ running /\ pc' = "failed"
       \/ Fault /\ pc' = "failed"
    /\ severe' = (pc' = "failed")
    /\ UNCHANGED <<disk, record, choice, asked, seen, running, crashes>>

(* One file: already original, or exactly what was applied and put back;    *)
(* anything else is somebody's change and is preserved.  The write may      *)
(* report a failure and have happened.                                      *)
Restored(f, c) ==
    \/ Fine /\ c = record.was[f] /\ UNCHANGED <<disk, severe>>
    \/ Fine /\ c \notin {record.was[f], record.applied[f]} /\ severe' = TRUE /\ UNCHANGED disk
    \/ Fine /\ c = record.applied[f] /\ c # record.was[f]
       /\ disk' = [disk EXCEPT ![f] = record.was[f]] /\ UNCHANGED severe
    \/ Fault /\ severe' = TRUE /\ UNCHANGED disk
    \/ Fault /\ c = record.applied[f] /\ severe' = TRUE
       /\ disk' = [disk EXCEPT ![f] = record.was[f]]

RestoreFile(f) ==
    /\ pc = IF f = "console" THEN "restore console" ELSE "restore game"
    /\ Restored(f, disk[f])
    /\ pc' = IF f = "console" THEN "restore game" ELSE "retire"
    /\ UNCHANGED <<record, choice, asked, seen, running, crashes>>

(* Both files are visited whatever the first one gave; the record is        *)
(* emptied only when neither failed.                                        *)
Retire ==
    /\ pc = "retire"
    /\ \/ ~severe /\ Fine /\ record' = None /\ UNCHANGED severe
          /\ pc' = CASE asked = "persist" -> "read" [] asked = "boot" -> "booted"
                    [] asked = "rollback" -> "failed"
       \/ ~severe /\ Fault /\ record' \in {record, None} /\ pc' = "failed" /\ severe' = TRUE
       \/ severe /\ Fine /\ UNCHANGED <<record, severe>> /\ pc' = "failed"
    /\ UNCHANGED <<disk, choice, asked, seen, running, crashes>>

(***************************************************************************)
(* persist_frame_rate_cap                                                   *)
(***************************************************************************)

Persist(c) == pc' = "recover" /\ caller' = c /\ asked' = "persist" /\ seen' = None

(* Files whose reading succeeds hold these bytes at one moment: a file that *)
(* changes while it is read fails (read_bounded_verified_file).             *)
Reads(bytes) == Fine /\ bytes = disk

(* Both files are read and edited in memory.                                *)
Read ==
    /\ pc = "read"
    /\ \/ /\ Reads(seen')
          /\ \A f \in Files : Replaceable(f, disk[f])
          /\ pc' = IF \E f \in Files : disk[f].cap # target THEN "arm" ELSE "verify"
       \/ /\ UNCHANGED seen /\ pc' = "failed"
          /\ Fault \/ (Fine /\ \E f \in Files : ~Replaceable(f, disk[f]))
    /\ UNCHANGED <<disk, record, choice, asked, severe, running, crashes>>

(* Mutant: the files are written without a record.                          *)
Arm_Skipped ==
    /\ pc = "arm" /\ pc' = "check record" /\ Fine
    /\ UNCHANGED <<disk, record, choice, asked, seen, severe, running, crashes>>

(* The recovery record is written before either file ...                    *)
Arm ==
    /\ pc = "arm"
    /\ \/ Fine /\ record' = RecordOf(seen) /\ pc' = "check record"
       \/ Fault /\ record' \in {record, RecordOf(seen)} /\ pc' = "failed"
    /\ UNCHANGED <<disk, choice, asked, seen, severe, running, crashes>>

(* ... and read back.                                                       *)
CheckRecord ==
    /\ pc = "check record"
    /\ \/ Fine /\ pc' = "write console" /\ UNCHANGED severe
       \/ Fault /\ pc' = "failed" /\ severe' = TRUE
    /\ UNCHANGED <<disk, record, choice, asked, seen, running, crashes>>

Rollback == pc' = "recover" /\ asked' = "rollback"

(* One file is replaced if it still holds the bytes that were read          *)
(* (atomic_replace_utf8_if_unchanged); whatever fails starts the rollback.  *)
Write(f) ==
    /\ pc = IF f = "console" THEN "write console" ELSE "write game"
    /\ \/ /\ Fine
          /\ seen[f].cap = target \/ disk[f] = seen[f]
          /\ disk' = IF seen[f].cap = target THEN disk ELSE [disk EXCEPT ![f] = Proposed[f]]
          /\ pc' = IF f = "console" THEN "write game" ELSE "verify"
          /\ UNCHANGED asked
       \/ /\ seen[f].cap # target /\ Rollback
          /\ \/ Fine /\ disk[f] # seen[f] /\ UNCHANGED disk
             \/ Fault /\ UNCHANGED disk
             \/ Fault /\ disk[f] = seen[f] /\ disk' = [disk EXCEPT ![f] = Proposed[f]]
    /\ UNCHANGED <<record, choice, seen, severe, running, crashes>>

(* Both files must hold the bytes that were proposed.                       *)
Verify ==
    /\ pc = "verify"
    /\ \/ Reads(Proposed) /\ pc' = "finish" /\ UNCHANGED asked
       \/ /\ Fault \/ (Fine /\ Proposed # disk)
          /\ IF seen # Proposed THEN Rollback ELSE pc' = "failed" /\ UNCHANGED asked
    /\ UNCHANGED <<disk, record, choice, seen, severe, running, crashes>>

(* Mutant: the failure to empty the record is not reported.                 *)
Finish_Silent ==
    /\ pc = "finish" /\ pc' = "done" /\ UNCHANGED severe
    /\ (Fine /\ record' = None) \/ (Fault /\ UNCHANGED record)
    /\ UNCHANGED <<disk, choice, asked, seen, running, crashes>>

(* The record of the verified transaction is emptied.  A record that cannot *)
(* be emptied undoes the transaction at the next recovery, so the call      *)
(* fails.                                                                   *)
Finish ==
    /\ pc = "finish"
    /\ \/ Fine /\ record' = None /\ pc' = "done" /\ UNCHANGED severe
       \/ Fault /\ record # None /\ record' \in {record, None} /\ pc' = "failed" /\ severe' = TRUE
    /\ UNCHANGED <<disk, choice, asked, seen, running, crashes>>

(***************************************************************************)
(* The callers                                                              *)
(***************************************************************************)

(* The program starts: the settings are read and an interrupted transaction *)
(* is recovered before anything else touches KFGame.ini                     *)
(* (app/application_runtime.cpp) ...                                        *)
Start ==
    /\ pc = "down"
    /\ pc' = "recover" /\ asked' = "boot" /\ caller' = "boot" /\ seen' = None /\ severe' = FALSE
    /\ target' = saved /\ previous' = None /\ told' = "nothing" /\ staged' = FALSE
    /\ UNCHANGED <<disk, record, saved, running, faults, crashes>>

(* ... and then the saved target is applied, unless KF2 runs                *)
(* (app/application.cpp).                                                   *)
Booted ==
    /\ pc = "booted"
    /\ IF running THEN /\ pc' = "idle" /\ staged' = TRUE /\ UNCHANGED <<caller, asked, seen>>
                  ELSE Persist("boot") /\ staged' = FALSE
    /\ UNCHANGED <<disk, record, saved, target, previous, severe, told, running, faults, crashes>>

(* The player moves the Target FPS slider.  The settings are saved first; a *)
(* cap that cannot be written while KF2 runs is left for its end.           *)
SetTarget(t) ==
    /\ pc = "idle" /\ t # target
    /\ \/ /\ Fine /\ saved' = t /\ target' = t /\ previous' = target
          /\ IF running THEN /\ staged' = TRUE /\ UNCHANGED <<pc, caller, asked, seen, told>>
                        ELSE Persist("set") /\ UNCHANGED <<staged, told>>
       \/ /\ Fault /\ told' = IF told = "nothing" THEN "failure" ELSE told
          /\ saved' \in {saved, t}
          /\ UNCHANGED <<target, previous, pc, caller, asked, seen, staged>>
    /\ UNCHANGED <<disk, record, severe, running, crashes>>

(* KF2 has closed, or a session was restored: the cap is synchronized.      *)
Synchronize ==
    /\ pc = "idle" /\ ~running /\ staged /\ Persist("sync")
    /\ UNCHANGED <<disk, record, saved, target, previous, severe, told, staged, running,
                   faults, crashes>>

(* persist_frame_rate_cap returned: the cap is ready.  The notice of a      *)
(* change that succeeded replaces an earlier one, but not the banner.       *)
Done ==
    /\ pc = "done" /\ pc' = "idle" /\ severe' = FALSE /\ previous' = None
    /\ staged' = FALSE
    /\ told' = CASE told = "recovery" -> "recovery" [] caller = "return" -> "failure"
                 [] caller = "set" -> "nothing"     [] OTHER -> told
    /\ UNCHANGED <<disk, record, saved, target, caller, asked, seen, running, faults, crashes>>

(* A failed change of the target: the previous target is saved again and    *)
(* its cap written again.                                                   *)
ReturnTarget ==
    /\ pc = "failed" /\ caller = "set" /\ Persist("return")
    /\ target' = previous /\ severe' = FALSE
    /\ \/ Fine /\ saved' = previous /\ UNCHANGED told
       \/ Fault /\ saved' \in {saved, previous} /\ told' = "recovery"
    /\ UNCHANGED <<disk, record, previous, staged, running, crashes>>

(* The other failures.  The start-up puts the banner up only when something *)
(* is left to recover; the return to the previous target and the            *)
(* synchronization always do.                                               *)
Failed ==
    /\ pc = "failed" /\ caller # "set"
    /\ pc' = "idle" /\ severe' = FALSE /\ previous' = None
    /\ told' = IF severe \/ caller # "boot" THEN "recovery"
               ELSE IF told = "nothing" THEN "failure" ELSE told
    /\ UNCHANGED <<disk, record, saved, target, caller, asked, seen, staged, running, faults,
                   crashes>>

(***************************************************************************)
(* The others                                                               *)
(***************************************************************************)

(* The program is killed.                                                   *)
Crash ==
    /\ pc # "down" /\ crashes < MaxCrashes
    /\ pc' = "down" /\ crashes' = crashes + 1
    /\ UNCHANGED <<disk, record, choice, asked, seen, severe, running, faults>>

(* KF2 or the player rewrites one of the files around its cap.              *)
Edit(f) ==
    /\ disk[f].edits < MaxEdits
    /\ disk' = [disk EXCEPT ![f].edits = @ + 1]
    /\ UNCHANGED <<record, choice, pc, asked, seen, severe, running, faults, crashes>>

(* KF2 is started or closed, from Steam or from the program.                *)
Toggle ==
    /\ running' = ~running
    /\ UNCHANGED <<disk, record, choice, pc, asked, seen, severe, faults, crashes>>

Next ==
    \/ Start \/ Booted \/ Recover \/ (\E f \in Files : RestoreFile(f)) \/ Retire
    \/ Read \/ Arm \/ CheckRecord \/ (\E f \in Files : Write(f)) \/ Verify \/ Finish
    \/ (\E t \in Targets : SetTarget(t)) \/ Synchronize \/ Done \/ ReturnTarget \/ Failed
    \/ Crash \/ (\E f \in Files : Edit(f)) \/ Toggle

Spec == Init /\ [][Next]_vars

(***************************************************************************)
(* Properties                                                               *)
(***************************************************************************)

Whole(d) == \/ \E t \in Targets : \A f \in Files : d[f].cap = t
            \/ \A f \in Files : d[f].cap \notin Targets

(* A half-written cap is always owed: whenever the two files disagree about *)
(* the cap, a recovery record on disk holds the originals of both, across a *)
(* failure of any call and a kill of the program at any point               *)
(* (persist_frame_rate_cap, recover_frame_rate_cap).                        *)
HalfIsOwed == Whole(disk) \/ (Ours(record) /\ Whole(record.was))

(* "If saving fails, the previous target and cap are restored", and the     *)
(* next start does not undo a target whose cap was confirmed: while the     *)
(* program stands idle and shows no failure, the cap of both files is the   *)
(* target on the screen, and no record waits to undo it                     *)
(* (docs/USER_GUIDE.md, set_slider_value in app/application_actions.cpp).   *)
ShownIsCapped ==
    pc = "idle" /\ told = "nothing" /\ ~staged
        => record = None /\ saved = target /\ \A f \in Files : disk[f].cap = target

(* What KF2 or the player wrote into either file is never overwritten with  *)
(* older bytes, by the write, the rollback or a recovery at a later start.  *)
EditsKept == [][\A f \in Files : disk'[f].edits >= disk[f].edits]_disk
=============================================================================
