-------------------------- MODULE UpdateTransaction --------------------------
(***************************************************************************)
(* Installation of an update by KF2 Optimizer Next: the transaction over    *)
(* the managed package files (src/update/update_transaction.cpp), the       *)
(* temporary helper process that runs it, hands over to the new executable  *)
(* and rolls back if that does not report ready, the recovery every normal  *)
(* start performs, and the deferred removal of the work directory           *)
(* (src/update/update_helper.cpp, src/app/main.cpp).                        *)
(*                                                                         *)
(* The helper and several instances of the optimizer run concurrently; each *)
(* may die between any two steps, and I/O calls fail.  Process 0 is the     *)
(* helper, process 1 the instance that started it.                          *)
(***************************************************************************)
EXTENDS Naturals

CONSTANTS
    NumFiles,       \* managed package files, manifests included
    MaxApps,        \* bound: instances of the optimizer ever created
    MaxStarts,      \* bound: instances the user starts
    MaxFaults,      \* bound: failing I/O, process query or launch calls
    MaxCrashes      \* bound: processes killed from outside

Files == 1..NumFiles
Helper == 0
Parent == 1
Apps == 1..MaxApps
Procs == {Helper} \cup Apps
Phases == {"backup_ready", "replacement_in_progress", "update_verified",
           "rollback_in_progress", "rollback_verified", "rollback_failed",
           "handoff_ready"}

ASSUME UpdateAssumption ==
    /\ NumFiles \in Nat \ {0} /\ MaxApps \in Nat \ {0}
    /\ MaxStarts \in Nat /\ MaxFaults \in Nat /\ MaxCrashes \in Nat

VARIABLES
    \* the installed package and the work directory
    target,     \* version of each managed file
    backup,     \* number of files in the backup directory, 0 = no directory
    staged,     \* is the staged package there?
    request,    \* are update-request.ini and update.marker there?
    journal,    \* update-transaction.ini: [phase, owner], phase "none" = absent
    receipt,    \* is ready.receipt there?
    \* processes
    pc,         \* next step of each process
    at,         \* its index in the managed files
    purpose,    \* who called the rollback it performs
    app,        \* arguments of an instance: [kind, waitsFor]
    cleaner,    \* its detached cleanup thread
    holder,     \* last owner of the single-instance mutex
    child,      \* the instance the helper started, 0 = none
    result,     \* exit of the helper
    created, starts, faults, crashes,
    mishaps     \* history: accidents after which less is claimed

work == <<backup, staged, request, receipt>>
package == <<target, work, journal>>
helperState == <<child, result>>
instances == <<app, cleaner, holder, created>>
counts == <<starts, faults, crashes, mishaps>>
vars == <<package, pc, at, purpose, helperState, instances, counts>>

HelperSteps == {"parse", "wait", "check", "backup", "journal", "open", "replace",
                "undo", "launch", "poll", "final", "stop", "rollback"}
RecoverySteps == {"recover", "restore"}
AppSteps == {"none", "start", "instance", "signal", "handoff", "schedule", "running"}
Results == {"running", "updated", "bad_request", "kept", "stuck", "restored",
            "no_parent", "child_running", "killed"}

(* An instance recovers while the helper has not written its journal yet; a *)
(* verified update that cannot be read for a moment is rolled back; the     *)
(* removal of the work directory stops halfway.                             *)
Mishaps == {"premature", "misread", "cut"}

TypeOK ==
    /\ target \in [Files -> {"old", "new"}]
    /\ backup \in 0..NumFiles
    /\ staged \in BOOLEAN /\ request \in BOOLEAN /\ receipt \in BOOLEAN
    /\ journal \in [phase : Phases \cup {"none"}, owner : Procs]
    /\ pc \in [Procs -> HelperSteps \cup RecoverySteps \cup AppSteps
                        \cup {"exited", "refused"}]
    /\ at \in [Procs -> 0..(NumFiles + 1)]
    /\ purpose \in [Procs -> {"undo", "return", "recover"}]
    /\ app \in [Apps -> [kind : {"normal", "ready", "cleanup"}, waitsFor : Procs]]
    /\ cleaner \in [Apps -> {"none", "wait", "remove"}]
    /\ holder \in Procs /\ child \in Procs
    /\ result \in Results
    /\ created \in Apps
    /\ starts \in Nat /\ faults \in Nat /\ crashes \in Nat
    /\ mishaps \subseteq Mishaps

NoJournal == [phase |-> "none", owner |-> Helper]

(* launch_update_helper has prepared the work directory and started the     *)
(* helper; the instance that did so is about to close its window.           *)
Init ==
    /\ target = [f \in Files |-> "old"]
    /\ backup = 0 /\ staged = TRUE /\ request = TRUE /\ receipt = FALSE
    /\ journal = NoJournal
    /\ pc = [p \in Procs |-> IF p = Helper THEN "parse"
                             ELSE IF p = Parent THEN "running" ELSE "none"]
    /\ at = [p \in Procs |-> 0]
    /\ purpose = [p \in Procs |-> "recover"]
    /\ app = [a \in Apps |-> [kind |-> "normal", waitsFor |-> Helper]]
    /\ cleaner = [a \in Apps |-> "none"]
    /\ holder = Parent /\ child = 0 /\ result = "running"
    /\ created = 1 /\ starts = 0 /\ faults = 0 /\ crashes = 0 /\ mishaps = {}

-----------------------------------------------------------------------------
(* Helpers *)

Fault == faults < MaxFaults /\ faults' = faults + 1
NoFault == UNCHANGED faults
OtherCounts == UNCHANGED <<starts, crashes, mishaps>>
Suffers(accidents) == mishaps' = mishaps \cup accidents /\ UNCHANGED <<starts, crashes>>

Alive(p) == pc[p] \notin {"none", "exited", "refused"}
Old == \A f \in Files : target[f] = "old"
New == \A f \in Files : target[f] = "new"

(* parse_request succeeds: request, marker and staged directory are there *)
Requested == request /\ staged

WriteJournal(phase) == journal' = [journal EXCEPT !.phase = phase]

(* fail_with_rollback and rollback_update_transaction do without a journal *)
(* that is missing                                                         *)
UpdateJournal(phase) ==
    IF journal.phase = "none" THEN UNCHANGED journal ELSE WriteJournal(phase)

Goto(p, step) ==
    /\ pc' = [pc EXCEPT ![p] = step]
    /\ UNCHANGED <<app, created, helperState>>

From(p, step) ==
    /\ at' = [at EXCEPT ![p] = 1]
    /\ Goto(p, step)

HelperExits(code) ==
    /\ pc' = [pc EXCEPT ![Helper] = "exited"]
    /\ result' = code
    /\ UNCHANGED <<app, created, child>>

(* start_process: a new instance, told to wait for its creator's exit;      *)
(* the creator goes on to "step".                                           *)
Creates(p, kind, step) ==
    /\ created < MaxApps
    /\ created' = created + 1
    /\ pc' = [pc EXCEPT ![p] = step, ![created + 1] = "start"]
    /\ app' = [app EXCEPT ![created + 1] = [kind |-> kind, waitsFor |-> p]]

(* The installed package is back: whoever undid the update starts a cleanup *)
(* instance and exits.  The helper ignores a failing launch, a starting     *)
(* instance reports it.                                                     *)
Leaves(p, kind, code) ==
    \/ /\ Creates(p, kind, "exited") /\ NoFault
       /\ result' = IF p = Helper THEN code ELSE result
       /\ UNCHANGED child
    \/ /\ Fault \/ (created = MaxApps /\ NoFault)
       /\ pc' = [pc EXCEPT ![p] = IF p = Helper THEN "exited" ELSE "refused"]
       /\ result' = IF p = Helper THEN code ELSE result
       /\ UNCHANGED <<app, created, child>>

Fails(p) ==
    /\ pc' = [pc EXCEPT ![p] = IF p = Helper THEN "exited" ELSE "refused"]
    /\ result' = IF p = Helper THEN "stuck" ELSE result
    /\ UNCHANGED <<app, created, child>>

-----------------------------------------------------------------------------
(* run_update_helper and apply_update_transaction *)

ParseRequest ==
    /\ pc[Helper] = "parse"
    /\ IF Requested THEN Goto(Helper, "wait") ELSE HelperExits("bad_request")
    /\ UNCHANGED <<package, at, purpose, cleaner, holder, counts>>

(* Mutant: the helper waits for its parent without a limit *)
WaitForParent_Forever ==
    /\ pc[Helper] = "wait"
    /\ ~Alive(Parent) /\ Goto(Helper, "check") /\ NoFault
    /\ OtherCounts
    /\ UNCHANGED <<package, at, purpose, cleaner, holder>>

(* wait_for_parent: exit confirmed, or 30 s are over, or it cannot be told *)
WaitForParent ==
    /\ pc[Helper] = "wait"
    /\ \/ ~Alive(Parent) /\ Goto(Helper, "check") /\ NoFault
       \/ Alive(Parent) /\ HelperExits("no_parent") /\ NoFault
       \/ Fault /\ HelperExits("no_parent")
    /\ OtherCounts
    /\ UNCHANGED <<package, at, purpose, cleaner, holder>>

(* Both packages are captured before the first write *)
CheckPackages ==
    /\ pc[Helper] = "check"
    /\ \/ backup = 0 /\ staged /\ Old /\ NoFault /\ From(Helper, "backup")
       \/ /\ ~(backup = 0 /\ staged /\ Old) /\ NoFault
          /\ Goto(Helper, "recover") /\ UNCHANGED at
       \/ Fault /\ Goto(Helper, "recover") /\ UNCHANGED at
    /\ OtherCounts
    /\ UNCHANGED <<package, purpose, cleaner, holder>>

(* Mutant: a file that cannot be written is skipped, the backup not verified *)
WriteBackup_Unverified ==
    /\ pc[Helper] = "backup"
    /\ \/ /\ at[Helper] <= NumFiles /\ backup < NumFiles
          /\ \/ backup' = backup + 1 /\ NoFault
             \/ backup' = backup /\ Fault
          /\ at' = [at EXCEPT ![Helper] = @ + 1]
          /\ Goto(Helper, "backup")
       \/ /\ at[Helper] > NumFiles /\ NoFault
          /\ Goto(Helper, "journal") /\ UNCHANGED <<backup, at>>
    /\ OtherCounts
    /\ UNCHANGED <<target, staged, request, receipt, journal, purpose, cleaner, holder>>

(* write_snapshot of the backup, then its verification *)
WriteBackup ==
    /\ pc[Helper] = "backup"
    /\ \/ /\ at[Helper] <= NumFiles /\ backup < NumFiles /\ NoFault
          /\ backup' = backup + 1
          /\ at' = [at EXCEPT ![Helper] = @ + 1]
          /\ Goto(Helper, "backup")
       \/ /\ at[Helper] > NumFiles /\ NoFault
          /\ Goto(Helper, IF backup = NumFiles THEN "journal" ELSE "recover")
          /\ UNCHANGED <<backup, at>>
       \/ Fault /\ Goto(Helper, "recover") /\ UNCHANGED <<backup, at>>
    /\ OtherCounts
    /\ UNCHANGED <<target, staged, request, receipt, journal, purpose, cleaner, holder>>

WriteBackupReady ==
    /\ pc[Helper] = "journal"
    /\ \/ /\ journal' = [phase |-> "backup_ready", owner |-> Helper]
          /\ Goto(Helper, "open") /\ NoFault
       \/ Fault /\ Goto(Helper, "recover") /\ UNCHANGED journal
    /\ OtherCounts
    /\ UNCHANGED <<target, work, at, purpose, cleaner, holder>>

(* write_journal "replacement_in_progress", before the first file changes *)
OpenReplacement ==
    /\ pc[Helper] = "open"
    /\ \/ /\ WriteJournal("replacement_in_progress")
          /\ From(Helper, "replace") /\ NoFault
       \/ Fault /\ Goto(Helper, "recover") /\ UNCHANGED <<journal, at>>
    /\ OtherCounts
    /\ UNCHANGED <<target, work, purpose, cleaner, holder>>

(* One file, or its failure before or after the file has changed *)
ReplaceFile ==
    /\ pc[Helper] = "replace" /\ at[Helper] <= NumFiles
    /\ \/ /\ target' = [target EXCEPT ![at[Helper]] = "new"]
          /\ at' = [at EXCEPT ![Helper] = @ + 1]
          /\ Goto(Helper, "replace") /\ NoFault
       \/ /\ Fault
          /\ target' \in {target, [target EXCEPT ![at[Helper]] = "new"]}
          /\ Goto(Helper, "undo") /\ UNCHANGED at
    /\ OtherCounts
    /\ UNCHANGED <<work, journal, purpose, cleaner, holder>>

VerifyInstalled ==
    /\ pc[Helper] = "replace" /\ at[Helper] > NumFiles
    /\ \/ New /\ WriteJournal("update_verified") /\ Goto(Helper, "launch") /\ NoFault
       \/ ~New /\ Goto(Helper, "undo") /\ NoFault /\ UNCHANGED journal
       \/ Fault /\ Goto(Helper, "undo") /\ UNCHANGED journal
    /\ OtherCounts
    /\ UNCHANGED <<target, work, at, purpose, cleaner, holder>>

(* Start the new executable; it must report ready *)
LaunchUpdated ==
    /\ pc[Helper] = "launch"
    /\ \/ /\ Creates(Helper, "ready", "poll") /\ child' = created + 1
          /\ UNCHANGED result /\ NoFault
       \/ Fault /\ Goto(Helper, "rollback")
       \/ created = MaxApps /\ NoFault /\ Goto(Helper, "rollback")
    /\ OtherCounts
    /\ UNCHANGED <<package, at, purpose, cleaner, holder>>

(* Poll until the receipt, the end of the child, or the 20 s deadline *)
PollReceipt ==
    /\ pc[Helper] = "poll"
    /\ IF receipt THEN HelperExits("updated") ELSE Goto(Helper, "final")
    /\ UNCHANGED <<package, at, purpose, cleaner, holder, counts>>

FinalReceipt ==
    /\ pc[Helper] = "final"
    /\ IF receipt THEN HelperExits("updated") ELSE Goto(Helper, "stop")
    /\ UNCHANGED <<package, at, purpose, cleaner, holder, counts>>

(* stop_update_child: a child that cannot be stopped is not rolled back under *)
StopChild ==
    /\ pc[Helper] = "stop"
    /\ \/ /\ pc' = [pc EXCEPT ![Helper] = "rollback",
                              ![child] = IF Alive(child) THEN "exited" ELSE @]
          /\ NoFault /\ UNCHANGED <<app, created, helperState>>
       \/ Alive(child) /\ Fault /\ HelperExits("child_running")
    /\ OtherCounts
    /\ UNCHANGED <<package, at, purpose, cleaner, holder>>

-----------------------------------------------------------------------------
(* Rollback: fail_with_rollback, rollback_update_transaction and the last   *)
(* part of recover_update_transaction.  A failing write of the first journal *)
(* record is ignored.                                                       *)

StartRollback(p, caller) ==
    /\ \/ UpdateJournal("rollback_in_progress") /\ NoFault
       \/ Fault /\ UNCHANGED journal
    /\ purpose' = [purpose EXCEPT ![p] = caller]
    /\ From(p, "restore")

Undo ==
    /\ pc[Helper] = "undo" /\ StartRollback(Helper, "undo")
    /\ OtherCounts
    /\ UNCHANGED <<target, work, cleaner, holder>>

RollBack ==
    /\ pc[Helper] = "rollback"
    /\ \/ backup = NumFiles /\ StartRollback(Helper, "return")
       \/ /\ backup # NumFiles /\ NoFault /\ HelperExits("stuck")
          /\ UNCHANGED <<journal, purpose, at>>
    /\ OtherCounts
    /\ UNCHANGED <<target, work, cleaner, holder>>

(* What follows a rollback that failed *)
RollbackFailed(p) ==
    IF purpose[p] = "undo" THEN Goto(p, "recover") ELSE Fails(p)

RestoreFile(p) ==
    /\ pc[p] = "restore" /\ at[p] <= NumFiles
    /\ \/ /\ target' = [target EXCEPT ![at[p]] = "old"]
          /\ at' = [at EXCEPT ![p] = @ + 1]
          /\ Goto(p, "restore") /\ NoFault /\ UNCHANGED journal
       \/ /\ Fault /\ RollbackFailed(p)
          /\ UpdateJournal("rollback_failed") /\ UNCHANGED <<target, at>>
    /\ OtherCounts
    /\ UNCHANGED <<work, purpose, cleaner, holder>>

(* Verification of the restored files and the final journal record *)
Restored(p) ==
    /\ pc[p] = "restore" /\ at[p] > NumFiles
    /\ \/ ~Old /\ UpdateJournal("rollback_failed") /\ RollbackFailed(p) /\ NoFault
       \/ Old /\ Fault /\ RollbackFailed(p) /\ UNCHANGED journal
       \/ /\ Old /\ UpdateJournal("rollback_verified")
          /\ \/ purpose[p] = "undo" /\ Goto(p, "recover") /\ NoFault
             \/ purpose[p] = "return" /\ Leaves(p, "cleanup", "restored")
             \/ purpose[p] = "recover" /\ Leaves(p, "cleanup", "kept")
    /\ OtherCounts
    /\ UNCHANGED <<target, work, at, purpose, cleaner, holder>>

-----------------------------------------------------------------------------
(* recover_update_transaction, by the helper after a failing transaction or *)
(* by an instance that starts normally                                      *)

BackupAndStaged == backup = NumFiles /\ staged

(* Mutant: a recovering process does not ask for the owner of the journal *)
OwnerActive_Ignored(p) == FALSE

(* owner_is_active *)
OwnerActive(p) == journal.owner # p /\ Alive(journal.owner)

(* Mutant: an incomplete backup gets a journal, too *)
RecoverWithoutJournal_AnyBackup(p) ==
    /\ pc[p] = "recover" /\ staged /\ journal.phase = "none"
    /\ \/ backup = 0 /\ Leaves(p, "cleanup", "kept") /\ UNCHANGED journal
       \/ /\ backup > 0 /\ NoFault
          /\ journal' = [phase |-> "rollback_in_progress", owner |-> p]
          /\ Goto(p, "recover")
    /\ Suffers(IF p # Helper /\ Alive(Helper) THEN {"premature"} ELSE {})
    /\ UNCHANGED <<target, work, at, purpose, cleaner, holder>>

(* No journal: nothing was replaced yet.  A backup that identifies itself   *)
(* gets a journal of the recovering process; its manifests are written last *)
(* (managed_paths), so it is a complete one.  An incomplete one is ignored  *)
(* if the installed package is still the verified old one.                  *)
RecoverWithoutJournal(p) ==
    /\ pc[p] = "recover" /\ staged /\ journal.phase = "none"
    /\ \/ /\ backup = 0 \/ (backup < NumFiles /\ Old)
          /\ Leaves(p, "cleanup", "kept") /\ UNCHANGED journal
       \/ /\ backup \in 1..(NumFiles - 1) /\ ~Old
          /\ Fails(p) /\ NoFault /\ UNCHANGED journal
       \/ /\ backup = NumFiles /\ NoFault
          /\ journal' = [phase |-> "rollback_in_progress", owner |-> p]
          /\ Goto(p, "recover")
       \/ Fault /\ Fails(p) /\ UNCHANGED journal
    /\ Suffers(IF p # Helper /\ Alive(Helper) THEN {"premature"} ELSE {})
    /\ UNCHANGED <<target, work, at, purpose, cleaner, holder>>

(* A damaged work directory, an unreadable record or an owner that cannot   *)
(* be identified: nothing is touched.                                       *)
RecoverRefused(p) ==
    /\ pc[p] = "recover"
    /\ ~staged \/ (journal.phase # "none" /\ backup # NumFiles)
    /\ Fails(p)
    /\ UNCHANGED <<package, at, purpose, cleaner, holder, counts>>

RecoverUnknown(p) ==
    /\ pc[p] = "recover" /\ journal.phase # "none" /\ BackupAndStaged
    /\ Fault /\ Fails(p)
    /\ OtherCounts
    /\ UNCHANGED <<package, at, purpose, cleaner, holder>>

(* The process that owns the transaction still runs: this one exits *)
RecoverOwned(p) ==
    /\ pc[p] = "recover" /\ journal.phase # "none" /\ BackupAndStaged
    /\ OwnerActive(p)
    /\ IF p = Helper THEN Fails(p) ELSE Goto(p, "exited")
    /\ UNCHANGED <<package, at, purpose, cleaner, holder, counts>>

Recoverable(p) == /\ pc[p] = "recover" /\ journal.phase # "none"
                  /\ BackupAndStaged /\ ~OwnerActive(p)

CompletedUpdate == journal.phase \in {"handoff_ready", "update_verified"} /\ New

(* A verified update is kept: a starting instance starts the handover again *)
RecoverForward(p) ==
    /\ Recoverable(p) /\ CompletedUpdate
    /\ \/ p = Helper /\ Fails(p) /\ NoFault
       \/ p # Helper /\ Leaves(p, "ready", "kept")
    /\ OtherCounts
    /\ UNCHANGED <<package, at, purpose, cleaner, holder>>

(* The old package is already there *)
RecoverDone(p) ==
    /\ Recoverable(p) /\ Old
    /\ \/ WriteJournal("rollback_verified") /\ Leaves(p, "cleanup", "kept")
       \/ Fault /\ Fails(p) /\ UNCHANGED journal
    /\ OtherCounts
    /\ UNCHANGED <<target, work, at, purpose, cleaner, holder>>

(* Otherwise it is restored; so is a package that cannot be read *)
RecoverBack(p) ==
    /\ Recoverable(p) /\ ~Old
    /\ \/ ~CompletedUpdate /\ StartRollback(p, "recover") /\ OtherCounts
       \/ CompletedUpdate /\ Fault /\ WriteJournal("rollback_in_progress")
          /\ purpose' = [purpose EXCEPT ![p] = "recover"] /\ From(p, "restore")
          /\ Suffers({"misread"})
    /\ UNCHANGED <<target, work, cleaner, holder>>

Recover(p) == RecoverWithoutJournal(p) \/ RecoverRefused(p) \/ RecoverUnknown(p)
              \/ RecoverOwned(p) \/ RecoverForward(p) \/ RecoverDone(p)
              \/ RecoverBack(p) \/ RestoreFile(p) \/ Restored(p)

-----------------------------------------------------------------------------
(* Instances of the optimizer *)

(* The user starts the optimizer *)
UserStart ==
    /\ starts < MaxStarts /\ created < MaxApps
    /\ starts' = starts + 1 /\ created' = created + 1
    /\ pc' = [pc EXCEPT ![created + 1] = "start"]
    /\ app' = [app EXCEPT ![created + 1] = [kind |-> "normal", waitsFor |-> Helper]]
    /\ UNCHANGED <<package, at, purpose, helperState, cleaner, holder,
                   faults, crashes, mishaps>>

(* Only a normal start looks for an interrupted update *)
StartApp(a) ==
    /\ pc[a] = "start"
    /\ IF app[a].kind = "normal" /\ Requested
       THEN Goto(a, "recover") ELSE Goto(a, "instance")
    /\ UNCHANGED <<package, at, purpose, cleaner, holder, counts>>

AfterStart(kind) == CASE kind = "normal" -> "running"
                      [] kind = "ready" -> "signal"
                      [] kind = "cleanup" -> "schedule"

(* Application::start: single instance, then the rest of the startup *)
AcquireInstance(a) ==
    /\ pc[a] = "instance"
    /\ \/ ~Alive(holder) /\ holder' = a /\ Goto(a, AfterStart(app[a].kind)) /\ NoFault
       \/ Alive(holder) /\ Goto(a, "exited") /\ NoFault /\ UNCHANGED holder
       \/ Fault /\ Goto(a, "exited") /\ UNCHANGED holder
    /\ OtherCounts
    /\ UNCHANGED <<package, at, purpose, cleaner>>

(* signal_update_ready_and_schedule_cleanup: the receipt comes first *)
SignalReady(a) ==
    /\ pc[a] = "signal"
    /\ \/ Requested /\ receipt' = TRUE /\ Goto(a, "handoff") /\ NoFault
       \/ ~Requested /\ Goto(a, "exited") /\ NoFault /\ UNCHANGED receipt
       \/ Fault /\ Goto(a, "exited") /\ UNCHANGED receipt
    /\ OtherCounts
    /\ UNCHANGED <<target, backup, staged, request, journal, at, purpose, cleaner, holder>>

(* mark_update_transaction_handoff_ready *)
MarkHandoff(a) ==
    /\ pc[a] = "handoff"
    /\ \/ journal.phase = "handoff_ready" /\ Goto(a, "schedule")
          /\ NoFault /\ UNCHANGED journal
       \/ /\ journal.phase = "update_verified" /\ New /\ staged
          /\ WriteJournal("handoff_ready") /\ Goto(a, "schedule") /\ NoFault
       \/ /\ journal.phase # "handoff_ready"
          /\ (~(journal.phase = "update_verified" /\ New /\ staged) /\ NoFault) \/ Fault
          /\ Goto(a, "exited") /\ UNCHANGED journal
    /\ OtherCounts
    /\ UNCHANGED <<target, work, at, purpose, cleaner, holder>>

(* validated_cleanup_identity, update_transaction_allows_cleanup *)
CleanupAllowed ==
    /\ Requested
    /\ \/ journal.phase = "none" /\ (backup = 0 \/ Old)
       \/ journal.phase = "handoff_ready" /\ New
       \/ journal.phase = "rollback_verified" /\ Old /\ backup = NumFiles

(* schedule_update_cleanup; only the handover treats a refusal as an error *)
Schedule(a) ==
    /\ pc[a] = "schedule"
    /\ \/ /\ CleanupAllowed /\ NoFault
          /\ cleaner' = [cleaner EXCEPT ![a] = "wait"] /\ Goto(a, "running")
       \/ /\ (~CleanupAllowed /\ NoFault) \/ Fault
          /\ Goto(a, IF app[a].kind = "ready" THEN "exited" ELSE "running")
          /\ UNCHANGED cleaner
    /\ OtherCounts
    /\ UNCHANGED <<package, at, purpose, holder>>

(* Mutant: cleanup_update_work does not ask for the exit it waited for *)
CleanerWaits_Unconfirmed(a) ==
    /\ Alive(a) /\ cleaner[a] = "wait"
    /\ cleaner' = [cleaner EXCEPT ![a] = IF CleanupAllowed THEN "remove" ELSE "none"]
    /\ NoFault /\ OtherCounts
    /\ UNCHANGED <<package, pc, at, purpose, app, created, helperState, holder>>

(* cleanup_update_work: the exit of the process waited for is confirmed and *)
(* the transaction validated again, or the cleanup is deferred.             *)
CleanerWaits(a) ==
    /\ Alive(a) /\ cleaner[a] = "wait"
    /\ \/ /\ ~Alive(app[a].waitsFor) /\ NoFault
          /\ cleaner' = [cleaner EXCEPT ![a] = IF CleanupAllowed THEN "remove" ELSE "none"]
       \/ /\ (Alive(app[a].waitsFor) /\ NoFault) \/ Fault
          /\ cleaner' = [cleaner EXCEPT ![a] = "none"]
    /\ OtherCounts
    /\ UNCHANGED <<package, pc, at, purpose, app, created, helperState, holder>>

Leftovers == backup > 0 \/ staged \/ request \/ receipt \/ journal.phase # "none"

(* remove_all of the work directory, in the order of names in which NTFS    *)
(* lists it: backup, extracted, KF2UpdateHelper.exe (locked while it runs), *)
(* ready.receipt, update-request.ini, update-transaction.ini                *)
CleanerRemoves(a) ==
    /\ Alive(a) /\ cleaner[a] = "remove"
    /\ \/ /\ backup > 0 /\ backup' = backup - 1
          /\ UNCHANGED <<staged, request, receipt, journal>>
       \/ /\ backup = 0 /\ staged /\ staged' = FALSE
          /\ UNCHANGED <<backup, request, receipt, journal>>
       \/ /\ backup = 0 /\ ~staged /\ ~Alive(Helper) /\ (receipt \/ request)
          /\ receipt' = FALSE /\ request' = (request /\ receipt)
          /\ UNCHANGED <<backup, staged, journal>>
       \/ /\ backup = 0 /\ ~staged /\ ~Alive(Helper) /\ ~receipt /\ ~request
          /\ journal.phase # "none" /\ journal' = NoJournal /\ UNCHANGED work
    /\ UNCHANGED <<target, pc, at, purpose, helperState, instances, counts>>

(* It ends, or stops at a file that cannot be removed: the executable of a  *)
(* running helper, or any other                                             *)
CleanerEnds(a) ==
    /\ Alive(a) /\ cleaner[a] = "remove"
    /\ \/ (~Leftovers \/ (backup = 0 /\ ~staged /\ Alive(Helper))) /\ NoFault /\ OtherCounts
       \/ Leftovers /\ Fault /\ Suffers({"cut"})
    /\ cleaner' = [cleaner EXCEPT ![a] = "none"]
    /\ UNCHANGED <<package, pc, at, purpose, app, created, helperState, holder>>

(* A process that ends takes its detached cleanup thread with it *)
CutShort(p) == IF p \in Apps /\ cleaner[p] = "remove" THEN {"cut"} ELSE {}

(* The user closes the window *)
Close(a) ==
    /\ pc[a] = "running"
    /\ Goto(a, "exited") /\ NoFault /\ Suffers(CutShort(a))
    /\ UNCHANGED <<package, at, purpose, cleaner, holder>>

Crash(p) ==
    /\ Alive(p) /\ crashes < MaxCrashes
    /\ crashes' = crashes + 1 /\ mishaps' = mishaps \cup CutShort(p)
    /\ pc' = [pc EXCEPT ![p] = "exited"]
    /\ result' = IF p = Helper THEN "killed" ELSE result
    /\ UNCHANGED <<package, at, purpose, child, instances, starts, faults>>

-----------------------------------------------------------------------------

Install == CheckPackages \/ WriteBackup \/ WriteBackupReady \/ OpenReplacement
           \/ ReplaceFile \/ VerifyInstalled \/ Undo
Handover == ParseRequest \/ WaitForParent \/ LaunchUpdated \/ PollReceipt
            \/ FinalReceipt \/ StopChild \/ RollBack
HelperNext == Install \/ Handover \/ Recover(Helper)

AppNext(a) == \/ StartApp(a) \/ Recover(a) \/ AcquireInstance(a)
              \/ SignalReady(a) \/ MarkHandoff(a) \/ Schedule(a)
              \/ CleanerWaits(a) \/ CleanerRemoves(a) \/ CleanerEnds(a)

Next == \/ HelperNext
        \/ \E a \in Apps : AppNext(a) \/ Close(a)
        \/ UserStart
        \/ \E p \in Procs : Crash(p)

(* The helper's waits are all bounded, so it keeps taking steps *)
Spec == Init /\ [][Next]_vars /\ WF_vars(HelperNext)

-----------------------------------------------------------------------------
(* Correctness *)

(* Nobody has recovered before the journal, or mistaken a complete update   *)
(* for a broken one: either brings a second process to work on the package. *)
Undisturbed == "premature" \notin mishaps /\ "misread" \notin mishaps

Torn == ~Old /\ ~New

(* Whatever dies, and whenever: a half replaced package comes with the      *)
(* request, the journal, the staged package and the complete backup that    *)
(* the next normal start needs to repair it.                                *)
TornIsRecoverable == Torn => Requested /\ journal.phase # "none" /\ BackupAndStaged

(* A cleanup thread is removing the work directory *)
Cleaning == \E a \in Apps : Alive(a) /\ cleaner[a] = "remove"

(* The journal stays the recovery authority: as long as a start would find  *)
(* it, outside a running cleanup, the backup it speaks of is complete, so   *)
(* recover_update_transaction does not refuse the start.                    *)
JournalIsAuthority ==
    Requested /\ journal.phase # "none" /\ ~Cleaning => BackupAndStaged

(* Update files are only removed once the helper has exited *)
CleanupAfterHelper == Cleaning => ~Alive(Helper)

(* Nobody takes away the files that the helper or the next start needs,     *)
(* unless the removal itself has been cut short.                            *)
FilesAreThere ==
    Undisturbed => ("cut" \in mishaps \/ JournalIsAuthority) /\ CleanupAfterHelper

(* The exit code of the helper tells the truth: an update reported as       *)
(* installed is there to stay, one reported as undone never comes back,     *)
(* whatever a later start finds in the work directory, as long as it can    *)
(* read it.                                                                 *)
OutcomeIsTrue ==
    Undisturbed => /\ result = "updated" => New
                   /\ result \in {"kept", "restored"} => Old

(* No instance serves the user while its package is half replaced: neither *)
(* one that has just started nor one that a rollback would run under.       *)
NoTornService == Torn => \A a \in Apps : pc[a] # "running"

(* A half replaced package is repairable, and nobody is served from it.      *)
TornIsSafe == Undisturbed => TornIsRecoverable /\ NoTornService

(* The temporary helper does not stay behind *)
HelperEnds == <>(pc[Helper] = "exited")
=============================================================================
