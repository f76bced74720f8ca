-------------------------- MODULE ConfigTransaction --------------------------
(***************************************************************************)
(* The protected configuration transaction of KF2 Optimizer Next:          *)
(* apply_preview (src/config/apply_transaction.cpp), the backup store it   *)
(* rests on (src/backup/backup_store.cpp), restore_backup and              *)
(* recover_transactions (src/backup/restore_transaction.cpp), and the      *)
(* callers in src/app that turn an error into the recovery banner.         *)
(*                                                                         *)
(* The optimizer runs one transaction at a time.  Around it, other         *)
(* programs (KF2, an editor) edit the same INI files, single I/O calls     *)
(* fail, and the process may die between any two file system operations.   *)
(* Disk state survives a crash, process memory does not.                   *)
(***************************************************************************)
EXTENDS Naturals, FiniteSets

CONSTANTS
    NumFiles,           \* the preview covers the INI files 1..NumFiles, in order
    Bytes,              \* the distinguishable contents of an INI file
    NoBytes,            \* stands for "no captured file" / "no edit to protect"
    NoBackup,           \* stands for "no transaction"
    KeepLatest,         \* RetentionPolicy::keep_latest (8 in the program)
    MaxTransactions,    \* bound: backups created
    MaxEdits,           \* bound: edits made by other programs
    MaxFaults,          \* bound: failing I/O calls
    MaxCrashes          \* bound: deaths of the optimizer process

Files == 1..NumFiles
Contents == [Files -> Bytes]

(* A backup is content addressed: its id is the hash of the root, the paths *)
(* and the original and desired digests, so it is that pair of contents.    *)
BackupIds == [original : Contents, desired : Contents]

ASSUME ConstantsAssumption ==
    /\ NumFiles \in Nat \ {0}
    /\ KeepLatest \in Nat \ {0}
    /\ MaxTransactions \in Nat /\ MaxEdits \in Nat
    /\ MaxFaults \in Nat /\ MaxCrashes \in Nat

    /\ NoBytes \notin Bytes /\ NoBackup \notin BackupIds

VARIABLES
    \* disk
    file,               \* content of each INI file
    siblings,           \* captured files left behind beside each INI file
    objects,            \* backups/objects: the contents that have a blob
    manifests,          \* backups/manifests: id -> write order (its file time)
    journals,           \* backups/journals: id -> state
    \* process memory
    pc,                 \* the next operation of the optimizer
    mode,               \* "apply", "restore" or "backup" (create_standalone)
    tx,                 \* the backup/preview the current operation works on
    at,                 \* index in preview.files / backup.snapshots
    written,            \* written_files of apply_preview
    rollbackFailed,     \* "failure" of rollback_written_files
    captured,           \* content captured by the ReplaceFileW in progress
    visited,            \* journals the recovery loop is done with
    doomed,             \* backups selected by prune_verified
    recoveryRequired,   \* UiModel::recovery_required
    \* observation only
    debt,               \* file -> unfinished transactions that wrote it and
                        \* could put it back, but did not
    edit,               \* file -> foreign edit that must not be destroyed
    touched,            \* files that others edited, or whose captured file
                        \* others held, since the last change was requested
    overlapped,         \* a change has been requested while the journal of
                        \* an earlier one was pending
    transactions, edits, faults, crashes

archive == <<objects, manifests>>
store  == <<archive, journals>>
disk   == <<file, siblings, store>>
config == <<file, siblings, captured, debt>>
plan   == <<mode, tx>>
progress == <<written, rollbackFailed, visited, doomed>>
memory == <<plan, at, progress>>
ghosts == <<debt, edit, touched, overlapped>>
counts == <<transactions, edits, faults, crashes>>
vars == <<disk, pc, memory, captured, recoveryRequired, ghosts, counts>>

JournalStates == {"backup_complete", "replacement_started",
                  "verification_complete", "complete"}

BackupSteps  == {"objects", "journal", "verify", "start"}
ReplaceSteps == {"replace", "replace_settle", "readback", "finish"}
RollbackSteps == {"rollback", "rollback_settle", "rollback_readback"}
RecoverySteps == {"recover", "recover_file", "recover_commit",
                  "recover_settle", "recover_readback"}
PruneSteps   == {"prune", "prune_manifest"}
SettleSteps  == {"replace_settle", "rollback_settle", "recover_settle"}
Steps == {"off", "idle", "ready", "check"} \cup BackupSteps \cup ReplaceSteps
         \cup RollbackSteps \cup RecoverySteps \cup PruneSteps

DiskOK ==
    /\ file \in Contents
    /\ siblings \in [Files -> SUBSET Bytes]
    /\ objects \subseteq Bytes
    /\ DOMAIN manifests \subseteq BackupIds
    /\ manifests \in [DOMAIN manifests -> Nat]
    /\ DOMAIN journals \subseteq BackupIds
    /\ journals \in [DOMAIN journals -> JournalStates]

ProcessOK ==
    /\ pc \in Steps
    /\ mode \in {"apply", "restore", "backup"}
    /\ tx \in BackupIds \cup {NoBackup}
    /\ at \in 0..(NumFiles + 1)
    /\ written \subseteq Files
    /\ rollbackFailed \in BOOLEAN
    /\ captured \in Bytes \cup {NoBytes}
    /\ visited \subseteq BackupIds
    /\ doomed \subseteq BackupIds
    /\ recoveryRequired \in BOOLEAN

ObservationOK ==
    /\ debt \in [Files -> SUBSET BackupIds]
    /\ edit \in [Files -> Bytes \cup {NoBytes}]
    /\ touched \subseteq Files
    /\ overlapped \in BOOLEAN
    /\ transactions \in Nat /\ edits \in Nat /\ faults \in Nat /\ crashes \in Nat

TypeOK == DiskOK /\ ProcessOK /\ ObservationOK

Init ==
    /\ file \in Contents
    /\ siblings = [f \in Files |-> {}]
    /\ objects = {}
    /\ manifests = [b \in {} |-> 0]
    /\ journals = [b \in {} |-> "complete"]
    /\ pc = "off" /\ mode = "apply" /\ tx = NoBackup /\ at = 0
    /\ written = {} /\ rollbackFailed = FALSE /\ captured = NoBytes
    /\ visited = {} /\ doomed = {} /\ recoveryRequired = FALSE
    /\ debt = [f \in Files |-> {}]
    /\ edit = [f \in Files |-> NoBytes]
    /\ touched = {} /\ overlapped = FALSE
    /\ transactions = 0 /\ edits = 0 /\ faults = 0 /\ crashes = 0

-----------------------------------------------------------------------------
(* Helpers *)

Fault == faults < MaxFaults /\ faults' = faults + 1
NoFault == UNCHANGED faults
OtherCounts == UNCHANGED <<transactions, edits, crashes>>

(* write_journal / journal_state: atomic replacement of one journal file *)
WriteJournal(id, state) ==
    journals' = [b \in DOMAIN journals \cup {id} |->
                    IF b = id THEN state ELSE journals[b]]

Without(function, key) == [k \in DOMAIN function \ {key} |-> function[k]]

(* A change that recovery still has to settle *)
Pending(b) == b \in DOMAIN journals
              /\ journals[b] \in {"replacement_started", "verification_complete"}

(* BackupStore::verify: the manifest loads and every blob is present *)
Verifies(id) ==
    /\ id \in DOMAIN manifests
    /\ \A f \in Files : id.original[f] \in objects

Goto(step) == pc' = step /\ UNCHANGED recoveryRequired

(* Return from the operation; UiRuntime::apply, ::restore and              *)
(* Application::start raise the recovery banner for recovery_required.     *)
Return(needsRecovery) ==
    /\ pc' = "idle"
    /\ recoveryRequired' = (recoveryRequired \/ needsRecovery)

(* ReplaceFileW: the target gets the new bytes and the old ones are         *)
(* captured in a sibling within one file system operation.                  *)
Commit(bytes, owners) ==
    /\ captured' = file[at]
    /\ file' = [file EXCEPT ![at] = bytes]
    /\ debt' = [debt EXCEPT ![at] = owners]
    /\ UNCHANGED siblings

(* The captured file is what was expected: it is removed *)
Accept == captured' = NoBytes /\ UNCHANGED <<file, siblings, debt, touched>>

(* Rename the captured file back over the target *)
Undo(owners) ==
    /\ file' = [file EXCEPT ![at] = captured]
    /\ debt' = [debt EXCEPT ![at] = owners]
    /\ captured' = NoBytes
    /\ UNCHANGED <<siblings, touched>>

(* verify_existing_commit cannot open the captured file (or the rename back *)
(* fails): another program holds it.  The new bytes stay in the target, the *)
(* old ones in the sibling, and the change no longer knows of them.         *)
Abandon ==
    /\ Fault
    /\ siblings' = [siblings EXCEPT ![at] = @ \cup {captured}]
    /\ captured' = NoBytes
    /\ debt' = [debt EXCEPT ![at] = @ \ {tx}]
    /\ touched' = touched \cup {at}
    /\ UNCHANGED file

(* Mutant: the captured bytes are not compared with the expected ones *)
SettleSucceeds_Unchecked(expected) == Accept /\ NoFault

(* The two outcomes of atomic_replace_utf8_if_unchanged once ReplaceFileW   *)
(* has run, for the bytes the caller expected to replace.                   *)
SettleSucceeds(expected) == captured = expected /\ Accept /\ NoFault

SettleFails(expected, owners) ==
    \/ captured # expected /\ Undo(owners) /\ NoFault
    \/ captured = expected /\ Undo(owners) /\ Fault   \* sibling not removable
    \/ Abandon

-----------------------------------------------------------------------------
(* User requests, from the UI thread: the recovery banner refuses none *)

Begin(kind, original, desired, step) ==
    /\ pc = "idle"
    /\ transactions < MaxTransactions
    /\ transactions' = transactions + 1
    /\ mode' = kind
    /\ tx' = [original |-> original, desired |-> desired]
    /\ at' = 1 /\ written' = {} /\ rollbackFailed' = FALSE /\ visited' = {} /\ doomed' = {}
    /\ touched' = {}
    /\ overlapped' = (overlapped \/ \E b \in DOMAIN journals : Pending(b))
    /\ Goto(step)
    /\ UNCHANGED <<disk, captured, debt, edit, edits, faults, crashes>>

(* build_preview: the original bytes are those read now *)
Preview == \E desired \in Contents : Begin("apply", file, desired, "ready")

(* restore_backup: from the current bytes to those of a verified backup *)
Restore == \E id \in DOMAIN manifests :
              Verifies(id) /\ Begin("restore", file, id.original, "check")

(* "Create backup": create_standalone of the current bytes *)
Standalone == Begin("backup", file, file, "objects")

(* The user confirms the preview; apply_preview refuses while KF2 runs *)
Apply == pc = "ready" /\ (Goto("check") \/ Return(FALSE))
         /\ UNCHANGED <<disk, memory, captured, ghosts, counts>>

-----------------------------------------------------------------------------
(* apply_preview: preconditions and backup *)

(* Every target must still hold the previewed bytes *)
Check ==
    /\ pc = "check" /\ at <= NumFiles
    /\ \/ /\ file[at] = tx.original[at]
          /\ at' = at + 1 /\ Goto("check") /\ NoFault
       \/ /\ file[at] # tx.original[at]
          /\ at' = at /\ Return(FALSE) /\ NoFault
       \/ at' = at /\ Return(FALSE) /\ Fault
    /\ OtherCounts
    /\ UNCHANGED <<disk, plan, progress, captured, ghosts>>

Checked == pc = "check" /\ at > NumFiles /\ at' = 1 /\ Goto("objects")
           /\ UNCHANGED <<disk, plan, progress, captured, ghosts, counts>>

(* BackupStore::create: one blob per file, then the manifest, then the      *)
(* journal.  A blob that is already there is reused; the manifest and the   *)
(* journal of an earlier equal change are written anew.                     *)
StoreObject ==
    /\ pc = "objects" /\ at <= NumFiles
    /\ objects' = objects \cup {tx.original[at]}
    /\ at' = at + 1
    /\ Goto("objects")
    /\ UNCHANGED <<file, siblings, manifests, journals, plan, progress, captured, ghosts, counts>>

(* Mutant: the manifest is written before the blobs it refers to *)
StoreManifest_TooEarly ==
    /\ pc = "objects"
    /\ manifests' = [b \in DOMAIN manifests \cup {tx} |->
                        IF b = tx THEN transactions ELSE manifests[b]]
    /\ Goto("journal")
    /\ UNCHANGED <<file, siblings, objects, journals, memory, captured, ghosts, counts>>

StoreManifest ==
    /\ pc = "objects" /\ at > NumFiles
    /\ manifests' = [b \in DOMAIN manifests \cup {tx} |->
                        IF b = tx THEN transactions ELSE manifests[b]]
    /\ Goto("journal")
    /\ UNCHANGED <<file, siblings, objects, journals, memory, captured, ghosts, counts>>

StoreJournal ==
    /\ pc = "journal"
    /\ WriteJournal(tx, "backup_complete")
    /\ Goto("verify")
    /\ UNCHANGED <<file, siblings, archive, memory, captured, ghosts, counts>>

VerifyBackup ==
    /\ pc = "verify"
    /\ IF Verifies(tx) THEN Goto("start") ELSE Return(FALSE)
    /\ UNCHANGED <<disk, memory, captured, ghosts, counts>>

(* Mutant: apply_preview does not open its journal before it replaces *)
StartReplacement_Unopened ==
    /\ pc = "start"
    /\ IF mode = "backup" THEN WriteJournal(tx, "complete") ELSE UNCHANGED journals
    /\ at' = 1
    /\ IF mode = "backup" THEN Goto("prune") ELSE Goto("replace")
    /\ UNCHANGED <<file, siblings, archive, plan, progress, captured, ghosts, counts>>

(* create_standalone closes its journal; apply_preview opens it *)
Entry == IF mode = "backup" THEN "complete" ELSE "replacement_started"

StartReplacement ==
    /\ pc = "start"
    /\ WriteJournal(tx, Entry)
    /\ at' = 1
    /\ IF mode = "backup" THEN Goto("prune") ELSE Goto("replace")
    /\ UNCHANGED <<file, siblings, archive, plan, progress, captured, ghosts, counts>>

(* A failing operation of the backup phase returns before any target changes *)
BackupFails ==
    /\ pc \in BackupSteps /\ Fault
    /\ Return(FALSE)
    /\ OtherCounts
    /\ UNCHANGED <<disk, memory, captured, ghosts>>

-----------------------------------------------------------------------------
(* apply_preview: replacement, file by file *)

ReplaceFile ==
    /\ pc = "replace" /\ at <= NumFiles
    /\ IF tx.original[at] = tx.desired[at]
       THEN at' = at + 1 /\ Goto("replace") /\ UNCHANGED config
       ELSE at' = at /\ Goto("replace_settle")
            /\ Commit(tx.desired[at], debt[at] \cup {tx})
    /\ UNCHANGED <<store, plan, progress, edit, touched, overlapped, counts>>

Replaced == pc = "replace" /\ at > NumFiles /\ at' = 1 /\ Goto("readback")
            /\ UNCHANGED <<disk, plan, progress, captured, ghosts, counts>>

SettleReplacement ==
    /\ pc = "replace_settle"
    /\ \/ /\ SettleSucceeds(tx.original[at])
          /\ written' = written \cup {at}
          /\ at' = at + 1 /\ Goto("replace")
       \/ /\ SettleFails(tx.original[at], debt[at] \ {tx})
          /\ written' = written
          /\ at' = NumFiles /\ Goto("rollback")
    /\ OtherCounts
    /\ UNCHANGED <<store, mode, tx, rollbackFailed, visited, doomed, edit, overlapped>>

(* The replacement call fails before ReplaceFileW changed anything *)
ReplaceFails ==
    /\ pc = "replace" /\ at <= NumFiles /\ tx.original[at] # tx.desired[at]
    /\ Fault
    /\ at' = NumFiles /\ Goto("rollback")
    /\ OtherCounts
    /\ UNCHANGED <<disk, plan, progress, captured, ghosts>>

Readback ==
    /\ pc = "readback" /\ at <= NumFiles
    /\ \/ /\ file[at] = tx.desired[at] /\ NoFault
          /\ at' = at + 1 /\ Goto("readback")
       \/ /\ file[at] # tx.desired[at] /\ NoFault
          /\ at' = NumFiles /\ Goto("rollback")
       \/ Fault /\ at' = NumFiles /\ Goto("rollback")
    /\ OtherCounts
    /\ UNCHANGED <<disk, plan, progress, captured, ghosts>>

(* The commit point: from here recovery rolls forward *)
Verified ==
    /\ pc = "readback" /\ at > NumFiles
    /\ \/ WriteJournal(tx, "verification_complete") /\ Goto("finish") /\ NoFault
       \/ Fault /\ Return(TRUE) /\ UNCHANGED journals
    /\ OtherCounts
    /\ UNCHANGED <<file, siblings, archive, memory, captured, ghosts>>

Changed == {f \in Files : tx.original[f] # tx.desired[f]}

(* The journal is closed.  UiRuntime::apply then prunes old backups;        *)
(* ::restore synchronizes the frame cap, which may fail on its own account. *)
Finish ==
    /\ pc = "finish"
    /\ WriteJournal(tx, "complete")
    /\ debt' = [f \in Files |-> IF f \in Changed THEN {} ELSE debt[f]]
    /\ edit' = [f \in Files |-> IF f \in Changed /\ edit[f] = tx.original[f]
                                THEN NoBytes ELSE edit[f]]
    /\ \/ mode # "restore" /\ Goto("prune")
       \/ mode = "restore" /\ \E capFails \in BOOLEAN : Return(capFails)
    /\ UNCHANGED <<file, siblings, archive, memory, captured, touched, overlapped, counts>>

(* Mutant: the error of the last journal write is passed on as it is *)
FinishFails_Plain ==
    /\ pc = "finish" /\ Fault /\ Return(FALSE)
    /\ OtherCounts
    /\ UNCHANGED <<disk, memory, captured, ghosts>>

FinishFails ==
    /\ pc = "finish" /\ Fault /\ Return(TRUE)
    /\ OtherCounts
    /\ UNCHANGED <<disk, memory, captured, ghosts>>

-----------------------------------------------------------------------------
(* rollback_written_files: the written targets in reverse order.  A failed  *)
(* target is remembered and the earlier ones are still attempted.           *)

RollbackFile ==
    /\ pc = "rollback" /\ at > 0
    /\ \/ /\ at \notin written \/ file[at] = tx.original[at]
          /\ at' = at - 1 /\ Goto("rollback")
          /\ NoFault /\ UNCHANGED config
       \/ /\ at \in written
          /\ (file[at] # tx.original[at] /\ NoFault) \/ Fault  \* unreadable
          /\ at' = at /\ Goto("rollback_settle")
          /\ Commit(tx.original[at], debt[at] \ {tx})
       \/ /\ at \in written /\ Fault                       \* not replaceable
          /\ at' = at /\ Goto("rollback_readback") /\ UNCHANGED config
    /\ OtherCounts
    /\ UNCHANGED <<store, plan, progress, edit, touched, overlapped>>

(* Undoing a rollback brings the proposed bytes back, or an edit *)
Owing == IF captured = tx.desired[at] /\ at \in Changed
         THEN debt[at] \cup {tx} ELSE debt[at]

SettleRollback ==
    /\ pc = "rollback_settle"
    /\ SettleSucceeds(tx.desired[at]) \/ SettleFails(tx.desired[at], Owing)
    /\ Goto("rollback_readback")
    /\ OtherCounts
    /\ UNCHANGED <<store, memory, edit, overlapped>>

RollbackReadback ==
    /\ pc = "rollback_readback"
    /\ \/ rollbackFailed' = (rollbackFailed \/ file[at] # tx.original[at]) /\ NoFault
       \/ rollbackFailed' = TRUE /\ Fault
    /\ at' = at - 1 /\ Goto("rollback")
    /\ OtherCounts
    /\ UNCHANGED <<disk, mode, tx, written, visited, doomed, captured, ghosts>>

(* Mutant: the journal is closed although a target was not restored *)
RolledBack_Regardless ==
    /\ pc = "rollback" /\ at = 0
    /\ WriteJournal(tx, "complete") /\ Return(rollbackFailed) /\ NoFault
    /\ OtherCounts
    /\ UNCHANGED <<file, siblings, archive, memory, captured, ghosts>>

(* A complete rollback closes the journal; anything else leaves it pending *)
RolledBack ==
    /\ pc = "rollback" /\ at = 0
    /\ \/ rollbackFailed /\ Return(TRUE) /\ UNCHANGED journals /\ NoFault
       \/ ~rollbackFailed /\ WriteJournal(tx, "complete") /\ Return(FALSE) /\ NoFault
       \/ ~rollbackFailed /\ Fault /\ Return(TRUE) /\ UNCHANGED journals
    /\ OtherCounts
    /\ UNCHANGED <<file, siblings, archive, memory, captured, ghosts>>

-----------------------------------------------------------------------------
(* BackupStore::prune_verified, after a change or a standalone backup *)

NewerThan(id) == {b \in DOMAIN manifests : manifests[b] > manifests[id]}

(* list_backups sorts by file time; the KeepLatest newest are kept *)
SelectDoomed ==
    /\ pc = "prune"
    /\ doomed' = {b \in DOMAIN manifests :
                     Cardinality(NewerThan(b)) >= KeepLatest /\ Verifies(b)}
    /\ Goto("prune_manifest")
    /\ UNCHANGED <<disk, mode, tx, at, written, rollbackFailed, visited, captured, ghosts, counts>>

(* Each doomed backup loses its journal, whatever its state, then its manifest *)
PruneJournal ==
    /\ pc = "prune_manifest"
    /\ \E b \in doomed \cap DOMAIN journals :
          /\ \A c \in doomed \ DOMAIN journals : c \notin DOMAIN manifests
          /\ journals' = Without(journals, b)
    /\ Goto("prune_manifest")
    /\ UNCHANGED <<file, siblings, archive, memory, captured, ghosts, counts>>

PruneManifest ==
    /\ pc = "prune_manifest"
    /\ \E b \in doomed \ DOMAIN journals :
          b \in DOMAIN manifests /\ manifests' = Without(manifests, b)
    /\ Goto("prune_manifest")
    /\ UNCHANGED <<file, siblings, objects, journals, memory, captured, ghosts, counts>>

Referenced == {b.original[f] : b \in DOMAIN manifests, f \in Files}

PruneObject ==
    /\ pc = "prune_manifest" /\ doomed \cap DOMAIN manifests = {}
    /\ \E blob \in objects \ Referenced : objects' = objects \ {blob}
    /\ Goto("prune_manifest")
    /\ UNCHANGED <<file, siblings, manifests, journals, memory, captured, ghosts, counts>>

Pruned ==
    /\ pc = "prune_manifest" /\ doomed \cap DOMAIN manifests = {}
    /\ objects \subseteq Referenced
    /\ Return(FALSE)
    /\ UNCHANGED <<disk, memory, captured, ghosts, counts>>

(* A failing removal stops the pruning; it is only logged *)
PruneFails ==
    /\ pc \in {"prune", "prune_manifest"} /\ Fault /\ Return(FALSE)
    /\ OtherCounts
    /\ UNCHANGED <<disk, memory, captured, ghosts>>

-----------------------------------------------------------------------------
(* Process start, recover_transactions, exit *)

(* A new process: nothing but the disk is left of the one before *)
Start ==
    /\ pc = "off"
    /\ pc' = "recover" /\ recoveryRequired' = FALSE
    /\ mode' = "apply" /\ at' = 0
    /\ written' = {} /\ rollbackFailed' = FALSE /\ visited' = {} /\ doomed' = {}
    /\ UNCHANGED <<disk, tx, captured, ghosts, counts>>

(* Clean exit: only between operations *)
Quit == pc \in {"idle", "ready"} /\ Goto("off")
        /\ UNCHANGED <<disk, memory, captured, ghosts, counts>>

Crash ==
    /\ pc # "off" /\ crashes < MaxCrashes
    /\ crashes' = crashes + 1
    /\ Goto("off")
    /\ captured' = NoBytes
    /\ siblings' = IF captured = NoBytes THEN siblings
                   ELSE [siblings EXCEPT ![at] = @ \cup {captured}]
    /\ UNCHANGED <<file, store, memory, ghosts, transactions, edits, faults>>

RecoveryFails == Return(TRUE) /\ UNCHANGED <<at, visited>>

Unvisited == DOMAIN journals \ visited

(* One journal of the directory, in the order the directory lists them *)
RecoverJournal ==
    /\ pc = "recover"
    /\ \E id \in Unvisited :
       /\ tx' = id
       /\ \/ /\ id \notin DOMAIN manifests \/ (journals[id] # "complete" /\ ~Verifies(id))
             /\ RecoveryFails /\ NoFault /\ UNCHANGED journals
          \/ /\ Fault /\ RecoveryFails /\ UNCHANGED journals
          \/ /\ journals[id] = "complete" /\ id \in DOMAIN manifests
             /\ visited' = visited \cup {id}
             /\ Goto("recover") /\ NoFault /\ UNCHANGED <<at, journals>>
          \/ /\ journals[id] = "backup_complete" /\ Verifies(id)
             /\ WriteJournal(id, "complete")
             /\ visited' = visited \cup {id}
             /\ Goto("recover") /\ NoFault /\ UNCHANGED at
          \/ /\ journals[id] \in {"replacement_started", "verification_complete"}
             /\ Verifies(id)
             /\ at' = 1
             /\ Goto("recover_file") /\ NoFault /\ UNCHANGED <<visited, journals>>
    /\ OtherCounts
    /\ UNCHANGED <<file, siblings, archive, mode, written, rollbackFailed, doomed,
                   captured, ghosts>>

Recovered == pc = "recover" /\ Unvisited = {} /\ Return(FALSE)
             /\ UNCHANGED <<disk, memory, captured, ghosts, counts>>

(* A verified change must still be exact; an unverified one may hold only   *)
(* original or desired bytes, and desired bytes are put back.               *)
RecoverFile ==
    /\ pc = "recover_file" /\ at <= NumFiles
    /\ \/ /\ IF journals[tx] = "verification_complete"
             THEN file[at] # tx.desired[at]
             ELSE file[at] \notin {tx.original[at], tx.desired[at]}
          /\ RecoveryFails /\ NoFault
       \/ Fault /\ RecoveryFails
       \/ /\ journals[tx] = "verification_complete" /\ file[at] = tx.desired[at]
          /\ at' = at + 1 /\ Goto("recover_file") /\ NoFault /\ UNCHANGED visited
       \/ /\ journals[tx] = "replacement_started" /\ file[at] = tx.desired[at]
          /\ Goto("recover_commit") /\ NoFault /\ UNCHANGED <<at, visited>>
       \/ /\ journals[tx] = "replacement_started"
          /\ file[at] = tx.original[at] /\ file[at] # tx.desired[at]
          /\ at' = at + 1 /\ Goto("recover_file") /\ NoFault /\ UNCHANGED visited
    /\ OtherCounts
    /\ UNCHANGED <<disk, mode, tx, written, rollbackFailed, doomed, captured, ghosts>>

RecoverCommit ==
    /\ pc = "recover_commit"
    /\ \/ /\ Commit(tx.original[at], debt[at] \ {tx})
          /\ Goto("recover_settle") /\ NoFault /\ UNCHANGED <<at, visited>>
       \/ Fault /\ RecoveryFails /\ UNCHANGED config
    /\ OtherCounts
    /\ UNCHANGED <<store, mode, tx, written, rollbackFailed, doomed, edit, touched, overlapped>>

SettleRecovery ==
    /\ pc = "recover_settle"
    /\ \/ /\ SettleSucceeds(tx.desired[at])
          /\ Goto("recover_readback") /\ UNCHANGED <<at, visited>>
       \/ SettleFails(tx.desired[at], Owing) /\ RecoveryFails
    /\ OtherCounts
    /\ UNCHANGED <<store, mode, tx, written, rollbackFailed, doomed, edit, overlapped>>

RecoverReadback ==
    /\ pc = "recover_readback"
    /\ \/ /\ file[at] = tx.original[at] /\ NoFault
          /\ at' = at + 1 /\ Goto("recover_file") /\ UNCHANGED visited
       \/ file[at] # tx.original[at] /\ RecoveryFails /\ NoFault
       \/ Fault /\ RecoveryFails
    /\ OtherCounts
    /\ UNCHANGED <<disk, mode, tx, written, rollbackFailed, doomed, captured, ghosts>>

(* The journal is closed: rolled forward or rolled back *)
RecoverFinish ==
    /\ pc = "recover_file" /\ at > NumFiles
    /\ \/ /\ WriteJournal(tx, "complete")
          /\ visited' = visited \cup {tx}
          /\ debt' = IF journals[tx] = "verification_complete"
                     THEN [f \in Files |-> IF f \in Changed THEN {} ELSE debt[f]]
                     ELSE debt
          /\ edit' = IF journals[tx] = "verification_complete"
                     THEN [f \in Files |-> IF f \in Changed /\ edit[f] = tx.original[f]
                                           THEN NoBytes ELSE edit[f]]
                     ELSE edit
          /\ Goto("recover") /\ NoFault /\ UNCHANGED at
       \/ /\ Fault /\ RecoveryFails
          /\ UNCHANGED <<journals, debt, edit>>
    /\ OtherCounts
    /\ UNCHANGED <<file, siblings, archive, mode, tx, written, rollbackFailed, doomed,
                   captured, touched, overlapped>>

-----------------------------------------------------------------------------
(* Other programs: KF2 or an editor rewrites an INI file in place *)

(* Recovery cannot tell an edit from bytes that a pending change proposes *)
Distinguishable(f, bytes) ==
    /\ \A b \in DOMAIN journals :
          journals[b] # "complete" => b.desired[f] # bytes
    /\ pc \notin {"off", "idle"} /\ tx # NoBackup => tx.desired[f] # bytes

Edit(f, bytes) ==
    /\ edits < MaxEdits /\ edits' = edits + 1
    /\ bytes # file[f]

    /\ file' = [file EXCEPT ![f] = bytes]
    /\ debt' = [debt EXCEPT ![f] = {}]
    /\ touched' = touched \cup {f}
    /\ edit' = [edit EXCEPT ![f] =
                  IF Distinguishable(f, bytes) /\ ~(pc \in SettleSteps /\ at = f)
                  THEN bytes ELSE NoBytes]
    /\ UNCHANGED <<siblings, store, pc, memory, captured, recoveryRequired, overlapped,
                   transactions, faults, crashes>>

-----------------------------------------------------------------------------

BackupPhase == StoreObject \/ StoreManifest \/ StoreJournal \/ VerifyBackup
               \/ StartReplacement \/ BackupFails
ReplacePhase == ReplaceFile \/ Replaced \/ SettleReplacement \/ ReplaceFails
                \/ Readback \/ Verified \/ Finish \/ FinishFails
RollbackPhase == RollbackFile \/ SettleRollback \/ RollbackReadback \/ RolledBack
PrunePhase == SelectDoomed \/ PruneJournal \/ PruneManifest \/ PruneObject
              \/ Pruned \/ PruneFails
RecoveryPhase == RecoverJournal \/ Recovered \/ RecoverFile \/ RecoverCommit
                 \/ SettleRecovery \/ RecoverReadback \/ RecoverFinish

(* What the optimizer does by itself once it has been started *)
Work == Check \/ Checked \/ BackupPhase \/ ReplacePhase \/ RollbackPhase
        \/ PrunePhase \/ RecoveryPhase

User == Preview \/ Restore \/ Standalone \/ Apply \/ Start \/ Quit

Environment == Crash \/ \E f \in Files, bytes \in Bytes : Edit(f, bytes)

Next == Work \/ User \/ Environment

Spec == Init /\ [][Next]_vars /\ WF_vars(Work)

-----------------------------------------------------------------------------
(* Correctness *)

(* A file that still holds the proposed bytes of a change that neither      *)
(* succeeded nor was undone is owed to a pending journal: whatever crash or *)
(* I/O failure came between (apply_preview, rollback_written_files).  A     *)
(* file whose captured bytes another program held is given up, and after a  *)
(* change on top of an unsettled one nothing is promised.                   *)
DebtRecorded ==
    overlapped \/ \A f \in Files : \A b \in debt[f] : file[f] = b.desired[f] => Pending(b)

(* prune_verified keeps the backup that was just made, restorable *)
LatestBackupKept == pc = "prune_manifest" => Verifies(tx)

(* Whatever a change has written can be undone: it is on record as long as   *)
(* it is neither finished nor undone, and its backup survives the pruning.   *)
ChangeCanBeUndone == DebtRecorded /\ LatestBackupKept

(* Every journal can be acted upon: its manifest is there, and every        *)
(* manifest has its blobs (order of writes in BackupStore::create and of    *)
(* removals in prune_verified).                                             *)
BackupChain ==
    /\ DOMAIN journals \subseteq DOMAIN manifests
    /\ \A b \in DOMAIN manifests : \A f \in Files : b.original[f] \in objects

(* While the UI is idle a change that recovery still has to settle is shown *)
(* by the recovery banner (ErrorCode::recovery_required, Application::start). *)
PendingIsVisible == pc = "idle" /\ (\E b \in DOMAIN journals : Pending(b))
                    => recoveryRequired

(* An edit of another program is never destroyed by a transaction or its    *)
(* recovery: it is in the file, in a captured sibling or in a backup blob   *)
(* (atomic_replace_utf8_if_unchanged, recover_transactions), as long as no  *)
(* change was requested on top of an unsettled one.                         *)
EditSurvives ==
    overlapped \/ \A f \in Files : edit[f] # NoBytes =>
        \/ edit[f] = file[f]
        \/ edit[f] \in siblings[f] \cup objects
        \/ pc \in SettleSteps /\ at = f /\ edit[f] = captured

(* What a file holds once recovery has settled the journals: an unverified  *)
(* change counts as not made (the replacement_started case of recovery).   *)
Unsettled(f) == {b \in DOMAIN journals :
                    journals[b] = "replacement_started" /\ file[f] = b.desired[f]}

Settled(f) == IF Unsettled(f) = {} THEN file[f]
              ELSE (CHOOSE b \in Unsettled(f) : TRUE).original[f]

(* The files that others touched, or all of them once changes have overlapped *)
Competing == IF overlapped THEN Files ELSE touched

(* The transaction, its rollback and its recovery implement the all-or-     *)
(* nothing change of AtomicConfig for the files nobody else touches, up to  *)
(* a change that is requested on top of an unsettled one.                   *)
Atomic == INSTANCE AtomicConfig
             WITH contents <- [f \in Files |-> Settled(f)],
                  target <- IF tx = NoBackup THEN CHOOSE c \in Contents : TRUE
                            ELSE tx.desired,
                  touched <- Competing
AllOrNothing == Atomic!Spec
=============================================================================
