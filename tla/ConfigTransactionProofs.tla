------------------------ MODULE ConfigTransactionProofs ------------------------
(***************************************************************************)
(* Theorems about the protected configuration transaction, for any number  *)
(* of files, any set of contents and any bound on edits, faults and         *)
(* crashes.                                                                 *)
(***************************************************************************)
EXTENDS ConfigTransaction, FiniteSetTheorems, TLAPS

(* Steps at which tx, at and captured hold a value that is about to be used *)
TxSteps == Steps \ {"off", "idle", "recover"}
ForwardSteps == {"ready", "check", "objects", "replace", "readback", "recover_file"}
OnFileSteps == SettleSteps \cup {"rollback_readback", "recover_commit",
                                 "recover_readback"}

Position ==
    /\ pc \in TxSteps => tx \in BackupIds
    /\ pc \in ForwardSteps => at >= 1
    /\ pc \in OnFileSteps => at \in Files
    /\ pc = "rollback" => at <= NumFiles
    /\ pc \in SettleSteps => captured \in Bytes

TypeInv == TypeOK /\ Position

-----------------------------------------------------------------------------
(* What a backup id, a replacement and its settling are made of *)

LEMMA BackupIdType ==
    ASSUME NEW original \in Contents, NEW desired \in Contents
    PROVE  [original |-> original, desired |-> desired] \in BackupIds
  BY DEF BackupIds

LEMMA BackupBytes ==
    ASSUME NEW id \in BackupIds, NEW f \in Files
    PROVE  id.original[f] \in Bytes /\ id.desired[f] \in Bytes
  BY DEF BackupIds, Contents

LEMMA BeginType ==
    ASSUME TypeInv, NEW kind \in {"apply", "restore", "backup"},
           NEW original \in Contents, NEW desired \in Contents,
           NEW step \in {"ready", "check", "objects"},
           Begin(kind, original, desired, step)
    PROVE  TypeInv'
  <1>. USE ConstantsAssumption DEF TypeInv, TypeOK, Steps, BackupSteps, Goto
  <1>1. tx' \in BackupIds
    BY BackupIdType DEF Begin
  <1>2. /\ at' = 1 /\ at' \in 0..(NumFiles + 1)
        /\ pc' \in {"ready", "check", "objects"} /\ pc' \in Steps
        /\ mode' \in {"apply", "restore", "backup"}
    BY DEF Begin
  <1>3. /\ written' = {} /\ rollbackFailed' = FALSE /\ visited' = {} /\ doomed' = {}
        /\ UNCHANGED <<captured, recoveryRequired>>
    BY DEF Begin
  <1>4. ProcessOK'
    BY <1>1, <1>2, <1>3 DEF ProcessOK
  <1>5. Position'
    BY <1>1, <1>2 DEF Position, OnFileSteps, SettleSteps
  <1>6. overlapped' \in BOOLEAN
    BY Zenon DEF Begin
  <1>7. DiskOK' /\ ObservationOK'
    BY <1>6 DEF Begin, DiskOK, ObservationOK, disk, store, archive
  <1>. QED  BY <1>4, <1>5, <1>7

LEMMA CommitType ==
    ASSUME DiskOK, ObservationOK, at \in Files,
           NEW bytes \in Bytes, NEW owners \in SUBSET BackupIds,
           Commit(bytes, owners), UNCHANGED store
    PROVE  /\ DiskOK' /\ captured' \in Bytes
           /\ debt' \in [Files -> SUBSET BackupIds]
  <1>1. captured' \in Bytes
    BY DEF DiskOK, Commit, Contents
  <1>2. file' \in Contents
    BY DEF DiskOK, Commit, Contents
  <1>3. debt' \in [Files -> SUBSET BackupIds]
    BY DEF ObservationOK, Commit
  <1>4. DiskOK'
    BY <1>2 DEF DiskOK, Commit, store, archive
  <1>. QED  BY <1>1, <1>3, <1>4

LEMMA SettleType ==
    ASSUME DiskOK, ObservationOK, at \in Files, captured \in Bytes,
           NEW expected, NEW owners \in SUBSET BackupIds,
           SettleSucceeds(expected) \/ SettleFails(expected, owners), UNCHANGED store
    PROVE  /\ DiskOK' /\ captured' = NoBytes
           /\ debt' \in [Files -> SUBSET BackupIds]
           /\ faults' \in Nat /\ touched' \subseteq Files
  <1>1. CASE Accept /\ NoFault
    BY <1>1 DEF Accept, NoFault, DiskOK, ObservationOK, store, archive
  <1>2. CASE Undo(owners) /\ (Fault \/ NoFault)
    <2>1. file' \in Contents
      BY <1>2 DEF Undo, DiskOK, Contents
    <2>2. debt' \in [Files -> SUBSET BackupIds]
      BY <1>2 DEF Undo, ObservationOK
    <2>3. faults' \in Nat
      BY <1>2 DEF Fault, NoFault, ObservationOK
    <2>4. DiskOK' /\ captured' = NoBytes
      BY <1>2, <2>1 DEF Undo, DiskOK, store, archive
    <2>5. touched' \subseteq Files
      BY <1>2 DEF Undo, ObservationOK
    <2>. QED  BY <2>2, <2>3, <2>4, <2>5
  <1>3. CASE Abandon
    <2>1. siblings' \in [Files -> SUBSET Bytes]
      BY <1>3 DEF Abandon, DiskOK
    <2>2. faults' \in Nat /\ touched' \subseteq Files /\ captured' = NoBytes
      BY <1>3 DEF Abandon, Fault, ObservationOK
    <2>4. debt' \in [Files -> SUBSET BackupIds]
      BY <1>3 DEF Abandon, ObservationOK
    <2>3. DiskOK'
      BY <1>3, <2>1 DEF Abandon, DiskOK, store, archive
    <2>. QED  BY <2>2, <2>3, <2>4
  <1>. QED  BY <1>1, <1>2, <1>3 DEF SettleSucceeds, SettleFails

LEMMA JournalType ==
    ASSUME DiskOK, NEW id \in BackupIds, NEW state \in JournalStates,
           WriteJournal(id, state), UNCHANGED <<file, siblings, archive>>
    PROVE  DiskOK'
  <1>1. DOMAIN journals' = DOMAIN journals \cup {id}
    BY DEF WriteJournal
  <1>2. journals' \in [DOMAIN journals' -> JournalStates]
    BY <1>1 DEF WriteJournal, DiskOK
  <1>. QED  BY <1>1, <1>2 DEF DiskOK, archive

LEMMA OwingType ==
    ASSUME ObservationOK, at \in Files, tx \in BackupIds
    PROVE  Owing \in SUBSET BackupIds
  BY DEF Owing, ObservationOK

LEMMA WithoutType ==
    ASSUME NEW S, NEW T, NEW function \in [S -> T], NEW key
    PROVE  Without(function, key) \in [S \ {key} -> T]
  BY DEF Without

(* Where a settled replacement goes on *)
LEMMA SettleMoves ==
    ASSUME SettleReplacement
    PROVE  /\ UNCHANGED <<transactions, edits, crashes, tx, edit, overlapped>>
           /\ (pc' = "replace" /\ at' = at + 1) \/ (pc' = "rollback" /\ at' = NumFiles)
  BY DEF SettleReplacement, OtherCounts, Goto

-----------------------------------------------------------------------------
(* Type correctness: the program counter, the file index and the captured  *)
(* content fit each other at every step of every operation.                *)

LEMMA TypeStep == TypeInv /\ [Next]_vars => TypeInv'
<1>. SUFFICES ASSUME TypeInv, [Next]_vars PROVE TypeInv'
  OBVIOUS
<1>. USE ConstantsAssumption DEF TypeInv, TypeOK, Position, Goto, Return, Fault, NoFault,
     OtherCounts, Files, Steps, TxSteps, ForwardSteps, OnFileSteps, BackupSteps,
     ReplaceSteps, RollbackSteps,
     RecoverySteps, PruneSteps, SettleSteps,
     vars, disk, store, archive, config, plan, progress, memory, ghosts, counts
<1>1. CASE Preview
  BY <1>1, BeginType DEF Preview, DiskOK
<1>2. CASE Restore
  BY <1>2, BeginType DEF Restore, Verifies, BackupIds, DiskOK
<1>3. CASE Standalone
  BY <1>3, BeginType DEF Standalone, DiskOK
<1>4. CASE Apply
  BY <1>4 DEF Apply, DiskOK, ProcessOK, ObservationOK
<1>5. CASE Start
  <2>1. 0 \in 0..(NumFiles + 1)
    OBVIOUS
  <2>2. DiskOK' /\ ObservationOK'
    BY <1>5 DEF Start, DiskOK, ObservationOK
  <2>3. ProcessOK' /\ Position'
    BY <1>5, <2>1 DEF Start, ProcessOK
  <2>. QED  BY <2>2, <2>3
<1>6. CASE Quit
  BY <1>6 DEF Quit, DiskOK, ProcessOK, ObservationOK
<1>7. CASE Crash
  <2>1. DiskOK'
    <3>1. siblings' \in [Files -> SUBSET Bytes]
      BY <1>7 DEF Crash, DiskOK, ProcessOK
    <3>. QED  BY <1>7, <3>1 DEF Crash, DiskOK
  <2>2. ProcessOK'
    BY <1>7 DEF Crash, ProcessOK
  <2>3. ObservationOK'
    BY <1>7 DEF Crash, ObservationOK
  <2>4. Position'
    BY <1>7 DEF Crash, DiskOK, ProcessOK
  <2>. QED  BY <2>1, <2>2, <2>3, <2>4
<1>8. CASE Check
  <2>1. DiskOK'
    BY <1>8 DEF Check, DiskOK
  <2>2. ProcessOK' /\ Position'
    BY <1>8 DEF Check, ProcessOK
  <2>3. ObservationOK'
    BY <1>8 DEF Check, ObservationOK
  <2>. QED  BY <2>1, <2>2, <2>3
<1>9. CASE Checked
  BY <1>9 DEF Checked, DiskOK, ProcessOK, ObservationOK
<1>10. CASE StoreObject
  <2>1. DiskOK'
    BY <1>10, BackupBytes DEF StoreObject, DiskOK, ProcessOK
  <2>2. ProcessOK'
    BY <1>10 DEF StoreObject, ProcessOK
  <2>3. ObservationOK'
    BY <1>10 DEF StoreObject, ObservationOK
  <2>4. Position'
    BY <1>10 DEF StoreObject, DiskOK, ProcessOK
  <2>. QED  BY <2>1, <2>2, <2>3, <2>4
<1>11. CASE StoreManifest
  <2>1. DiskOK'
    <3>1. DOMAIN manifests' = DOMAIN manifests \cup {tx}
      BY <1>11 DEF StoreManifest
    <3>2. manifests' \in [DOMAIN manifests' -> Nat]
      BY <1>11, <3>1 DEF StoreManifest, DiskOK, ObservationOK
    <3>. QED  BY <1>11, <3>1, <3>2 DEF StoreManifest, DiskOK
  <2>2. ProcessOK'
    BY <1>11 DEF StoreManifest, ProcessOK
  <2>3. ObservationOK'
    BY <1>11 DEF StoreManifest, ObservationOK
  <2>4. Position'
    BY <1>11 DEF StoreManifest, DiskOK, ProcessOK
  <2>. QED  BY <2>1, <2>2, <2>3, <2>4
<1>12. CASE StoreJournal
  <2>1. DiskOK'
    <3>1. tx \in BackupIds
      BY <1>12 DEF StoreJournal
    <3>. QED  BY <1>12, <3>1, JournalType DEF StoreJournal, JournalStates
  <2>2. ProcessOK'
    BY <1>12 DEF StoreJournal, ProcessOK
  <2>3. ObservationOK'
    BY <1>12 DEF StoreJournal, ObservationOK
  <2>4. Position'
    BY <1>12 DEF StoreJournal, DiskOK, ProcessOK
  <2>. QED  BY <2>1, <2>2, <2>3, <2>4
<1>13. CASE VerifyBackup
  BY <1>13 DEF VerifyBackup, DiskOK, ProcessOK, ObservationOK
<1>14. CASE StartReplacement
  <2>1. DiskOK'
    <3>1. tx \in BackupIds
      BY <1>14 DEF Entry, StartReplacement
    <3>. QED  BY <1>14, <3>1, JournalType DEF Entry, StartReplacement, JournalStates
  <2>2. ProcessOK'
    BY <1>14 DEF Entry, StartReplacement, ProcessOK
  <2>3. ObservationOK'
    BY <1>14 DEF Entry, StartReplacement, ObservationOK
  <2>4. Position'
    BY <1>14 DEF Entry, StartReplacement, DiskOK, ProcessOK
  <2>. QED  BY <2>1, <2>2, <2>3, <2>4
<1>15. CASE BackupFails
  BY <1>15 DEF BackupFails, DiskOK, ProcessOK, ObservationOK
<1>16. CASE ReplaceFile
  <2>5. at \in Files /\ tx \in BackupIds
    BY <1>16 DEF ReplaceFile, ProcessOK
  <2>6. tx.original[at] \in Bytes /\ tx.desired[at] \in Bytes
    BY <2>5, BackupBytes
  <2>7. \/ UNCHANGED <<config, store>>
        \/ Commit(tx.desired[at], debt[at] \cup {tx}) /\ UNCHANGED store
    BY <1>16 DEF ReplaceFile
  <2>8. debt[at] \cup {tx} \in SUBSET BackupIds
    BY <2>5 DEF ObservationOK
  <2>9. /\ DiskOK' /\ captured' \in Bytes \cup {NoBytes}
        /\ debt' \in [Files -> SUBSET BackupIds]
    <3>1. CASE UNCHANGED <<config, store>>
      BY <3>1 DEF DiskOK, ProcessOK, ObservationOK
    <3>2. CASE Commit(tx.desired[at], debt[at] \cup {tx}) /\ UNCHANGED store
      BY <1>16, <2>5, <2>6, <2>8, <3>2, CommitType DEF ReplaceFile
    <3>. QED  BY <2>7, <3>1, <3>2
  <2>10. Commit(tx.desired[at], debt[at] \cup {tx}) => captured' \in Bytes
    BY <2>5 DEF Commit, DiskOK, Contents
  <2>1. DiskOK'
    BY <2>9
  <2>2. ProcessOK'
    BY <1>16, <2>9, <2>5 DEF ReplaceFile, ProcessOK
  <2>3. ObservationOK'
    BY <1>16, <2>9 DEF ReplaceFile, ObservationOK
  <2>4. Position'
    BY <1>16, <2>5, <2>9, <2>10 DEF ReplaceFile, ProcessOK
  <2>. QED  BY <2>1, <2>2, <2>3, <2>4
<1>17. CASE Replaced
  BY <1>17 DEF Replaced, DiskOK, ProcessOK, ObservationOK
<1>18. CASE SettleReplacement
  <2>5. at \in Files /\ tx \in BackupIds
    BY <1>18 DEF SettleReplacement, ProcessOK
  <2>6. tx.original[at] \in Bytes /\ tx.desired[at] \in Bytes
    BY <2>5, BackupBytes
  <2>7. SettleSucceeds(tx.original[at]) \/ SettleFails(tx.original[at], debt[at] \ {tx})
    BY <1>18 DEF SettleReplacement
  <2>8. debt[at] \ {tx} \in SUBSET BackupIds
    BY <2>5 DEF ObservationOK
  <2>9. /\ DiskOK' /\ captured' = NoBytes /\ faults' \in Nat /\ touched' \subseteq Files
        /\ debt' \in [Files -> SUBSET BackupIds]
    BY <1>18, <2>5, <2>7, <2>8, SettleType DEF SettleReplacement
  <2>1. DiskOK'
    BY <2>9
  <2>2. ProcessOK'
    <3>1. at' \in {at + 1, NumFiles} /\ written' \in {written, written \cup {at}}
      BY <1>18 DEF SettleReplacement
    <3>3. at' \in 0..(NumFiles + 1) /\ written' \subseteq Files
      BY <3>1, <2>5 DEF ProcessOK
    <3>2. /\ pc' \in Steps
          /\ UNCHANGED <<mode, tx, rollbackFailed, visited, doomed, recoveryRequired>>
      BY <1>18 DEF SettleReplacement
    <3>. QED  BY <2>9, <3>3, <3>2 DEF ProcessOK
  <2>10. /\ UNCHANGED <<transactions, edits, crashes, tx, edit, overlapped>>
         /\ (pc' = "replace" /\ at' = at + 1) \/ (pc' = "rollback" /\ at' = NumFiles)
    BY <1>18, SettleMoves, Zenon
  <2>3. ObservationOK'
    BY <2>9, <2>10 DEF ObservationOK
  <2>4. Position'
    BY <2>5, <2>10
  <2>. QED  BY <2>1, <2>2, <2>3, <2>4
<1>19. CASE ReplaceFails
  <2>1. DiskOK'
    BY <1>19 DEF ReplaceFails, DiskOK
  <2>2. ProcessOK' /\ Position'
    BY <1>19 DEF ReplaceFails, ProcessOK
  <2>3. ObservationOK'
    BY <1>19 DEF ReplaceFails, ObservationOK
  <2>. QED  BY <2>1, <2>2, <2>3
<1>20. CASE Readback
  <2>1. DiskOK' /\ ObservationOK'
    BY <1>20 DEF Readback, DiskOK, ObservationOK
  <2>2. ProcessOK' /\ Position'
    BY <1>20 DEF Readback, ProcessOK
  <2>. QED  BY <2>1, <2>2
<1>21. CASE Verified
  <2>1. DiskOK'
    <3>1. tx \in BackupIds
      BY <1>21 DEF Verified
    <3>2. CASE UNCHANGED journals
      BY <1>21, <3>2 DEF Verified, DiskOK
    <3>3. CASE WriteJournal(tx, "verification_complete")
      BY <1>21, <3>1, <3>3, JournalType DEF Verified, JournalStates
    <3>. QED  BY <1>21, <3>2, <3>3 DEF Verified
  <2>2. ProcessOK'
    BY <1>21 DEF Verified, ProcessOK
  <2>3. ObservationOK'
    BY <1>21 DEF Verified, ObservationOK
  <2>4. Position'
    BY <1>21 DEF Verified, DiskOK, ProcessOK
  <2>. QED  BY <2>1, <2>2, <2>3, <2>4
<1>22. CASE Finish
  <2>1. DiskOK'
    <3>1. tx \in BackupIds
      BY <1>22 DEF Finish
    <3>. QED  BY <1>22, <3>1, JournalType DEF Finish, JournalStates
  <2>2. ProcessOK'
    BY <1>22 DEF Finish, ProcessOK
  <2>3. ObservationOK'
    BY <1>22 DEF Finish, ObservationOK
  <2>4. Position'
    BY <1>22 DEF Finish, DiskOK, ProcessOK
  <2>. QED  BY <2>1, <2>2, <2>3, <2>4
<1>23. CASE FinishFails
  BY <1>23 DEF FinishFails, DiskOK, ProcessOK, ObservationOK
<1>24. CASE RollbackFile
  <2>5. at \in Files /\ tx \in BackupIds
    BY <1>24 DEF RollbackFile, ProcessOK
  <2>6. tx.original[at] \in Bytes /\ tx.desired[at] \in Bytes
    BY <2>5, BackupBytes
  <2>7. \/ UNCHANGED <<config, store>>
        \/ Commit(tx.original[at], debt[at] \ {tx}) /\ UNCHANGED store
    BY <1>24 DEF RollbackFile
  <2>8. debt[at] \ {tx} \in SUBSET BackupIds
    BY <2>5 DEF ObservationOK
  <2>9. /\ DiskOK' /\ captured' \in Bytes \cup {NoBytes}
        /\ debt' \in [Files -> SUBSET BackupIds]
    <3>1. CASE UNCHANGED <<config, store>>
      BY <3>1 DEF DiskOK, ProcessOK, ObservationOK
    <3>2. CASE Commit(tx.original[at], debt[at] \ {tx}) /\ UNCHANGED store
      BY <1>24, <2>5, <2>6, <2>8, <3>2, CommitType DEF RollbackFile
    <3>. QED  BY <2>7, <3>1, <3>2
  <2>10. Commit(tx.original[at], debt[at] \ {tx}) => captured' \in Bytes
    BY <2>5 DEF Commit, DiskOK, Contents
  <2>1. DiskOK'
    BY <2>9
  <2>2. ProcessOK'
    BY <1>24, <2>9, <2>5 DEF RollbackFile, ProcessOK
  <2>3. ObservationOK'
    BY <1>24, <2>9 DEF RollbackFile, ObservationOK
  <2>4. Position'
    BY <1>24, <2>5, <2>9, <2>10 DEF RollbackFile, ProcessOK
  <2>. QED  BY <2>1, <2>2, <2>3, <2>4
<1>25. CASE SettleRollback
  <2>5. at \in Files /\ tx \in BackupIds
    BY <1>25 DEF SettleRollback, ProcessOK
  <2>6. tx.original[at] \in Bytes /\ tx.desired[at] \in Bytes
    BY <2>5, BackupBytes
  <2>7. SettleSucceeds(tx.desired[at]) \/ SettleFails(tx.desired[at], Owing)
    BY <1>25 DEF SettleRollback
  <2>8. Owing \in SUBSET BackupIds
    BY <2>5, OwingType
  <2>9. /\ DiskOK' /\ captured' = NoBytes /\ faults' \in Nat /\ touched' \subseteq Files
        /\ debt' \in [Files -> SUBSET BackupIds]
    BY <1>25, <2>5, <2>7, <2>8, SettleType DEF SettleRollback
  <2>1. DiskOK'
    BY <2>9
  <2>2. ProcessOK'
    BY <1>25, <2>9, <2>5 DEF SettleRollback, ProcessOK
  <2>3. ObservationOK'
    BY <1>25, <2>9 DEF SettleRollback, ObservationOK
  <2>4. Position'
    BY <1>25, <2>5, <2>9 DEF SettleRollback, ProcessOK
  <2>. QED  BY <2>1, <2>2, <2>3, <2>4
<1>26. CASE RollbackReadback
  <2>1. DiskOK'
    BY <1>26 DEF RollbackReadback, DiskOK
  <2>2. ProcessOK'
    <3>1. at \in 1..NumFiles /\ at - 1 \in 0..(NumFiles + 1)
      BY <1>26 DEF RollbackReadback
    <3>. QED  BY <1>26, <3>1 DEF RollbackReadback, ProcessOK
  <2>3. ObservationOK'
    BY <1>26 DEF RollbackReadback, ObservationOK
  <2>4. Position'
    BY <1>26 DEF RollbackReadback, DiskOK, ProcessOK
  <2>. QED  BY <2>1, <2>2, <2>3, <2>4
<1>27. CASE RolledBack
  <2>1. DiskOK'
    <3>1. tx \in BackupIds
      BY <1>27 DEF RolledBack
    <3>2. CASE UNCHANGED journals
      BY <1>27, <3>2 DEF RolledBack, DiskOK
    <3>3. CASE WriteJournal(tx, "complete")
      BY <1>27, <3>1, <3>3, JournalType DEF RolledBack, JournalStates
    <3>. QED  BY <1>27, <3>2, <3>3 DEF RolledBack
  <2>2. ProcessOK'
    BY <1>27 DEF RolledBack, ProcessOK
  <2>3. ObservationOK'
    BY <1>27 DEF RolledBack, ObservationOK
  <2>4. Position'
    BY <1>27 DEF RolledBack, DiskOK, ProcessOK
  <2>. QED  BY <2>1, <2>2, <2>3, <2>4
<1>28. CASE SelectDoomed
  <2>1. DiskOK'
    BY <1>28 DEF SelectDoomed, DiskOK
  <2>2. ProcessOK'
    BY <1>28 DEF SelectDoomed, DiskOK, ProcessOK
  <2>3. ObservationOK'
    BY <1>28 DEF SelectDoomed, ObservationOK
  <2>4. Position'
    BY <1>28 DEF SelectDoomed, DiskOK, ProcessOK
  <2>. QED  BY <2>1, <2>2, <2>3, <2>4
<1>29. CASE PruneJournal
  <2>1. DiskOK'
    <3>1. PICK b : journals' = Without(journals, b)
      BY <1>29 DEF PruneJournal
    <3>2. journals' \in [DOMAIN journals \ {b} -> JournalStates]
      BY <3>1, WithoutType DEF DiskOK
    <3>. QED  BY <1>29, <3>2 DEF PruneJournal, DiskOK
  <2>2. ProcessOK'
    BY <1>29 DEF PruneJournal, ProcessOK
  <2>3. ObservationOK'
    BY <1>29 DEF PruneJournal, ObservationOK
  <2>4. Position'
    BY <1>29 DEF PruneJournal, DiskOK, ProcessOK
  <2>. QED  BY <2>1, <2>2, <2>3, <2>4
<1>30. CASE PruneManifest
  <2>1. DiskOK'
    <3>1. PICK b : manifests' = Without(manifests, b)
      BY <1>30 DEF PruneManifest
    <3>2. manifests' \in [DOMAIN manifests \ {b} -> Nat]
      BY <3>1, WithoutType DEF DiskOK
    <3>. QED  BY <1>30, <3>2 DEF PruneManifest, DiskOK
  <2>2. ProcessOK'
    BY <1>30 DEF PruneManifest, ProcessOK
  <2>3. ObservationOK'
    BY <1>30 DEF PruneManifest, ObservationOK
  <2>4. Position'
    BY <1>30 DEF PruneManifest, DiskOK, ProcessOK
  <2>. QED  BY <2>1, <2>2, <2>3, <2>4
<1>31. CASE PruneObject
  BY <1>31 DEF PruneObject, DiskOK, ProcessOK, ObservationOK
<1>32. CASE Pruned
  BY <1>32 DEF Pruned, DiskOK, ProcessOK, ObservationOK
<1>33. CASE PruneFails
  BY <1>33 DEF PruneFails, DiskOK, ProcessOK, ObservationOK
<1>34. CASE RecoverJournal
  <2>1. DiskOK'
    <3>1. PICK id \in BackupIds : UNCHANGED journals \/ WriteJournal(id, "complete")
      BY <1>34 DEF RecoverJournal, Unvisited, DiskOK
    <3>2. CASE UNCHANGED journals
      BY <1>34, <3>2 DEF RecoverJournal, DiskOK
    <3>3. CASE WriteJournal(id, "complete")
      BY <1>34, <3>1, <3>3, JournalType DEF RecoverJournal, JournalStates
    <3>. QED  BY <3>1, <3>2, <3>3
  <2>2. ProcessOK'
    <3>1. tx' \in BackupIds /\ visited' \subseteq BackupIds
      BY <1>34 DEF RecoverJournal, RecoveryFails, Unvisited, DiskOK, ProcessOK
    <3>2. at' \in 0..(NumFiles + 1)
      BY <1>34 DEF RecoverJournal, RecoveryFails, ProcessOK
    <3>3. pc' \in Steps /\ recoveryRequired' \in BOOLEAN
      BY <1>34 DEF RecoverJournal, RecoveryFails, ProcessOK
    <3>. QED  BY <1>34, <3>1, <3>2, <3>3 DEF RecoverJournal, ProcessOK
  <2>3. ObservationOK'
    BY <1>34 DEF RecoverJournal, RecoveryFails, Unvisited, ObservationOK
  <2>4. Position'
    BY <1>34 DEF RecoverJournal, RecoveryFails, Unvisited, DiskOK, ProcessOK
  <2>. QED  BY <2>1, <2>2, <2>3, <2>4
<1>35. CASE Recovered
  BY <1>35 DEF Recovered, DiskOK, ProcessOK, ObservationOK
<1>36. CASE RecoverFile
  <2>1. DiskOK'
    BY <1>36 DEF RecoverFile, RecoveryFails, DiskOK
  <2>2. ProcessOK'
    <3>1. at' \in 0..(NumFiles + 1)
      BY <1>36 DEF RecoverFile, RecoveryFails, ProcessOK
    <3>2. pc' \in Steps /\ recoveryRequired' \in BOOLEAN
      BY <1>36 DEF RecoverFile, RecoveryFails, ProcessOK
    <3>. QED  BY <1>36, <3>1, <3>2 DEF RecoverFile, RecoveryFails, ProcessOK
  <2>3. ObservationOK'
    BY <1>36 DEF RecoverFile, RecoveryFails, ObservationOK
  <2>4. Position'
    BY <1>36 DEF RecoverFile, RecoveryFails, DiskOK, ProcessOK
  <2>. QED  BY <2>1, <2>2, <2>3, <2>4
<1>37. CASE RecoverCommit
  <2>5. at \in Files /\ tx \in BackupIds
    BY <1>37 DEF RecoverCommit, ProcessOK
  <2>6. tx.original[at] \in Bytes /\ tx.desired[at] \in Bytes
    BY <2>5, BackupBytes
  <2>7. \/ UNCHANGED <<config, store>>
        \/ Commit(tx.original[at], debt[at] \ {tx}) /\ UNCHANGED store
    BY <1>37 DEF RecoverCommit, RecoveryFails
  <2>8. debt[at] \ {tx} \in SUBSET BackupIds
    BY <2>5 DEF ObservationOK
  <2>9. /\ DiskOK' /\ captured' \in Bytes \cup {NoBytes}
        /\ debt' \in [Files -> SUBSET BackupIds]
    <3>1. CASE UNCHANGED <<config, store>>
      BY <3>1 DEF DiskOK, ProcessOK, ObservationOK
    <3>2. CASE Commit(tx.original[at], debt[at] \ {tx}) /\ UNCHANGED store
      BY <1>37, <2>5, <2>6, <2>8, <3>2, CommitType DEF RecoverCommit
    <3>. QED  BY <2>7, <3>1, <3>2
  <2>10. Commit(tx.original[at], debt[at] \ {tx}) => captured' \in Bytes
    BY <2>5 DEF Commit, DiskOK, Contents
  <2>1. DiskOK'
    BY <2>9
  <2>2. ProcessOK'
    BY <1>37, <2>9, <2>5 DEF RecoverCommit, RecoveryFails, ProcessOK
  <2>3. ObservationOK'
    BY <1>37, <2>9 DEF RecoverCommit, RecoveryFails, ObservationOK
  <2>4. Position'
    BY <1>37, <2>5, <2>9, <2>10 DEF RecoverCommit, RecoveryFails, ProcessOK
  <2>. QED  BY <2>1, <2>2, <2>3, <2>4
<1>38. CASE SettleRecovery
  <2>5. at \in Files /\ tx \in BackupIds
    BY <1>38 DEF SettleRecovery, ProcessOK
  <2>6. tx.original[at] \in Bytes /\ tx.desired[at] \in Bytes
    BY <2>5, BackupBytes
  <2>7. SettleSucceeds(tx.desired[at]) \/ SettleFails(tx.desired[at], Owing)
    BY <1>38 DEF SettleRecovery, RecoveryFails
  <2>8. Owing \in SUBSET BackupIds
    BY <2>5, OwingType
  <2>9. /\ DiskOK' /\ captured' = NoBytes /\ faults' \in Nat /\ touched' \subseteq Files
        /\ debt' \in [Files -> SUBSET BackupIds]
    BY <1>38, <2>5, <2>7, <2>8, SettleType DEF SettleRecovery
  <2>1. DiskOK'
    BY <2>9
  <2>2. ProcessOK'
    BY <1>38, <2>9, <2>5 DEF SettleRecovery, RecoveryFails, ProcessOK
  <2>3. ObservationOK'
    BY <1>38, <2>9 DEF SettleRecovery, RecoveryFails, ObservationOK
  <2>4. Position'
    BY <1>38, <2>5, <2>9 DEF SettleRecovery, RecoveryFails, ProcessOK
  <2>. QED  BY <2>1, <2>2, <2>3, <2>4
<1>39. CASE RecoverReadback
  <2>1. DiskOK'
    BY <1>39 DEF RecoverReadback, RecoveryFails, DiskOK
  <2>2. ProcessOK'
    <3>1. at' \in 0..(NumFiles + 1)
      BY <1>39 DEF RecoverReadback, RecoveryFails, ProcessOK
    <3>2. pc' \in Steps /\ recoveryRequired' \in BOOLEAN
      BY <1>39 DEF RecoverReadback, RecoveryFails, ProcessOK
    <3>. QED  BY <1>39, <3>1, <3>2 DEF RecoverReadback, RecoveryFails, ProcessOK
  <2>3. ObservationOK'
    BY <1>39 DEF RecoverReadback, RecoveryFails, ObservationOK
  <2>4. Position'
    BY <1>39 DEF RecoverReadback, RecoveryFails, DiskOK, ProcessOK
  <2>. QED  BY <2>1, <2>2, <2>3, <2>4
<1>40. CASE RecoverFinish
  <2>1. DiskOK'
    <3>1. tx \in BackupIds
      BY <1>40 DEF RecoverFinish
    <3>2. CASE UNCHANGED journals
      BY <1>40, <3>2 DEF RecoverFinish, RecoveryFails, DiskOK
    <3>3. CASE WriteJournal(tx, "complete")
      BY <1>40, <3>1, <3>3, JournalType DEF RecoverFinish, RecoveryFails, JournalStates
    <3>. QED  BY <1>40, <3>2, <3>3 DEF RecoverFinish, RecoveryFails
  <2>2. ProcessOK'
    BY <1>40 DEF RecoverFinish, RecoveryFails, ProcessOK
  <2>3. ObservationOK'
    BY <1>40 DEF RecoverFinish, RecoveryFails, ObservationOK
  <2>4. Position'
    BY <1>40 DEF RecoverFinish, RecoveryFails, DiskOK, ProcessOK
  <2>. QED  BY <2>1, <2>2, <2>3, <2>4
<1>41. CASE \E f \in Files, bytes \in Bytes : Edit(f, bytes)
  <2>1. PICK f \in Files, bytes \in Bytes : Edit(f, bytes)
    BY <1>41
  <2>2. file' \in Contents
    BY <2>1 DEF Edit, DiskOK, Contents
  <2>3. debt' \in [Files -> SUBSET BackupIds] /\ edit' \in [Files -> Bytes \cup {NoBytes}]
    BY <2>1 DEF Edit, ObservationOK
  <2>4. DiskOK'
    BY <2>1, <2>2 DEF Edit, DiskOK
  <2>5. ProcessOK' /\ Position'
    BY <2>1 DEF Edit, ProcessOK
  <2>6. ObservationOK'
    BY <2>1, <2>3 DEF Edit, ObservationOK
  <2>. QED  BY <2>4, <2>5, <2>6
<1>42. CASE UNCHANGED vars
  BY <1>42 DEF DiskOK, ProcessOK, ObservationOK
<1>. QED
  BY <1>1, <1>2, <1>3, <1>4, <1>5, <1>6, <1>7, <1>8, <1>9, <1>10, <1>11, <1>12,
     <1>13, <1>14, <1>15, <1>16, <1>17, <1>18, <1>19, <1>20, <1>21, <1>22,
     <1>23, <1>24, <1>25, <1>26, <1>27, <1>28, <1>29, <1>30, <1>31, <1>32,
     <1>33, <1>34, <1>35, <1>36, <1>37, <1>38, <1>39, <1>40, <1>41, <1>42
     DEF Next, Work, User, Environment, BackupPhase, ReplacePhase, RollbackPhase,
         PrunePhase, RecoveryPhase

LEMMA TypeInit == Init => TypeInv
<1>. SUFFICES ASSUME Init PROVE TypeInv
  OBVIOUS
<1>1. DiskOK
  <2>1. DOMAIN manifests = {} /\ DOMAIN journals = {}
    BY DEF Init
  <2>. QED  BY <2>1 DEF Init, DiskOK
<1>2. ProcessOK
  <2>1. 0 \in 0..(NumFiles + 1)
    BY ConstantsAssumption
  <2>2. pc \in Steps
    BY DEF Init, Steps
  <2>. QED  BY <2>1, <2>2 DEF Init, ProcessOK
<1>3. ObservationOK
  BY DEF Init, ObservationOK
<1>4. Position
  BY DEF Init, Position, Steps, TxSteps, ForwardSteps, OnFileSteps, SettleSteps
<1>. QED  BY <1>1, <1>2, <1>3, <1>4 DEF TypeInv, TypeOK

LEMMA TypeInvariant == Spec => []TypeInv
<1>1. Init => TypeInv
  BY TypeInit
<1>2. TypeInv /\ [Next]_vars => TypeInv'
  BY TypeStep
<1>. QED  BY <1>1, <1>2, PTL DEF Spec

(* Every record, index and map of the transaction keeps its type, whatever *)
(* crashes, failing calls and edits come between its operations.           *)
THEOREM TypeCorrect == Spec => []TypeOK
  BY TypeInvariant, PTL DEF TypeInv

-----------------------------------------------------------------------------
(* The order of writes in the backup store *)

OnBackupSteps == {"journal", "verify", "start"} \cup ReplaceSteps \cup RollbackSteps
                 \cup (RecoverySteps \ {"recover"})

ChainInv ==
    /\ BackupChain
    /\ pc = "objects" => \A f \in Files : f < at => tx.original[f] \in objects
    /\ pc \in OnBackupSteps => tx \in DOMAIN manifests

LEMMA ChainStep == TypeInv /\ ChainInv /\ [Next]_vars => ChainInv'
<1>. SUFFICES ASSUME TypeInv, ChainInv, [Next]_vars PROVE ChainInv'
  OBVIOUS
<1>. USE DEF ChainInv, BackupChain, OnBackupSteps, Goto, Return, Steps, BackupSteps,
     ReplaceSteps, RollbackSteps,
     RecoverySteps, PruneSteps, SettleSteps,
     vars, disk, store, archive, config, plan, progress, memory, ghosts, counts
<1>1. CASE Preview
  BY <1>1 DEF Preview, Begin
<1>2. CASE Restore
  BY <1>2 DEF Restore, Begin
<1>3. CASE Standalone
  BY <1>3 DEF Standalone, Begin, Files
<1>4. CASE Apply
  BY <1>4 DEF Apply
<1>5. CASE Start
  BY <1>5 DEF Start
<1>6. CASE Quit
  BY <1>6 DEF Quit
<1>7. CASE Crash
  BY <1>7 DEF Crash
<1>8. CASE Check
  BY <1>8 DEF Check
<1>9. CASE Checked
  BY <1>9 DEF Checked, Files
<1>10. CASE StoreObject
  <2>1. BackupChain'
    BY <1>10 DEF StoreObject
  <2>2. at \in Nat
    BY <1>10, ConstantsAssumption DEF TypeInv, TypeOK, ProcessOK
  <2>3. \A f \in Files : f < at + 1 => f < at \/ f = at
    BY <2>2, ConstantsAssumption DEF Files
  <2>4. \A f \in Files : f < at' => tx'.original[f] \in objects'
    BY <1>10, <2>3 DEF StoreObject
  <2>. QED  BY <1>10, <2>1, <2>4 DEF StoreObject
<1>11. CASE StoreManifest
  <2>1. \A f \in Files : f < at
    BY <1>11, ConstantsAssumption DEF StoreManifest, TypeInv, TypeOK, ProcessOK, Files
  <2>2. \A f \in Files : tx.original[f] \in objects
    BY <1>11, <2>1 DEF StoreManifest
  <2>3. DOMAIN manifests' = DOMAIN manifests \cup {tx}
    BY <1>11 DEF StoreManifest
  <2>. QED  BY <1>11, <2>2, <2>3 DEF StoreManifest
<1>12. CASE StoreJournal
  BY <1>12 DEF StoreJournal, WriteJournal
<1>13. CASE VerifyBackup
  BY <1>13 DEF VerifyBackup
<1>14. CASE StartReplacement
  BY <1>14 DEF Entry, StartReplacement, WriteJournal
<1>15. CASE BackupFails
  BY <1>15 DEF BackupFails
<1>16. CASE ReplaceFile
  BY <1>16 DEF ReplaceFile
<1>17. CASE Replaced
  BY <1>17 DEF Replaced
<1>18. CASE SettleReplacement
  BY <1>18 DEF SettleReplacement
<1>19. CASE ReplaceFails
  BY <1>19 DEF ReplaceFails
<1>20. CASE Readback
  BY <1>20 DEF Readback
<1>21. CASE Verified
  BY <1>21 DEF Verified, WriteJournal
<1>22. CASE Finish
  BY <1>22 DEF Finish, WriteJournal
<1>23. CASE FinishFails
  BY <1>23 DEF FinishFails
<1>24. CASE RollbackFile
  BY <1>24 DEF RollbackFile
<1>25. CASE SettleRollback
  BY <1>25 DEF SettleRollback
<1>26. CASE RollbackReadback
  BY <1>26 DEF RollbackReadback
<1>27. CASE RolledBack
  BY <1>27 DEF RolledBack, WriteJournal
<1>28. CASE SelectDoomed
  BY <1>28 DEF SelectDoomed
<1>29. CASE PruneJournal
  BY <1>29 DEF PruneJournal, Without
<1>30. CASE PruneManifest
  BY <1>30 DEF PruneManifest, Without
<1>31. CASE PruneObject
  BY <1>31 DEF PruneObject, Referenced
<1>32. CASE Pruned
  BY <1>32 DEF Pruned
<1>33. CASE PruneFails
  BY <1>33 DEF PruneFails
<1>34. CASE RecoverJournal
  BY <1>34 DEF RecoverJournal, RecoveryFails, Unvisited, WriteJournal, Verifies
<1>35. CASE Recovered
  BY <1>35 DEF Recovered, Unvisited
<1>36. CASE RecoverFile
  BY <1>36 DEF RecoverFile, RecoveryFails
<1>37. CASE RecoverCommit
  BY <1>37 DEF RecoverCommit, RecoveryFails
<1>38. CASE SettleRecovery
  BY <1>38 DEF SettleRecovery, RecoveryFails
<1>39. CASE RecoverReadback
  BY <1>39 DEF RecoverReadback, RecoveryFails
<1>40. CASE RecoverFinish
  BY <1>40 DEF RecoverFinish, RecoveryFails, WriteJournal
<1>41. CASE \E f \in Files, bytes \in Bytes : Edit(f, bytes)
  BY <1>41 DEF Edit
<1>42. CASE UNCHANGED vars
  BY <1>42
<1>. QED
  BY <1>1, <1>2, <1>3, <1>4, <1>5, <1>6, <1>7, <1>8, <1>9, <1>10, <1>11, <1>12,
     <1>13, <1>14, <1>15, <1>16, <1>17, <1>18, <1>19, <1>20, <1>21, <1>22,
     <1>23, <1>24, <1>25, <1>26, <1>27, <1>28, <1>29, <1>30, <1>31, <1>32,
     <1>33, <1>34, <1>35, <1>36, <1>37, <1>38, <1>39, <1>40, <1>41, <1>42
     DEF Next, Work, User, Environment, BackupPhase, ReplacePhase, RollbackPhase,
         PrunePhase, RecoveryPhase

(* A journal always leads to a manifest and a manifest to its blobs: create *)
(* writes them in that order, prune_verified removes them in the opposite    *)
(* one, and every crash or failure in between leaves the chain closed.       *)
THEOREM BackupChainHolds == Spec => []BackupChain
<1>1. Init => ChainInv
  BY DEF Init, ChainInv, BackupChain, OnBackupSteps, ReplaceSteps, RollbackSteps,
         RecoverySteps
<1>2. TypeInv /\ ChainInv /\ [Next]_vars => ChainInv'
  BY ChainStep
<1>3. ChainInv => BackupChain
  BY DEF ChainInv
<1>. QED  BY <1>1, <1>2, <1>3, TypeInvariant, PTL DEF Spec

-----------------------------------------------------------------------------
(* The recovery banner *)

(* Outside recovery a pending journal is announced, or is that of the change *)
(* at hand; recovery is never done with a journal that is still pending.     *)
VisibleInv ==
    /\ pc \notin RecoverySteps \cup {"off"} =>
          \A b \in DOMAIN journals : Pending(b) =>
             recoveryRequired \/ (b = tx /\ pc \in ReplaceSteps \cup RollbackSteps)
    /\ pc \in RecoverySteps => \A b \in DOMAIN journals : Pending(b) => b \notin visited

LEMMA VisibleStep == VisibleInv /\ [Next]_vars => VisibleInv'
<1>. SUFFICES ASSUME VisibleInv, [Next]_vars PROVE VisibleInv'
  OBVIOUS
<1>. USE DEF VisibleInv, Pending, Goto, Return, Steps, BackupSteps, ReplaceSteps,
     RollbackSteps,
     RecoverySteps, PruneSteps, SettleSteps,
     vars, disk, store, archive, config, plan, progress, memory, ghosts, counts
<1>1. CASE Preview
  BY <1>1 DEF Preview, Begin
<1>2. CASE Restore
  BY <1>2 DEF Restore, Begin
<1>3. CASE Standalone
  BY <1>3 DEF Standalone, Begin
<1>4. CASE Apply
  <2>1. CASE Return(FALSE)
    BY <1>4, <2>1 DEF Apply
  <2>2. CASE ~Return(FALSE)
    BY <1>4, <2>2 DEF Apply
  <2>. QED  BY <2>1, <2>2
<1>5. CASE Start
  BY <1>5 DEF Start
<1>6. CASE Quit
  BY <1>6 DEF Quit
<1>7. CASE Crash
  BY <1>7 DEF Crash
<1>8. CASE Check
  <2>1. CASE Return(FALSE)
    BY <1>8, <2>1 DEF Check
  <2>2. CASE ~Return(FALSE)
    BY <1>8, <2>2 DEF Check
  <2>. QED  BY <2>1, <2>2
<1>9. CASE Checked
  BY <1>9 DEF Checked
<1>10. CASE StoreObject
  BY <1>10 DEF StoreObject
<1>11. CASE StoreManifest
  BY <1>11 DEF StoreManifest
<1>12. CASE StoreJournal
  BY <1>12 DEF StoreJournal, WriteJournal
<1>13. CASE VerifyBackup
  <2>1. CASE Return(FALSE)
    BY <1>13, <2>1 DEF VerifyBackup
  <2>2. CASE ~Return(FALSE)
    BY <1>13, <2>2 DEF VerifyBackup
  <2>. QED  BY <2>1, <2>2
<1>14. CASE StartReplacement
  BY <1>14 DEF Entry, StartReplacement, WriteJournal
<1>15. CASE BackupFails
  BY <1>15 DEF BackupFails
<1>16. CASE ReplaceFile
  BY <1>16 DEF ReplaceFile
<1>17. CASE Replaced
  BY <1>17 DEF Replaced
<1>18. CASE SettleReplacement
  BY <1>18 DEF SettleReplacement
<1>19. CASE ReplaceFails
  BY <1>19 DEF ReplaceFails
<1>20. CASE Readback
  BY <1>20 DEF Readback
<1>21. CASE Verified
  <2>1. CASE Return(TRUE) /\ UNCHANGED journals
    BY <1>21, <2>1 DEF Verified, WriteJournal
  <2>2. CASE WriteJournal(tx, "verification_complete") /\ Goto("finish")
    BY <1>21, <2>2 DEF Verified, WriteJournal
  <2>. QED  BY <1>21, <2>1, <2>2 DEF Verified
<1>22. CASE Finish
  <2>1. \A b \in DOMAIN journals' : Pending(b)' => recoveryRequired
    BY <1>22 DEF Finish, WriteJournal
  <2>2. recoveryRequired => recoveryRequired'
    BY <1>22 DEF Finish
  <2>3. pc' \in {"prune", "idle"}
    BY <1>22 DEF Finish
  <2>. QED  BY <2>1, <2>2, <2>3
<1>23. CASE FinishFails
  BY <1>23 DEF FinishFails
<1>24. CASE RollbackFile
  BY <1>24 DEF RollbackFile
<1>25. CASE SettleRollback
  BY <1>25 DEF SettleRollback
<1>26. CASE RollbackReadback
  BY <1>26 DEF RollbackReadback
<1>27. CASE RolledBack
  BY <1>27 DEF RolledBack, WriteJournal
<1>28. CASE SelectDoomed
  BY <1>28 DEF SelectDoomed
<1>29. CASE PruneJournal
  BY <1>29 DEF PruneJournal, Without
<1>30. CASE PruneManifest
  BY <1>30 DEF PruneManifest, Without
<1>31. CASE PruneObject
  BY <1>31 DEF PruneObject, Referenced
<1>32. CASE Pruned
  BY <1>32 DEF Pruned
<1>33. CASE PruneFails
  BY <1>33 DEF PruneFails
<1>34. CASE RecoverJournal
  BY <1>34 DEF RecoverJournal, RecoveryFails, Unvisited, WriteJournal, Verifies
<1>35. CASE Recovered
  BY <1>35 DEF Recovered, Unvisited
<1>36. CASE RecoverFile
  BY <1>36 DEF RecoverFile, RecoveryFails
<1>37. CASE RecoverCommit
  BY <1>37 DEF RecoverCommit, RecoveryFails
<1>38. CASE SettleRecovery
  BY <1>38 DEF SettleRecovery, RecoveryFails
<1>39. CASE RecoverReadback
  BY <1>39 DEF RecoverReadback, RecoveryFails
<1>40. CASE RecoverFinish
  BY <1>40 DEF RecoverFinish, RecoveryFails, WriteJournal
<1>41. CASE \E f \in Files, bytes \in Bytes : Edit(f, bytes)
  BY <1>41 DEF Edit
<1>42. CASE UNCHANGED vars
  BY <1>42
<1>. QED
  BY <1>1, <1>2, <1>3, <1>4, <1>5, <1>6, <1>7, <1>8, <1>9, <1>10, <1>11, <1>12,
     <1>13, <1>14, <1>15, <1>16, <1>17, <1>18, <1>19, <1>20, <1>21, <1>22,
     <1>23, <1>24, <1>25, <1>26, <1>27, <1>28, <1>29, <1>30, <1>31, <1>32,
     <1>33, <1>34, <1>35, <1>36, <1>37, <1>38, <1>39, <1>40, <1>41, <1>42
     DEF Next, Work, User, Environment, BackupPhase, ReplacePhase, RollbackPhase,
         PrunePhase, RecoveryPhase

(* An idle optimizer shows the recovery banner as long as a change is        *)
(* neither completed nor undone (apply, restore and start callers).          *)
THEOREM PendingVisible == Spec => []PendingIsVisible
<1>1. Init => VisibleInv
  BY DEF Init, VisibleInv, RecoverySteps
<1>2. VisibleInv /\ [Next]_vars => VisibleInv'
  BY VisibleStep
<1>3. VisibleInv => PendingIsVisible
  BY DEF VisibleInv, PendingIsVisible, RecoverySteps, ReplaceSteps, RollbackSteps
<1>. QED  BY <1>1, <1>2, <1>3, PTL DEF Spec
-----------------------------------------------------------------------------
(* Retention *)

(* The manifest of the change at hand is the newest one, so pruning keeps it *)
NewestInv ==
    /\ \A b \in DOMAIN manifests : manifests[b] <= transactions
    /\ pc \in {"journal", "verify", "start", "prune"} \cup ReplaceSteps =>
          tx \in DOMAIN manifests /\ manifests[tx] = transactions
    /\ pc = "prune_manifest" => tx \in DOMAIN manifests /\ tx \notin doomed

(* Every operation keeps the manifest of the change at hand the newest *)
LEMMA NewestStep ==
    ASSUME TypeInv, NewestInv, [Next]_vars
    PROVE  NewestInv'
<1>. USE DEF NewestInv, Goto, OtherCounts, Return, BackupSteps, ReplaceSteps, RollbackSteps,
     RecoverySteps, PruneSteps, SettleSteps,
     vars, disk, store, archive, config, plan, progress, memory, ghosts, counts
<1>N. transactions \in Nat /\ \A b \in DOMAIN manifests : manifests[b] \in Nat
  BY DEF TypeInv, TypeOK, DiskOK, ObservationOK
<1>1. CASE Preview
  BY <1>1, <1>N DEF Preview, Begin
<1>2. CASE Restore
  BY <1>2, <1>N DEF Restore, Begin
<1>3. CASE Standalone
  BY <1>3, <1>N DEF Standalone, Begin
<1>4. CASE Apply
  BY <1>4 DEF Apply
<1>5. CASE Start
  BY <1>5 DEF Start
<1>6. CASE Quit
  BY <1>6 DEF Quit
<1>7. CASE Crash
  BY <1>7 DEF Crash
<1>8. CASE Check
  BY <1>8 DEF Check
<1>9. CASE Checked
  BY <1>9 DEF Checked
<1>10. CASE StoreObject
  BY <1>10 DEF StoreObject
<1>11. CASE StoreManifest
  <2>1. DOMAIN manifests' = DOMAIN manifests \cup {tx}
    BY <1>11 DEF StoreManifest
  <2>2. \A b \in DOMAIN manifests' :
           manifests'[b] = IF b = tx THEN transactions ELSE manifests[b]
    BY <1>11 DEF StoreManifest
  <2>. QED  BY <1>11, <1>N, <2>1, <2>2 DEF StoreManifest
<1>12. CASE StoreJournal
  BY <1>12 DEF StoreJournal, WriteJournal
<1>13. CASE VerifyBackup
  BY <1>13 DEF VerifyBackup
<1>14. CASE StartReplacement
  BY <1>14 DEF Entry, StartReplacement, WriteJournal
<1>15. CASE BackupFails
  BY <1>15 DEF BackupFails
<1>16. CASE ReplaceFile
  BY <1>16 DEF ReplaceFile
<1>17. CASE Replaced
  BY <1>17 DEF Replaced
<1>18. CASE SettleReplacement
  BY <1>18 DEF SettleReplacement
<1>19. CASE ReplaceFails
  BY <1>19 DEF ReplaceFails
<1>20. CASE Readback
  BY <1>20 DEF Readback
<1>21. CASE Verified
  BY <1>21 DEF Verified, WriteJournal
<1>22. CASE Finish
  BY <1>22 DEF Finish, WriteJournal
<1>23. CASE FinishFails
  BY <1>23 DEF FinishFails
<1>24. CASE RollbackFile
  BY <1>24 DEF RollbackFile
<1>25. CASE SettleRollback
  BY <1>25 DEF SettleRollback
<1>26. CASE RollbackReadback
  BY <1>26 DEF RollbackReadback
<1>27. CASE RolledBack
  BY <1>27 DEF RolledBack, WriteJournal
<1>28. CASE SelectDoomed
  <2>1. tx \in DOMAIN manifests /\ manifests[tx] = transactions
    BY <1>28 DEF SelectDoomed
  <2>2. NewerThan(tx) = {}
    BY <1>N, <2>1 DEF NewerThan
  <2>3. ~(Cardinality(NewerThan(tx)) >= KeepLatest)
    BY <2>2, FS_EmptySet, ConstantsAssumption
  <2>4. tx \notin doomed'
    BY <1>28, <2>3 DEF SelectDoomed
  <2>. QED  BY <1>28, <2>1, <2>4 DEF SelectDoomed
<1>29. CASE PruneJournal
  BY <1>29 DEF PruneJournal, Without
<1>30. CASE PruneManifest
  <2>1. PICK b \in doomed : manifests' = Without(manifests, b)
    BY <1>30 DEF PruneManifest
  <2>2. /\ DOMAIN manifests' = DOMAIN manifests \ {b}
        /\ \A c \in DOMAIN manifests' : manifests'[c] = manifests[c]
    BY <2>1 DEF Without
  <2>. QED  BY <1>30, <2>1, <2>2 DEF PruneManifest
<1>31. CASE PruneObject
  BY <1>31 DEF PruneObject
<1>32. CASE Pruned
  BY <1>32 DEF Pruned
<1>33. CASE PruneFails
  BY <1>33 DEF PruneFails
<1>34. CASE RecoverJournal
  BY <1>34 DEF RecoverJournal, RecoveryFails, Unvisited, WriteJournal
<1>35. CASE Recovered
  BY <1>35 DEF Recovered, Unvisited
<1>36. CASE RecoverFile
  BY <1>36 DEF RecoverFile, RecoveryFails
<1>37. CASE RecoverCommit
  BY <1>37 DEF RecoverCommit, RecoveryFails
<1>38. CASE SettleRecovery
  BY <1>38 DEF SettleRecovery, RecoveryFails
<1>39. CASE RecoverReadback
  BY <1>39 DEF RecoverReadback, RecoveryFails
<1>40. CASE RecoverFinish
  BY <1>40 DEF RecoverFinish, RecoveryFails, WriteJournal
<1>41. CASE \E f \in Files, bytes \in Bytes : Edit(f, bytes)
  BY <1>41 DEF Edit
<1>42. CASE UNCHANGED vars
  BY <1>42
<1>. QED
  BY <1>1, <1>2, <1>3, <1>4, <1>5, <1>6, <1>7, <1>8, <1>9, <1>10, <1>11, <1>12,
     <1>13, <1>14, <1>15, <1>16, <1>17, <1>18, <1>19, <1>20, <1>21, <1>22, <1>23,
     <1>24, <1>25, <1>26, <1>27, <1>28, <1>29, <1>30, <1>31, <1>32, <1>33, <1>34,
     <1>35, <1>36, <1>37, <1>38, <1>39, <1>40, <1>41, <1>42
     DEF Next, Work, User, Environment, BackupPhase, ReplacePhase, RollbackPhase,
         PrunePhase, RecoveryPhase
-----------------------------------------------------------------------------
(* One change at a time *)

(* Steps of a change whose journal is pending *)
ReplacingSteps == (ReplaceSteps \ {"finish"}) \cup RollbackSteps
                  \cup {"recover_commit", "recover_settle", "recover_readback"}
ChangeSteps == ReplacingSteps \cup {"finish", "recover_file"}

(* As long as no change is requested on top of an unsettled one, at most one *)
(* journal is pending, and it is that of the change at hand.                 *)
OneChangeInv ==
    /\ pc \in {"ready", "check"} \cup BackupSteps \cup PruneSteps =>
          \A b \in DOMAIN journals : ~Pending(b)
    /\ \A b, c \in DOMAIN journals : Pending(b) /\ Pending(c) => b = c
    /\ pc \in ChangeSteps => Pending(tx)
    /\ pc \in ReplacingSteps => journals[tx] = "replacement_started"
    /\ pc = "finish" => journals[tx] = "verification_complete"

(* No operation that starts with all settled leaves a second pending journal *)
LEMMA OneChangeStep ==
    ASSUME ~overlapped', TypeInv, VisibleInv, OneChangeInv, [Next]_vars
    PROVE  OneChangeInv'
<1>. USE DEF OneChangeInv, VisibleInv, ReplacingSteps, ChangeSteps, Pending, Goto, Return,
     BackupSteps, ReplaceSteps, RollbackSteps,
     RecoverySteps, PruneSteps, SettleSteps,
     vars, disk, store, archive, config, plan, progress, memory, ghosts, counts
<1>1. CASE Preview
  BY <1>1 DEF Preview, Begin
<1>2. CASE Restore
  BY <1>2 DEF Restore, Begin
<1>3. CASE Standalone
  BY <1>3 DEF Standalone, Begin
<1>4. CASE Apply
  BY <1>4 DEF Apply
<1>5. CASE Start
  BY <1>5 DEF Start
<1>6. CASE Quit
  BY <1>6 DEF Quit
<1>7. CASE Crash
  BY <1>7 DEF Crash
<1>8. CASE Check
  BY <1>8 DEF Check
<1>9. CASE Checked
  BY <1>9 DEF Checked
<1>10. CASE StoreObject
  BY <1>10 DEF StoreObject
<1>11. CASE StoreManifest
  BY <1>11 DEF StoreManifest
<1>12. CASE StoreJournal
  BY <1>12 DEF StoreJournal, WriteJournal
<1>13. CASE VerifyBackup
  BY <1>13 DEF VerifyBackup
<1>14. CASE StartReplacement
  BY <1>14 DEF Entry, StartReplacement, WriteJournal
<1>15. CASE BackupFails
  BY <1>15 DEF BackupFails
<1>16. CASE ReplaceFile
  BY <1>16 DEF ReplaceFile
<1>17. CASE Replaced
  BY <1>17 DEF Replaced
<1>18. CASE SettleReplacement
  BY <1>18 DEF SettleReplacement
<1>19. CASE ReplaceFails
  BY <1>19 DEF ReplaceFails
<1>20. CASE Readback
  BY <1>20 DEF Readback
<1>21. CASE Verified
  BY <1>21 DEF Verified, WriteJournal
<1>22. CASE Finish
  BY <1>22 DEF Finish, WriteJournal
<1>23. CASE FinishFails
  BY <1>23 DEF FinishFails
<1>24. CASE RollbackFile
  BY <1>24 DEF RollbackFile
<1>25. CASE SettleRollback
  BY <1>25 DEF SettleRollback
<1>26. CASE RollbackReadback
  BY <1>26 DEF RollbackReadback
<1>27. CASE RolledBack
  BY <1>27 DEF RolledBack, WriteJournal
<1>28. CASE SelectDoomed
  BY <1>28 DEF SelectDoomed
<1>29. CASE PruneJournal
  BY <1>29 DEF PruneJournal, Without
<1>30. CASE PruneManifest
  BY <1>30 DEF PruneManifest, Without
<1>31. CASE PruneObject
  BY <1>31 DEF PruneObject
<1>32. CASE Pruned
  BY <1>32 DEF Pruned
<1>33. CASE PruneFails
  BY <1>33 DEF PruneFails
<1>34. CASE RecoverJournal
  BY <1>34 DEF RecoverJournal, RecoveryFails, Unvisited, WriteJournal
<1>35. CASE Recovered
  BY <1>35 DEF Recovered, Unvisited
<1>36. CASE RecoverFile
  BY <1>36 DEF RecoverFile, RecoveryFails
<1>37. CASE RecoverCommit
  BY <1>37 DEF RecoverCommit, RecoveryFails
<1>38. CASE SettleRecovery
  BY <1>38 DEF SettleRecovery, RecoveryFails
<1>39. CASE RecoverReadback
  BY <1>39 DEF RecoverReadback, RecoveryFails
<1>40. CASE RecoverFinish
  BY <1>40 DEF RecoverFinish, RecoveryFails, WriteJournal
<1>41. CASE \E f \in Files, bytes \in Bytes : Edit(f, bytes)
  BY <1>41 DEF Edit
<1>42. CASE UNCHANGED vars
  BY <1>42
<1>. QED
  BY <1>1, <1>2, <1>3, <1>4, <1>5, <1>6, <1>7, <1>8, <1>9, <1>10, <1>11, <1>12,
     <1>13, <1>14, <1>15, <1>16, <1>17, <1>18, <1>19, <1>20, <1>21, <1>22, <1>23,
     <1>24, <1>25, <1>26, <1>27, <1>28, <1>29, <1>30, <1>31, <1>32, <1>33, <1>34,
     <1>35, <1>36, <1>37, <1>38, <1>39, <1>40, <1>41, <1>42
     DEF Next, Work, User, Environment, BackupPhase, ReplacePhase, RollbackPhase,
         PrunePhase, RecoveryPhase
-----------------------------------------------------------------------------
(* Only files that differ are replaced, and only replaced ones rolled back *)
WrittenInv ==
    /\ pc \in {"ready", "check"} \cup BackupSteps => written = {}
    /\ pc \in ReplaceSteps \cup RollbackSteps => written \subseteq Changed
    /\ pc = "replace_settle" => at \in Changed
    /\ pc = "rollback_settle" => at \in written


(* The written files stay among the changed ones *)
LEMMA WrittenStep ==
    ASSUME TypeInv, WrittenInv, [Next]_vars
    PROVE  WrittenInv'
<1>. USE DEF WrittenInv, Goto, Return, BackupSteps, ReplaceSteps, RollbackSteps,
     RecoverySteps, PruneSteps, SettleSteps,
     vars, disk, store, archive, config, plan, progress, memory, ghosts, counts
<1>C. tx' = tx => Changed' = Changed
  BY DEF Changed
<1>1. CASE Preview
  BY <1>1, <1>C DEF Preview, Begin
<1>2. CASE Restore
  BY <1>2, <1>C DEF Restore, Begin
<1>3. CASE Standalone
  BY <1>3, <1>C DEF Standalone, Begin
<1>4. CASE Apply
  BY <1>4, <1>C DEF Apply
<1>5. CASE Start
  BY <1>5, <1>C DEF Start
<1>6. CASE Quit
  BY <1>6, <1>C DEF Quit
<1>7. CASE Crash
  BY <1>7, <1>C DEF Crash
<1>8. CASE Check
  BY <1>8, <1>C DEF Check
<1>9. CASE Checked
  BY <1>9, <1>C DEF Checked
<1>10. CASE StoreObject
  BY <1>10, <1>C DEF StoreObject
<1>11. CASE StoreManifest
  BY <1>11, <1>C DEF StoreManifest
<1>12. CASE StoreJournal
  BY <1>12, <1>C DEF StoreJournal, WriteJournal
<1>13. CASE VerifyBackup
  BY <1>13, <1>C DEF VerifyBackup
<1>14. CASE StartReplacement
  BY <1>14, <1>C DEF Entry, StartReplacement, WriteJournal
<1>15. CASE BackupFails
  BY <1>15, <1>C DEF BackupFails
<1>16. CASE ReplaceFile
  <2>1. at \in Files
    BY <1>16, ConstantsAssumption DEF ReplaceFile, TypeInv, Position, ForwardSteps,
         TypeOK, ProcessOK, Files
  <2>2. CASE tx.original[at] = tx.desired[at]
    BY <1>16, <1>C, <2>2 DEF ReplaceFile
  <2>3. CASE tx.original[at] # tx.desired[at]
    <3>1. at \in Changed
      BY <2>1, <2>3 DEF Changed
    <3>. QED  BY <1>16, <1>C, <2>3, <3>1 DEF ReplaceFile
  <2>. QED  BY <2>2, <2>3
<1>17. CASE Replaced
  BY <1>17, <1>C DEF Replaced
<1>18. CASE SettleReplacement
  BY <1>18, <1>C DEF SettleReplacement
<1>19. CASE ReplaceFails
  BY <1>19, <1>C DEF ReplaceFails
<1>20. CASE Readback
  BY <1>20, <1>C DEF Readback
<1>21. CASE Verified
  BY <1>21, <1>C DEF Verified, WriteJournal
<1>22. CASE Finish
  BY <1>22, <1>C DEF Finish, WriteJournal
<1>23. CASE FinishFails
  BY <1>23, <1>C DEF FinishFails
<1>24. CASE RollbackFile
  BY <1>24, <1>C DEF RollbackFile
<1>25. CASE SettleRollback
  BY <1>25, <1>C DEF SettleRollback
<1>26. CASE RollbackReadback
  BY <1>26, <1>C DEF RollbackReadback
<1>27. CASE RolledBack
  BY <1>27, <1>C DEF RolledBack, WriteJournal
<1>28. CASE SelectDoomed
  BY <1>28, <1>C DEF SelectDoomed
<1>29. CASE PruneJournal
  BY <1>29, <1>C DEF PruneJournal, Without
<1>30. CASE PruneManifest
  BY <1>30, <1>C DEF PruneManifest, Without
<1>31. CASE PruneObject
  BY <1>31, <1>C DEF PruneObject
<1>32. CASE Pruned
  BY <1>32, <1>C DEF Pruned
<1>33. CASE PruneFails
  BY <1>33, <1>C DEF PruneFails
<1>34. CASE RecoverJournal
  BY <1>34, <1>C DEF RecoverJournal, RecoveryFails, Unvisited, WriteJournal
<1>35. CASE Recovered
  BY <1>35, <1>C DEF Recovered, Unvisited
<1>36. CASE RecoverFile
  BY <1>36, <1>C DEF RecoverFile, RecoveryFails
<1>37. CASE RecoverCommit
  BY <1>37, <1>C DEF RecoverCommit, RecoveryFails
<1>38. CASE SettleRecovery
  BY <1>38, <1>C DEF SettleRecovery, RecoveryFails
<1>39. CASE RecoverReadback
  BY <1>39, <1>C DEF RecoverReadback, RecoveryFails
<1>40. CASE RecoverFinish
  BY <1>40, <1>C DEF RecoverFinish, RecoveryFails, WriteJournal
<1>41. CASE \E f \in Files, bytes \in Bytes : Edit(f, bytes)
  BY <1>41, <1>C DEF Edit
<1>42. CASE UNCHANGED vars
  BY <1>42, <1>C
<1>. QED
  BY <1>1, <1>2, <1>3, <1>4, <1>5, <1>6, <1>7, <1>8, <1>9, <1>10, <1>11, <1>12,
     <1>13, <1>14, <1>15, <1>16, <1>17, <1>18, <1>19, <1>20, <1>21, <1>22, <1>23,
     <1>24, <1>25, <1>26, <1>27, <1>28, <1>29, <1>30, <1>31, <1>32, <1>33, <1>34,
     <1>35, <1>36, <1>37, <1>38, <1>39, <1>40, <1>41, <1>42
     DEF Next, Work, User, Environment, BackupPhase, ReplacePhase, RollbackPhase,
         PrunePhase, RecoveryPhase
-----------------------------------------------------------------------------
(* What a change owes *)

(* The files that the change at hand has written and that the rollback or    *)
(* the recovery in progress has not dealt with yet                           *)
Ahead(f) ==
    /\ pc \in ReplaceSteps \cup RollbackSteps => f \in written
    /\ pc \in RollbackSteps => f <= at \/ rollbackFailed
    /\ pc \in RecoverySteps \ {"recover"} /\ journals[tx] = "replacement_started" => f >= at

(* What is owed is owed to the pending journal, is still in the file, and    *)
(* whatever undoes the change has yet to come to that file.                  *)
DebtInv ==
    \A f \in Files : \A b \in debt[f] :
        /\ Pending(b)
        /\ file[f] = b.desired[f] /\ b.desired[f] # b.original[f]
        /\ Ahead(f) \/ (pc = "replace_settle" /\ at = f)
        /\ ~(pc \in {"rollback_settle", "recover_settle"} /\ at = f)

(* A file is in debt only as long as its undoing lies ahead *)
LEMMA DebtStep ==
    ASSUME ~overlapped', TypeInv, VisibleInv, OneChangeInv, WrittenInv, DebtInv, [Next]_vars
    PROVE  DebtInv'
<1>. USE DEF Goto, Return, OtherCounts,
     BackupSteps, ReplaceSteps, RollbackSteps,
     RecoverySteps, PruneSteps, SettleSteps,
     vars, disk, store, archive, config, plan, progress, memory, ghosts, counts
<1>T. /\ \A f \in Files : f \in Nat /\ 1 <= f /\ f <= NumFiles
      /\ NumFiles \in Nat /\ at \in Nat
      /\ \A f \in Nat : 1 <= f /\ f <= NumFiles => f \in Files
  BY ConstantsAssumption DEF TypeInv, TypeOK, ProcessOK, Files
<1>D. /\ file \in [Files -> Bytes] /\ debt \in [Files -> SUBSET BackupIds]
      /\ pc \in OnFileSteps => at \in Files
      /\ pc \in RollbackSteps => at <= NumFiles
  BY ConstantsAssumption DEF TypeInv, TypeOK, DiskOK, ObservationOK, Position,
       Contents, OnFileSteps, Files, Steps
<1>. USE DEF DebtInv, Ahead, Pending, OneChangeInv, WrittenInv, ChangeSteps, ReplacingSteps
<1>1. CASE Preview
  BY <1>1, <1>T, <1>D DEF Preview, Begin
<1>2. CASE Restore
  BY <1>2, <1>T, <1>D DEF Restore, Begin
<1>3. CASE Standalone
  BY <1>3, <1>T, <1>D DEF Standalone, Begin
<1>4. CASE Apply
  BY <1>4, <1>T, <1>D DEF Apply
<1>5. CASE Start
  BY <1>5, <1>T, <1>D DEF Start
<1>6. CASE Quit
  BY <1>6, <1>T, <1>D DEF Quit
<1>7. CASE Crash
  BY <1>7, <1>T, <1>D DEF Crash
<1>8. CASE Check
  BY <1>8, <1>T, <1>D DEF Check
<1>9. CASE Checked
  BY <1>9, <1>T, <1>D DEF Checked
<1>10. CASE StoreObject
  BY <1>10, <1>T, <1>D DEF StoreObject
<1>11. CASE StoreManifest
  BY <1>11, <1>T, <1>D DEF StoreManifest
<1>12. CASE StoreJournal
  BY <1>12, <1>T, <1>D DEF StoreJournal, WriteJournal, VisibleInv
<1>13. CASE VerifyBackup
  BY <1>13, <1>T, <1>D DEF VerifyBackup
<1>14. CASE StartReplacement
  BY <1>14, <1>T, <1>D DEF Entry, StartReplacement, WriteJournal, VisibleInv
<1>15. CASE BackupFails
  BY <1>15, <1>T, <1>D DEF BackupFails
<1>16. CASE ReplaceFile
  BY <1>16, <1>T, <1>D DEF ReplaceFile, Commit
<1>17. CASE Replaced
  BY <1>17, <1>T, <1>D DEF Replaced
<1>18. CASE SettleReplacement
  BY <1>18, <1>T, <1>D DEF SettleReplacement, SettleSucceeds, SettleFails, Accept,
       Undo, Abandon
<1>19. CASE ReplaceFails
  BY <1>19, <1>T, <1>D DEF ReplaceFails
<1>20. CASE Readback
  BY <1>20, <1>T, <1>D DEF Readback
<1>21. CASE Verified
  BY <1>21, <1>T, <1>D DEF Verified, WriteJournal
<1>22. CASE Finish
  BY <1>22, <1>T, <1>D DEF Finish, WriteJournal, Changed
<1>23. CASE FinishFails
  BY <1>23, <1>T, <1>D DEF FinishFails
<1>24. CASE RollbackFile
  BY <1>24, <1>T, <1>D DEF RollbackFile, Commit, config
<1>25. CASE SettleRollback
  <2>1. at \in Files /\ Pending(tx) /\ UNCHANGED <<journals, tx, written, rollbackFailed>>
    BY <1>25, <1>D DEF SettleRollback, OnFileSteps
  <2>2. CASE Accept
    BY <1>25, <1>T, <2>1, <2>2 DEF SettleRollback, Accept
  <2>3. CASE Undo(Owing)
    <3>1. /\ \A f \in Files : f # at => file'[f] = file[f] /\ debt'[f] = debt[f]
          /\ file'[at] = captured /\ debt'[at] = Owing
      BY <1>D, <2>1, <2>3 DEF Undo
    <3>2. debt[at] = {}
      BY <1>25, <2>1 DEF SettleRollback
    <3>3. \A b \in Owing : /\ b = tx
                           /\ captured = tx.desired[at] /\ tx.desired[at] # tx.original[at]
      BY <3>2 DEF Owing, Changed
    <3>. QED  BY <1>25, <1>T, <2>1, <3>1, <3>2, <3>3 DEF SettleRollback
  <2>4. CASE Abandon
    <3>1. UNCHANGED file /\ \A f \in Files : debt'[f] \subseteq debt[f]
      BY <1>D, <2>1, <2>4 DEF Abandon
    <3>2. debt[at] = {}
      BY <1>25, <2>1 DEF SettleRollback
    <3>. QED  BY <1>25, <1>T, <2>1, <3>1, <3>2 DEF SettleRollback
  <2>. QED  BY <1>25, <2>2, <2>3, <2>4 DEF SettleRollback, SettleSucceeds, SettleFails
<1>26. CASE RollbackReadback
  <2>1. /\ at \in Files
        /\ rollbackFailed' = FALSE => rollbackFailed = FALSE /\ file[at] = tx.original[at]
        /\ rollbackFailed' \in BOOLEAN
    BY <1>26, <1>D DEF RollbackReadback, OnFileSteps, TypeInv, TypeOK, ProcessOK
  <2>a. at' = at - 1
    BY <1>26 DEF RollbackReadback
  <2>2. ASSUME NEW f \in Nat, f <= at PROVE f = at \/ f <= at'
    BY <1>T, <2>2, <2>a
  <2>3. \A b \in debt[at] : b = tx /\ file[at] # tx.original[at]
    BY <1>26, <2>1 DEF RollbackReadback
  <2>4. UNCHANGED <<file, debt, journals, tx, written>> /\ pc' = "rollback"
    BY <1>26 DEF RollbackReadback
  <2>5. ASSUME NEW f \in Files, NEW b \in debt[f] PROVE f <= at' \/ rollbackFailed'
    BY <1>26, <1>T, <2>1, <2>2, <2>3, <2>5 DEF RollbackReadback
  <2>. QED  BY <1>26, <2>4, <2>5 DEF RollbackReadback
<1>27. CASE RolledBack
  BY <1>27, <1>T, <1>D DEF RolledBack, WriteJournal
<1>28. CASE SelectDoomed
  BY <1>28, <1>T, <1>D DEF SelectDoomed
<1>29. CASE PruneJournal
  BY <1>29, <1>T, <1>D DEF PruneJournal, Without, VisibleInv
<1>30. CASE PruneManifest
  BY <1>30, <1>T, <1>D DEF PruneManifest, Without
<1>31. CASE PruneObject
  BY <1>31, <1>T, <1>D DEF PruneObject
<1>32. CASE Pruned
  BY <1>32, <1>T, <1>D DEF Pruned
<1>33. CASE PruneFails
  BY <1>33, <1>T, <1>D DEF PruneFails
<1>34. CASE RecoverJournal
  BY <1>34, <1>T, <1>D DEF RecoverJournal, RecoveryFails, Unvisited, WriteJournal
<1>35. CASE Recovered
  BY <1>35, <1>T, <1>D DEF Recovered, Unvisited
<1>36. CASE RecoverFile
  BY <1>36, <1>T, <1>D DEF RecoverFile, RecoveryFails
<1>37. CASE RecoverCommit
  BY <1>37, <1>T, <1>D DEF RecoverCommit, RecoveryFails, Commit
<1>38. CASE SettleRecovery
  <2>1. at \in Files /\ Pending(tx) /\ UNCHANGED <<journals, tx, written, rollbackFailed>>
    BY <1>38, <1>D DEF SettleRecovery, OnFileSteps
  <2>2. CASE Accept
    BY <1>38, <1>T, <2>1, <2>2 DEF SettleRecovery, RecoveryFails, Accept
  <2>3. CASE Undo(Owing)
    <3>1. /\ \A f \in Files : f # at => file'[f] = file[f] /\ debt'[f] = debt[f]
          /\ file'[at] = captured /\ debt'[at] = Owing
      BY <1>D, <2>1, <2>3 DEF Undo
    <3>2. debt[at] = {}
      BY <1>38, <2>1 DEF SettleRecovery
    <3>3. \A b \in Owing : /\ b = tx
                           /\ captured = tx.desired[at] /\ tx.desired[at] # tx.original[at]
      BY <3>2 DEF Owing, Changed
    <3>. QED  BY <1>38, <1>T, <2>1, <3>1, <3>2, <3>3 DEF SettleRecovery, RecoveryFails
  <2>4. CASE Abandon
    <3>1. UNCHANGED file /\ \A f \in Files : debt'[f] \subseteq debt[f]
      BY <1>D, <2>1, <2>4 DEF Abandon
    <3>2. debt[at] = {}
      BY <1>38, <2>1 DEF SettleRecovery
    <3>. QED  BY <1>38, <1>T, <2>1, <3>1, <3>2 DEF SettleRecovery, RecoveryFails
  <2>. QED  BY <1>38, <2>2, <2>3, <2>4 DEF SettleRecovery, SettleSucceeds, SettleFails
<1>39. CASE RecoverReadback
  BY <1>39, <1>T, <1>D DEF RecoverReadback, RecoveryFails
<1>40. CASE RecoverFinish
  BY <1>40, <1>T, <1>D DEF RecoverFinish, RecoveryFails, WriteJournal, Changed
<1>41. CASE \E f \in Files, bytes \in Bytes : Edit(f, bytes)
  <2>1. PICK g \in Files, bytes \in Bytes : Edit(g, bytes)
    BY <1>41
  <2>2. /\ debt'[g] = {}
        /\ \A f \in Files : f # g => file'[f] = file[f] /\ debt'[f] = debt[f]
    BY <1>D, <2>1 DEF Edit
  <2>3. UNCHANGED <<pc, at, journals, tx, written, rollbackFailed>>
    BY <2>1 DEF Edit
  <2>. QED  BY <2>2, <2>3
<1>42. CASE UNCHANGED vars
  BY <1>42
<1>. QED
  BY <1>1, <1>2, <1>3, <1>4, <1>5, <1>6, <1>7, <1>8, <1>9, <1>10, <1>11, <1>12,
     <1>13, <1>14, <1>15, <1>16, <1>17, <1>18, <1>19, <1>20, <1>21, <1>22, <1>23,
     <1>24, <1>25, <1>26, <1>27, <1>28, <1>29, <1>30, <1>31, <1>32, <1>33, <1>34,
     <1>35, <1>36, <1>37, <1>38, <1>39, <1>40, <1>41, <1>42
     DEF Next, Work, User, Environment, BackupPhase, ReplacePhase, RollbackPhase,
         PrunePhase, RecoveryPhase
-----------------------------------------------------------------------------
(* Edits of other programs *)

Settling(f) == pc \in SettleSteps /\ at = f

(* The edit is the original of a pending change that can still be undone:    *)
(* its bytes are in the backup                                               *)
Held(f) ==
    /\ \E b \in DOMAIN journals :
          Pending(b) /\ edit[f] = b.original[f] /\ b.original[f] # b.desired[f]
    /\ Ahead(f)

Kept(f) ==
    \/ edit[f] \in siblings[f]
    \/ edit[f] = IF Settling(f) THEN captured ELSE file[f]
    \/ Held(f)

(* The edit is not mistaken for the bytes a change proposes *)
Told(f, b) ==
    edit[f] = b.desired[f] => edit[f] \in siblings[f] \/ b.original[f] = b.desired[f]

EditInv ==
    \A f \in Files : edit[f] # NoBytes =>
        /\ Kept(f)
        /\ \A b \in DOMAIN journals : Pending(b) => Told(f, b)
        /\ pc \in {"ready", "check"} \cup BackupSteps => Told(f, tx)
        /\ pc = "recover_settle" /\ at = f => file[f] = tx.original[f]

(* Every step keeps the edits that must not be destroyed *)
LEMMA EditStep ==
    ASSUME ~overlapped', TypeInv, VisibleInv, OneChangeInv, WrittenInv, EditInv, [Next]_vars
    PROVE  EditInv'
<1>. USE DEF Goto, Return, OtherCounts,
     BackupSteps, ReplaceSteps, RollbackSteps,
     RecoverySteps, PruneSteps, SettleSteps,
     vars, disk, store, archive, config, plan, progress, memory, ghosts, counts
<1>T. /\ \A f \in Files : f \in Nat /\ 1 <= f /\ f <= NumFiles
      /\ NumFiles \in Nat /\ at \in Nat
      /\ \A f \in Nat : 1 <= f /\ f <= NumFiles => f \in Files
  BY ConstantsAssumption DEF TypeInv, TypeOK, ProcessOK, Files
<1>D. /\ file \in [Files -> Bytes] /\ siblings \in [Files -> SUBSET Bytes]
      /\ edit \in [Files -> Bytes \cup {NoBytes}]
      /\ pc \in OnFileSteps => at \in Files
      /\ pc \in RollbackSteps => at <= NumFiles
  BY ConstantsAssumption DEF TypeInv, TypeOK, DiskOK, ObservationOK, Position,
       Contents, OnFileSteps, Files, Steps
<1>. USE DEF EditInv, Settling, Held, Kept, Told, Ahead, Pending, OneChangeInv,
     ChangeSteps, ReplacingSteps
<1>1. CASE Preview
  <2>1. \A b \in DOMAIN journals : ~Pending(b)
    BY <1>1 DEF Preview, Begin, VisibleInv
  <2>2. PICK desired : /\ tx'.original = file /\ tx'.desired = desired
                       /\ UNCHANGED <<file, siblings, edit, journals, captured>>
    BY <1>1 DEF Preview, Begin
  <2>3. pc = "idle" /\ pc' \in {"ready", "check"}
    BY <1>1 DEF Preview, Begin
  <2>4. \A f \in Files : edit[f] # NoBytes => edit[f] \in siblings[f] \/ edit[f] = file[f]
    BY <2>1, <2>3
  <2>. QED  BY <2>1, <2>2, <2>3, <2>4
<1>2. CASE Restore
  <2>1. \A b \in DOMAIN journals : ~Pending(b)
    BY <1>2 DEF Restore, Begin, VisibleInv
  <2>2. PICK desired : /\ tx'.original = file /\ tx'.desired = desired
                       /\ UNCHANGED <<file, siblings, edit, journals, captured>>
    BY <1>2 DEF Restore, Begin
  <2>3. pc = "idle" /\ pc' \in {"ready", "check"}
    BY <1>2 DEF Restore, Begin
  <2>4. \A f \in Files : edit[f] # NoBytes => edit[f] \in siblings[f] \/ edit[f] = file[f]
    BY <2>1, <2>3
  <2>. QED  BY <2>1, <2>2, <2>3, <2>4
<1>3. CASE Standalone
  BY <1>3, <1>T, <1>D DEF Standalone, Begin
<1>4. CASE Apply
  BY <1>4, <1>T, <1>D DEF Apply
<1>5. CASE Start
  BY <1>5, <1>T, <1>D DEF Start
<1>6. CASE Quit
  BY <1>6, <1>T, <1>D DEF Quit
<1>7. CASE Crash
  BY <1>7, <1>T, <1>D DEF Crash
<1>8. CASE Check
  BY <1>8, <1>T, <1>D DEF Check
<1>9. CASE Checked
  BY <1>9, <1>T, <1>D DEF Checked
<1>10. CASE StoreObject
  BY <1>10, <1>T, <1>D DEF StoreObject
<1>11. CASE StoreManifest
  BY <1>11, <1>T, <1>D DEF StoreManifest
<1>12. CASE StoreJournal
  BY <1>12, <1>T, <1>D DEF StoreJournal, WriteJournal, VisibleInv
<1>13. CASE VerifyBackup
  BY <1>13, <1>T, <1>D DEF VerifyBackup
<1>14. CASE StartReplacement
  BY <1>14, <1>T, <1>D DEF Entry, StartReplacement, WriteJournal, VisibleInv
<1>15. CASE BackupFails
  BY <1>15, <1>T, <1>D DEF BackupFails
<1>16. CASE ReplaceFile
  BY <1>16, <1>T, <1>D DEF ReplaceFile, Commit
<1>17. CASE Replaced
  BY <1>17, <1>T, <1>D DEF Replaced
<1>18. CASE SettleReplacement
  <2>1. /\ at \in Files /\ Pending(tx) /\ tx.original[at] # tx.desired[at]
        /\ UNCHANGED <<journals, tx, rollbackFailed, edit>> /\ pc = "replace_settle"
    BY <1>18, <1>D DEF SettleReplacement, OnFileSteps, WrittenInv, Changed
  <2>2. CASE /\ captured = tx.original[at] /\ Accept
             /\ written' = written \cup {at} /\ pc' = "replace"
    BY <1>T, <2>1, <2>2 DEF Accept
  <2>3. CASE /\ pc' = "rollback" /\ at' = NumFiles /\ written' = written
             /\ \/ Undo(debt[at] \ {tx})
                \/ Abandon
    <3>1. \A f \in Files : f # at => file'[f] = file[f] /\ siblings'[f] = siblings[f]
      BY <1>D, <2>1, <2>3 DEF Undo, Abandon
    <3>2. /\ siblings[at] \subseteq siblings'[at]
          /\ (captured \in siblings'[at] \/ captured = file'[at])
      BY <1>D, <2>1, <2>3 DEF Undo, Abandon
    <3>3. edit[at] # NoBytes =>
             edit[at] \in siblings[at] \/ edit[at] = captured \/ Held(at)
      BY <2>1
    <3>4. ASSUME NEW f \in Files, edit[f] # NoBytes PROVE Kept(f)'
      <4>1. Held(f) => Held(f)' \/ edit[f] = captured
        BY <1>T, <2>1, <2>3
      <4>. QED  BY <1>T, <2>1, <2>3, <3>1, <3>2, <3>3, <3>4, <4>1
    <3>. QED  BY <1>T, <2>1, <2>3, <3>1, <3>2, <3>4
  <2>. QED  BY <1>18, <2>2, <2>3 DEF SettleReplacement, SettleSucceeds, SettleFails
<1>19. CASE ReplaceFails
  BY <1>19, <1>T, <1>D DEF ReplaceFails
<1>20. CASE Readback
  BY <1>20, <1>T, <1>D DEF Readback
<1>21. CASE Verified
  BY <1>21, <1>T, <1>D DEF Verified, WriteJournal
<1>22. CASE Finish
  BY <1>22, <1>T, <1>D DEF Finish, WriteJournal, Changed
<1>23. CASE FinishFails
  BY <1>23, <1>T, <1>D DEF FinishFails
<1>24. CASE RollbackFile
  BY <1>24, <1>T, <1>D DEF RollbackFile, Commit, WrittenInv
<1>25. CASE SettleRollback
  BY <1>25, <1>T, <1>D DEF SettleRollback, SettleSucceeds, SettleFails, Accept, Undo,
       Abandon, Owing, Changed, WrittenInv
<1>26. CASE RollbackReadback
  <2>1. /\ at \in Files
        /\ rollbackFailed' = FALSE => rollbackFailed = FALSE /\ file[at] = tx.original[at]
        /\ rollbackFailed' \in BOOLEAN
    BY <1>26, <1>D DEF RollbackReadback, OnFileSteps, TypeInv, TypeOK, ProcessOK
  <2>2. at' = at - 1
    BY <1>26 DEF RollbackReadback
  <2>3. ASSUME NEW f \in Nat, f <= at PROVE f = at \/ f <= at'
    BY <1>T, <2>2, <2>3
  <2>4. UNCHANGED <<file, siblings, edit, journals, tx, written>> /\ pc' = "rollback"
    BY <1>26 DEF RollbackReadback
  <2>5. ASSUME NEW f \in Files, edit[f] # NoBytes PROVE Kept(f)'
    <3>1. Held(f) => edit[f] = tx.original[f] /\ f \in written
      BY <1>26, <1>T DEF RollbackReadback
    <3>2. Held(f) => (f <= at' \/ rollbackFailed') \/ edit[f] = file[f]
      BY <1>26, <1>T, <2>1, <2>3, <3>1 DEF RollbackReadback
    <3>. QED  BY <1>26, <2>4, <2>5, <3>1, <3>2 DEF RollbackReadback
  <2>. QED  BY <1>26, <2>4, <2>5 DEF RollbackReadback
<1>27. CASE RolledBack
  BY <1>27, <1>T, <1>D DEF RolledBack, WriteJournal
<1>28. CASE SelectDoomed
  BY <1>28, <1>T, <1>D DEF SelectDoomed
<1>29. CASE PruneJournal
  BY <1>29, <1>T, <1>D DEF PruneJournal, Without, VisibleInv
<1>30. CASE PruneManifest
  BY <1>30, <1>T, <1>D DEF PruneManifest, Without
<1>31. CASE PruneObject
  BY <1>31, <1>T, <1>D DEF PruneObject
<1>32. CASE Pruned
  BY <1>32, <1>T, <1>D DEF Pruned
<1>33. CASE PruneFails
  BY <1>33, <1>T, <1>D DEF PruneFails
<1>34. CASE RecoverJournal
  BY <1>34, <1>T, <1>D DEF RecoverJournal, RecoveryFails, Unvisited, WriteJournal
<1>35. CASE Recovered
  BY <1>35, <1>T, <1>D DEF Recovered, Unvisited
<1>36. CASE RecoverFile
  BY <1>36, <1>T, <1>D DEF RecoverFile, RecoveryFails
<1>37. CASE RecoverCommit
  BY <1>37, <1>T, <1>D DEF RecoverCommit, RecoveryFails, Commit
<1>38. CASE SettleRecovery
  BY <1>38, <1>T, <1>D DEF SettleRecovery, RecoveryFails, SettleSucceeds, SettleFails,
       Accept, Undo, Abandon, Owing, Changed
<1>39. CASE RecoverReadback
  BY <1>39, <1>T, <1>D DEF RecoverReadback, RecoveryFails
<1>40. CASE RecoverFinish
  BY <1>40, <1>T, <1>D DEF RecoverFinish, RecoveryFails, WriteJournal, Changed
<1>41. CASE \E f \in Files, bytes \in Bytes : Edit(f, bytes)
  <2>1. PICK g \in Files, bytes \in Bytes : Edit(g, bytes)
    BY <1>41
  <2>2. \A f \in Files : f # g => file'[f] = file[f] /\ edit'[f] = edit[f]
    BY <1>D, <2>1 DEF Edit
  <2>3. UNCHANGED <<pc, at, journals, siblings, captured, tx, written, rollbackFailed>>
    BY <2>1 DEF Edit
  <2>4. edit'[g] # NoBytes => /\ edit'[g] = bytes /\ file'[g] = bytes
                              /\ Distinguishable(g, bytes) /\ ~Settling(g)
    BY <1>D, <2>1 DEF Edit
  <2>5. pc \in {"ready", "check"} \cup BackupSteps => tx # NoBackup
    BY ConstantsAssumption DEF TypeInv, Position, TxSteps, Steps
  <2>6. Distinguishable(g, bytes) =>
           /\ \A b \in DOMAIN journals : Pending(b) => b.desired[g] # bytes
           /\ pc \in {"ready", "check"} \cup BackupSteps => tx.desired[g] # bytes
    BY <2>5 DEF Distinguishable
  <2>7. ASSUME NEW f \in Files, f # g, edit'[f] # NoBytes
        PROVE  /\ Kept(f)'
               /\ \A b \in DOMAIN journals' : Pending(b)' => Told(f, b)'
               /\ pc' \in {"ready", "check"} \cup BackupSteps => Told(f, tx)'
               /\ pc' = "recover_settle" /\ at' = f => file'[f] = tx'.original[f]
    BY <2>2, <2>3, <2>7
  <2>. QED  BY <2>3, <2>4, <2>6, <2>7
<1>42. CASE UNCHANGED vars
  BY <1>42
<1>. QED
  BY <1>1, <1>2, <1>3, <1>4, <1>5, <1>6, <1>7, <1>8, <1>9, <1>10, <1>11, <1>12,
     <1>13, <1>14, <1>15, <1>16, <1>17, <1>18, <1>19, <1>20, <1>21, <1>22, <1>23,
     <1>24, <1>25, <1>26, <1>27, <1>28, <1>29, <1>30, <1>31, <1>32, <1>33, <1>34,
     <1>35, <1>36, <1>37, <1>38, <1>39, <1>40, <1>41, <1>42
     DEF Next, Work, User, Environment, BackupPhase, ReplacePhase, RollbackPhase,
         PrunePhase, RecoveryPhase
-----------------------------------------------------------------------------
(* The files nobody else touched *)

Started(b) == b \in DOMAIN journals /\ journals[b] = "replacement_started"

UntouchedInv ==
    \A f \in Files \ touched :
        /\ pc \in {"ready", "check"} \cup BackupSteps => file[f] = tx.original[f]
        /\ \A b \in DOMAIN journals :
              /\ journals[b] = "replacement_started" =>
                    /\ file[f] \in {b.original[f], b.desired[f]}
                    /\ file[f] = b.desired[f] => b.original[f] = b.desired[f] \/ b \in debt[f]
              /\ journals[b] = "verification_complete" => file[f] = b.desired[f]
        /\ pc = "replace" => file[f] = IF f < at THEN tx.desired[f] ELSE tx.original[f]
        /\ pc = "replace_settle" =>
              file[f] = IF f <= at THEN tx.desired[f] ELSE tx.original[f]
        /\ pc = "readback" => file[f] = tx.desired[f]
        /\ pc = "replace_settle" /\ at = f => captured = tx.original[f]
        /\ pc \in {"rollback_settle", "recover_settle"} /\ at = f =>
              captured \in {tx.original[f], tx.desired[f]}

(* A file nobody else touches holds original or proposed bytes at every step *)
LEMMA UntouchedStep ==
    ASSUME ~overlapped', TypeInv, VisibleInv, OneChangeInv, WrittenInv,
           DebtInv, UntouchedInv, [Next]_vars
    PROVE  UntouchedInv'
<1>. USE DEF Goto, Return, OtherCounts,
     BackupSteps, ReplaceSteps, RollbackSteps,
     RecoverySteps, PruneSteps, SettleSteps,
     vars, disk, store, archive, config, plan, progress, memory, ghosts, counts
<1>T. /\ \A f \in Files : f \in Nat /\ 1 <= f /\ f <= NumFiles
      /\ NumFiles \in Nat /\ at \in Nat
      /\ \A f \in Nat : 1 <= f /\ f <= NumFiles => f \in Files
  BY ConstantsAssumption DEF TypeInv, TypeOK, ProcessOK, Files
<1>D. /\ file \in [Files -> Bytes] /\ debt \in [Files -> SUBSET BackupIds]
      /\ pc \in OnFileSteps => at \in Files
      /\ pc \in RollbackSteps => at <= NumFiles
      /\ pc = "replace" => at >= 1
  BY ConstantsAssumption DEF TypeInv, TypeOK, DiskOK, ObservationOK, Position,
       Contents, OnFileSteps, ForwardSteps, Files, Steps
<1>. USE DEF UntouchedInv, DebtInv, Ahead, Pending, OneChangeInv,
     ChangeSteps, ReplacingSteps
<1>1. CASE Preview
  <2>1. \A b \in DOMAIN journals : ~Pending(b)
    BY <1>1 DEF Preview, Begin
  <2>2. UNCHANGED <<file, journals>> /\ tx'.original = file /\ pc' = "ready"
    BY <1>1 DEF Preview, Begin
  <2>. QED  BY <2>1, <2>2
<1>2. CASE Restore
  <2>1. \A b \in DOMAIN journals : ~Pending(b)
    BY <1>2 DEF Restore, Begin
  <2>2. UNCHANGED <<file, journals>> /\ tx'.original = file /\ pc' = "check"
    BY <1>2 DEF Restore, Begin
  <2>. QED  BY <2>1, <2>2
<1>3. CASE Standalone
  <2>1. \A b \in DOMAIN journals : ~Pending(b)
    BY <1>3 DEF Standalone, Begin
  <2>2. UNCHANGED <<file, journals>> /\ tx'.original = file /\ pc' = "objects"
    BY <1>3 DEF Standalone, Begin
  <2>. QED  BY <2>1, <2>2
<1>4. CASE Apply
  BY <1>4, <1>T, <1>D DEF Apply
<1>5. CASE Start
  BY <1>5, <1>T, <1>D DEF Start
<1>6. CASE Quit
  BY <1>6, <1>T, <1>D DEF Quit
<1>7. CASE Crash
  BY <1>7, <1>T, <1>D DEF Crash
<1>8. CASE Check
  BY <1>8, <1>T, <1>D DEF Check
<1>9. CASE Checked
  BY <1>9, <1>T, <1>D DEF Checked
<1>10. CASE StoreObject
  BY <1>10, <1>T, <1>D DEF StoreObject
<1>11. CASE StoreManifest
  BY <1>11, <1>T, <1>D DEF StoreManifest
<1>12. CASE StoreJournal
  BY <1>12, <1>T, <1>D DEF StoreJournal, WriteJournal, VisibleInv
<1>13. CASE VerifyBackup
  BY <1>13, <1>T, <1>D DEF VerifyBackup
<1>14. CASE StartReplacement
  BY <1>14, <1>T, <1>D DEF Entry, StartReplacement, WriteJournal, VisibleInv
<1>15. CASE BackupFails
  BY <1>15, <1>T, <1>D DEF BackupFails
<1>16. CASE ReplaceFile
  <2>1. /\ at \in Files /\ Started(tx) /\ pc = "replace"
        /\ UNCHANGED <<journals, tx, written, touched>>
    BY <1>16, <1>T, <1>D DEF ReplaceFile, Started
  <2>2. \A f \in Files : /\ f < at + 1 <=> f < at \/ f = at
                        /\ f <= at <=> f < at \/ f = at
    BY <1>T
  <2>3. CASE tx.original[at] = tx.desired[at]
    <3>1. at' = at + 1 /\ pc' = "replace" /\ UNCHANGED <<file, debt, captured>>
      BY <1>16, <2>3 DEF ReplaceFile
    <3>. QED  BY <1>T, <2>1, <2>2, <2>3, <3>1 DEF Started
  <2>4. CASE tx.original[at] # tx.desired[at]
    <3>1. /\ at' = at /\ pc' = "replace_settle" /\ captured' = file[at]
          /\ file'[at] = tx.desired[at] /\ tx \in debt'[at]
          /\ \A f \in Files : f # at => file'[f] = file[f] /\ debt'[f] = debt[f]
      BY <1>16, <1>D, <2>1, <2>4 DEF ReplaceFile, Commit
    <3>2. \A b \in DOMAIN journals : Pending(b) => b = tx
      BY <2>1 DEF Started
    <3>. QED  BY <1>T, <2>1, <2>2, <2>4, <3>1, <3>2 DEF Started
  <2>. QED  BY <2>3, <2>4
<1>17. CASE Replaced
  BY <1>17, <1>T, <1>D DEF Replaced
<1>18. CASE SettleReplacement
  BY <1>18, <1>T, <1>D DEF SettleReplacement, SettleSucceeds, SettleFails, Accept,
       Undo, Abandon, WrittenInv, Changed
<1>19. CASE ReplaceFails
  BY <1>19, <1>T, <1>D DEF ReplaceFails
<1>20. CASE Readback
  BY <1>20, <1>T, <1>D DEF Readback
<1>21. CASE Verified
  BY <1>21, <1>T, <1>D DEF Verified, WriteJournal
<1>22. CASE Finish
  BY <1>22, <1>T, <1>D DEF Finish, WriteJournal, Changed
<1>23. CASE FinishFails
  BY <1>23, <1>T, <1>D DEF FinishFails
<1>24. CASE RollbackFile
  BY <1>24, <1>T, <1>D DEF RollbackFile, Commit, WrittenInv
<1>25. CASE SettleRollback
  BY <1>25, <1>T, <1>D DEF SettleRollback, SettleSucceeds, SettleFails, Accept, Undo,
       Abandon, Owing, Changed, WrittenInv
<1>26. CASE RollbackReadback
  BY <1>26, <1>T, <1>D DEF RollbackReadback
<1>27. CASE RolledBack
  BY <1>27, <1>T, <1>D DEF RolledBack, WriteJournal
<1>28. CASE SelectDoomed
  BY <1>28, <1>T, <1>D DEF SelectDoomed
<1>29. CASE PruneJournal
  BY <1>29, <1>T, <1>D DEF PruneJournal, Without, VisibleInv
<1>30. CASE PruneManifest
  BY <1>30, <1>T, <1>D DEF PruneManifest, Without
<1>31. CASE PruneObject
  BY <1>31, <1>T, <1>D DEF PruneObject
<1>32. CASE Pruned
  BY <1>32, <1>T, <1>D DEF Pruned
<1>33. CASE PruneFails
  BY <1>33, <1>T, <1>D DEF PruneFails
<1>34. CASE RecoverJournal
  BY <1>34, <1>T, <1>D DEF RecoverJournal, RecoveryFails, Unvisited, WriteJournal
<1>35. CASE Recovered
  BY <1>35, <1>T, <1>D DEF Recovered, Unvisited
<1>36. CASE RecoverFile
  BY <1>36, <1>T, <1>D DEF RecoverFile, RecoveryFails
<1>37. CASE RecoverCommit
  BY <1>37, <1>T, <1>D DEF RecoverCommit, RecoveryFails, Commit
<1>38. CASE SettleRecovery
  BY <1>38, <1>T, <1>D DEF SettleRecovery, RecoveryFails, SettleSucceeds, SettleFails,
       Accept, Undo, Abandon, Owing, Changed
<1>39. CASE RecoverReadback
  BY <1>39, <1>T, <1>D DEF RecoverReadback, RecoveryFails
<1>40. CASE RecoverFinish
  BY <1>40, <1>T, <1>D DEF RecoverFinish, RecoveryFails, WriteJournal, Changed
<1>41. CASE \E f \in Files, bytes \in Bytes : Edit(f, bytes)
  BY <1>41 DEF Edit
<1>42. CASE UNCHANGED vars
  BY <1>42
<1>. QED
  BY <1>1, <1>2, <1>3, <1>4, <1>5, <1>6, <1>7, <1>8, <1>9, <1>10, <1>11, <1>12,
     <1>13, <1>14, <1>15, <1>16, <1>17, <1>18, <1>19, <1>20, <1>21, <1>22, <1>23,
     <1>24, <1>25, <1>26, <1>27, <1>28, <1>29, <1>30, <1>31, <1>32, <1>33, <1>34,
     <1>35, <1>36, <1>37, <1>38, <1>39, <1>40, <1>41, <1>42
     DEF Next, Work, User, Environment, BackupPhase, ReplacePhase, RollbackPhase,
         PrunePhase, RecoveryPhase
-----------------------------------------------------------------------------
(* The strengthened invariants hold from the start *)

LEMMA ChangeInit ==
    Init => NewestInv /\ OneChangeInv /\ WrittenInv /\ DebtInv /\ EditInv /\ UntouchedInv
<1>. SUFFICES ASSUME Init
              PROVE  NewestInv /\ OneChangeInv /\ WrittenInv /\ DebtInv /\ EditInv /\ UntouchedInv
  OBVIOUS
<1>1. /\ pc = "off" /\ DOMAIN journals = {} /\ DOMAIN manifests = {}
      /\ \A f \in Files : debt[f] = {} /\ edit[f] = NoBytes
  BY DEF Init
<1>2. NewestInv
  BY <1>1 DEF NewestInv, ReplaceSteps
<1>3. OneChangeInv
  BY <1>1 DEF OneChangeInv, ChangeSteps, ReplacingSteps, ReplaceSteps, RollbackSteps
<1>4. WrittenInv
  BY <1>1 DEF WrittenInv, BackupSteps, ReplaceSteps, RollbackSteps
<1>5. DebtInv /\ EditInv
  BY <1>1 DEF DebtInv, EditInv
<1>6. UntouchedInv
  BY <1>1 DEF UntouchedInv, BackupSteps
<1>. QED  BY <1>2, <1>3, <1>4, <1>5, <1>6

(* A change on top of an unsettled one is never forgotten *)
LEMMA OverlapStays == [Next]_vars /\ overlapped => overlapped'
<1>. SUFFICES ASSUME [Next]_vars, overlapped PROVE overlapped'
  OBVIOUS
<1>. USE DEF vars, disk, store, archive, config, plan, progress, memory, ghosts, counts
<1>1. CASE User
  BY <1>1 DEF User, Preview, Restore, Standalone, Begin, Apply, Start, Quit
<1>2. CASE Check \/ Checked \/ BackupPhase
  BY <1>2 DEF Check, Checked, BackupPhase, StoreObject, StoreManifest, StoreJournal,
     VerifyBackup, StartReplacement, BackupFails
<1>3. CASE ReplacePhase
  BY <1>3 DEF ReplacePhase, ReplaceFile, Replaced, SettleReplacement, ReplaceFails, Readback,
     Verified, Finish, FinishFails
<1>4. CASE RollbackPhase
  BY <1>4 DEF RollbackPhase, RollbackFile, SettleRollback, RollbackReadback, RolledBack
<1>5. CASE PrunePhase
  BY <1>5 DEF PrunePhase, SelectDoomed, PruneJournal, PruneManifest, PruneObject, Pruned,
     PruneFails
<1>6. CASE RecoveryPhase
  BY <1>6 DEF RecoveryPhase, RecoverJournal, Recovered, RecoverFile, RecoverCommit,
     SettleRecovery, RecoverReadback, RecoverFinish
<1>7. CASE Environment
  BY <1>7 DEF Environment, Crash, Edit
<1>8. CASE UNCHANGED vars
  BY <1>8
<1>. QED  BY <1>1, <1>2, <1>3, <1>4, <1>5, <1>6, <1>7, <1>8 DEF Next, Work

ChangeInv == VisibleInv /\ WrittenInv /\ (overlapped \/ OneChangeInv)

(* Without an overlap: one change at a time, of the files it wrote *)
LEMMA OneChangeInvariant == Spec => []ChangeInv
<1>1. Init => ChangeInv
  BY ChangeInit DEF ChangeInv, Init, VisibleInv, RecoverySteps
<1>2. TypeInv /\ ChangeInv /\ [Next]_vars
         => ChangeInv'
  BY VisibleStep, OneChangeStep, WrittenStep, OverlapStays DEF ChangeInv
<1>. QED  BY <1>1, <1>2, TypeInvariant, PTL DEF Spec

OwedInv == overlapped \/ (DebtInv /\ UntouchedInv)

LEMMA DebtInvariant == Spec => []OwedInv
<1>1. Init => OwedInv
  BY ChangeInit DEF OwedInv
<1>2. TypeInv /\ ChangeInv /\ OwedInv /\ [Next]_vars => OwedInv'
  BY DebtStep, UntouchedStep, OverlapStays DEF ChangeInv, OwedInv
<1>. QED  BY <1>1, <1>2, TypeInvariant, OneChangeInvariant, PTL DEF Spec

(* Whatever a change has written can be undone: while it is neither finished *)
(* nor undone its journal is pending (apply_preview, rollback_written_files, *)
(* recover_transactions), whatever fails and wherever the process dies, but  *)
(* for a file whose captured bytes another program held and up to a change   *)
(* on top of an unsettled one; prune_verified keeps the newest backup.       *)
THEOREM ChangeUndoable == Spec => []ChangeCanBeUndone
<1>1. Init => NewestInv /\ ChainInv
  BY ChangeInit DEF Init, ChainInv, BackupChain, OnBackupSteps, ReplaceSteps,
     RollbackSteps, RecoverySteps
<1>2. TypeInv /\ (NewestInv /\ ChainInv) /\ [Next]_vars => (NewestInv /\ ChainInv)'
  BY NewestStep, ChainStep
<1>3. OwedInv => DebtRecorded
  BY DEF OwedInv, DebtInv, DebtRecorded
<1>4. NewestInv /\ ChainInv => LatestBackupKept
  BY DEF NewestInv, ChainInv, BackupChain, LatestBackupKept, Verifies
<1>5. OwedInv /\ (NewestInv /\ ChainInv) => ChangeCanBeUndone
  BY <1>3, <1>4 DEF ChangeCanBeUndone
<1>. QED  BY <1>1, <1>2, <1>5, TypeInvariant, DebtInvariant, PTL DEF Spec

KeptInv == overlapped \/ EditInv

(* An edit that another program makes is not destroyed by a transaction or   *)
(* its recovery, even when the captured file cannot be opened: it is in the  *)
(* file, in a sibling or in the backup (atomic_replace_utf8_if_unchanged),   *)
(* up to a change on top of an unsettled one.                                *)
THEOREM EditsSurvive == Spec => []EditSurvives
<1>1. Init => KeptInv /\ ChainInv
  BY ChangeInit DEF Init, KeptInv, ChainInv, BackupChain, OnBackupSteps, ReplaceSteps,
     RollbackSteps, RecoverySteps
<1>2. TypeInv /\ ChangeInv /\ (KeptInv /\ ChainInv) /\ [Next]_vars
         => (KeptInv /\ ChainInv)'
  BY EditStep, ChainStep, OverlapStays DEF ChangeInv, KeptInv
<1>3. KeptInv /\ ChainInv => EditSurvives
  <2>1. SUFFICES ASSUME EditInv, ChainInv, NEW f \in Files, edit[f] # NoBytes
                 PROVE  \/ edit[f] = file[f]
                        \/ edit[f] \in siblings[f] \cup objects
                        \/ pc \in SettleSteps /\ at = f /\ edit[f] = captured
    BY DEF KeptInv, EditSurvives
  <2>2. Held(f) => edit[f] \in objects
    BY <2>1 DEF ChainInv, BackupChain, Held, Pending
  <2>. QED  BY <2>1, <2>2 DEF EditInv, Kept, Settling
<1>. QED  BY <1>1, <1>2, <1>3, TypeInvariant, OneChangeInvariant, PTL DEF Spec

-----------------------------------------------------------------------------
(* The transaction implements AtomicConfig *)

(* The settled contents of the files, spelled out: there is one journal at   *)
(* most that an unfinished change has left.                                  *)
SettledKnown ==
    \A f \in Files :
        /\ \A b : Started(b) =>
              Settled(f) = IF file[f] = b.desired[f] THEN b.original[f] ELSE file[f]
        /\ (\A b : ~Started(b)) => Settled(f) = file[f]

LEMMA SettledValue == OneChangeInv => SettledKnown
<1>. SUFFICES ASSUME OneChangeInv, NEW f \in Files
              PROVE  /\ \A b : Started(b) => Settled(f) =
                           IF file[f] = b.desired[f] THEN b.original[f] ELSE file[f]
                     /\ (\A b : ~Started(b)) => Settled(f) = file[f]
  BY DEF SettledKnown
<1>1. \A b, c : Started(b) /\ Started(c) => b = c
  BY DEF OneChangeInv, Started, Pending
<1>2. ASSUME NEW b, Started(b)
      PROVE  Settled(f) = IF file[f] = b.desired[f] THEN b.original[f] ELSE file[f]
  <2>1. CASE file[f] = b.desired[f]
    <3>1. Unsettled(f) = {b}
      BY <1>1, <1>2, <2>1 DEF Unsettled, Started
    <3>. QED  BY <2>1, <3>1 DEF Settled
  <2>2. CASE file[f] # b.desired[f]
    <3>1. Unsettled(f) = {}
      BY <1>1, <1>2, <2>2 DEF Unsettled, Started
    <3>. QED  BY <2>2, <3>1 DEF Settled
  <2>. QED  BY <2>1, <2>2
<1>3. ASSUME \A b : ~Started(b) PROVE Settled(f) = file[f]
  <2>1. Unsettled(f) = {}
    BY <1>3 DEF Unsettled, Started
  <2>. QED  BY <2>1 DEF Settled
<1>. QED  BY <1>2, <1>3

LEMMA SettledType == TypeInv => [f \in Files |-> Settled(f)] \in [Files -> Bytes]
<1>. SUFFICES ASSUME TypeInv, NEW f \in Files PROVE Settled(f) \in Bytes
  OBVIOUS
<1>1. file[f] \in Bytes /\ DOMAIN journals \subseteq BackupIds
  BY DEF TypeInv, TypeOK, DiskOK, Contents
<1>2. CASE Unsettled(f) = {}
  BY <1>1, <1>2 DEF Settled
<1>3. CASE Unsettled(f) # {}
  <2>1. (CHOOSE b \in Unsettled(f) : TRUE) \in BackupIds
    BY <1>1, <1>3 DEF Unsettled
  <2>. QED  BY <1>3, <2>1, BackupBytes DEF Settled
<1>. QED  BY <1>2, <1>3

(* The change at hand, or the lack of one, as AtomicConfig sees it *)
Target == IF tx = NoBackup THEN CHOOSE c \in Contents : TRUE ELSE tx.desired

LEMMA TargetType == TypeInv => Target \in [Files -> Bytes]
<1>. SUFFICES ASSUME TypeInv PROVE Target \in [Files -> Bytes]
  OBVIOUS
<1>1. \E c \in Contents : TRUE
  BY DEF TypeInv, TypeOK, DiskOK
<1>2. (CHOOSE c \in Contents : TRUE) \in Contents
  BY <1>1
<1>3. tx # NoBackup => tx.desired \in Contents
  BY DEF TypeInv, TypeOK, ProcessOK, BackupIds
<1>. QED  BY <1>2, <1>3 DEF Target, Contents

(* A step that leaves the settled contents of untouched files alone *)
Quiet == /\ UNCHANGED <<tx, touched>>
         /\ \A f \in Files \ touched : Settled(f)' = Settled(f)

(* Every step without an overlap is a step of AtomicConfig *)
LEMMA AtomicStep ==
    ASSUME overlapped = FALSE, overlapped' = FALSE, TypeInv, VisibleInv, OneChangeInv, WrittenInv,
           DebtInv, UntouchedInv, TypeInv', OneChangeInv', UntouchedInv', [Next]_vars
    PROVE  Atomic!Next \/ UNCHANGED Atomic!avars
<1>. USE DEF Goto, Return, OtherCounts, Started, Quiet,
     BackupSteps, ReplaceSteps, RollbackSteps,
     RecoverySteps, PruneSteps, SettleSteps,
     vars, disk, store, archive, config, plan, progress, memory, ghosts, counts
<1>V. \A f \in Files :
         /\ \A b : Started(b) =>
               Settled(f) = IF file[f] = b.desired[f] THEN b.original[f] ELSE file[f]
         /\ (\A b : ~Started(b)) => Settled(f) = file[f]
  BY SettledValue DEF SettledKnown
<1>W. \A f \in Files :
         /\ \A b : Started(b)' =>
               Settled(f)' = IF file'[f] = b.desired[f] THEN b.original[f] ELSE file'[f]
         /\ (\A b : ~Started(b)') => Settled(f)' = file'[f]
  <2>1. (OneChangeInv => SettledKnown)'
    BY SettledValue, PTL
  <2>. QED  BY <2>1 DEF SettledKnown
<1>T. /\ \A f \in Files : f \in Nat /\ 1 <= f /\ f <= NumFiles
      /\ NumFiles \in Nat /\ at \in Nat
  BY ConstantsAssumption DEF Files, TypeInv, TypeOK, ProcessOK
<1>A. \A f \in Files \ touched : \A b : Started(b) => Settled(f) = b.original[f]
  BY <1>V DEF UntouchedInv, Started
<1>B. \A f \in Files \ touched' : \A b : Started(b)' => Settled(f)' = b.original[f]
  BY <1>W DEF UntouchedInv, Started
<1>C. [f \in Files |-> Settled(f)'] \in [Files -> Bytes]
  <2>1. (TypeInv => [f \in Files |-> Settled(f)] \in [Files -> Bytes])'
    BY SettledType, PTL
  <2>. QED  BY <2>1
<1>O. Competing = touched /\ Competing' = touched'
  BY DEF Competing
<1>E. Target' \in [Files -> Bytes]
  <2>1. (TypeInv => Target \in [Files -> Bytes])'
    BY TargetType, PTL
  <2>. QED  BY <2>1
<1>Q. ASSUME Quiet PROVE Atomic!Compete
  <2>1. \A f \in Files \ touched :
           [g \in Files |-> Settled(g)'][f] = [g \in Files |-> Settled(g)][f]
    BY <1>Q
  <2>2. \E settled \in [Files -> Bytes] :
           /\ \A f \in Files \ touched : settled[f] = [g \in Files |-> Settled(g)][f]
           /\ [g \in Files |-> Settled(g)]' = settled
    BY <1>C, <2>1
  <2>3. UNCHANGED <<Target, touched>>
    BY <1>Q DEF Target
  <2>. QED  BY <1>O, <2>2, <2>3 DEF Atomic!Compete, Target
<1>Z. ASSUME at \in Files, UNCHANGED <<journals, tx>>, Abandon PROVE Atomic!Edit(at)
  <2>1. \A f \in Files : Settled(f)' = Settled(f)
    BY <1>V, <1>W, <1>Z DEF Abandon
  <2>2. [f \in Files |-> Settled(f)'] =
           [[f \in Files |-> Settled(f)] EXCEPT ![at] = Settled(at)]
    BY <2>1
  <2>3. Settled(at) \in Bytes
    BY <1>Z, SettledType
  <2>4. \E b \in Bytes : [f \in Files |-> Settled(f)]' =
           [[f \in Files |-> Settled(f)] EXCEPT ![at] = b]
    BY <2>2, <2>3
  <2>5. UNCHANGED Target /\ touched' = touched \cup {at}
    BY <1>Z DEF Target, Abandon
  <2>. QED  BY <1>O, <2>4, <2>5 DEF Atomic!Edit, Target
<1>. USE DEF OneChangeInv, ChangeSteps, ReplacingSteps, Pending
<1>1. CASE Preview
  <2>1. \A b : ~Started(b) /\ ~Started(b)'
    BY <1>1 DEF Preview, Begin, VisibleInv
  <2>2. file' = file /\ touched' = {}
    BY <1>1 DEF Preview, Begin
  <2>3. \A f \in Files : Settled(f)' = Settled(f)
    BY <1>V, <1>W, <2>1, <2>2
  <2>4. Atomic!Request
    BY <1>E, <1>O, <2>2, <2>3 DEF Atomic!Request, Target
  <2>. QED  BY <2>4 DEF Atomic!Next
<1>2. CASE Restore
  <2>1. \A b : ~Started(b) /\ ~Started(b)'
    BY <1>2 DEF Restore, Begin, VisibleInv
  <2>2. file' = file /\ touched' = {}
    BY <1>2 DEF Restore, Begin
  <2>3. \A f \in Files : Settled(f)' = Settled(f)
    BY <1>V, <1>W, <2>1, <2>2
  <2>4. Atomic!Request
    BY <1>E, <1>O, <2>2, <2>3 DEF Atomic!Request, Target
  <2>. QED  BY <2>4 DEF Atomic!Next
<1>3. CASE Standalone
  <2>1. \A b : ~Started(b) /\ ~Started(b)'
    BY <1>3 DEF Standalone, Begin, VisibleInv
  <2>2. file' = file /\ touched' = {}
    BY <1>3 DEF Standalone, Begin
  <2>3. \A f \in Files : Settled(f)' = Settled(f)
    BY <1>V, <1>W, <2>1, <2>2
  <2>4. Atomic!Request
    BY <1>E, <1>O, <2>2, <2>3 DEF Atomic!Request, Target
  <2>. QED  BY <2>4 DEF Atomic!Next
<1>4. CASE Apply
  <2>1. Quiet
    BY <1>4, <1>A, <1>B, <1>V, <1>W DEF Apply
  <2>. QED  BY <1>Q, <2>1 DEF Atomic!Next
<1>5. CASE Start
  <2>1. Quiet
    BY <1>5, <1>A, <1>B, <1>V, <1>W DEF Start
  <2>. QED  BY <1>Q, <2>1 DEF Atomic!Next
<1>6. CASE Quit
  <2>1. Quiet
    BY <1>6, <1>A, <1>B, <1>V, <1>W DEF Quit
  <2>. QED  BY <1>Q, <2>1 DEF Atomic!Next
<1>7. CASE Crash
  <2>1. Quiet
    BY <1>7, <1>A, <1>B, <1>V, <1>W DEF Crash
  <2>. QED  BY <1>Q, <2>1 DEF Atomic!Next
<1>8. CASE Check
  <2>1. Quiet
    BY <1>8, <1>A, <1>B, <1>V, <1>W DEF Check
  <2>. QED  BY <1>Q, <2>1 DEF Atomic!Next
<1>9. CASE Checked
  <2>1. Quiet
    BY <1>9, <1>A, <1>B, <1>V, <1>W DEF Checked
  <2>. QED  BY <1>Q, <2>1 DEF Atomic!Next
<1>10. CASE StoreObject
  <2>1. Quiet
    BY <1>10, <1>A, <1>B, <1>V, <1>W DEF StoreObject
  <2>. QED  BY <1>Q, <2>1 DEF Atomic!Next
<1>11. CASE StoreManifest
  <2>1. Quiet
    BY <1>11, <1>A, <1>B, <1>V, <1>W DEF StoreManifest
  <2>. QED  BY <1>Q, <2>1 DEF Atomic!Next
<1>12. CASE StoreJournal
  <2>1. Quiet
    BY <1>12, <1>A, <1>B, <1>V, <1>W DEF StoreJournal, WriteJournal, VisibleInv
  <2>. QED  BY <1>Q, <2>1 DEF Atomic!Next
<1>13. CASE VerifyBackup
  <2>1. Quiet
    BY <1>13, <1>A, <1>B, <1>V, <1>W DEF VerifyBackup
  <2>. QED  BY <1>Q, <2>1 DEF Atomic!Next
<1>14. CASE StartReplacement
  <2>1. \A b : ~Started(b)
    BY <1>14 DEF Entry, StartReplacement, VisibleInv
  <2>2. \A b : Started(b)' => b = tx
    BY <1>14, <2>1 DEF Entry, StartReplacement, WriteJournal
  <2>3. UNCHANGED <<file, tx, touched>>
    BY <1>14 DEF Entry, StartReplacement
  <2>4. \A f \in Files \ touched : file[f] = tx.original[f]
    BY <1>14 DEF Entry, StartReplacement, UntouchedInv
  <2>5. Quiet
    BY <1>B, <1>V, <1>W, <2>1, <2>2, <2>3, <2>4
  <2>. QED  BY <1>Q, <2>5 DEF Atomic!Next
<1>15. CASE BackupFails
  <2>1. Quiet
    BY <1>15, <1>A, <1>B, <1>V, <1>W DEF BackupFails
  <2>. QED  BY <1>Q, <2>1 DEF Atomic!Next
<1>16. CASE ReplaceFile
  <2>1. Quiet
    BY <1>16, <1>A, <1>B, <1>V, <1>W DEF ReplaceFile
  <2>. QED  BY <1>Q, <2>1 DEF Atomic!Next
<1>17. CASE Replaced
  <2>1. Quiet
    BY <1>17, <1>A, <1>B, <1>V, <1>W DEF Replaced
  <2>. QED  BY <1>Q, <2>1 DEF Atomic!Next
<1>18. CASE SettleReplacement
  <2>1. at \in Files /\ UNCHANGED <<journals, tx>>
    BY <1>18 DEF SettleReplacement, TypeInv, Position, OnFileSteps
  <2>2. CASE Abandon
    BY <1>Z, <2>1, <2>2 DEF Atomic!Next
  <2>3. CASE UNCHANGED touched
    <3>1. Quiet
      BY <1>18, <1>A, <1>B, <1>V, <1>W, <2>1, <2>3 DEF SettleReplacement
    <3>. QED  BY <1>Q, <3>1 DEF Atomic!Next
  <2>. QED  BY <1>18, <2>2, <2>3 DEF SettleReplacement, SettleSucceeds, SettleFails, Accept, Undo
<1>19. CASE ReplaceFails
  <2>1. Quiet
    BY <1>19, <1>A, <1>B, <1>V, <1>W DEF ReplaceFails
  <2>. QED  BY <1>Q, <2>1 DEF Atomic!Next
<1>20. CASE Readback
  <2>1. Quiet
    BY <1>20, <1>A, <1>B, <1>V, <1>W DEF Readback
  <2>. QED  BY <1>Q, <2>1 DEF Atomic!Next
<1>21. CASE Verified
  <2>1. CASE UNCHANGED journals
    <3>1. Quiet
      BY <1>21, <1>V, <1>W, <2>1 DEF Verified
    <3>. QED  BY <1>Q, <3>1 DEF Atomic!Next
  <2>2. CASE WriteJournal(tx, "verification_complete")
    <3>1. \A b : ~Started(b)'
      BY <1>21, <2>2 DEF Verified, WriteJournal
    <3>2. UNCHANGED <<file, tx, touched>> /\ tx # NoBackup
      BY <1>21, ConstantsAssumption DEF Verified, TypeInv, Position, TxSteps, Steps
    <3>3. \A f \in Files \ touched : file[f] = tx.desired[f]
      BY <1>21 DEF Verified, UntouchedInv
    <3>4. \A f \in Files \ touched : Settled(f)' = tx.desired[f]
      BY <1>W, <3>1, <3>2, <3>3
    <3>5. Atomic!Commit
      BY <1>C, <1>O, <3>2, <3>4 DEF Atomic!Commit
    <3>. QED  BY <3>5 DEF Atomic!Next
  <2>. QED  BY <1>21, <2>1, <2>2 DEF Verified
<1>22. CASE Finish
  <2>1. Quiet
    BY <1>22, <1>A, <1>B, <1>V, <1>W DEF Finish, WriteJournal
  <2>. QED  BY <1>Q, <2>1 DEF Atomic!Next
<1>23. CASE FinishFails
  <2>1. Quiet
    BY <1>23, <1>A, <1>B, <1>V, <1>W DEF FinishFails
  <2>. QED  BY <1>Q, <2>1 DEF Atomic!Next
<1>24. CASE RollbackFile
  <2>1. Quiet
    BY <1>24, <1>A, <1>B, <1>V, <1>W DEF RollbackFile
  <2>. QED  BY <1>Q, <2>1 DEF Atomic!Next
<1>25. CASE SettleRollback
  <2>1. at \in Files /\ UNCHANGED <<journals, tx>>
    BY <1>25 DEF SettleRollback, TypeInv, Position, OnFileSteps
  <2>2. CASE Abandon
    BY <1>Z, <2>1, <2>2 DEF Atomic!Next
  <2>3. CASE UNCHANGED touched
    <3>1. Quiet
      BY <1>25, <1>A, <1>B, <1>V, <1>W, <2>1, <2>3 DEF SettleRollback
    <3>. QED  BY <1>Q, <3>1 DEF Atomic!Next
  <2>. QED  BY <1>25, <2>2, <2>3 DEF SettleRollback, SettleSucceeds, SettleFails, Accept, Undo
<1>26. CASE RollbackReadback
  <2>1. Quiet
    BY <1>26, <1>A, <1>B, <1>V, <1>W DEF RollbackReadback
  <2>. QED  BY <1>Q, <2>1 DEF Atomic!Next
<1>27. CASE RolledBack
  <2>1. CASE ~rollbackFailed /\ WriteJournal(tx, "complete")
    <3>1. \A b : ~Started(b)'
      BY <1>27, <2>1 DEF RolledBack, WriteJournal
    <3>2. UNCHANGED <<file, tx, touched>>
      BY <1>27 DEF RolledBack
    <3>3. Started(tx)
      BY <1>27 DEF RolledBack
    <3>4. \A f \in Files : debt[f] = {}
      BY <1>27, <1>T, <2>1 DEF RolledBack, WriteJournal, DebtInv, Ahead
    <3>5. \A f \in Files \ touched : file[f] = tx.original[f]
      BY <3>3, <3>4 DEF UntouchedInv
    <3>6. Quiet
      BY <1>A, <1>W, <3>1, <3>2, <3>3, <3>5
    <3>. QED  BY <1>Q, <3>6 DEF Atomic!Next
  <2>2. CASE UNCHANGED journals
    <3>1. Quiet
      BY <1>27, <1>V, <1>W, <2>2 DEF RolledBack
    <3>. QED  BY <1>Q, <3>1 DEF Atomic!Next
  <2>. QED  BY <1>27, <2>1, <2>2 DEF RolledBack
<1>28. CASE SelectDoomed
  <2>1. Quiet
    BY <1>28, <1>A, <1>B, <1>V, <1>W DEF SelectDoomed
  <2>. QED  BY <1>Q, <2>1 DEF Atomic!Next
<1>29. CASE PruneJournal
  <2>1. \A b : ~Started(b)
    BY <1>29 DEF PruneJournal, VisibleInv
  <2>2. UNCHANGED <<file, tx, touched>> /\ \A b : ~Started(b)'
    BY <1>29, <2>1 DEF PruneJournal, Without
  <2>3. Quiet
    BY <1>V, <1>W, <2>1, <2>2
  <2>. QED  BY <1>Q, <2>3 DEF Atomic!Next
<1>30. CASE PruneManifest
  <2>1. Quiet
    BY <1>30, <1>A, <1>B, <1>V, <1>W DEF PruneManifest, Without
  <2>. QED  BY <1>Q, <2>1 DEF Atomic!Next
<1>31. CASE PruneObject
  <2>1. Quiet
    BY <1>31, <1>A, <1>B, <1>V, <1>W DEF PruneObject
  <2>. QED  BY <1>Q, <2>1 DEF Atomic!Next
<1>32. CASE Pruned
  <2>1. Quiet
    BY <1>32, <1>A, <1>B, <1>V, <1>W DEF Pruned
  <2>. QED  BY <1>Q, <2>1 DEF Atomic!Next
<1>33. CASE PruneFails
  <2>1. Quiet
    BY <1>33, <1>A, <1>B, <1>V, <1>W DEF PruneFails
  <2>. QED  BY <1>Q, <2>1 DEF Atomic!Next
<1>34. CASE RecoverJournal
  <2>1. \A b : Started(b)' <=> Started(b)
    BY <1>34 DEF RecoverJournal, RecoveryFails, Unvisited, WriteJournal
  <2>2. UNCHANGED <<file, touched>>
    BY <1>34 DEF RecoverJournal
  <2>3. \A f \in Files : Settled(f)' = Settled(f)
    BY <1>V, <1>W, <2>1, <2>2
  <2>4. Atomic!Resume
    BY <1>E, <1>O, <2>2, <2>3 DEF Atomic!Resume, Target
  <2>. QED  BY <2>4 DEF Atomic!Next
<1>35. CASE Recovered
  <2>1. Quiet
    BY <1>35, <1>A, <1>B, <1>V, <1>W DEF Recovered, Unvisited
  <2>. QED  BY <1>Q, <2>1 DEF Atomic!Next
<1>36. CASE RecoverFile
  <2>1. Quiet
    BY <1>36, <1>A, <1>B, <1>V, <1>W DEF RecoverFile, RecoveryFails
  <2>. QED  BY <1>Q, <2>1 DEF Atomic!Next
<1>37. CASE RecoverCommit
  <2>1. Quiet
    BY <1>37, <1>A, <1>B, <1>V, <1>W DEF RecoverCommit, RecoveryFails
  <2>. QED  BY <1>Q, <2>1 DEF Atomic!Next
<1>38. CASE SettleRecovery
  <2>1. at \in Files /\ UNCHANGED <<journals, tx>>
    BY <1>38 DEF SettleRecovery, TypeInv, Position, OnFileSteps
  <2>2. CASE Abandon
    BY <1>Z, <2>1, <2>2 DEF Atomic!Next
  <2>3. CASE UNCHANGED touched
    <3>1. Quiet
      BY <1>38, <1>A, <1>B, <1>V, <1>W, <2>1, <2>3 DEF SettleRecovery
    <3>. QED  BY <1>Q, <3>1 DEF Atomic!Next
  <2>. QED  BY <1>38, <2>2, <2>3 DEF SettleRecovery, SettleSucceeds, SettleFails, Accept, Undo
<1>39. CASE RecoverReadback
  <2>1. Quiet
    BY <1>39, <1>A, <1>B, <1>V, <1>W DEF RecoverReadback, RecoveryFails
  <2>. QED  BY <1>Q, <2>1 DEF Atomic!Next
<1>40. CASE RecoverFinish
  <2>1. CASE Started(tx) /\ WriteJournal(tx, "complete")
    <3>1. \A b : ~Started(b)'
      BY <1>40, <2>1 DEF RecoverFinish, WriteJournal
    <3>2. UNCHANGED <<file, tx, touched>>
      BY <1>40 DEF RecoverFinish
    <3>3. Started(tx)
      BY <1>40, <2>1 DEF RecoverFinish
    <3>4. \A f \in Files : debt[f] = {}
      BY <1>40, <1>T, <2>1 DEF RecoverFinish, WriteJournal, DebtInv, Ahead
    <3>5. \A f \in Files \ touched : file[f] = tx.original[f]
      BY <3>3, <3>4 DEF UntouchedInv
    <3>6. Quiet
      BY <1>A, <1>W, <3>1, <3>2, <3>3, <3>5
    <3>. QED  BY <1>Q, <3>6 DEF Atomic!Next
  <2>2. CASE (\A b : Started(b)' <=> Started(b)) /\ UNCHANGED <<file, tx, touched>>
    <3>1. Quiet
      BY <1>V, <1>W, <2>2
    <3>. QED  BY <1>Q, <3>1 DEF Atomic!Next
  <2>3. CASE ~Started(tx) /\ WriteJournal(tx, "complete")
    <3>1. \A b : Started(b)' <=> Started(b)
      BY <2>3 DEF WriteJournal
    <3>. QED  BY <1>40, <2>2, <3>1 DEF RecoverFinish
  <2>4. CASE UNCHANGED journals
    BY <1>40, <2>2, <2>4 DEF RecoverFinish
  <2>. QED  BY <1>40, <2>1, <2>3, <2>4 DEF RecoverFinish
<1>41. CASE \E f \in Files, bytes \in Bytes : Edit(f, bytes)
  <2>1. PICK g \in Files, bytes \in Bytes : Edit(g, bytes)
    BY <1>41
  <2>2. /\ \A f \in Files : f # g => file'[f] = file[f]
        /\ UNCHANGED <<journals, tx>> /\ touched' = touched \cup {g}
    BY <2>1 DEF Edit, TypeInv, TypeOK, DiskOK, Contents
  <2>3. \A f \in Files : f # g => Settled(f)' = Settled(f)
    BY <1>V, <1>W, <2>2
  <2>4. [f \in Files |-> Settled(f)'] =
           [[f \in Files |-> Settled(f)] EXCEPT ![g] = Settled(g)']
    BY <2>3
  <2>5. Settled(g)' \in Bytes
    BY <1>C
  <2>6. \E b \in Bytes : [f \in Files |-> Settled(f)]' =
           [[f \in Files |-> Settled(f)] EXCEPT ![g] = b]
    BY <2>4, <2>5
  <2>7. UNCHANGED Target
    BY <2>2 DEF Target
  <2>8. Atomic!Edit(g)
    BY <1>O, <2>2, <2>6, <2>7 DEF Atomic!Edit, Target
  <2>. QED  BY <2>8 DEF Atomic!Next
<1>42. CASE UNCHANGED vars
  <2>1. Quiet
    BY <1>42, <1>V, <1>W
  <2>. QED  BY <1>Q, <2>1 DEF Atomic!Next
<1>. QED
  BY <1>1, <1>2, <1>3, <1>4, <1>5, <1>6, <1>7, <1>8, <1>9, <1>10, <1>11, <1>12,
     <1>13, <1>14, <1>15, <1>16, <1>17, <1>18, <1>19, <1>20, <1>21, <1>22, <1>23,
     <1>24, <1>25, <1>26, <1>27, <1>28, <1>29, <1>30, <1>31, <1>32, <1>33, <1>34,
     <1>35, <1>36, <1>37, <1>38, <1>39, <1>40, <1>41, <1>42
     DEF Next, Work, User, Environment, BackupPhase, ReplacePhase, RollbackPhase,
         PrunePhase, RecoveryPhase

(* Once changes have overlapped, what the files settle to is left open *)
LEMMA OverlapStep ==
    ASSUME overlapped' = TRUE, TypeInv, TypeInv', [Next]_vars
    PROVE  Atomic!Next \/ UNCHANGED Atomic!avars
<1>1. [f \in Files |-> Settled(f)'] \in [Files -> Bytes]
  <2>1. (TypeInv => [f \in Files |-> Settled(f)] \in [Files -> Bytes])'
    BY SettledType, PTL
  <2>. QED  BY <2>1
<1>2. Target' \in [Files -> Bytes]
  <2>1. (TypeInv => Target \in [Files -> Bytes])'
    BY TargetType, PTL
  <2>. QED  BY <2>1
<1>3. Competing' = Files
  BY DEF Competing
<1>4. ASSUME UNCHANGED file, \A f \in Files : Unsettled(f)' = Unsettled(f)
      PROVE  UNCHANGED [f \in Files |-> Settled(f)]
  <2>1. ASSUME NEW f \in Files PROVE Settled(f)' = Settled(f)
    <3>1. Unsettled(f)' = Unsettled(f)
      BY <1>4
    <3>2. CASE Unsettled(f) = {}
      BY <1>4, <3>1, <3>2 DEF Settled
    <3>3. CASE Unsettled(f) # {}
      BY <3>1, <3>3 DEF Settled
    <3>. QED  BY <3>2, <3>3
  <2>. QED  BY <2>1
<1>5. ASSUME UNCHANGED <<tx, overlapped>> PROVE Atomic!Compete
  <2>1. Competing = Files /\ UNCHANGED Target
    BY <1>5 DEF Competing, Target
  <2>2. \E settled \in [Files -> Bytes] : [f \in Files |-> Settled(f)]' = settled
    BY <1>1
  <2>. QED  BY <1>3, <2>1, <2>2 DEF Atomic!Compete, Target
<1>. USE DEF vars, disk, store, archive, config, plan, progress, memory, ghosts, counts
<1>6. CASE Preview \/ Restore \/ Standalone
  <2>1. UNCHANGED <<file, journals>>
    BY <1>6 DEF Preview, Restore, Standalone, Begin
  <2>2. \A f \in Files : Unsettled(f)' = Unsettled(f)
    BY <2>1 DEF Unsettled
  <2>3. UNCHANGED [f \in Files |-> Settled(f)]
    BY <1>4, <2>1, <2>2
  <2>. QED  BY <1>2, <1>3, <2>3 DEF Atomic!Next, Atomic!Overlap, Target
<1>7. CASE RecoverJournal
  <2>1. UNCHANGED <<file, overlapped>>
    BY <1>7 DEF RecoverJournal
  <2>2. \A b : Started(b)' <=> Started(b)
    BY <1>7 DEF RecoverJournal, RecoveryFails, Unvisited, WriteJournal, Started
  <2>3. \A f \in Files : Unsettled(f)' = Unsettled(f)
    BY <2>1, <2>2 DEF Unsettled, Started
  <2>4. UNCHANGED [f \in Files |-> Settled(f)]
    BY <1>4, <2>1, <2>3
  <2>5. Competing = Files
    BY <2>1 DEF Competing
  <2>. QED  BY <1>2, <1>3, <2>4, <2>5 DEF Atomic!Next, Atomic!Resume, Target
<1>8. CASE Apply \/ Start \/ Quit
  BY <1>5, <1>8 DEF Apply, Start, Quit, Atomic!Next
<1>9. CASE Check \/ Checked \/ BackupPhase
  BY <1>5, <1>9 DEF Check, Checked, BackupPhase, StoreObject, StoreManifest, StoreJournal,
     VerifyBackup, StartReplacement, BackupFails, Atomic!Next
<1>10. CASE ReplacePhase
  BY <1>5, <1>10 DEF ReplacePhase, ReplaceFile, Replaced, SettleReplacement, ReplaceFails,
     Readback, Verified, Finish, FinishFails, Atomic!Next
<1>11. CASE RollbackPhase
  BY <1>5, <1>11 DEF RollbackPhase, RollbackFile, SettleRollback, RollbackReadback,
     RolledBack, Atomic!Next
<1>12. CASE PrunePhase
  BY <1>5, <1>12 DEF PrunePhase, SelectDoomed, PruneJournal, PruneManifest, PruneObject,
     Pruned, PruneFails, Atomic!Next
<1>13. CASE Recovered \/ RecoverFile \/ RecoverCommit \/ SettleRecovery \/ RecoverReadback
            \/ RecoverFinish
  BY <1>5, <1>13 DEF Recovered, RecoverFile, RecoverCommit, SettleRecovery, RecoverReadback,
     RecoverFinish, Atomic!Next
<1>14. CASE Environment \/ UNCHANGED vars
  BY <1>5, <1>14 DEF Environment, Crash, Edit, Atomic!Next
<1>. QED
  BY <1>6, <1>7, <1>8, <1>9, <1>10, <1>11, <1>12, <1>13, <1>14
     DEF Next, Work, User, RecoveryPhase

LEMMA AtomicInit == Init => Atomic!Init
<1>. SUFFICES ASSUME Init PROVE Atomic!Init
  OBVIOUS
<1>1. TypeInv
  BY TypeInit
<1>2. [f \in Files |-> Settled(f)] \in [Files -> Bytes]
  BY <1>1, SettledType
<1>3. Target \in [Files -> Bytes] /\ Competing = {}
  BY <1>1, TargetType DEF Init, Competing
<1>. QED  BY <1>2, <1>3 DEF Atomic!Init, Target

(* The transaction with its crashes, failures and recovery implements the    *)
(* all-or-nothing change: a file that nobody else touches or holds reads,    *)
(* once the journals are settled, its old contents until every one reads     *)
(* the new; only a change on top of an unsettled one gives that up.          *)
THEOREM ImplementsAtomicConfig == Spec => AllOrNothing
<1>1. Init => Atomic!Init
  BY AtomicInit
<1>2. TypeInv /\ ChangeInv /\ OwedInv /\ [Next]_vars /\ TypeInv' /\ ChangeInv' /\ OwedInv'
         => [Atomic!Next]_(Atomic!avars)
  <2>. SUFFICES ASSUME TypeInv, ChangeInv, OwedInv, [Next]_vars, TypeInv', ChangeInv', OwedInv'
                PROVE  Atomic!Next \/ UNCHANGED Atomic!avars
    OBVIOUS
  <2>1. overlapped \in BOOLEAN /\ overlapped' \in BOOLEAN
    BY DEF TypeInv, TypeOK, ObservationOK
  <2>2. CASE overlapped' = TRUE
    BY <2>2, OverlapStep
  <2>3. CASE overlapped' = FALSE
    <3>1. overlapped = FALSE
      BY <2>1, <2>3, OverlapStays
    <3>. QED  BY <2>3, <3>1, AtomicStep DEF ChangeInv, OwedInv
  <2>. QED  BY <2>1, <2>2, <2>3
<1>. QED
  BY <1>1, <1>2, TypeInvariant, OneChangeInvariant, DebtInvariant, PTL
     DEF Spec, AllOrNothing, Atomic!Spec
=============================================================================
