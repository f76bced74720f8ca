------------------------ MODULE UpdateTransactionProofs ------------------------
(***************************************************************************)
(* The installation of an update, proved for any number of managed files,   *)
(* of instances, failures and kills: as long as nobody recovers before the  *)
(* journal is written or mistakes a complete update for a broken one, a     *)
(* half replaced package can be repaired and serves nobody, the files a     *)
(* start or the helper needs are there, and the exit code of the helper     *)
(* tells the truth.                                                         *)
(***************************************************************************)
EXTENDS UpdateTransaction, TLAPS

HelperDead == ~Alive(Helper)
HasJournal == journal.phase # "none"
Verified == journal.phase \in {"update_verified", "handoff_ready"}

(* The new package is there and recognised as the result of the update, or  *)
(* it is all that is left of it.                                            *)
Kept == New /\ (Verified \/ (~HasJournal /\ ~staged))

(* Nothing is left to repair, and no step will undo that.                   *)
Settled == HelperDead /\ (Old \/ Kept)

Shapes ==
    /\ DOMAIN target = Files /\ (\A f \in Files : target[f] \in {"old", "new"})
    /\ DOMAIN pc = Procs /\ DOMAIN app = Apps /\ DOMAIN cleaner = Apps
    /\ DOMAIN journal = {"phase", "owner"}
    /\ created \in Apps /\ child \in Procs
    /\ \A a \in Apps : a > created => pc[a] = "none" /\ cleaner[a] = "none"

(* What each step of the helper has established.                            *)
HelperKnows ==
    /\ Alive(Helper) => Requested /\ (HasJournal => journal.owner = Helper)
    /\ pc[Helper] \in {"parse", "wait", "check", "backup", "journal"} => ~HasJournal /\ Old
    /\ pc[Helper] = "journal" => backup = NumFiles
    /\ pc[Helper] \in {"open", "replace", "undo", "restore", "launch", "poll", "final",
                       "stop", "rollback"}
          => HasJournal
    /\ pc[Helper] = "open" => Old
    /\ pc[Helper] \in {"replace", "undo"} => ~Verified
    /\ pc[Helper] \in {"launch", "poll", "final", "stop", "rollback"} => New /\ Verified
    /\ pc[Helper] \in {"poll", "final", "stop"} => child # Helper
    /\ ~HasJournal => Old \/ (New /\ ~staged)

(* While the helper lives, the only other processes are its parent, before  *)
(* it has gone on, the instance it has started, and starting instances,     *)
(* which find the transaction owned, or are premature.                      *)
OthersWait ==
    Alive(Helper) =>
        \A a \in Apps : Alive(a) =>
            \/ a = Parent /\ pc[a] = "running" /\ pc[Helper] \in {"parse", "wait"}
            \/ app[a].kind = "normal" /\ pc[a] \in {"start", "recover"}
            \/ a = child /\ app[a].kind = "ready" /\ pc[Helper] \in {"poll", "final", "stop"}

(* Each kind of instance lives in a package that stays as it is, or is one  *)
(* that repairs it.                                                         *)
KindsAreSettled ==
    \A a \in Apps : Alive(a) =>
        CASE app[a].kind = "ready" -> Kept /\ pc[a] \notin {"recover", "restore"}
          [] app[a].kind = "cleanup" -> Old /\ HelperDead /\ pc[a] \notin {"recover", "restore"}
          [] app[a].kind = "normal" ->
                \/ pc[a] \in {"start", "recover"}
                \/ pc[a] = "restore" /\ HelperDead /\ (Old \/ (HasJournal /\ ~(New /\ Verified)))
                \/ a = Parent /\ pc[a] = "running" /\ Old
                   /\ (HelperDead \/ pc[Helper] \in {"parse", "wait"})
                \/ pc[a] \in {"instance", "running"} /\ ~Requested
          [] OTHER -> FALSE

(* A journal without its backup has nothing left to repair.                 *)
AuthorityOrSettled ==
    Requested /\ HasJournal /\ ~Cleaning => BackupAndStaged \/ Settled

(* The work directory is removed by a thread of a running instance, once    *)
(* nobody needs it.                                                         *)
CleaningIsLate ==
    /\ \A a \in Apps : app[a].waitsFor = Helper \/ HelperDead
    /\ \A a \in Apps : Alive(a) /\ cleaner[a] # "none" => pc[a] = "running"
    /\ Cleaning \/ ~Requested => Settled
    /\ AuthorityOrSettled

ResultIsTrue ==
    /\ result \in {"updated", "kept", "restored"} => HelperDead
    /\ result = "updated" => Kept
    /\ result \in {"kept", "restored"} => Old

UpdateInv ==
    /\ Shapes /\ HelperKnows /\ OthersWait /\ KindsAreSettled /\ CleaningIsLate
    /\ ResultIsTrue

-----------------------------------------------------------------------------
LEMMA InitUpdate == ASSUME UpdateAssumption PROVE Init => UpdateInv
  BY DEF Init, NoJournal, UpdateAssumption, UpdateInv, Shapes, HelperKnows,
       OthersWait, KindsAreSettled, CleaningIsLate, ResultIsTrue, HelperDead,
       HasJournal, Verified, Kept, Settled, Alive, Old, New, Cleaning,
       AuthorityOrSettled, Procs, Apps, Files, Helper, Parent, Requested

LEMMA NextUpdate ==
  ASSUME UpdateAssumption, Undisturbed', UpdateInv, [Next]_vars PROVE UpdateInv'
<1>U. "premature" \notin mishaps' /\ "misread" \notin mishaps'
  BY DEF Undisturbed
<1>P. /\ Procs = Apps \cup {Helper} /\ Helper \notin Apps /\ Parent \in Apps
      /\ \A a \in Apps : a \in Nat /\ (a + 1 \in Apps <=> a < MaxApps) /\ a >= Parent
  BY DEF UpdateAssumption, Procs, Apps, Helper, Parent
<1>I. /\ Shapes /\ HelperKnows /\ OthersWait /\ KindsAreSettled /\ CleaningIsLate
      /\ ResultIsTrue
  BY DEF UpdateInv
<1>O. Old => ~New
  BY DEF UpdateAssumption, Files, Old, New
<1> USE DEF vars, package, work, helperState, instances, counts,
        Goto, From, HelperExits, Creates, Leaves, Fails, WriteJournal, UpdateJournal,
        StartRollback, RollbackFailed, HelperDead, HasJournal, Verified, Kept, Settled,
        Alive, Cleaning, AuthorityOrSettled, Requested, BackupAndStaged
<1>1. CASE ParseRequest
  <2>0. (Old' <=> Old) /\ (New' <=> New)
    BY <1>1 DEF ParseRequest, Old, New
  <2>1. Shapes'
    BY <1>1, <1>P, <1>I DEF ParseRequest, Shapes
  <2>2. HelperKnows'
    BY <1>1, <1>P, <1>I, <2>0 DEF ParseRequest, Shapes, HelperKnows, OthersWait,
         KindsAreSettled, CleaningIsLate, ResultIsTrue
  <2>3. OthersWait'
    BY <1>1, <1>P, <1>I, <2>0 DEF ParseRequest, Shapes, HelperKnows, OthersWait,
         KindsAreSettled, CleaningIsLate, ResultIsTrue
  <2>4. KindsAreSettled'
    BY <1>1, <1>P, <1>I, <2>0 DEF ParseRequest, Shapes, HelperKnows, OthersWait,
         KindsAreSettled, CleaningIsLate, ResultIsTrue
  <2>5. CleaningIsLate'
    BY <1>1, <1>P, <1>I, <2>0 DEF ParseRequest, Shapes, HelperKnows, OthersWait,
         KindsAreSettled, CleaningIsLate, ResultIsTrue
  <2>6. ResultIsTrue'
    BY <1>1, <1>P, <1>I, <2>0 DEF ParseRequest, Shapes, HelperKnows, OthersWait,
         KindsAreSettled, CleaningIsLate, ResultIsTrue
  <2> QED
    BY <2>1, <2>2, <2>3, <2>4, <2>5, <2>6 DEF UpdateInv
<1>2. CASE WaitForParent
  <2>0. (Old' <=> Old) /\ (New' <=> New)
    BY <1>2 DEF WaitForParent, Old, New
  <2>1. Shapes'
    BY <1>2, <1>P, <1>I DEF WaitForParent, Shapes
  <2>2. HelperKnows'
    BY <1>2, <1>P, <1>I, <2>0 DEF WaitForParent, Shapes, HelperKnows, OthersWait,
         KindsAreSettled, CleaningIsLate, ResultIsTrue
  <2>3. OthersWait'
    BY <1>2, <1>P, <1>I, <2>0 DEF WaitForParent, Shapes, HelperKnows, OthersWait,
         KindsAreSettled, CleaningIsLate, ResultIsTrue
  <2>4. KindsAreSettled'
    BY <1>2, <1>P, <1>I, <2>0 DEF WaitForParent, Shapes, HelperKnows, OthersWait,
         KindsAreSettled, CleaningIsLate, ResultIsTrue
  <2>5. CleaningIsLate'
    BY <1>2, <1>P, <1>I, <2>0 DEF WaitForParent, Shapes, HelperKnows, OthersWait,
         KindsAreSettled, CleaningIsLate, ResultIsTrue
  <2>6. ResultIsTrue'
    BY <1>2, <1>P, <1>I, <2>0 DEF WaitForParent, Shapes, HelperKnows, OthersWait,
         KindsAreSettled, CleaningIsLate, ResultIsTrue
  <2> QED
    BY <2>1, <2>2, <2>3, <2>4, <2>5, <2>6 DEF UpdateInv
<1>3. CASE CheckPackages
  <2>0. (Old' <=> Old) /\ (New' <=> New)
    BY <1>3 DEF CheckPackages, Old, New
  <2>1. Shapes'
    BY <1>3, <1>P, <1>I DEF CheckPackages, Shapes
  <2>2. HelperKnows'
    BY <1>3, <1>P, <1>I, <2>0 DEF CheckPackages, Shapes, HelperKnows, OthersWait,
         KindsAreSettled, CleaningIsLate, ResultIsTrue
  <2>3. OthersWait'
    BY <1>3, <1>P, <1>I, <2>0 DEF CheckPackages, Shapes, HelperKnows, OthersWait,
         KindsAreSettled, CleaningIsLate, ResultIsTrue
  <2>4. KindsAreSettled'
    BY <1>3, <1>P, <1>I, <2>0 DEF CheckPackages, Shapes, HelperKnows, OthersWait,
         KindsAreSettled, CleaningIsLate, ResultIsTrue
  <2>5. CleaningIsLate'
    BY <1>3, <1>P, <1>I, <2>0 DEF CheckPackages, Shapes, HelperKnows, OthersWait,
         KindsAreSettled, CleaningIsLate, ResultIsTrue
  <2>6. ResultIsTrue'
    BY <1>3, <1>P, <1>I, <2>0 DEF CheckPackages, Shapes, HelperKnows, OthersWait,
         KindsAreSettled, CleaningIsLate, ResultIsTrue
  <2> QED
    BY <2>1, <2>2, <2>3, <2>4, <2>5, <2>6 DEF UpdateInv
<1>4. CASE WriteBackup
  <2>0. (Old' <=> Old) /\ (New' <=> New)
    BY <1>4 DEF WriteBackup, Old, New
  <2>1. Shapes'
    BY <1>4, <1>P, <1>I DEF WriteBackup, Shapes
  <2>2. HelperKnows'
    BY <1>4, <1>P, <1>I, <2>0 DEF WriteBackup, Shapes, HelperKnows, OthersWait,
         KindsAreSettled, CleaningIsLate, ResultIsTrue
  <2>3. OthersWait'
    BY <1>4, <1>P, <1>I, <2>0 DEF WriteBackup, Shapes, HelperKnows, OthersWait,
         KindsAreSettled, CleaningIsLate, ResultIsTrue
  <2>4. KindsAreSettled'
    BY <1>4, <1>P, <1>I, <2>0 DEF WriteBackup, Shapes, HelperKnows, OthersWait,
         KindsAreSettled, CleaningIsLate, ResultIsTrue
  <2>5. CleaningIsLate'
    BY <1>4, <1>P, <1>I, <2>0 DEF WriteBackup, Shapes, HelperKnows, OthersWait,
         KindsAreSettled, CleaningIsLate, ResultIsTrue
  <2>6. ResultIsTrue'
    BY <1>4, <1>P, <1>I, <2>0 DEF WriteBackup, Shapes, HelperKnows, OthersWait,
         KindsAreSettled, CleaningIsLate, ResultIsTrue
  <2> QED
    BY <2>1, <2>2, <2>3, <2>4, <2>5, <2>6 DEF UpdateInv
<1>5. CASE WriteBackupReady
  <2>0. (Old' <=> Old) /\ (New' <=> New)
    BY <1>5 DEF WriteBackupReady, Old, New
  <2>1. Shapes'
    BY <1>5, <1>P, <1>I DEF WriteBackupReady, Shapes
  <2>2. HelperKnows'
    BY <1>5, <1>P, <1>I, <2>0 DEF WriteBackupReady, Shapes, HelperKnows, OthersWait,
         KindsAreSettled, CleaningIsLate, ResultIsTrue
  <2>3. OthersWait'
    BY <1>5, <1>P, <1>I, <2>0 DEF WriteBackupReady, Shapes, HelperKnows, OthersWait,
         KindsAreSettled, CleaningIsLate, ResultIsTrue
  <2>4. KindsAreSettled'
    BY <1>5, <1>P, <1>I, <2>0 DEF WriteBackupReady, Shapes, HelperKnows, OthersWait,
         KindsAreSettled, CleaningIsLate, ResultIsTrue
  <2>5. CleaningIsLate'
    BY <1>5, <1>P, <1>I, <2>0 DEF WriteBackupReady, Shapes, HelperKnows, OthersWait,
         KindsAreSettled, CleaningIsLate, ResultIsTrue
  <2>6. ResultIsTrue'
    BY <1>5, <1>P, <1>I, <2>0 DEF WriteBackupReady, Shapes, HelperKnows, OthersWait,
         KindsAreSettled, CleaningIsLate, ResultIsTrue
  <2> QED
    BY <2>1, <2>2, <2>3, <2>4, <2>5, <2>6 DEF UpdateInv
<1>6. CASE OpenReplacement
  <2>0. (Old' <=> Old) /\ (New' <=> New)
    BY <1>6 DEF OpenReplacement, Old, New
  <2>1. Shapes'
    BY <1>6, <1>P, <1>I DEF OpenReplacement, Shapes
  <2>2. HelperKnows'
    BY <1>6, <1>P, <1>I, <2>0 DEF OpenReplacement, Shapes, HelperKnows, OthersWait,
         KindsAreSettled, CleaningIsLate, ResultIsTrue
  <2>3. OthersWait'
    BY <1>6, <1>P, <1>I, <2>0 DEF OpenReplacement, Shapes, HelperKnows, OthersWait,
         KindsAreSettled, CleaningIsLate, ResultIsTrue
  <2>4. KindsAreSettled'
    BY <1>6, <1>P, <1>I, <2>0 DEF OpenReplacement, Shapes, HelperKnows, OthersWait,
         KindsAreSettled, CleaningIsLate, ResultIsTrue
  <2>5. CleaningIsLate'
    BY <1>6, <1>P, <1>I, <2>0 DEF OpenReplacement, Shapes, HelperKnows, OthersWait,
         KindsAreSettled, CleaningIsLate, ResultIsTrue
  <2>6. ResultIsTrue'
    BY <1>6, <1>P, <1>I, <2>0 DEF OpenReplacement, Shapes, HelperKnows, OthersWait,
         KindsAreSettled, CleaningIsLate, ResultIsTrue
  <2> QED
    BY <2>1, <2>2, <2>3, <2>4, <2>5, <2>6 DEF UpdateInv
<1>7. CASE ReplaceFile
  <2>1. Shapes'
    BY <1>7, <1>P, <1>I DEF ReplaceFile, Shapes
  <2>2. HelperKnows'
    BY <1>7, <1>P, <1>I DEF ReplaceFile, Shapes, HelperKnows, OthersWait,
         KindsAreSettled, CleaningIsLate, ResultIsTrue
  <2>3. OthersWait'
    BY <1>7, <1>P, <1>I DEF ReplaceFile, Shapes, HelperKnows, OthersWait,
         KindsAreSettled, CleaningIsLate, ResultIsTrue
  <2>4. KindsAreSettled'
    BY <1>7, <1>P, <1>I DEF ReplaceFile, Shapes, HelperKnows, OthersWait,
         KindsAreSettled, CleaningIsLate, ResultIsTrue
  <2>5. CleaningIsLate'
    BY <1>7, <1>P, <1>I DEF ReplaceFile, Shapes, HelperKnows, OthersWait,
         KindsAreSettled, CleaningIsLate, ResultIsTrue
  <2>6. ResultIsTrue'
    BY <1>7, <1>P, <1>I DEF ReplaceFile, Shapes, HelperKnows, OthersWait,
         KindsAreSettled, CleaningIsLate, ResultIsTrue
  <2> QED
    BY <2>1, <2>2, <2>3, <2>4, <2>5, <2>6 DEF UpdateInv
<1>8. CASE VerifyInstalled
  <2>0. (Old' <=> Old) /\ (New' <=> New)
    BY <1>8 DEF VerifyInstalled, Old, New
  <2>1. Shapes'
    BY <1>8, <1>P, <1>I DEF VerifyInstalled, Shapes
  <2>2. HelperKnows'
    BY <1>8, <1>P, <1>I, <2>0 DEF VerifyInstalled, Shapes, HelperKnows, OthersWait,
         KindsAreSettled, CleaningIsLate, ResultIsTrue
  <2>3. OthersWait'
    BY <1>8, <1>P, <1>I, <2>0 DEF VerifyInstalled, Shapes, HelperKnows, OthersWait,
         KindsAreSettled, CleaningIsLate, ResultIsTrue
  <2>4. KindsAreSettled'
    BY <1>8, <1>P, <1>I, <2>0 DEF VerifyInstalled, Shapes, HelperKnows, OthersWait,
         KindsAreSettled, CleaningIsLate, ResultIsTrue
  <2>5. CleaningIsLate'
    BY <1>8, <1>P, <1>I, <2>0 DEF VerifyInstalled, Shapes, HelperKnows, OthersWait,
         KindsAreSettled, CleaningIsLate, ResultIsTrue
  <2>6. ResultIsTrue'
    BY <1>8, <1>P, <1>I, <2>0 DEF VerifyInstalled, Shapes, HelperKnows, OthersWait,
         KindsAreSettled, CleaningIsLate, ResultIsTrue
  <2> QED
    BY <2>1, <2>2, <2>3, <2>4, <2>5, <2>6 DEF UpdateInv
<1>9. CASE LaunchUpdated
  <2>0. (Old' <=> Old) /\ (New' <=> New)
    BY <1>9 DEF LaunchUpdated, Old, New
  <2>1. Shapes'
    BY <1>9, <1>P, <1>I DEF LaunchUpdated, Shapes
  <2>2. HelperKnows'
    BY <1>9, <1>P, <1>I, <2>0 DEF LaunchUpdated, Shapes, HelperKnows, OthersWait,
         KindsAreSettled, CleaningIsLate, ResultIsTrue
  <2>3. OthersWait'
    BY <1>9, <1>P, <1>I, <2>0 DEF LaunchUpdated, Shapes, HelperKnows, OthersWait,
         KindsAreSettled, CleaningIsLate, ResultIsTrue
  <2>4. KindsAreSettled'
    BY <1>9, <1>P, <1>I, <2>0 DEF LaunchUpdated, Shapes, HelperKnows, OthersWait,
         KindsAreSettled, CleaningIsLate, ResultIsTrue
  <2>5. CleaningIsLate'
    BY <1>9, <1>P, <1>I, <2>0 DEF LaunchUpdated, Shapes, HelperKnows, OthersWait,
         KindsAreSettled, CleaningIsLate, ResultIsTrue
  <2>6. ResultIsTrue'
    BY <1>9, <1>P, <1>I, <2>0 DEF LaunchUpdated, Shapes, HelperKnows, OthersWait,
         KindsAreSettled, CleaningIsLate, ResultIsTrue
  <2> QED
    BY <2>1, <2>2, <2>3, <2>4, <2>5, <2>6 DEF UpdateInv
<1>10. CASE PollReceipt
  <2>0. (Old' <=> Old) /\ (New' <=> New)
    BY <1>10 DEF PollReceipt, Old, New
  <2>1. Shapes'
    BY <1>10, <1>P, <1>I DEF PollReceipt, Shapes
  <2>2. HelperKnows'
    BY <1>10, <1>P, <1>I, <2>0 DEF PollReceipt, Shapes, HelperKnows, OthersWait,
         KindsAreSettled, CleaningIsLate, ResultIsTrue
  <2>3. OthersWait'
    BY <1>10, <1>P, <1>I, <2>0 DEF PollReceipt, Shapes, HelperKnows, OthersWait,
         KindsAreSettled, CleaningIsLate, ResultIsTrue
  <2>4. KindsAreSettled'
    BY <1>10, <1>P, <1>I, <2>0 DEF PollReceipt, Shapes, HelperKnows, OthersWait,
         KindsAreSettled, CleaningIsLate, ResultIsTrue
  <2>5. CleaningIsLate'
    BY <1>10, <1>P, <1>I, <2>0 DEF PollReceipt, Shapes, HelperKnows, OthersWait,
         KindsAreSettled, CleaningIsLate, ResultIsTrue
  <2>6. ResultIsTrue'
    BY <1>10, <1>P, <1>I, <2>0 DEF PollReceipt, Shapes, HelperKnows, OthersWait,
         KindsAreSettled, CleaningIsLate, ResultIsTrue
  <2> QED
    BY <2>1, <2>2, <2>3, <2>4, <2>5, <2>6 DEF UpdateInv
<1>11. CASE FinalReceipt
  <2>0. (Old' <=> Old) /\ (New' <=> New)
    BY <1>11 DEF FinalReceipt, Old, New
  <2>1. Shapes'
    BY <1>11, <1>P, <1>I DEF FinalReceipt, Shapes
  <2>2. HelperKnows'
    BY <1>11, <1>P, <1>I, <2>0 DEF FinalReceipt, Shapes, HelperKnows, OthersWait,
         KindsAreSettled, CleaningIsLate, ResultIsTrue
  <2>3. OthersWait'
    BY <1>11, <1>P, <1>I, <2>0 DEF FinalReceipt, Shapes, HelperKnows, OthersWait,
         KindsAreSettled, CleaningIsLate, ResultIsTrue
  <2>4. KindsAreSettled'
    BY <1>11, <1>P, <1>I, <2>0 DEF FinalReceipt, Shapes, HelperKnows, OthersWait,
         KindsAreSettled, CleaningIsLate, ResultIsTrue
  <2>5. CleaningIsLate'
    BY <1>11, <1>P, <1>I, <2>0 DEF FinalReceipt, Shapes, HelperKnows, OthersWait,
         KindsAreSettled, CleaningIsLate, ResultIsTrue
  <2>6. ResultIsTrue'
    BY <1>11, <1>P, <1>I, <2>0 DEF FinalReceipt, Shapes, HelperKnows, OthersWait,
         KindsAreSettled, CleaningIsLate, ResultIsTrue
  <2> QED
    BY <2>1, <2>2, <2>3, <2>4, <2>5, <2>6 DEF UpdateInv
<1>12. CASE StopChild
  <2>0. (Old' <=> Old) /\ (New' <=> New)
    BY <1>12 DEF StopChild, Old, New
  <2>1. Shapes'
    BY <1>12, <1>P, <1>I DEF StopChild, Shapes
  <2>2. HelperKnows'
    BY <1>12, <1>P, <1>I, <2>0 DEF StopChild, Shapes, HelperKnows, OthersWait,
         KindsAreSettled, CleaningIsLate, ResultIsTrue
  <2>3. OthersWait'
    BY <1>12, <1>P, <1>I, <2>0 DEF StopChild, Shapes, HelperKnows, OthersWait,
         KindsAreSettled, CleaningIsLate, ResultIsTrue
  <2>4. KindsAreSettled'
    BY <1>12, <1>P, <1>I, <2>0 DEF StopChild, Shapes, HelperKnows, OthersWait,
         KindsAreSettled, CleaningIsLate, ResultIsTrue
  <2>5. CleaningIsLate'
    BY <1>12, <1>P, <1>I, <2>0 DEF StopChild, Shapes, HelperKnows, OthersWait,
         KindsAreSettled, CleaningIsLate, ResultIsTrue
  <2>6. ResultIsTrue'
    BY <1>12, <1>P, <1>I, <2>0 DEF StopChild, Shapes, HelperKnows, OthersWait,
         KindsAreSettled, CleaningIsLate, ResultIsTrue
  <2> QED
    BY <2>1, <2>2, <2>3, <2>4, <2>5, <2>6 DEF UpdateInv
<1>13. CASE Undo
  <2>0. (Old' <=> Old) /\ (New' <=> New)
    BY <1>13 DEF Undo, Old, New
  <2>1. Shapes'
    BY <1>13, <1>P, <1>I DEF Undo, Shapes
  <2>2. HelperKnows'
    BY <1>13, <1>P, <1>I, <2>0 DEF Undo, Shapes, HelperKnows, OthersWait,
         KindsAreSettled, CleaningIsLate, ResultIsTrue
  <2>3. OthersWait'
    BY <1>13, <1>P, <1>I, <2>0 DEF Undo, Shapes, HelperKnows, OthersWait,
         KindsAreSettled, CleaningIsLate, ResultIsTrue
  <2>4. KindsAreSettled'
    BY <1>13, <1>P, <1>I, <2>0 DEF Undo, Shapes, HelperKnows, OthersWait,
         KindsAreSettled, CleaningIsLate, ResultIsTrue
  <2>5. CleaningIsLate'
    BY <1>13, <1>P, <1>I, <2>0 DEF Undo, Shapes, HelperKnows, OthersWait,
         KindsAreSettled, CleaningIsLate, ResultIsTrue
  <2>6. ResultIsTrue'
    BY <1>13, <1>P, <1>I, <2>0 DEF Undo, Shapes, HelperKnows, OthersWait,
         KindsAreSettled, CleaningIsLate, ResultIsTrue
  <2> QED
    BY <2>1, <2>2, <2>3, <2>4, <2>5, <2>6 DEF UpdateInv
<1>14. CASE RollBack
  <2>0. (Old' <=> Old) /\ (New' <=> New)
    BY <1>14 DEF RollBack, Old, New
  <2>1. Shapes'
    BY <1>14, <1>P, <1>I DEF RollBack, Shapes
  <2>2. HelperKnows'
    BY <1>14, <1>P, <1>I, <2>0 DEF RollBack, Shapes, HelperKnows, OthersWait,
         KindsAreSettled, CleaningIsLate, ResultIsTrue
  <2>3. OthersWait'
    BY <1>14, <1>P, <1>I, <2>0 DEF RollBack, Shapes, HelperKnows, OthersWait,
         KindsAreSettled, CleaningIsLate, ResultIsTrue
  <2>4. KindsAreSettled'
    BY <1>14, <1>P, <1>I, <2>0 DEF RollBack, Shapes, HelperKnows, OthersWait,
         KindsAreSettled, CleaningIsLate, ResultIsTrue
  <2>5. CleaningIsLate'
    BY <1>14, <1>P, <1>I, <2>0 DEF RollBack, Shapes, HelperKnows, OthersWait,
         KindsAreSettled, CleaningIsLate, ResultIsTrue
  <2>6. ResultIsTrue'
    BY <1>14, <1>P, <1>I, <2>0 DEF RollBack, Shapes, HelperKnows, OthersWait,
         KindsAreSettled, CleaningIsLate, ResultIsTrue
  <2> QED
    BY <2>1, <2>2, <2>3, <2>4, <2>5, <2>6 DEF UpdateInv
<1>15. ASSUME NEW p \in Procs, RecoverWithoutJournal(p) PROVE UpdateInv'
  <2>0. (Old' <=> Old) /\ (New' <=> New)
    BY <1>15 DEF RecoverWithoutJournal, Suffers, Old, New
  <2>1. Shapes'
    <3>1. /\ DOMAIN target' = Files /\ \A f \in Files : target'[f] \in {"old", "new"}
          /\ DOMAIN cleaner' = Apps /\ DOMAIN journal' = {"phase", "owner"}
      BY <1>15, <1>U, <1>P, <1>I DEF RecoverWithoutJournal, Suffers, Shapes
    <3>2. DOMAIN pc' = Procs /\ DOMAIN app' = Apps
      BY <1>15, <1>U, <1>P, <1>I DEF RecoverWithoutJournal, Suffers, Shapes
    <3>3. created' \in Apps /\ child' \in Procs
      BY <1>15, <1>U, <1>P, <1>I DEF RecoverWithoutJournal, Suffers, Shapes
    <3>4. \A a \in Apps : a > created' => pc'[a] = "none" /\ cleaner'[a] = "none"
      <4>1. /\ cleaner' = cleaner /\ created' >= created
            /\ \A a \in Apps : a > created' => pc'[a] = pc[a] \/ a = p
        BY <1>15, <1>P, <1>I DEF RecoverWithoutJournal, Shapes
      <4>2. p \in Apps => p <= created
        BY <1>15, <1>P, <1>I DEF RecoverWithoutJournal, Shapes
      <4> QED
        BY <4>1, <4>2, <3>3, <1>P, <1>I DEF Shapes
    <3> QED
      BY <3>1, <3>2, <3>3, <3>4 DEF Shapes
  <2>2. HelperKnows'
    BY <1>15, <1>U, <1>P, <1>I, <2>0 DEF RecoverWithoutJournal, Suffers, Shapes,
         HelperKnows, OthersWait, KindsAreSettled, CleaningIsLate, ResultIsTrue
  <2>3. OthersWait'
    BY <1>15, <1>U, <1>P, <1>I, <2>0 DEF RecoverWithoutJournal, Suffers, Shapes,
         HelperKnows, OthersWait, KindsAreSettled, CleaningIsLate, ResultIsTrue
  <2>4. KindsAreSettled'
    BY <1>15, <1>U, <1>P, <1>I, <2>0 DEF RecoverWithoutJournal, Suffers, Shapes,
         HelperKnows, OthersWait, KindsAreSettled, CleaningIsLate, ResultIsTrue
  <2>5. CleaningIsLate'
    BY <1>15, <1>U, <1>P, <1>I, <2>0 DEF RecoverWithoutJournal, Suffers, Shapes,
         HelperKnows, OthersWait, KindsAreSettled, CleaningIsLate, ResultIsTrue
  <2>6. ResultIsTrue'
    BY <1>15, <1>U, <1>P, <1>I, <2>0 DEF RecoverWithoutJournal, Suffers, Shapes,
         HelperKnows, OthersWait, KindsAreSettled, CleaningIsLate, ResultIsTrue
  <2> QED
    BY <2>1, <2>2, <2>3, <2>4, <2>5, <2>6 DEF UpdateInv
<1>16. ASSUME NEW p \in Procs, RecoverRefused(p) PROVE UpdateInv'
  <2>0. (Old' <=> Old) /\ (New' <=> New)
    BY <1>16 DEF RecoverRefused, Old, New
  <2>1. Shapes'
    BY <1>16, <1>P, <1>I DEF RecoverRefused, Shapes
  <2>2. HelperKnows'
    BY <1>16, <1>P, <1>I, <2>0 DEF RecoverRefused, Shapes, HelperKnows, OthersWait,
         KindsAreSettled, CleaningIsLate, ResultIsTrue
  <2>3. OthersWait'
    BY <1>16, <1>P, <1>I, <2>0 DEF RecoverRefused, Shapes, HelperKnows, OthersWait,
         KindsAreSettled, CleaningIsLate, ResultIsTrue
  <2>4. KindsAreSettled'
    BY <1>16, <1>P, <1>I, <2>0 DEF RecoverRefused, Shapes, HelperKnows, OthersWait,
         KindsAreSettled, CleaningIsLate, ResultIsTrue
  <2>5. CleaningIsLate'
    BY <1>16, <1>P, <1>I, <2>0 DEF RecoverRefused, Shapes, HelperKnows, OthersWait,
         KindsAreSettled, CleaningIsLate, ResultIsTrue
  <2>6. ResultIsTrue'
    BY <1>16, <1>P, <1>I, <2>0 DEF RecoverRefused, Shapes, HelperKnows, OthersWait,
         KindsAreSettled, CleaningIsLate, ResultIsTrue
  <2> QED
    BY <2>1, <2>2, <2>3, <2>4, <2>5, <2>6 DEF UpdateInv
<1>17. ASSUME NEW p \in Procs, RecoverUnknown(p) PROVE UpdateInv'
  <2>0. (Old' <=> Old) /\ (New' <=> New)
    BY <1>17 DEF RecoverUnknown, Old, New
  <2>1. Shapes'
    BY <1>17, <1>P, <1>I DEF RecoverUnknown, Shapes
  <2>2. HelperKnows'
    BY <1>17, <1>P, <1>I, <2>0 DEF RecoverUnknown, Shapes, HelperKnows, OthersWait,
         KindsAreSettled, CleaningIsLate, ResultIsTrue
  <2>3. OthersWait'
    BY <1>17, <1>P, <1>I, <2>0 DEF RecoverUnknown, Shapes, HelperKnows, OthersWait,
         KindsAreSettled, CleaningIsLate, ResultIsTrue
  <2>4. KindsAreSettled'
    BY <1>17, <1>P, <1>I, <2>0 DEF RecoverUnknown, Shapes, HelperKnows, OthersWait,
         KindsAreSettled, CleaningIsLate, ResultIsTrue
  <2>5. CleaningIsLate'
    BY <1>17, <1>P, <1>I, <2>0 DEF RecoverUnknown, Shapes, HelperKnows, OthersWait,
         KindsAreSettled, CleaningIsLate, ResultIsTrue
  <2>6. ResultIsTrue'
    BY <1>17, <1>P, <1>I, <2>0 DEF RecoverUnknown, Shapes, HelperKnows, OthersWait,
         KindsAreSettled, CleaningIsLate, ResultIsTrue
  <2> QED
    BY <2>1, <2>2, <2>3, <2>4, <2>5, <2>6 DEF UpdateInv
<1>18. ASSUME NEW p \in Procs, RecoverOwned(p) PROVE UpdateInv'
  <2>0. (Old' <=> Old) /\ (New' <=> New)
    BY <1>18 DEF RecoverOwned, Old, New
  <2>1. Shapes'
    BY <1>18, <1>P, <1>I DEF RecoverOwned, OwnerActive, Shapes
  <2>2. HelperKnows'
    BY <1>18, <1>P, <1>I, <2>0 DEF RecoverOwned, OwnerActive, Shapes, HelperKnows,
         OthersWait, KindsAreSettled, CleaningIsLate, ResultIsTrue
  <2>3. OthersWait'
    BY <1>18, <1>P, <1>I, <2>0 DEF RecoverOwned, OwnerActive, Shapes, HelperKnows,
         OthersWait, KindsAreSettled, CleaningIsLate, ResultIsTrue
  <2>4. KindsAreSettled'
    BY <1>18, <1>P, <1>I, <2>0 DEF RecoverOwned, OwnerActive, Shapes, HelperKnows,
         OthersWait, KindsAreSettled, CleaningIsLate, ResultIsTrue
  <2>5. CleaningIsLate'
    BY <1>18, <1>P, <1>I, <2>0 DEF RecoverOwned, OwnerActive, Shapes, HelperKnows,
         OthersWait, KindsAreSettled, CleaningIsLate, ResultIsTrue
  <2>6. ResultIsTrue'
    BY <1>18, <1>P, <1>I, <2>0 DEF RecoverOwned, OwnerActive, Shapes, HelperKnows,
         OthersWait, KindsAreSettled, CleaningIsLate, ResultIsTrue
  <2> QED
    BY <2>1, <2>2, <2>3, <2>4, <2>5, <2>6 DEF UpdateInv
<1>19. ASSUME NEW p \in Procs, RecoverForward(p) PROVE UpdateInv'
  <2>0. (Old' <=> Old) /\ (New' <=> New)
    BY <1>19 DEF RecoverForward, Old, New
  <2>1. Shapes'
    BY <1>19, <1>P, <1>I DEF RecoverForward, Recoverable, OwnerActive,
         CompletedUpdate, Shapes
  <2>2. HelperKnows'
    BY <1>19, <1>P, <1>I, <2>0 DEF RecoverForward, Recoverable, OwnerActive,
         CompletedUpdate, Shapes, HelperKnows, OthersWait, KindsAreSettled,
         CleaningIsLate, ResultIsTrue
  <2>3. OthersWait'
    BY <1>19, <1>P, <1>I, <2>0 DEF RecoverForward, Recoverable, OwnerActive,
         CompletedUpdate, Shapes, HelperKnows, OthersWait, KindsAreSettled,
         CleaningIsLate, ResultIsTrue
  <2>4. KindsAreSettled'
    BY <1>19, <1>P, <1>I, <2>0 DEF RecoverForward, Recoverable, OwnerActive,
         CompletedUpdate, Shapes, HelperKnows, OthersWait, KindsAreSettled,
         CleaningIsLate, ResultIsTrue
  <2>5. CleaningIsLate'
    BY <1>19, <1>P, <1>I, <2>0 DEF RecoverForward, Recoverable, OwnerActive,
         CompletedUpdate, Shapes, HelperKnows, OthersWait, KindsAreSettled,
         CleaningIsLate, ResultIsTrue
  <2>6. ResultIsTrue'
    BY <1>19, <1>P, <1>I, <2>0 DEF RecoverForward, Recoverable, OwnerActive,
         CompletedUpdate, Shapes, HelperKnows, OthersWait, KindsAreSettled,
         CleaningIsLate, ResultIsTrue
  <2> QED
    BY <2>1, <2>2, <2>3, <2>4, <2>5, <2>6 DEF UpdateInv
<1>20. ASSUME NEW p \in Procs, RecoverDone(p) PROVE UpdateInv'
  <2>0. (Old' <=> Old) /\ (New' <=> New)
    BY <1>20 DEF RecoverDone, Old, New
  <2>1. Shapes'
    <3>1. /\ DOMAIN target' = Files /\ \A f \in Files : target'[f] \in {"old", "new"}
          /\ DOMAIN cleaner' = Apps /\ DOMAIN journal' = {"phase", "owner"}
      BY <1>20, <1>P, <1>I, <1>O DEF RecoverDone, Recoverable, OwnerActive, Shapes
    <3>2. DOMAIN pc' = Procs /\ DOMAIN app' = Apps
      BY <1>20, <1>P, <1>I, <1>O DEF RecoverDone, Recoverable, OwnerActive, Shapes
    <3>3. created' \in Apps /\ child' \in Procs
      BY <1>20, <1>P, <1>I, <1>O DEF RecoverDone, Recoverable, OwnerActive, Shapes
    <3>4. \A a \in Apps : a > created' => pc'[a] = "none" /\ cleaner'[a] = "none"
      BY <1>20, <1>P, <1>I, <1>O, <3>3 DEF RecoverDone, Recoverable, OwnerActive, Shapes
    <3> QED
      BY <3>1, <3>2, <3>3, <3>4 DEF Shapes
  <2>2. HelperKnows'
    BY <1>20, <1>P, <1>I, <1>O, <2>0 DEF RecoverDone, Recoverable, OwnerActive,
         Shapes, HelperKnows, OthersWait, KindsAreSettled, CleaningIsLate,
         ResultIsTrue
  <2>3. OthersWait'
    BY <1>20, <1>P, <1>I, <1>O, <2>0 DEF RecoverDone, Recoverable, OwnerActive,
         Shapes, HelperKnows, OthersWait, KindsAreSettled, CleaningIsLate,
         ResultIsTrue
  <2>4. KindsAreSettled'
    BY <1>20, <1>P, <1>I, <1>O, <2>0 DEF RecoverDone, Recoverable, OwnerActive,
         Shapes, HelperKnows, OthersWait, KindsAreSettled, CleaningIsLate,
         ResultIsTrue
  <2>5. CleaningIsLate'
    BY <1>20, <1>P, <1>I, <1>O, <2>0 DEF RecoverDone, Recoverable, OwnerActive,
         Shapes, HelperKnows, OthersWait, KindsAreSettled, CleaningIsLate,
         ResultIsTrue
  <2>6. ResultIsTrue'
    BY <1>20, <1>P, <1>I, <1>O, <2>0 DEF RecoverDone, Recoverable, OwnerActive,
         Shapes, HelperKnows, OthersWait, KindsAreSettled, CleaningIsLate,
         ResultIsTrue
  <2> QED
    BY <2>1, <2>2, <2>3, <2>4, <2>5, <2>6 DEF UpdateInv
<1>21. ASSUME NEW p \in Procs, RecoverBack(p) PROVE UpdateInv'
  <2>0. (Old' <=> Old) /\ (New' <=> New)
    BY <1>21 DEF RecoverBack, Suffers, Old, New
  <2>1. Shapes'
    BY <1>21, <1>U, <1>P, <1>I DEF RecoverBack, Suffers, Recoverable, OwnerActive,
         CompletedUpdate, Shapes
  <2>2. HelperKnows'
    BY <1>21, <1>U, <1>P, <1>I, <2>0 DEF RecoverBack, Suffers, Recoverable, OwnerActive,
         CompletedUpdate, Shapes, HelperKnows, OthersWait, KindsAreSettled,
         CleaningIsLate, ResultIsTrue
  <2>3. OthersWait'
    BY <1>21, <1>U, <1>P, <1>I, <2>0 DEF RecoverBack, Suffers, Recoverable, OwnerActive,
         CompletedUpdate, Shapes, HelperKnows, OthersWait, KindsAreSettled,
         CleaningIsLate, ResultIsTrue
  <2>4. KindsAreSettled'
    BY <1>21, <1>U, <1>P, <1>I, <2>0 DEF RecoverBack, Suffers, Recoverable, OwnerActive,
         CompletedUpdate, Shapes, HelperKnows, OthersWait, KindsAreSettled,
         CleaningIsLate, ResultIsTrue
  <2>5. CleaningIsLate'
    BY <1>21, <1>U, <1>P, <1>I, <2>0 DEF RecoverBack, Suffers, Recoverable, OwnerActive,
         CompletedUpdate, Shapes, HelperKnows, OthersWait, KindsAreSettled,
         CleaningIsLate, ResultIsTrue
  <2>6. ResultIsTrue'
    BY <1>21, <1>U, <1>P, <1>I, <2>0 DEF RecoverBack, Suffers, Recoverable, OwnerActive,
         CompletedUpdate, Shapes, HelperKnows, OthersWait, KindsAreSettled,
         CleaningIsLate, ResultIsTrue
  <2> QED
    BY <2>1, <2>2, <2>3, <2>4, <2>5, <2>6 DEF UpdateInv
<1>22. ASSUME NEW p \in Procs, RestoreFile(p) PROVE UpdateInv'
  <2>0. (Old => Old') /\ (New' => New)
    BY <1>22, <1>I DEF RestoreFile, Old, New, Shapes
  <2>1. Shapes'
    BY <1>22, <1>P, <1>I, <1>O DEF RestoreFile, Shapes
  <2>2. HelperKnows'
    BY <1>22, <1>P, <1>I, <1>O, <2>0 DEF RestoreFile, Shapes, HelperKnows, OthersWait,
         KindsAreSettled, CleaningIsLate, ResultIsTrue
  <2>3. OthersWait'
    BY <1>22, <1>P, <1>I, <1>O, <2>0 DEF RestoreFile, Shapes, HelperKnows, OthersWait,
         KindsAreSettled, CleaningIsLate, ResultIsTrue
  <2>4. KindsAreSettled'
    BY <1>22, <1>P, <1>I, <1>O, <2>0 DEF RestoreFile, Shapes, HelperKnows, OthersWait,
         KindsAreSettled, CleaningIsLate, ResultIsTrue
  <2>5. CleaningIsLate'
    BY <1>22, <1>P, <1>I, <1>O, <2>0 DEF RestoreFile, Shapes, HelperKnows, OthersWait,
         KindsAreSettled, CleaningIsLate, ResultIsTrue
  <2>6. ResultIsTrue'
    BY <1>22, <1>P, <1>I, <1>O, <2>0 DEF RestoreFile, Shapes, HelperKnows, OthersWait,
         KindsAreSettled, CleaningIsLate, ResultIsTrue
  <2> QED
    BY <2>1, <2>2, <2>3, <2>4, <2>5, <2>6 DEF UpdateInv
<1>23. ASSUME NEW p \in Procs, Restored(p) PROVE UpdateInv'
  <2>0. (Old' <=> Old) /\ (New' <=> New)
    BY <1>23 DEF Restored, Old, New
  <2>1. Shapes'
    BY <1>23, <1>P, <1>I, <1>O DEF Restored, Shapes
  <2>2. HelperKnows'
    BY <1>23, <1>P, <1>I, <1>O, <2>0 DEF Restored, Shapes, HelperKnows, OthersWait,
         KindsAreSettled, CleaningIsLate, ResultIsTrue
  <2>3. OthersWait'
    BY <1>23, <1>P, <1>I, <1>O, <2>0 DEF Restored, Shapes, HelperKnows, OthersWait,
         KindsAreSettled, CleaningIsLate, ResultIsTrue
  <2>4. KindsAreSettled'
    BY <1>23, <1>P, <1>I, <1>O, <2>0 DEF Restored, Shapes, HelperKnows, OthersWait,
         KindsAreSettled, CleaningIsLate, ResultIsTrue
  <2>5. CleaningIsLate'
    BY <1>23, <1>P, <1>I, <1>O, <2>0 DEF Restored, Shapes, HelperKnows, OthersWait,
         KindsAreSettled, CleaningIsLate, ResultIsTrue
  <2>6. ResultIsTrue'
    BY <1>23, <1>P, <1>I, <1>O, <2>0 DEF Restored, Shapes, HelperKnows, OthersWait,
         KindsAreSettled, CleaningIsLate, ResultIsTrue
  <2> QED
    BY <2>1, <2>2, <2>3, <2>4, <2>5, <2>6 DEF UpdateInv
<1>24. ASSUME NEW a \in Apps, StartApp(a) PROVE UpdateInv'
  <2>0. (Old' <=> Old) /\ (New' <=> New)
    BY <1>24 DEF StartApp, Old, New
  <2>1. Shapes'
    BY <1>24, <1>P, <1>I DEF StartApp, Shapes
  <2>2. HelperKnows'
    BY <1>24, <1>P, <1>I, <2>0 DEF StartApp, Shapes, HelperKnows, OthersWait,
         KindsAreSettled, CleaningIsLate, ResultIsTrue
  <2>3. OthersWait'
    BY <1>24, <1>P, <1>I, <2>0 DEF StartApp, Shapes, HelperKnows, OthersWait,
         KindsAreSettled, CleaningIsLate, ResultIsTrue
  <2>4. KindsAreSettled'
    BY <1>24, <1>P, <1>I, <2>0 DEF StartApp, Shapes, HelperKnows, OthersWait,
         KindsAreSettled, CleaningIsLate, ResultIsTrue
  <2>5. CleaningIsLate'
    BY <1>24, <1>P, <1>I, <2>0 DEF StartApp, Shapes, HelperKnows, OthersWait,
         KindsAreSettled, CleaningIsLate, ResultIsTrue
  <2>6. ResultIsTrue'
    BY <1>24, <1>P, <1>I, <2>0 DEF StartApp, Shapes, HelperKnows, OthersWait,
         KindsAreSettled, CleaningIsLate, ResultIsTrue
  <2> QED
    BY <2>1, <2>2, <2>3, <2>4, <2>5, <2>6 DEF UpdateInv
<1>25. ASSUME NEW a \in Apps, AcquireInstance(a) PROVE UpdateInv'
  <2>0. (Old' <=> Old) /\ (New' <=> New)
    BY <1>25 DEF AcquireInstance, Old, New
  <2>1. Shapes'
    BY <1>25, <1>P, <1>I DEF AcquireInstance, AfterStart, Shapes
  <2>2. HelperKnows'
    BY <1>25, <1>P, <1>I, <2>0 DEF AcquireInstance, AfterStart, Shapes, HelperKnows,
         OthersWait, KindsAreSettled, CleaningIsLate, ResultIsTrue
  <2>3. OthersWait'
    BY <1>25, <1>P, <1>I, <2>0 DEF AcquireInstance, AfterStart, Shapes, HelperKnows,
         OthersWait, KindsAreSettled, CleaningIsLate, ResultIsTrue
  <2>4. KindsAreSettled'
    BY <1>25, <1>P, <1>I, <2>0 DEF AcquireInstance, AfterStart, Shapes, HelperKnows,
         OthersWait, KindsAreSettled, CleaningIsLate, ResultIsTrue
  <2>5. CleaningIsLate'
    BY <1>25, <1>P, <1>I, <2>0 DEF AcquireInstance, AfterStart, Shapes, HelperKnows,
         OthersWait, KindsAreSettled, CleaningIsLate, ResultIsTrue
  <2>6. ResultIsTrue'
    BY <1>25, <1>P, <1>I, <2>0 DEF AcquireInstance, AfterStart, Shapes, HelperKnows,
         OthersWait, KindsAreSettled, CleaningIsLate, ResultIsTrue
  <2> QED
    BY <2>1, <2>2, <2>3, <2>4, <2>5, <2>6 DEF UpdateInv
<1>26. ASSUME NEW a \in Apps, SignalReady(a) PROVE UpdateInv'
  <2>0. (Old' <=> Old) /\ (New' <=> New)
    BY <1>26 DEF SignalReady, Old, New
  <2>1. Shapes'
    BY <1>26, <1>P, <1>I DEF SignalReady, Shapes
  <2>2. HelperKnows'
    BY <1>26, <1>P, <1>I, <2>0 DEF SignalReady, Shapes, HelperKnows, OthersWait,
         KindsAreSettled, CleaningIsLate, ResultIsTrue
  <2>3. OthersWait'
    BY <1>26, <1>P, <1>I, <2>0 DEF SignalReady, Shapes, HelperKnows, OthersWait,
         KindsAreSettled, CleaningIsLate, ResultIsTrue
  <2>4. KindsAreSettled'
    BY <1>26, <1>P, <1>I, <2>0 DEF SignalReady, Shapes, HelperKnows, OthersWait,
         KindsAreSettled, CleaningIsLate, ResultIsTrue
  <2>5. CleaningIsLate'
    BY <1>26, <1>P, <1>I, <2>0 DEF SignalReady, Shapes, HelperKnows, OthersWait,
         KindsAreSettled, CleaningIsLate, ResultIsTrue
  <2>6. ResultIsTrue'
    BY <1>26, <1>P, <1>I, <2>0 DEF SignalReady, Shapes, HelperKnows, OthersWait,
         KindsAreSettled, CleaningIsLate, ResultIsTrue
  <2> QED
    BY <2>1, <2>2, <2>3, <2>4, <2>5, <2>6 DEF UpdateInv
<1>27. ASSUME NEW a \in Apps, MarkHandoff(a) PROVE UpdateInv'
  <2>0. (Old' <=> Old) /\ (New' <=> New)
    BY <1>27 DEF MarkHandoff, Old, New
  <2>1. Shapes'
    BY <1>27, <1>P, <1>I DEF MarkHandoff, Shapes
  <2>2. HelperKnows'
    BY <1>27, <1>P, <1>I, <2>0 DEF MarkHandoff, Shapes, HelperKnows, OthersWait,
         KindsAreSettled, CleaningIsLate, ResultIsTrue
  <2>3. OthersWait'
    BY <1>27, <1>P, <1>I, <2>0 DEF MarkHandoff, Shapes, HelperKnows, OthersWait,
         KindsAreSettled, CleaningIsLate, ResultIsTrue
  <2>4. KindsAreSettled'
    BY <1>27, <1>P, <1>I, <2>0 DEF MarkHandoff, Shapes, HelperKnows, OthersWait,
         KindsAreSettled, CleaningIsLate, ResultIsTrue
  <2>5. CleaningIsLate'
    BY <1>27, <1>P, <1>I, <2>0 DEF MarkHandoff, Shapes, HelperKnows, OthersWait,
         KindsAreSettled, CleaningIsLate, ResultIsTrue
  <2>6. ResultIsTrue'
    BY <1>27, <1>P, <1>I, <2>0 DEF MarkHandoff, Shapes, HelperKnows, OthersWait,
         KindsAreSettled, CleaningIsLate, ResultIsTrue
  <2> QED
    BY <2>1, <2>2, <2>3, <2>4, <2>5, <2>6 DEF UpdateInv
<1>28. ASSUME NEW a \in Apps, Schedule(a) PROVE UpdateInv'
  <2>0. (Old' <=> Old) /\ (New' <=> New)
    BY <1>28 DEF Schedule, Old, New
  <2>1. Shapes'
    BY <1>28, <1>P, <1>I DEF Schedule, CleanupAllowed, Shapes
  <2>2. HelperKnows'
    BY <1>28, <1>P, <1>I, <2>0 DEF Schedule, CleanupAllowed, Shapes, HelperKnows,
         OthersWait, KindsAreSettled, CleaningIsLate, ResultIsTrue
  <2>3. OthersWait'
    BY <1>28, <1>P, <1>I, <2>0 DEF Schedule, CleanupAllowed, Shapes, HelperKnows,
         OthersWait, KindsAreSettled, CleaningIsLate, ResultIsTrue
  <2>4. KindsAreSettled'
    BY <1>28, <1>P, <1>I, <2>0 DEF Schedule, CleanupAllowed, Shapes, HelperKnows,
         OthersWait, KindsAreSettled, CleaningIsLate, ResultIsTrue
  <2>5. CleaningIsLate'
    BY <1>28, <1>P, <1>I, <2>0 DEF Schedule, CleanupAllowed, Shapes, HelperKnows,
         OthersWait, KindsAreSettled, CleaningIsLate, ResultIsTrue
  <2>6. ResultIsTrue'
    BY <1>28, <1>P, <1>I, <2>0 DEF Schedule, CleanupAllowed, Shapes, HelperKnows,
         OthersWait, KindsAreSettled, CleaningIsLate, ResultIsTrue
  <2> QED
    BY <2>1, <2>2, <2>3, <2>4, <2>5, <2>6 DEF UpdateInv
<1>29. ASSUME NEW a \in Apps, CleanerWaits(a) PROVE UpdateInv'
  <2>0. (Old' <=> Old) /\ (New' <=> New)
    BY <1>29 DEF CleanerWaits, Old, New
  <2>1. Shapes'
    BY <1>29, <1>P, <1>I DEF CleanerWaits, CleanupAllowed, Shapes
  <2>2. HelperKnows'
    BY <1>29, <1>P, <1>I, <2>0 DEF CleanerWaits, CleanupAllowed, Shapes, HelperKnows,
         OthersWait, KindsAreSettled, CleaningIsLate, ResultIsTrue
  <2>3. OthersWait'
    BY <1>29, <1>P, <1>I, <2>0 DEF CleanerWaits, CleanupAllowed, Shapes, HelperKnows,
         OthersWait, KindsAreSettled, CleaningIsLate, ResultIsTrue
  <2>4. KindsAreSettled'
    BY <1>29, <1>P, <1>I, <2>0 DEF CleanerWaits, CleanupAllowed, Shapes, HelperKnows,
         OthersWait, KindsAreSettled, CleaningIsLate, ResultIsTrue
  <2>5. CleaningIsLate'
    BY <1>29, <1>P, <1>I, <2>0 DEF CleanerWaits, CleanupAllowed, Shapes, HelperKnows,
         OthersWait, KindsAreSettled, CleaningIsLate, ResultIsTrue
  <2>6. ResultIsTrue'
    BY <1>29, <1>P, <1>I, <2>0 DEF CleanerWaits, CleanupAllowed, Shapes, HelperKnows,
         OthersWait, KindsAreSettled, CleaningIsLate, ResultIsTrue
  <2> QED
    BY <2>1, <2>2, <2>3, <2>4, <2>5, <2>6 DEF UpdateInv
<1>30. ASSUME NEW a \in Apps, CleanerRemoves(a) PROVE UpdateInv'
  <2>0. (Old' <=> Old) /\ (New' <=> New)
    BY <1>30 DEF CleanerRemoves, Old, New
  <2>1. Shapes'
    BY <1>30, <1>P, <1>I DEF CleanerRemoves, NoJournal, Shapes
  <2>2. HelperKnows'
    BY <1>30, <1>P, <1>I, <2>0 DEF CleanerRemoves, NoJournal, Shapes, HelperKnows,
         OthersWait, KindsAreSettled, CleaningIsLate, ResultIsTrue
  <2>3. OthersWait'
    BY <1>30, <1>P, <1>I, <2>0 DEF CleanerRemoves, NoJournal, Shapes, HelperKnows,
         OthersWait, KindsAreSettled, CleaningIsLate, ResultIsTrue
  <2>4. KindsAreSettled'
    BY <1>30, <1>P, <1>I, <2>0 DEF CleanerRemoves, NoJournal, Shapes, HelperKnows,
         OthersWait, KindsAreSettled, CleaningIsLate, ResultIsTrue
  <2>5. CleaningIsLate'
    BY <1>30, <1>P, <1>I, <2>0 DEF CleanerRemoves, NoJournal, Shapes, HelperKnows,
         OthersWait, KindsAreSettled, CleaningIsLate, ResultIsTrue
  <2>6. ResultIsTrue'
    BY <1>30, <1>P, <1>I, <2>0 DEF CleanerRemoves, NoJournal, Shapes, HelperKnows,
         OthersWait, KindsAreSettled, CleaningIsLate, ResultIsTrue
  <2> QED
    BY <2>1, <2>2, <2>3, <2>4, <2>5, <2>6 DEF UpdateInv
<1>31. ASSUME NEW a \in Apps, CleanerEnds(a) PROVE UpdateInv'
  <2>0. (Old' <=> Old) /\ (New' <=> New)
    BY <1>31 DEF CleanerEnds, Old, New
  <2>1. Shapes'
    BY <1>31, <1>P, <1>I DEF CleanerEnds, Leftovers, Shapes
  <2>2. HelperKnows'
    BY <1>31, <1>P, <1>I, <2>0 DEF CleanerEnds, Leftovers, Shapes, HelperKnows,
         OthersWait, KindsAreSettled, CleaningIsLate, ResultIsTrue
  <2>3. OthersWait'
    BY <1>31, <1>P, <1>I, <2>0 DEF CleanerEnds, Leftovers, Shapes, HelperKnows,
         OthersWait, KindsAreSettled, CleaningIsLate, ResultIsTrue
  <2>4. KindsAreSettled'
    BY <1>31, <1>P, <1>I, <2>0 DEF CleanerEnds, Leftovers, Shapes, HelperKnows,
         OthersWait, KindsAreSettled, CleaningIsLate, ResultIsTrue
  <2>5. CleaningIsLate'
    BY <1>31, <1>P, <1>I, <2>0 DEF CleanerEnds, Leftovers, Shapes, HelperKnows,
         OthersWait, KindsAreSettled, CleaningIsLate, ResultIsTrue
  <2>6. ResultIsTrue'
    BY <1>31, <1>P, <1>I, <2>0 DEF CleanerEnds, Leftovers, Shapes, HelperKnows,
         OthersWait, KindsAreSettled, CleaningIsLate, ResultIsTrue
  <2> QED
    BY <2>1, <2>2, <2>3, <2>4, <2>5, <2>6 DEF UpdateInv
<1>32. ASSUME NEW a \in Apps, Close(a) PROVE UpdateInv'
  <2>0. (Old' <=> Old) /\ (New' <=> New)
    BY <1>32 DEF Close, Old, New
  <2>1. Shapes'
    BY <1>32, <1>P, <1>I DEF Close, Shapes
  <2>2. HelperKnows'
    BY <1>32, <1>P, <1>I, <2>0 DEF Close, Shapes, HelperKnows,
         OthersWait, KindsAreSettled, CleaningIsLate, ResultIsTrue
  <2>3. OthersWait'
    BY <1>32, <1>P, <1>I, <2>0 DEF Close, Shapes, HelperKnows,
         OthersWait, KindsAreSettled, CleaningIsLate, ResultIsTrue
  <2>4. KindsAreSettled'
    BY <1>32, <1>P, <1>I, <2>0 DEF Close, Shapes, HelperKnows,
         OthersWait, KindsAreSettled, CleaningIsLate, ResultIsTrue
  <2>5. CleaningIsLate'
    BY <1>32, <1>P, <1>I, <2>0 DEF Close, Shapes, HelperKnows,
         OthersWait, KindsAreSettled, CleaningIsLate, ResultIsTrue
  <2>6. ResultIsTrue'
    BY <1>32, <1>P, <1>I, <2>0 DEF Close, Shapes, HelperKnows,
         OthersWait, KindsAreSettled, CleaningIsLate, ResultIsTrue
  <2> QED
    BY <2>1, <2>2, <2>3, <2>4, <2>5, <2>6 DEF UpdateInv
<1>33. CASE UserStart
  <2>0. (Old' <=> Old) /\ (New' <=> New)
    BY <1>33 DEF UserStart, Old, New
  <2>1. Shapes'
    BY <1>33, <1>P, <1>I DEF UserStart, Shapes
  <2>2. HelperKnows'
    BY <1>33, <1>P, <1>I, <2>0 DEF UserStart, Shapes, HelperKnows, OthersWait,
         KindsAreSettled, CleaningIsLate, ResultIsTrue
  <2>3. OthersWait'
    BY <1>33, <1>P, <1>I, <2>0 DEF UserStart, Shapes, HelperKnows, OthersWait,
         KindsAreSettled, CleaningIsLate, ResultIsTrue
  <2>4. KindsAreSettled'
    BY <1>33, <1>P, <1>I, <2>0 DEF UserStart, Shapes, HelperKnows, OthersWait,
         KindsAreSettled, CleaningIsLate, ResultIsTrue
  <2>5. CleaningIsLate'
    BY <1>33, <1>P, <1>I, <2>0 DEF UserStart, Shapes, HelperKnows, OthersWait,
         KindsAreSettled, CleaningIsLate, ResultIsTrue
  <2>6. ResultIsTrue'
    BY <1>33, <1>P, <1>I, <2>0 DEF UserStart, Shapes, HelperKnows, OthersWait,
         KindsAreSettled, CleaningIsLate, ResultIsTrue
  <2> QED
    BY <2>1, <2>2, <2>3, <2>4, <2>5, <2>6 DEF UpdateInv
<1>34. ASSUME NEW p \in Procs, Crash(p) PROVE UpdateInv'
  <2>0. (Old' <=> Old) /\ (New' <=> New)
    BY <1>34 DEF Crash, Old, New
  <2>1. Shapes'
    BY <1>34, <1>P, <1>I DEF Crash, Shapes
  <2>2. HelperKnows'
    BY <1>34, <1>P, <1>I, <2>0 DEF Crash, Shapes, HelperKnows,
         OthersWait, KindsAreSettled, CleaningIsLate, ResultIsTrue
  <2>3. OthersWait'
    BY <1>34, <1>P, <1>I, <2>0 DEF Crash, Shapes, HelperKnows,
         OthersWait, KindsAreSettled, CleaningIsLate, ResultIsTrue
  <2>4. KindsAreSettled'
    BY <1>34, <1>P, <1>I, <2>0 DEF Crash, Shapes, HelperKnows,
         OthersWait, KindsAreSettled, CleaningIsLate, ResultIsTrue
  <2>5. CleaningIsLate'
    BY <1>34, <1>P, <1>I, <2>0 DEF Crash, Shapes, HelperKnows,
         OthersWait, KindsAreSettled, CleaningIsLate, ResultIsTrue
  <2>6. ResultIsTrue'
    BY <1>34, <1>P, <1>I, <2>0 DEF Crash, Shapes, HelperKnows,
         OthersWait, KindsAreSettled, CleaningIsLate, ResultIsTrue
  <2> QED
    BY <2>1, <2>2, <2>3, <2>4, <2>5, <2>6 DEF UpdateInv
<1>35. CASE UNCHANGED vars
  <2>0. (Old' <=> Old) /\ (New' <=> New)
    BY <1>35 DEF Old, New
  <2>1. Shapes'
    BY <1>35, <1>P, <1>I DEF Shapes
  <2>2. HelperKnows'
    BY <1>35, <1>P, <1>I, <2>0 DEF Shapes, HelperKnows, OthersWait, KindsAreSettled,
         CleaningIsLate, ResultIsTrue
  <2>3. OthersWait'
    BY <1>35, <1>P, <1>I, <2>0 DEF Shapes, HelperKnows, OthersWait, KindsAreSettled,
         CleaningIsLate, ResultIsTrue
  <2>4. KindsAreSettled'
    BY <1>35, <1>P, <1>I, <2>0 DEF Shapes, HelperKnows, OthersWait, KindsAreSettled,
         CleaningIsLate, ResultIsTrue
  <2>5. CleaningIsLate'
    BY <1>35, <1>P, <1>I, <2>0 DEF Shapes, HelperKnows, OthersWait, KindsAreSettled,
         CleaningIsLate, ResultIsTrue
  <2>6. ResultIsTrue'
    BY <1>35, <1>P, <1>I, <2>0 DEF Shapes, HelperKnows, OthersWait, KindsAreSettled,
         CleaningIsLate, ResultIsTrue
  <2> QED
    BY <2>1, <2>2, <2>3, <2>4, <2>5, <2>6 DEF UpdateInv
<1> QED
  BY <1>1, <1>2, <1>3, <1>4, <1>5, <1>6, <1>7, <1>8, <1>9, <1>10, <1>11,
     <1>12, <1>13, <1>14, <1>15, <1>16, <1>17, <1>18, <1>19, <1>20, <1>21,
     <1>22, <1>23, <1>24, <1>25, <1>26, <1>27, <1>28, <1>29, <1>30, <1>31,
     <1>32, <1>33, <1>34, <1>35
     DEF Next, HelperNext, Install, Handover, Recover, AppNext, Procs

(* An accident is never forgotten.                                          *)
LEMMA MishapsStay == [Next]_vars => mishaps \subseteq mishaps'
<1> SUFFICES ASSUME [Next]_vars PROVE mishaps \subseteq mishaps'
  OBVIOUS
<1> USE DEF vars, counts, OtherCounts, Suffers
<1>1. CASE Install
  BY <1>1 DEF Install, CheckPackages, WriteBackup, WriteBackupReady, OpenReplacement,
     ReplaceFile, VerifyInstalled, Undo
<1>2. CASE Handover
  BY <1>2 DEF Handover, ParseRequest, WaitForParent, LaunchUpdated, PollReceipt,
     FinalReceipt, StopChild, RollBack
<1>3. ASSUME NEW p \in Procs, Recover(p) PROVE mishaps \subseteq mishaps'
  BY <1>3 DEF Recover, RecoverWithoutJournal, RecoverRefused, RecoverUnknown,
     RecoverOwned, RecoverForward, RecoverDone, RecoverBack, RestoreFile, Restored
<1>4. ASSUME NEW a \in Apps, AppNext(a) PROVE mishaps \subseteq mishaps'
  <2>1. Recover(a) => mishaps \subseteq mishaps'
    BY <1>3 DEF Procs
  <2> QED
    BY <1>4, <2>1 DEF AppNext, StartApp, AcquireInstance, SignalReady, MarkHandoff,
       Schedule, CleanerWaits, CleanerRemoves, CleanerEnds, instances
<1>5. CASE UserStart \/ \E a \in Apps : Close(a)
  BY <1>5 DEF UserStart, Close
<1>6. CASE \E p \in Procs : Crash(p)
  BY <1>6 DEF Crash
<1> QED
  BY <1>1, <1>2, <1>3, <1>4, <1>5, <1>6 DEF Next, HelperNext, Procs

(* What holds until an accident.                                            *)
InvUntil == Undisturbed => UpdateInv
AuthorityUntil == Undisturbed /\ "cut" \notin mishaps => JournalIsAuthority

LEMMA AlwaysUpdateInv == ASSUME UpdateAssumption PROVE Spec => []InvUntil
<1>1. Init => InvUntil
  BY InitUpdate DEF InvUntil
<1>2. InvUntil /\ [Next]_vars => InvUntil'
  <2> SUFFICES ASSUME InvUntil, [Next]_vars, Undisturbed' PROVE UpdateInv'
    BY DEF InvUntil
  <2>1. UpdateInv
    BY MishapsStay DEF InvUntil, Undisturbed
  <2> QED
    BY <2>1, NextUpdate
<1> QED
  BY <1>1, <1>2, PTL DEF Spec

(* A half replaced package is safe: whatever processes die, and whenever,   *)
(* the request, the journal and the complete backup that repair it are      *)
(* there, and no instance serves the user from it                           *)
(* (apply_update_transaction, fail_with_rollback, recover_update_           *)
(* transaction).  It holds until an instance recovers before the journal is *)
(* written or takes a complete update for a broken one; a removal of the    *)
(* work directory that stops halfway does no harm here.                     *)
THEOREM TornAlwaysSafe == ASSUME UpdateAssumption PROVE Spec => []TornIsSafe
<1>1. InvUntil => TornIsSafe
  <2> SUFFICES ASSUME UpdateInv, Torn PROVE TornIsSafe
    BY DEF InvUntil, TornIsSafe, TornIsRecoverable, NoTornService
  <2>1. ~Settled /\ ~Kept /\ ~Old /\ ~New
    BY DEF Torn, Settled, Kept
  <2>2. Requested /\ ~Cleaning
    BY <2>1 DEF UpdateInv, CleaningIsLate
  <2>3. HasJournal
    BY <2>1 DEF UpdateInv, HelperKnows
  <2>4. BackupAndStaged
    BY <2>1, <2>2, <2>3 DEF UpdateInv, CleaningIsLate, AuthorityOrSettled
  <2>5. ASSUME NEW a \in Apps PROVE pc[a] # "running"
    BY <2>1, <2>2 DEF UpdateInv, KindsAreSettled, Alive
  <2> QED
    BY <2>2, <2>3, <2>4, <2>5 DEF TornIsSafe, TornIsRecoverable, NoTornService,
         HasJournal
<1> QED
  BY <1>1, AlwaysUpdateInv, PTL

(* The removal of a work directory that is not cut short leaves no          *)
(* journal without its backup, and no other step loses the backup.          *)
LEMMA NextAuthority ==
  ASSUME UpdateAssumption, "cut" \notin mishaps',
         UpdateInv, JournalIsAuthority, [Next]_vars
  PROVE  JournalIsAuthority'
<1>P. /\ Procs = Apps \cup {Helper} /\ Helper \notin Apps
      /\ \A a \in Apps : a \in Nat
  BY DEF UpdateAssumption, Procs, Apps, Helper
<1>I. /\ Alive(Helper) => ~Cleaning /\ (HasJournal => Requested)
      /\ pc[Helper] = "journal" => backup = NumFiles
      /\ pc[Helper] \in {"open", "replace"} => HasJournal
      /\ \A a \in Apps : Alive(a) /\ cleaner[a] # "none" => pc[a] = "running"
      /\ DOMAIN pc = Procs /\ DOMAIN cleaner = Apps /\ created \in Apps
  BY DEF UpdateInv, Shapes, HelperKnows, CleaningIsLate, Settled, HelperDead
<1> DEFINE Continues == Cleaning => Cleaning' \/ ~Requested
           Complete == Requested' /\ HasJournal'
                          => /\ Requested
                             /\ BackupAndStaged' \/ Cleaning \/ (HasJournal /\ ~BackupAndStaged)
<1> USE DEF vars, package, work, helperState, instances, counts,
        Goto, From, HelperExits, Creates, Leaves, Fails, WriteJournal, UpdateJournal,
        StartRollback, RollbackFailed, HasJournal, Alive, Cleaning, Requested, BackupAndStaged,
        NoJournal, Leftovers
<1>1. CASE ParseRequest
  <2>1. Continues
    BY <1>1, <1>P, <1>I DEF ParseRequest, Cleaning
  <2>2. Complete
    BY <1>1, <1>P, <1>I DEF ParseRequest
  <2> QED
    BY <2>1, <2>2 DEF JournalIsAuthority, HasJournal
<1>2. CASE WaitForParent
  <2>1. Continues
    BY <1>2, <1>P, <1>I DEF WaitForParent, Cleaning
  <2>2. Complete
    BY <1>2, <1>P, <1>I DEF WaitForParent
  <2> QED
    BY <2>1, <2>2 DEF JournalIsAuthority, HasJournal
<1>3. CASE CheckPackages
  <2>1. Continues
    BY <1>3, <1>P, <1>I DEF CheckPackages, Cleaning
  <2>2. Complete
    BY <1>3, <1>P, <1>I DEF CheckPackages
  <2> QED
    BY <2>1, <2>2 DEF JournalIsAuthority, HasJournal
<1>4. CASE WriteBackup
  <2>1. Continues
    BY <1>4, <1>P, <1>I DEF WriteBackup, Cleaning
  <2>2. Complete
    BY <1>4, <1>P, <1>I DEF WriteBackup
  <2> QED
    BY <2>1, <2>2 DEF JournalIsAuthority, HasJournal
<1>5. CASE WriteBackupReady
  <2>1. Continues
    BY <1>5, <1>P, <1>I DEF WriteBackupReady, Cleaning
  <2>2. Complete
    BY <1>5, <1>P, <1>I DEF WriteBackupReady
  <2> QED
    BY <2>1, <2>2 DEF JournalIsAuthority, HasJournal
<1>6. CASE OpenReplacement
  <2>1. Continues
    BY <1>6, <1>P, <1>I DEF OpenReplacement, Cleaning
  <2>2. Complete
    BY <1>6, <1>P, <1>I DEF OpenReplacement
  <2> QED
    BY <2>1, <2>2 DEF JournalIsAuthority, HasJournal
<1>7. CASE ReplaceFile
  <2>1. Continues
    BY <1>7, <1>P, <1>I DEF ReplaceFile, Cleaning
  <2>2. Complete
    BY <1>7, <1>P, <1>I DEF ReplaceFile
  <2> QED
    BY <2>1, <2>2 DEF JournalIsAuthority, HasJournal
<1>8. CASE VerifyInstalled
  <2>1. Continues
    BY <1>8, <1>P, <1>I DEF VerifyInstalled, Cleaning
  <2>2. Complete
    BY <1>8, <1>P, <1>I DEF VerifyInstalled
  <2> QED
    BY <2>1, <2>2 DEF JournalIsAuthority, HasJournal
<1>9. CASE LaunchUpdated
  <2>1. Continues
    BY <1>9, <1>P, <1>I DEF LaunchUpdated, Cleaning
  <2>2. Complete
    BY <1>9, <1>P, <1>I DEF LaunchUpdated
  <2> QED
    BY <2>1, <2>2 DEF JournalIsAuthority, HasJournal
<1>10. CASE PollReceipt
  <2>1. Continues
    BY <1>10, <1>P, <1>I DEF PollReceipt, Cleaning
  <2>2. Complete
    BY <1>10, <1>P, <1>I DEF PollReceipt
  <2> QED
    BY <2>1, <2>2 DEF JournalIsAuthority, HasJournal
<1>11. CASE FinalReceipt
  <2>1. Continues
    BY <1>11, <1>P, <1>I DEF FinalReceipt, Cleaning
  <2>2. Complete
    BY <1>11, <1>P, <1>I DEF FinalReceipt
  <2> QED
    BY <2>1, <2>2 DEF JournalIsAuthority, HasJournal
<1>12. CASE StopChild
  <2>1. Continues
    BY <1>12, <1>P, <1>I DEF StopChild, Cleaning
  <2>2. Complete
    BY <1>12, <1>P, <1>I DEF StopChild
  <2> QED
    BY <2>1, <2>2 DEF JournalIsAuthority, HasJournal
<1>13. CASE Undo
  <2>1. Continues
    BY <1>13, <1>P, <1>I DEF Undo, Cleaning
  <2>2. Complete
    BY <1>13, <1>P, <1>I DEF Undo
  <2> QED
    BY <2>1, <2>2 DEF JournalIsAuthority, HasJournal
<1>14. CASE RollBack
  <2>1. Continues
    BY <1>14, <1>P, <1>I DEF RollBack, Cleaning
  <2>2. Complete
    BY <1>14, <1>P, <1>I DEF RollBack
  <2> QED
    BY <2>1, <2>2 DEF JournalIsAuthority, HasJournal
<1>15. ASSUME NEW p \in Procs, RecoverWithoutJournal(p) PROVE JournalIsAuthority'
  <2>1. Continues
    BY <1>15, <1>P, <1>I DEF RecoverWithoutJournal, Cleaning
  <2>2. Complete
    BY <1>15, <1>P, <1>I DEF RecoverWithoutJournal
  <2> QED
    BY <2>1, <2>2 DEF JournalIsAuthority, HasJournal
<1>16. ASSUME NEW p \in Procs, RecoverRefused(p) PROVE JournalIsAuthority'
  <2>1. Continues
    BY <1>16, <1>P, <1>I DEF RecoverRefused, Cleaning
  <2>2. Complete
    BY <1>16, <1>P, <1>I DEF RecoverRefused
  <2> QED
    BY <2>1, <2>2 DEF JournalIsAuthority, HasJournal
<1>17. ASSUME NEW p \in Procs, RecoverUnknown(p) PROVE JournalIsAuthority'
  <2>1. Continues
    BY <1>17, <1>P, <1>I DEF RecoverUnknown, Cleaning
  <2>2. Complete
    BY <1>17, <1>P, <1>I DEF RecoverUnknown
  <2> QED
    BY <2>1, <2>2 DEF JournalIsAuthority, HasJournal
<1>18. ASSUME NEW p \in Procs, RecoverOwned(p) PROVE JournalIsAuthority'
  <2>1. Continues
    BY <1>18, <1>P, <1>I DEF RecoverOwned, Cleaning
  <2>2. Complete
    BY <1>18, <1>P, <1>I DEF RecoverOwned
  <2> QED
    BY <2>1, <2>2 DEF JournalIsAuthority, HasJournal
<1>19. ASSUME NEW p \in Procs, RecoverForward(p) PROVE JournalIsAuthority'
  <2>1. Continues
    BY <1>19, <1>P, <1>I DEF RecoverForward, Recoverable, Cleaning
  <2>2. Complete
    BY <1>19, <1>P, <1>I DEF RecoverForward, Recoverable
  <2> QED
    BY <2>1, <2>2 DEF JournalIsAuthority, HasJournal
<1>20. ASSUME NEW p \in Procs, RecoverDone(p) PROVE JournalIsAuthority'
  <2>1. Continues
    BY <1>20, <1>P, <1>I DEF RecoverDone, Recoverable, Cleaning
  <2>2. Complete
    BY <1>20, <1>P, <1>I DEF RecoverDone, Recoverable
  <2> QED
    BY <2>1, <2>2 DEF JournalIsAuthority, HasJournal
<1>21. ASSUME NEW p \in Procs, RecoverBack(p) PROVE JournalIsAuthority'
  <2>1. Continues
    BY <1>21, <1>P, <1>I DEF RecoverBack, Recoverable, Cleaning
  <2>2. Complete
    BY <1>21, <1>P, <1>I DEF RecoverBack, Recoverable
  <2> QED
    BY <2>1, <2>2 DEF JournalIsAuthority, HasJournal
<1>22. ASSUME NEW p \in Procs, RestoreFile(p) PROVE JournalIsAuthority'
  <2>1. Continues
    BY <1>22, <1>P, <1>I DEF RestoreFile, Cleaning
  <2>2. Complete
    BY <1>22, <1>P, <1>I DEF RestoreFile
  <2> QED
    BY <2>1, <2>2 DEF JournalIsAuthority, HasJournal
<1>23. ASSUME NEW p \in Procs, Restored(p) PROVE JournalIsAuthority'
  <2>1. Continues
    BY <1>23, <1>P, <1>I DEF Restored, Cleaning
  <2>2. Complete
    BY <1>23, <1>P, <1>I DEF Restored
  <2> QED
    BY <2>1, <2>2 DEF JournalIsAuthority, HasJournal
<1>24. ASSUME NEW p \in Procs, Crash(p) PROVE JournalIsAuthority'
  <2>1. Continues
    BY <1>24, <1>P, <1>I DEF Crash, CutShort, Cleaning
  <2>2. Complete
    BY <1>24, <1>P, <1>I DEF Crash, CutShort
  <2> QED
    BY <2>1, <2>2 DEF JournalIsAuthority, HasJournal
<1>25. ASSUME NEW a \in Apps, StartApp(a) PROVE JournalIsAuthority'
  <2>1. Continues
    BY <1>25, <1>P, <1>I DEF StartApp, Cleaning
  <2>2. Complete
    BY <1>25, <1>P, <1>I DEF StartApp
  <2> QED
    BY <2>1, <2>2 DEF JournalIsAuthority, HasJournal
<1>26. ASSUME NEW a \in Apps, AcquireInstance(a) PROVE JournalIsAuthority'
  <2>1. Continues
    BY <1>26, <1>P, <1>I DEF AcquireInstance, Cleaning
  <2>2. Complete
    BY <1>26, <1>P, <1>I DEF AcquireInstance
  <2> QED
    BY <2>1, <2>2 DEF JournalIsAuthority, HasJournal
<1>27. ASSUME NEW a \in Apps, SignalReady(a) PROVE JournalIsAuthority'
  <2>1. Continues
    BY <1>27, <1>P, <1>I DEF SignalReady, Cleaning
  <2>2. Complete
    BY <1>27, <1>P, <1>I DEF SignalReady
  <2> QED
    BY <2>1, <2>2 DEF JournalIsAuthority, HasJournal
<1>28. ASSUME NEW a \in Apps, MarkHandoff(a) PROVE JournalIsAuthority'
  <2>1. Continues
    BY <1>28, <1>P, <1>I DEF MarkHandoff, Cleaning
  <2>2. Complete
    BY <1>28, <1>P, <1>I DEF MarkHandoff
  <2> QED
    BY <2>1, <2>2 DEF JournalIsAuthority, HasJournal
<1>29. ASSUME NEW a \in Apps, Schedule(a) PROVE JournalIsAuthority'
  <2>1. Continues
    BY <1>29, <1>P, <1>I DEF Schedule, Cleaning
  <2>2. Complete
    BY <1>29, <1>P, <1>I DEF Schedule
  <2> QED
    BY <2>1, <2>2 DEF JournalIsAuthority, HasJournal
<1>30. ASSUME NEW a \in Apps, CleanerWaits(a) PROVE JournalIsAuthority'
  <2>1. Continues
    BY <1>30, <1>P, <1>I DEF CleanerWaits, Cleaning
  <2>2. Complete
    BY <1>30, <1>P, <1>I DEF CleanerWaits
  <2> QED
    BY <2>1, <2>2 DEF JournalIsAuthority, HasJournal
<1>31. ASSUME NEW a \in Apps, CleanerRemoves(a) PROVE JournalIsAuthority'
  <2>1. Continues
    BY <1>31, <1>P, <1>I DEF CleanerRemoves, Cleaning
  <2>2. Complete
    BY <1>31, <1>P, <1>I DEF CleanerRemoves
  <2> QED
    BY <2>1, <2>2 DEF JournalIsAuthority, HasJournal
<1>32. ASSUME NEW a \in Apps, CleanerEnds(a) PROVE JournalIsAuthority'
  <2>1. Continues
    BY <1>32, <1>P, <1>I DEF CleanerEnds, Suffers, Cleaning
  <2>2. Complete
    BY <1>32, <1>P, <1>I DEF CleanerEnds, Suffers
  <2> QED
    BY <2>1, <2>2 DEF JournalIsAuthority, HasJournal
<1>33. ASSUME NEW a \in Apps, Close(a) PROVE JournalIsAuthority'
  <2>1. Continues
    BY <1>33, <1>P, <1>I DEF Close, Suffers, CutShort, Cleaning
  <2>2. Complete
    BY <1>33, <1>P, <1>I DEF Close, Suffers, CutShort
  <2> QED
    BY <2>1, <2>2 DEF JournalIsAuthority, HasJournal
<1>34. CASE UserStart
  <2>1. Continues
    BY <1>34, <1>P, <1>I DEF UserStart, Cleaning
  <2>2. Complete
    BY <1>34, <1>P, <1>I DEF UserStart
  <2> QED
    BY <2>1, <2>2 DEF JournalIsAuthority, HasJournal
<1>35. CASE UNCHANGED vars
  <2>1. Continues
    BY <1>35, <1>P, <1>I DEF Cleaning
  <2>2. Complete
    BY <1>35
  <2> QED
    BY <2>1, <2>2 DEF JournalIsAuthority, HasJournal
<1> QED
  BY <1>1, <1>2, <1>3, <1>4, <1>5, <1>6, <1>7, <1>8, <1>9, <1>10, <1>11, <1>12, <1>13,
       <1>14, <1>15, <1>16, <1>17, <1>18, <1>19, <1>20, <1>21, <1>22, <1>23, <1>24,
       <1>25, <1>26, <1>27, <1>28, <1>29, <1>30, <1>31, <1>32, <1>33, <1>34, <1>35 DEF
       Next, HelperNext, Install, Handover, Recover, AppNext, Procs

LEMMA AlwaysAuthority == ASSUME UpdateAssumption PROVE Spec => []AuthorityUntil
<1>1. Init => AuthorityUntil
  BY DEF Init, NoJournal, AuthorityUntil, JournalIsAuthority
<1>2. InvUntil /\ AuthorityUntil /\ [Next]_vars => AuthorityUntil'
  <2> SUFFICES ASSUME InvUntil, AuthorityUntil, [Next]_vars, Undisturbed',
                      "cut" \notin mishaps'
               PROVE  JournalIsAuthority'
    BY DEF AuthorityUntil
  <2>1. UpdateInv /\ JournalIsAuthority
    BY MishapsStay DEF InvUntil, AuthorityUntil, Undisturbed
  <2> QED
    BY <2>1, NextAuthority
<1> QED
  BY <1>1, <1>2, AlwaysUpdateInv, PTL DEF Spec

(* The files that are needed are there: outside a running cleanup a journal *)
(* comes with the complete backup it speaks of, and nothing is removed      *)
(* before the helper has exited (cleanup_update_work,                       *)
(* update_transaction_allows_cleanup), under the conditions above; a        *)
(* removal cut short has taken the backup first and leaves the journal.     *)
THEOREM FilesAlwaysThere == ASSUME UpdateAssumption PROVE Spec => []FilesAreThere
<1>1. InvUntil /\ AuthorityUntil => FilesAreThere
  BY DEF InvUntil, AuthorityUntil, UpdateInv, CleaningIsLate, FilesAreThere,
     CleanupAfterHelper, Settled, HelperDead
<1> QED
  BY <1>1, AlwaysUpdateInv, AlwaysAuthority, PTL

(* The helper tells the truth: an update it reported as installed is not    *)
(* undone by a later start, one reported as undone does not come back       *)
(* (run_update_helper), until an instance recovers before the journal is    *)
(* written or fails to read an update that is complete.                     *)
THEOREM OutcomeAlwaysTrue == ASSUME UpdateAssumption PROVE Spec => []OutcomeIsTrue
<1>1. InvUntil => OutcomeIsTrue
  BY DEF InvUntil, UpdateInv, ResultIsTrue, OutcomeIsTrue, Kept
<1> QED
  BY <1>1, AlwaysUpdateInv, PTL

(* What TypeOK says of the files, of the steps and of the instances.        *)
PackageTyped ==
    /\ target \in [Files -> {"old", "new"}]
    /\ backup \in 0..NumFiles
    /\ staged \in BOOLEAN /\ request \in BOOLEAN /\ receipt \in BOOLEAN
    /\ journal \in [phase : Phases \cup {"none"}, owner : Procs]
Steps == HelperSteps \cup RecoverySteps \cup AppSteps \cup {"exited", "refused"}
StepsTyped == pc \in [Procs -> Steps]
PlacesTyped ==
    /\ at \in [Procs -> 0..(NumFiles + 1)]
    /\ purpose \in [Procs -> {"undo", "return", "recover"}]
AppsTyped ==
    /\ app \in [Apps -> [kind : {"normal", "ready", "cleanup"}, waitsFor : Procs]]
    /\ cleaner \in [Apps -> {"none", "wait", "remove"}]
    /\ holder \in Procs /\ child \in Procs /\ created \in Apps
OutcomeTyped == result \in Results /\ starts \in Nat /\ faults \in Nat /\ crashes \in Nat
MishapsTyped == mishaps \subseteq Mishaps

UpdateTypes == PackageTyped /\ StepsTyped /\ PlacesTyped /\ AppsTyped /\ OutcomeTyped

(* The parts are the type invariant.                                        *)
LEMMA TypesAre == TypeOK <=> UpdateTypes /\ MishapsTyped
  BY DEF TypeOK, UpdateTypes, PackageTyped, StepsTyped, PlacesTyped, AppsTyped,
       OutcomeTyped, MishapsTyped, Steps

(* Only the three accidents are remembered.                                 *)
LEMMA NextMishaps == ASSUME MishapsTyped, [Next]_vars PROVE MishapsTyped'
<1> USE DEF vars, counts, OtherCounts, Suffers, MishapsTyped, Mishaps
<1>1. CASE Install
  BY <1>1 DEF Install, CheckPackages, WriteBackup, WriteBackupReady, OpenReplacement,
     ReplaceFile, VerifyInstalled, Undo
<1>2. CASE Handover
  BY <1>2 DEF Handover, ParseRequest, WaitForParent, LaunchUpdated, PollReceipt,
     FinalReceipt, StopChild, RollBack
<1>3. ASSUME NEW p \in Procs, Recover(p) PROVE MishapsTyped'
  BY <1>3 DEF Recover, RecoverWithoutJournal, RecoverRefused, RecoverUnknown,
     RecoverOwned, RecoverForward, RecoverDone, RecoverBack, RestoreFile, Restored
<1>4. ASSUME NEW a \in Apps, AppNext(a) PROVE MishapsTyped'
  <2>1. Recover(a) => MishapsTyped'
    BY <1>3 DEF Procs
  <2> QED
    BY <1>4, <2>1 DEF AppNext, StartApp, AcquireInstance, SignalReady, MarkHandoff,
       Schedule, CleanerWaits, CleanerRemoves, CleanerEnds, instances
<1>5. CASE UserStart \/ \E a \in Apps : Close(a)
  BY <1>5 DEF UserStart, Close, CutShort
<1>6. CASE \E p \in Procs : Crash(p)
  BY <1>6 DEF Crash, CutShort
<1> QED
  BY <1>1, <1>2, <1>3, <1>4, <1>5, <1>6 DEF Next, HelperNext, Procs

(* An old package, a helper about to parse its request, one instance.       *)
LEMMA InitTypes == ASSUME UpdateAssumption PROVE Init => UpdateTypes
<1> SUFFICES ASSUME Init PROVE UpdateTypes
  OBVIOUS
<1>1. Helper \in Procs /\ Parent \in Procs /\ 1 \in Apps /\ Apps \subseteq Procs /\ 0 \in Procs
  BY DEF UpdateAssumption, Procs, Apps, Helper, Parent
<1>2. PackageTyped
  <2>1. NoJournal \in [phase : Phases \cup {"none"}, owner : Procs]
    BY <1>1 DEF NoJournal
  <2>2. 0 \in 0..NumFiles
    BY DEF UpdateAssumption
  <2> QED
    BY <2>1, <2>2 DEF Init, PackageTyped
<1>3. StepsTyped
  BY DEF Init, StepsTyped, Steps, AppSteps, HelperSteps
<1>4. PlacesTyped
  BY DEF Init, UpdateAssumption, PlacesTyped
<1>5. AppsTyped
  BY <1>1 DEF Init, AppsTyped
<1>6. OutcomeTyped
  BY DEF Init, OutcomeTyped, Results
<1> QED
  BY <1>2, <1>3, <1>4, <1>5, <1>6 DEF UpdateTypes

(* Every step of the helper, of an instance and a kill keep the types.      *)
LEMMA NextTypes == ASSUME UpdateAssumption, UpdateTypes, [Next]_vars PROVE UpdateTypes'
<1>P. /\ Helper \in Procs /\ Apps \subseteq Procs /\ NumFiles \in Nat
      /\ \A c \in Apps : c < MaxApps => c + 1 \in Apps
      /\ 0..(NumFiles + 1) \subseteq Nat /\ 1 \in 0..(NumFiles + 1) /\ Files = 1..NumFiles
  BY DEF UpdateAssumption, Procs, Apps, Helper, Files
<1>S. /\ HelperSteps \subseteq Steps /\ RecoverySteps \subseteq Steps /\ AppSteps \subseteq Steps
      /\ {"exited", "refused"} \subseteq Steps
      /\ \A k \in {"normal", "ready", "cleanup"} : AfterStart(k) \in Steps
  BY DEF Steps, AfterStart, AppSteps
<1>I. PackageTyped /\ StepsTyped /\ PlacesTyped /\ AppsTyped /\ OutcomeTyped
  BY DEF UpdateTypes
<1> USE DEF vars, package, work, helperState, instances, counts,
        Goto, From, HelperExits, Creates, Leaves, Fails, WriteJournal, UpdateJournal,
        StartRollback, RollbackFailed, Fault, NoFault, OtherCounts
<1>1. CASE ParseRequest
  <2>1. PackageTyped'
    BY <1>1, <1>P, <1>S, <1>I DEF ParseRequest, PackageTyped, PlacesTyped, Phases,
         NoJournal, Files
  <2>2. StepsTyped'
    BY <1>1, <1>P, <1>S, <1>I DEF ParseRequest, StepsTyped, AppsTyped, HelperSteps,
         RecoverySteps, AppSteps
  <2>3. PlacesTyped'
    BY <1>1, <1>P, <1>S, <1>I DEF ParseRequest, PlacesTyped
  <2>4. AppsTyped'
    BY <1>1, <1>P, <1>S, <1>I DEF ParseRequest, AppsTyped
  <2>5. OutcomeTyped'
    BY <1>1, <1>P, <1>S, <1>I DEF ParseRequest, OutcomeTyped, Results
  <2> QED
    BY <2>1, <2>2, <2>3, <2>4, <2>5 DEF UpdateTypes
<1>2. CASE WaitForParent
  <2>1. PackageTyped'
    BY <1>2, <1>P, <1>S, <1>I DEF WaitForParent, PackageTyped, PlacesTyped, Phases,
         NoJournal, Files
  <2>2. StepsTyped'
    BY <1>2, <1>P, <1>S, <1>I DEF WaitForParent, StepsTyped, AppsTyped, HelperSteps,
         RecoverySteps, AppSteps
  <2>3. PlacesTyped'
    BY <1>2, <1>P, <1>S, <1>I DEF WaitForParent, PlacesTyped
  <2>4. AppsTyped'
    BY <1>2, <1>P, <1>S, <1>I DEF WaitForParent, AppsTyped
  <2>5. OutcomeTyped'
    BY <1>2, <1>P, <1>S, <1>I DEF WaitForParent, OutcomeTyped, Results
  <2> QED
    BY <2>1, <2>2, <2>3, <2>4, <2>5 DEF UpdateTypes
<1>3. CASE CheckPackages
  <2>1. PackageTyped'
    BY <1>3, <1>P, <1>S, <1>I DEF CheckPackages, PackageTyped, PlacesTyped, Phases,
         NoJournal, Files
  <2>2. StepsTyped'
    BY <1>3, <1>P, <1>S, <1>I DEF CheckPackages, StepsTyped, AppsTyped, HelperSteps,
         RecoverySteps, AppSteps
  <2>3. PlacesTyped'
    BY <1>3, <1>P, <1>S, <1>I DEF CheckPackages, PlacesTyped
  <2>4. AppsTyped'
    BY <1>3, <1>P, <1>S, <1>I DEF CheckPackages, AppsTyped
  <2>5. OutcomeTyped'
    BY <1>3, <1>P, <1>S, <1>I DEF CheckPackages, OutcomeTyped, Results
  <2> QED
    BY <2>1, <2>2, <2>3, <2>4, <2>5 DEF UpdateTypes
<1>4. CASE WriteBackup
  <2>1. PackageTyped'
    BY <1>4, <1>P, <1>S, <1>I DEF WriteBackup, PackageTyped, PlacesTyped, Phases,
         NoJournal, Files
  <2>2. StepsTyped'
    BY <1>4, <1>P, <1>S, <1>I DEF WriteBackup, StepsTyped, AppsTyped, HelperSteps,
         RecoverySteps, AppSteps
  <2>3. PlacesTyped'
    BY <1>4, <1>P, <1>S, <1>I DEF WriteBackup, PlacesTyped
  <2>4. AppsTyped'
    BY <1>4, <1>P, <1>S, <1>I DEF WriteBackup, AppsTyped
  <2>5. OutcomeTyped'
    BY <1>4, <1>P, <1>S, <1>I DEF WriteBackup, OutcomeTyped, Results
  <2> QED
    BY <2>1, <2>2, <2>3, <2>4, <2>5 DEF UpdateTypes
<1>5. CASE WriteBackupReady
  <2>1. PackageTyped'
    BY <1>5, <1>P, <1>S, <1>I DEF WriteBackupReady, PackageTyped, PlacesTyped, Phases,
         NoJournal, Files
  <2>2. StepsTyped'
    BY <1>5, <1>P, <1>S, <1>I DEF WriteBackupReady, StepsTyped, AppsTyped,
         HelperSteps, RecoverySteps, AppSteps
  <2>3. PlacesTyped'
    BY <1>5, <1>P, <1>S, <1>I DEF WriteBackupReady, PlacesTyped
  <2>4. AppsTyped'
    BY <1>5, <1>P, <1>S, <1>I DEF WriteBackupReady, AppsTyped
  <2>5. OutcomeTyped'
    BY <1>5, <1>P, <1>S, <1>I DEF WriteBackupReady, OutcomeTyped, Results
  <2> QED
    BY <2>1, <2>2, <2>3, <2>4, <2>5 DEF UpdateTypes
<1>6. CASE OpenReplacement
  <2>1. PackageTyped'
    BY <1>6, <1>P, <1>S, <1>I DEF OpenReplacement, PackageTyped, PlacesTyped, Phases,
         NoJournal, Files
  <2>2. StepsTyped'
    BY <1>6, <1>P, <1>S, <1>I DEF OpenReplacement, StepsTyped, AppsTyped, HelperSteps,
         RecoverySteps, AppSteps
  <2>3. PlacesTyped'
    BY <1>6, <1>P, <1>S, <1>I DEF OpenReplacement, PlacesTyped
  <2>4. AppsTyped'
    BY <1>6, <1>P, <1>S, <1>I DEF OpenReplacement, AppsTyped
  <2>5. OutcomeTyped'
    BY <1>6, <1>P, <1>S, <1>I DEF OpenReplacement, OutcomeTyped, Results
  <2> QED
    BY <2>1, <2>2, <2>3, <2>4, <2>5 DEF UpdateTypes
<1>7. CASE ReplaceFile
  <2>1. PackageTyped'
    BY <1>7, <1>P, <1>S, <1>I DEF ReplaceFile, PackageTyped, PlacesTyped, Phases,
         NoJournal, Files
  <2>2. StepsTyped'
    BY <1>7, <1>P, <1>S, <1>I DEF ReplaceFile, StepsTyped, AppsTyped, HelperSteps,
         RecoverySteps, AppSteps
  <2>3. PlacesTyped'
    BY <1>7, <1>P, <1>S, <1>I DEF ReplaceFile, PlacesTyped
  <2>4. AppsTyped'
    BY <1>7, <1>P, <1>S, <1>I DEF ReplaceFile, AppsTyped
  <2>5. OutcomeTyped'
    BY <1>7, <1>P, <1>S, <1>I DEF ReplaceFile, OutcomeTyped, Results
  <2> QED
    BY <2>1, <2>2, <2>3, <2>4, <2>5 DEF UpdateTypes
<1>8. CASE VerifyInstalled
  <2>1. PackageTyped'
    BY <1>8, <1>P, <1>S, <1>I DEF VerifyInstalled, PackageTyped, PlacesTyped, Phases,
         NoJournal, Files
  <2>2. StepsTyped'
    BY <1>8, <1>P, <1>S, <1>I DEF VerifyInstalled, StepsTyped, AppsTyped, HelperSteps,
         RecoverySteps, AppSteps
  <2>3. PlacesTyped'
    BY <1>8, <1>P, <1>S, <1>I DEF VerifyInstalled, PlacesTyped
  <2>4. AppsTyped'
    BY <1>8, <1>P, <1>S, <1>I DEF VerifyInstalled, AppsTyped
  <2>5. OutcomeTyped'
    BY <1>8, <1>P, <1>S, <1>I DEF VerifyInstalled, OutcomeTyped, Results
  <2> QED
    BY <2>1, <2>2, <2>3, <2>4, <2>5 DEF UpdateTypes
<1>9. CASE LaunchUpdated
  <2>1. PackageTyped'
    BY <1>9, <1>P, <1>S, <1>I DEF LaunchUpdated, PackageTyped, PlacesTyped, Phases,
         NoJournal, Files
  <2>2. StepsTyped'
    <3>1. \/ pc' = [pc EXCEPT ![Helper] = "poll", ![created + 1] = "start"]
          \/ pc' = [pc EXCEPT ![Helper] = "rollback"]
      BY <1>9 DEF LaunchUpdated
    <3>2. {"poll", "start", "rollback"} \subseteq Steps
      BY <1>S DEF AppSteps, HelperSteps
    <3> QED
      BY <3>1, <3>2, <1>I DEF StepsTyped
  <2>3. PlacesTyped'
    BY <1>9, <1>P, <1>S, <1>I DEF LaunchUpdated, PlacesTyped
  <2>4. AppsTyped'
    BY <1>9, <1>P, <1>S, <1>I DEF LaunchUpdated, AppsTyped
  <2>5. OutcomeTyped'
    BY <1>9, <1>P, <1>S, <1>I DEF LaunchUpdated, OutcomeTyped, Results
  <2> QED
    BY <2>1, <2>2, <2>3, <2>4, <2>5 DEF UpdateTypes
<1>10. CASE PollReceipt
  <2>1. PackageTyped'
    BY <1>10, <1>P, <1>S, <1>I DEF PollReceipt, PackageTyped, PlacesTyped, Phases,
         NoJournal, Files
  <2>2. StepsTyped'
    BY <1>10, <1>P, <1>S, <1>I DEF PollReceipt, StepsTyped, AppsTyped, HelperSteps,
         RecoverySteps, AppSteps
  <2>3. PlacesTyped'
    BY <1>10, <1>P, <1>S, <1>I DEF PollReceipt, PlacesTyped
  <2>4. AppsTyped'
    BY <1>10, <1>P, <1>S, <1>I DEF PollReceipt, AppsTyped
  <2>5. OutcomeTyped'
    BY <1>10, <1>P, <1>S, <1>I DEF PollReceipt, OutcomeTyped, Results
  <2> QED
    BY <2>1, <2>2, <2>3, <2>4, <2>5 DEF UpdateTypes
<1>11. CASE FinalReceipt
  <2>1. PackageTyped'
    BY <1>11, <1>P, <1>S, <1>I DEF FinalReceipt, PackageTyped, PlacesTyped, Phases,
         NoJournal, Files
  <2>2. StepsTyped'
    BY <1>11, <1>P, <1>S, <1>I DEF FinalReceipt, StepsTyped, AppsTyped, HelperSteps,
         RecoverySteps, AppSteps
  <2>3. PlacesTyped'
    BY <1>11, <1>P, <1>S, <1>I DEF FinalReceipt, PlacesTyped
  <2>4. AppsTyped'
    BY <1>11, <1>P, <1>S, <1>I DEF FinalReceipt, AppsTyped
  <2>5. OutcomeTyped'
    BY <1>11, <1>P, <1>S, <1>I DEF FinalReceipt, OutcomeTyped, Results
  <2> QED
    BY <2>1, <2>2, <2>3, <2>4, <2>5 DEF UpdateTypes
<1>12. CASE StopChild
  <2>1. PackageTyped'
    BY <1>12, <1>P, <1>S, <1>I DEF StopChild, PackageTyped, PlacesTyped, Phases,
         NoJournal, Files
  <2>2. StepsTyped'
    <3>1. \/ \E s \in {pc[child], "exited"} :
                pc' = [pc EXCEPT ![Helper] = "rollback", ![child] = s]
          \/ pc' = [pc EXCEPT ![Helper] = "exited"]
      BY <1>12, <1>I DEF StopChild, StepsTyped, AppsTyped, Alive
    <3>2. {"rollback", "exited", pc[child]} \subseteq Steps
      BY <1>S, <1>I DEF AppSteps, HelperSteps, StepsTyped, AppsTyped
    <3> QED
      BY <3>1, <3>2, <1>I DEF StepsTyped
  <2>3. PlacesTyped'
    BY <1>12, <1>P, <1>S, <1>I DEF StopChild, PlacesTyped
  <2>4. AppsTyped'
    BY <1>12, <1>P, <1>S, <1>I DEF StopChild, AppsTyped
  <2>5. OutcomeTyped'
    BY <1>12, <1>P, <1>S, <1>I DEF StopChild, OutcomeTyped, Results
  <2> QED
    BY <2>1, <2>2, <2>3, <2>4, <2>5 DEF UpdateTypes
<1>13. CASE Undo
  <2>1. PackageTyped'
    BY <1>13, <1>P, <1>S, <1>I DEF Undo, PackageTyped, PlacesTyped, Phases, NoJournal,
         Files
  <2>2. StepsTyped'
    BY <1>13, <1>P, <1>S, <1>I DEF Undo, StepsTyped, AppsTyped, HelperSteps,
         RecoverySteps, AppSteps
  <2>3. PlacesTyped'
    BY <1>13, <1>P, <1>S, <1>I DEF Undo, PlacesTyped
  <2>4. AppsTyped'
    BY <1>13, <1>P, <1>S, <1>I DEF Undo, AppsTyped
  <2>5. OutcomeTyped'
    BY <1>13, <1>P, <1>S, <1>I DEF Undo, OutcomeTyped, Results
  <2> QED
    BY <2>1, <2>2, <2>3, <2>4, <2>5 DEF UpdateTypes
<1>14. CASE RollBack
  <2>1. PackageTyped'
    BY <1>14, <1>P, <1>S, <1>I DEF RollBack, PackageTyped, PlacesTyped, Phases,
         NoJournal, Files
  <2>2. StepsTyped'
    BY <1>14, <1>P, <1>S, <1>I DEF RollBack, StepsTyped, AppsTyped, HelperSteps,
         RecoverySteps, AppSteps
  <2>3. PlacesTyped'
    BY <1>14, <1>P, <1>S, <1>I DEF RollBack, PlacesTyped
  <2>4. AppsTyped'
    BY <1>14, <1>P, <1>S, <1>I DEF RollBack, AppsTyped
  <2>5. OutcomeTyped'
    BY <1>14, <1>P, <1>S, <1>I DEF RollBack, OutcomeTyped, Results
  <2> QED
    BY <2>1, <2>2, <2>3, <2>4, <2>5 DEF UpdateTypes
<1>15. CASE UserStart
  <2>1. PackageTyped'
    BY <1>15, <1>P, <1>S, <1>I DEF UserStart, PackageTyped, PlacesTyped, Phases,
         NoJournal, Files
  <2>2. StepsTyped'
    BY <1>15, <1>P, <1>S, <1>I DEF UserStart, StepsTyped, AppsTyped, HelperSteps,
         RecoverySteps, AppSteps
  <2>3. PlacesTyped'
    BY <1>15, <1>P, <1>S, <1>I DEF UserStart, PlacesTyped
  <2>4. AppsTyped'
    BY <1>15, <1>P, <1>S, <1>I DEF UserStart, AppsTyped
  <2>5. OutcomeTyped'
    BY <1>15, <1>P, <1>S, <1>I DEF UserStart, OutcomeTyped, Results
  <2> QED
    BY <2>1, <2>2, <2>3, <2>4, <2>5 DEF UpdateTypes
<1>16. ASSUME NEW p \in Procs, RestoreFile(p) PROVE UpdateTypes'
  <2>1. PackageTyped'
    BY <1>16, <1>P, <1>S, <1>I DEF RestoreFile, PackageTyped, PlacesTyped, Phases,
         NoJournal, Files
  <2>2. StepsTyped'
    <3>1. \E step \in {"restore", "recover", "exited", "refused"} :
             pc' = [pc EXCEPT ![p] = step]
      BY <1>16 DEF RestoreFile
    <3> QED
      BY <3>1, <1>S, <1>I DEF StepsTyped, RecoverySteps
  <2>3. PlacesTyped'
    <3>1. purpose' = purpose /\ (at' = at \/ (at[p] <= NumFiles /\ at' = [at EXCEPT ![p] = @ + 1]))
      BY <1>16 DEF RestoreFile
    <3>2. at[p] <= NumFiles => at[p] + 1 \in 0..(NumFiles + 1)
      BY <1>P, <1>I DEF PlacesTyped
    <3> QED
      BY <3>1, <3>2, <1>I DEF PlacesTyped
  <2>4. AppsTyped'
    BY <1>16, <1>P, <1>S, <1>I DEF RestoreFile, AppsTyped
  <2>5. OutcomeTyped'
    BY <1>16, <1>P, <1>S, <1>I DEF RestoreFile, OutcomeTyped, Results
  <2> QED
    BY <2>1, <2>2, <2>3, <2>4, <2>5 DEF UpdateTypes
<1>17. ASSUME NEW p \in Procs, Restored(p) PROVE UpdateTypes'
  <2>1. PackageTyped'
    BY <1>17, <1>P, <1>S, <1>I DEF Restored, PackageTyped, PlacesTyped, Phases,
         NoJournal, Files
  <2>2. StepsTyped'
    BY <1>17, <1>P, <1>S, <1>I DEF Restored, StepsTyped, AppsTyped, HelperSteps,
         RecoverySteps, AppSteps
  <2>3. PlacesTyped'
    BY <1>17, <1>P, <1>S, <1>I DEF Restored, PlacesTyped
  <2>4. AppsTyped'
    BY <1>17, <1>P, <1>S, <1>I DEF Restored, AppsTyped
  <2>5. OutcomeTyped'
    BY <1>17, <1>P, <1>S, <1>I DEF Restored, OutcomeTyped, Results
  <2> QED
    BY <2>1, <2>2, <2>3, <2>4, <2>5 DEF UpdateTypes
<1>18. ASSUME NEW p \in Procs, RecoverWithoutJournal(p) PROVE UpdateTypes'
  <2>1. PackageTyped'
    BY <1>18, <1>P, <1>S, <1>I DEF RecoverWithoutJournal, PackageTyped, PlacesTyped,
         Phases, NoJournal, Files
  <2>2. StepsTyped'
    BY <1>18, <1>P, <1>S, <1>I DEF RecoverWithoutJournal, StepsTyped, AppsTyped,
         HelperSteps, RecoverySteps, AppSteps
  <2>3. PlacesTyped'
    BY <1>18, <1>P, <1>S, <1>I DEF RecoverWithoutJournal, PlacesTyped
  <2>4. AppsTyped'
    BY <1>18, <1>P, <1>S, <1>I DEF RecoverWithoutJournal, AppsTyped
  <2>5. OutcomeTyped'
    BY <1>18, <1>P, <1>S, <1>I DEF RecoverWithoutJournal, Suffers, OutcomeTyped, Results
  <2> QED
    BY <2>1, <2>2, <2>3, <2>4, <2>5 DEF UpdateTypes
<1>19. ASSUME NEW p \in Procs, RecoverRefused(p) PROVE UpdateTypes'
  <2>1. PackageTyped'
    BY <1>19, <1>P, <1>S, <1>I DEF RecoverRefused, PackageTyped, PlacesTyped, Phases,
         NoJournal, Files
  <2>2. StepsTyped'
    BY <1>19, <1>P, <1>S, <1>I DEF RecoverRefused, StepsTyped, AppsTyped, HelperSteps,
         RecoverySteps, AppSteps
  <2>3. PlacesTyped'
    BY <1>19, <1>P, <1>S, <1>I DEF RecoverRefused, PlacesTyped
  <2>4. AppsTyped'
    BY <1>19, <1>P, <1>S, <1>I DEF RecoverRefused, AppsTyped
  <2>5. OutcomeTyped'
    BY <1>19, <1>P, <1>S, <1>I DEF RecoverRefused, OutcomeTyped, Results
  <2> QED
    BY <2>1, <2>2, <2>3, <2>4, <2>5 DEF UpdateTypes
<1>20. ASSUME NEW p \in Procs, RecoverUnknown(p) PROVE UpdateTypes'
  <2>1. PackageTyped'
    BY <1>20, <1>P, <1>S, <1>I DEF RecoverUnknown, PackageTyped, PlacesTyped, Phases,
         NoJournal, Files
  <2>2. StepsTyped'
    BY <1>20, <1>P, <1>S, <1>I DEF RecoverUnknown, StepsTyped, AppsTyped, HelperSteps,
         RecoverySteps, AppSteps
  <2>3. PlacesTyped'
    BY <1>20, <1>P, <1>S, <1>I DEF RecoverUnknown, PlacesTyped
  <2>4. AppsTyped'
    BY <1>20, <1>P, <1>S, <1>I DEF RecoverUnknown, AppsTyped
  <2>5. OutcomeTyped'
    BY <1>20, <1>P, <1>S, <1>I DEF RecoverUnknown, OutcomeTyped, Results
  <2> QED
    BY <2>1, <2>2, <2>3, <2>4, <2>5 DEF UpdateTypes
<1>21. ASSUME NEW p \in Procs, RecoverOwned(p) PROVE UpdateTypes'
  <2>1. PackageTyped'
    BY <1>21, <1>P, <1>S, <1>I DEF RecoverOwned, PackageTyped, PlacesTyped, Phases,
         NoJournal, Files
  <2>2. StepsTyped'
    BY <1>21, <1>P, <1>S, <1>I DEF RecoverOwned, StepsTyped, AppsTyped, HelperSteps,
         RecoverySteps, AppSteps
  <2>3. PlacesTyped'
    BY <1>21, <1>P, <1>S, <1>I DEF RecoverOwned, PlacesTyped
  <2>4. AppsTyped'
    BY <1>21, <1>P, <1>S, <1>I DEF RecoverOwned, AppsTyped
  <2>5. OutcomeTyped'
    BY <1>21, <1>P, <1>S, <1>I DEF RecoverOwned, OutcomeTyped, Results
  <2> QED
    BY <2>1, <2>2, <2>3, <2>4, <2>5 DEF UpdateTypes
<1>22. ASSUME NEW p \in Procs, RecoverForward(p) PROVE UpdateTypes'
  <2>1. PackageTyped'
    BY <1>22, <1>P, <1>S, <1>I DEF RecoverForward, PackageTyped, PlacesTyped, Phases,
         NoJournal, Files
  <2>2. StepsTyped'
    <3>1. \/ \E step \in {"exited", "refused"} : pc' = [pc EXCEPT ![p] = step]
          \/ created < MaxApps /\ pc' = [pc EXCEPT ![p] = "exited", ![created + 1] = "start"]
      BY <1>22 DEF RecoverForward
    <3>2. created < MaxApps => created + 1 \in Procs
      BY <1>P, <1>I DEF AppsTyped
    <3>3. "start" \in Steps
      BY <1>S DEF AppSteps
    <3> QED
      BY <3>1, <3>2, <3>3, <1>S, <1>I DEF StepsTyped
  <2>3. PlacesTyped'
    BY <1>22, <1>P, <1>S, <1>I DEF RecoverForward, PlacesTyped
  <2>4. AppsTyped'
    BY <1>22, <1>P, <1>S, <1>I DEF RecoverForward, AppsTyped
  <2>5. OutcomeTyped'
    BY <1>22, <1>P, <1>S, <1>I DEF RecoverForward, OutcomeTyped, Results
  <2> QED
    BY <2>1, <2>2, <2>3, <2>4, <2>5 DEF UpdateTypes
<1>23. ASSUME NEW p \in Procs, RecoverDone(p) PROVE UpdateTypes'
  <2>1. PackageTyped'
    BY <1>23, <1>P, <1>S, <1>I DEF RecoverDone, PackageTyped, PlacesTyped, Phases,
         NoJournal, Files
  <2>2. StepsTyped'
    <3>1. \/ \E step \in {"exited", "refused"} : pc' = [pc EXCEPT ![p] = step]
          \/ created < MaxApps /\ pc' = [pc EXCEPT ![p] = "exited", ![created + 1] = "start"]
      BY <1>23 DEF RecoverDone
    <3>2. created < MaxApps => created + 1 \in Procs
      BY <1>P, <1>I DEF AppsTyped
    <3>3. "start" \in Steps
      BY <1>S DEF AppSteps
    <3> QED
      BY <3>1, <3>2, <3>3, <1>S, <1>I DEF StepsTyped
  <2>3. PlacesTyped'
    BY <1>23, <1>P, <1>S, <1>I DEF RecoverDone, PlacesTyped
  <2>4. AppsTyped'
    BY <1>23, <1>P, <1>S, <1>I DEF RecoverDone, AppsTyped
  <2>5. OutcomeTyped'
    BY <1>23, <1>P, <1>S, <1>I DEF RecoverDone, OutcomeTyped, Results
  <2> QED
    BY <2>1, <2>2, <2>3, <2>4, <2>5 DEF UpdateTypes
<1>24. ASSUME NEW p \in Procs, RecoverBack(p) PROVE UpdateTypes'
  <2>1. PackageTyped'
    BY <1>24, <1>P, <1>S, <1>I DEF RecoverBack, PackageTyped, PlacesTyped, Phases,
         NoJournal, Files
  <2>2. StepsTyped'
    <3>1. pc' = [pc EXCEPT ![p] = "restore"]
      BY <1>24 DEF RecoverBack
    <3>2. "restore" \in Steps
      BY <1>S DEF RecoverySteps
    <3> QED
      BY <3>1, <3>2, <1>I DEF StepsTyped
  <2>3. PlacesTyped'
    BY <1>24, <1>P, <1>S, <1>I DEF RecoverBack, PlacesTyped
  <2>4. AppsTyped'
    BY <1>24, <1>P, <1>S, <1>I DEF RecoverBack, AppsTyped
  <2>5. OutcomeTyped'
    BY <1>24, <1>P, <1>S, <1>I DEF RecoverBack, Suffers, OutcomeTyped, Results
  <2> QED
    BY <2>1, <2>2, <2>3, <2>4, <2>5 DEF UpdateTypes
<1>25. ASSUME NEW p \in Procs, Crash(p) PROVE UpdateTypes'
  <2>1. PackageTyped'
    BY <1>25, <1>P, <1>S, <1>I DEF Crash, PackageTyped, PlacesTyped, Phases,
         NoJournal, Files
  <2>2. StepsTyped'
    BY <1>25, <1>P, <1>S, <1>I DEF Crash, StepsTyped, AppsTyped, HelperSteps,
         RecoverySteps, AppSteps
  <2>3. PlacesTyped'
    BY <1>25, <1>P, <1>S, <1>I DEF Crash, PlacesTyped
  <2>4. AppsTyped'
    BY <1>25, <1>P, <1>S, <1>I DEF Crash, AppsTyped
  <2>5. OutcomeTyped'
    BY <1>25, <1>P, <1>S, <1>I DEF Crash, OutcomeTyped, Results
  <2> QED
    BY <2>1, <2>2, <2>3, <2>4, <2>5 DEF UpdateTypes
<1>26. ASSUME NEW a \in Apps, StartApp(a) PROVE UpdateTypes'
  <2>1. PackageTyped'
    BY <1>26, <1>P, <1>S, <1>I DEF StartApp, PackageTyped, PlacesTyped, Phases,
         NoJournal, Files
  <2>2. StepsTyped'
    BY <1>26, <1>P, <1>S, <1>I DEF StartApp, StepsTyped, AppsTyped, HelperSteps,
         RecoverySteps, AppSteps
  <2>3. PlacesTyped'
    BY <1>26, <1>P, <1>S, <1>I DEF StartApp, PlacesTyped
  <2>4. AppsTyped'
    BY <1>26, <1>P, <1>S, <1>I DEF StartApp, AppsTyped
  <2>5. OutcomeTyped'
    BY <1>26, <1>P, <1>S, <1>I DEF StartApp, OutcomeTyped, Results
  <2> QED
    BY <2>1, <2>2, <2>3, <2>4, <2>5 DEF UpdateTypes
<1>27. ASSUME NEW a \in Apps, AcquireInstance(a) PROVE UpdateTypes'
  <2>1. PackageTyped'
    BY <1>27, <1>P, <1>S, <1>I DEF AcquireInstance, PackageTyped, PlacesTyped, Phases,
         NoJournal, Files
  <2>2. StepsTyped'
    BY <1>27, <1>P, <1>S, <1>I DEF AcquireInstance, StepsTyped, AppsTyped,
         HelperSteps, RecoverySteps, AppSteps
  <2>3. PlacesTyped'
    BY <1>27, <1>P, <1>S, <1>I DEF AcquireInstance, PlacesTyped
  <2>4. AppsTyped'
    BY <1>27, <1>P, <1>S, <1>I DEF AcquireInstance, AppsTyped
  <2>5. OutcomeTyped'
    BY <1>27, <1>P, <1>S, <1>I DEF AcquireInstance, OutcomeTyped, Results
  <2> QED
    BY <2>1, <2>2, <2>3, <2>4, <2>5 DEF UpdateTypes
<1>28. ASSUME NEW a \in Apps, SignalReady(a) PROVE UpdateTypes'
  <2>1. PackageTyped'
    BY <1>28, <1>P, <1>S, <1>I DEF SignalReady, PackageTyped, PlacesTyped, Phases,
         NoJournal, Files
  <2>2. StepsTyped'
    <3>1. \E s \in {"handoff", "exited"} : pc' = [pc EXCEPT ![a] = s]
      BY <1>28 DEF SignalReady
    <3>2. {"handoff", "exited"} \subseteq Steps
      BY <1>S DEF AppSteps
    <3> QED
      BY <3>1, <3>2, <1>I DEF StepsTyped
  <2>3. PlacesTyped'
    BY <1>28, <1>P, <1>S, <1>I DEF SignalReady, PlacesTyped
  <2>4. AppsTyped'
    BY <1>28, <1>P, <1>S, <1>I DEF SignalReady, AppsTyped
  <2>5. OutcomeTyped'
    BY <1>28, <1>P, <1>S, <1>I DEF SignalReady, OutcomeTyped, Results
  <2> QED
    BY <2>1, <2>2, <2>3, <2>4, <2>5 DEF UpdateTypes
<1>29. ASSUME NEW a \in Apps, MarkHandoff(a) PROVE UpdateTypes'
  <2>1. PackageTyped'
    BY <1>29, <1>P, <1>S, <1>I DEF MarkHandoff, PackageTyped, PlacesTyped, Phases,
         NoJournal, Files
  <2>2. StepsTyped'
    <3>1. \E s \in {"schedule", "exited"} : pc' = [pc EXCEPT ![a] = s]
      BY <1>29 DEF MarkHandoff
    <3>2. {"schedule", "exited"} \subseteq Steps
      BY <1>S DEF AppSteps
    <3> QED
      BY <3>1, <3>2, <1>I DEF StepsTyped
  <2>3. PlacesTyped'
    BY <1>29, <1>P, <1>S, <1>I DEF MarkHandoff, PlacesTyped
  <2>4. AppsTyped'
    BY <1>29, <1>P, <1>S, <1>I DEF MarkHandoff, AppsTyped
  <2>5. OutcomeTyped'
    BY <1>29, <1>P, <1>S, <1>I DEF MarkHandoff, OutcomeTyped, Results
  <2> QED
    BY <2>1, <2>2, <2>3, <2>4, <2>5 DEF UpdateTypes
<1>30. ASSUME NEW a \in Apps, Schedule(a) PROVE UpdateTypes'
  <2>1. PackageTyped'
    BY <1>30, <1>P, <1>S, <1>I DEF Schedule, PackageTyped, PlacesTyped, Phases,
         NoJournal, Files
  <2>2. StepsTyped'
    BY <1>30, <1>P, <1>S, <1>I DEF Schedule, StepsTyped, AppsTyped, HelperSteps,
         RecoverySteps, AppSteps
  <2>3. PlacesTyped'
    BY <1>30, <1>P, <1>S, <1>I DEF Schedule, PlacesTyped
  <2>4. AppsTyped'
    BY <1>30, <1>P, <1>S, <1>I DEF Schedule, AppsTyped
  <2>5. OutcomeTyped'
    BY <1>30, <1>P, <1>S, <1>I DEF Schedule, OutcomeTyped, Results
  <2> QED
    BY <2>1, <2>2, <2>3, <2>4, <2>5 DEF UpdateTypes
<1>31. ASSUME NEW a \in Apps, CleanerWaits(a) PROVE UpdateTypes'
  <2>1. PackageTyped'
    BY <1>31, <1>P, <1>S, <1>I DEF CleanerWaits, PackageTyped, PlacesTyped, Phases,
         NoJournal, Files
  <2>2. StepsTyped'
    BY <1>31, <1>P, <1>S, <1>I DEF CleanerWaits, StepsTyped, AppsTyped, HelperSteps,
         RecoverySteps, AppSteps
  <2>3. PlacesTyped'
    BY <1>31, <1>P, <1>S, <1>I DEF CleanerWaits, PlacesTyped
  <2>4. AppsTyped'
    BY <1>31, <1>P, <1>S, <1>I DEF CleanerWaits, AppsTyped
  <2>5. OutcomeTyped'
    BY <1>31, <1>P, <1>S, <1>I DEF CleanerWaits, OutcomeTyped, Results
  <2> QED
    BY <2>1, <2>2, <2>3, <2>4, <2>5 DEF UpdateTypes
<1>32. ASSUME NEW a \in Apps, CleanerRemoves(a) PROVE UpdateTypes'
  <2>1. PackageTyped'
    <3>1. /\ target' = target /\ staged' \in {staged, FALSE} /\ receipt' \in {receipt, FALSE}
          /\ request' = request \/ request' = (request /\ receipt)
          /\ backup' = backup \/ (backup > 0 /\ backup' = backup - 1)
          /\ journal' = journal \/ journal' = NoJournal
      BY <1>32 DEF CleanerRemoves
    <3>2. NoJournal \in [phase : Phases \cup {"none"}, owner : Procs]
      BY <1>P DEF NoJournal
    <3>3. backup \in 0..NumFiles /\ (backup > 0 => backup - 1 \in 0..NumFiles)
      BY <1>P, <1>I DEF PackageTyped
    <3>4. request' \in BOOLEAN
      BY <3>1, <1>I DEF PackageTyped
    <3> QED
      BY <3>1, <3>2, <3>3, <3>4, <1>I DEF PackageTyped
  <2>2. StepsTyped'
    BY <1>32, <1>P, <1>S, <1>I DEF CleanerRemoves, StepsTyped, AppsTyped, HelperSteps,
         RecoverySteps, AppSteps
  <2>3. PlacesTyped'
    BY <1>32, <1>P, <1>S, <1>I DEF CleanerRemoves, PlacesTyped
  <2>4. AppsTyped'
    BY <1>32, <1>P, <1>S, <1>I DEF CleanerRemoves, AppsTyped
  <2>5. OutcomeTyped'
    BY <1>32, <1>P, <1>S, <1>I DEF CleanerRemoves, OutcomeTyped, Results
  <2> QED
    BY <2>1, <2>2, <2>3, <2>4, <2>5 DEF UpdateTypes
<1>33. ASSUME NEW a \in Apps, CleanerEnds(a) PROVE UpdateTypes'
  <2>1. PackageTyped'
    BY <1>33, <1>P, <1>S, <1>I DEF CleanerEnds, PackageTyped, PlacesTyped, Phases,
         NoJournal, Files
  <2>2. StepsTyped'
    BY <1>33, <1>P, <1>S, <1>I DEF CleanerEnds, StepsTyped, AppsTyped, HelperSteps,
         RecoverySteps, AppSteps
  <2>3. PlacesTyped'
    BY <1>33, <1>P, <1>S, <1>I DEF CleanerEnds, PlacesTyped
  <2>4. AppsTyped'
    BY <1>33, <1>P, <1>S, <1>I DEF CleanerEnds, AppsTyped
  <2>5. OutcomeTyped'
    BY <1>33, <1>P, <1>S, <1>I DEF CleanerEnds, Suffers, OutcomeTyped, Results
  <2> QED
    BY <2>1, <2>2, <2>3, <2>4, <2>5 DEF UpdateTypes
<1>34. ASSUME NEW a \in Apps, Close(a) PROVE UpdateTypes'
  <2>1. PackageTyped'
    BY <1>34, <1>P, <1>S, <1>I DEF Close, PackageTyped, PlacesTyped, Phases,
         NoJournal, Files
  <2>2. StepsTyped'
    BY <1>34, <1>P, <1>S, <1>I DEF Close, StepsTyped, AppsTyped, HelperSteps,
         RecoverySteps, AppSteps
  <2>3. PlacesTyped'
    BY <1>34, <1>P, <1>S, <1>I DEF Close, PlacesTyped
  <2>4. AppsTyped'
    BY <1>34, <1>P, <1>S, <1>I DEF Close, AppsTyped
  <2>5. OutcomeTyped'
    BY <1>34, <1>P, <1>S, <1>I DEF Close, Suffers, OutcomeTyped, Results
  <2> QED
    BY <2>1, <2>2, <2>3, <2>4, <2>5 DEF UpdateTypes
<1>35. CASE UNCHANGED vars
  BY <1>35, <1>I DEF UpdateTypes, PackageTyped, StepsTyped, PlacesTyped, AppsTyped,
       OutcomeTyped
<1> QED
  BY <1>P, <1>1, <1>2, <1>3, <1>4, <1>5, <1>6, <1>7, <1>8, <1>9, <1>10, <1>11, <1>12,
       <1>13, <1>14, <1>15, <1>16, <1>17, <1>18, <1>19, <1>20, <1>21, <1>22, <1>23,
       <1>24, <1>25, <1>26, <1>27, <1>28, <1>29, <1>30, <1>31, <1>32, <1>33, <1>34,
       <1>35 DEF Next, HelperNext, Install, Handover, Recover, AppNext

(* Types, whatever accidents happen: no loop over the managed files passes  *)
(* their end, a journal always has a phase and an owner that exist, and no  *)
(* process runs a step it has not (apply_update_transaction,                *)
(* recover_update_transaction).                                             *)
THEOREM UpdateTyped == ASSUME UpdateAssumption PROVE Spec => []TypeOK
<1>1. Init => UpdateTypes /\ MishapsTyped
  BY InitTypes DEF Init, MishapsTyped
<1>2. UpdateTypes /\ [Next]_vars => UpdateTypes'
  BY NextTypes
<1>3. MishapsTyped /\ [Next]_vars => MishapsTyped'
  BY NextMishaps
<1>4. UpdateTypes /\ MishapsTyped => TypeOK
  BY TypesAre
<1> QED
  BY <1>1, <1>2, <1>3, <1>4, PTL DEF Spec
================================================================================
