------------------------ MODULE ProtectedSessionProofs ------------------------
(***************************************************************************)
(* The protected session, proved for any INI files and any graphics         *)
(* settings, any number of sessions, failures and crashes, and a game that  *)
(* starts, plays and exits whenever it likes: as long as it has not         *)
(* overtaken work that relies on its not running, every session value can   *)
(* be taken back, what is not announced is as expected, and no record is    *)
(* given up early.                                                          *)
(***************************************************************************)
EXTENDS ProtectedSession, TLAPS

(* Steps of the start at which the session on disk is still unknown.        *)
EarlyBoot == {"off", "bootCap", "bootSurfaces", "bootSession"}

(* Steps at which the game has been found closed and is relied on to be.    *)
Undoing == {"provider", "session", "restoreFiles", "temporalAA", "replay", "verify",
            "removeFiles", "removeReplay", "removeManifest"}
Dismantling == Undoing \ {"provider"}

Untouched == temp = {} /\ gameTemp = {}
Prepared == temp = Files /\ staged = Surfaces /\ Usable

Shapes ==
    /\ temp \subseteq Files /\ gameTemp \subseteq Files
    /\ copies \subseteq Files /\ savedTemp \subseteq copies

(* What the game may write has a snapshot, like what is written already; a  *)
(* game that is closed writes nothing, and it stays closed while it has to. *)
GameIsCovered ==
    /\ gameTemp # {} => Usable
    /\ game = "off" => gameTemp = {}
    /\ pc \in Undoing => game = "off"
    /\ pc \in EarlyBoot \ {"off"} /\ caller = "bootStopped" => game = "off"

(* Captures are of files without session values, and complete before the    *)
(* manifest is written and the first value is staged.                       *)
CaptureIsWhole ==
    /\ pc \in {"captureFiles", "captureManifest"} => ~manifest /\ savedTemp = {}
    /\ pc = "captureFiles" => Files \subseteq copies \cup todo
    /\ pc = "captureManifest" => copies = Files
    /\ pc \in {"stage", "stageSurfaces"} => Usable /\ snapshot
    /\ pc = "stage" => Files \subseteq temp \cup todo
    /\ pc = "stageSurfaces" => temp = Files

(* Restoring takes every session value back before the snapshot is touched. *)
RestoreIsOrdered ==
    /\ pc = "restoreFiles" => manifest /\ temp \subseteq todo
    /\ pc \in {"temporalAA", "replay", "verify", "removeFiles", "removeReplay", "removeManifest"}
          => temp = {}

CoveredInv ==
    /\ Shapes /\ SnapshotIsPreSession /\ TempIsCovered
    /\ GameIsCovered /\ CaptureIsWhole /\ RestoreIsOrdered

(* A session that is not in memory is announced, or there is nothing of it. *)
UnknownIsAnnounced ==
    /\ pc \notin EarlyBoot => snapshot \/ banner \/ Untouched
    /\ owns => snapshot \/ Untouched

(* A launch is prepared while a snapshot is held, and as a whole until a    *)
(* restoration takes it apart.                                              *)
LaunchIsWhole ==
    /\ launch # "none" => snapshot
    /\ pc \in EarlyBoot => ~snapshot /\ ~owns
    /\ pc \in {"capture", "captureFiles", "captureManifest"} => ~snapshot
    /\ pc \in {"stage", "stageSurfaces"} => launch = "none"
    /\ launch = "ready" /\ ~banner /\ pc \notin Dismantling => Prepared
    /\ pc = "flex" => launch # "ready" \/ banner
    /\ pc \in {"flex", "capSync"} /\ complete => launch = "none"
    /\ pc = "restored" => launch = "none"

HiddenInv == UnknownIsAnnounced /\ LaunchIsWhole

(* The graphics settings follow the copy, then the recorded change.         *)
RecordsAreFollowed ==
    /\ ~manifest => replay = NoValue
    /\ pc \in Undoing \ {"provider", "session", "removeManifest"} => native = replay
    /\ pc = "restoreFiles" /\ VideoFile \notin todo => graphics = saved
    /\ pc = "temporalAA" => graphics = saved
    /\ pc \in {"replay", "verify"} => replay # NoValue
    /\ pc = "removeFiles" /\ VideoFile \in copies => graphics = Confirmed
    /\ pc \in {"removeFiles", "removeReplay"} /\ replay # NoValue => graphics = replay
    /\ pc = "removeReplay" => VideoFile \notin copies
    /\ pc = "removeManifest" => replay = NoValue /\ VideoFile \notin copies
    /\ pc = "removeFiles" => VideoFile \in todo \/ VideoFile \notin copies

-----------------------------------------------------------------------------
LEMMA InitCovered == Init => CoveredInv
  BY DEF Init, AtRest, CoveredInv, Shapes, SnapshotIsPreSession,
       TempIsCovered, GameIsCovered, CaptureIsWhole, RestoreIsOrdered, EarlyBoot,
       Undoing

(* Every step of the optimizer, of the game and of the user.                *)
LEMMA NextCovered ==
  ASSUME SessionAssumption, ~overtaken', CoveredInv, [Next]_vars
  PROVE  CoveredInv'
<1> USE DEF vars, disk, inis, snapshotFiles, world, memory, video, process, final, control,
        Goto, Idle, Halt, CallRestore, CallPrepare, Return, RaiseBanner, UntouchedMemory,
        Forget, Usable, Undoing, EarlyBoot, Awake
<1>1. CASE Boot
  BY <1>1 DEF Boot, CoveredInv, Shapes, SnapshotIsPreSession,
       TempIsCovered, GameIsCovered, CaptureIsWhole, RestoreIsOrdered
<1>2. CASE BootCap
  BY <1>2 DEF BootCap, CoveredInv, Shapes, SnapshotIsPreSession,
       TempIsCovered, GameIsCovered, CaptureIsWhole, RestoreIsOrdered
<1>3. CASE BootSurfaces
  BY <1>3 DEF BootSurfaces, CoveredInv, Shapes, SnapshotIsPreSession, TempIsCovered,
       GameIsCovered, CaptureIsWhole, RestoreIsOrdered
<1>4. CASE BootNoSession
  BY <1>4 DEF BootNoSession, CoveredInv, Shapes, SnapshotIsPreSession, TempIsCovered,
       GameIsCovered, CaptureIsWhole, RestoreIsOrdered
<1>5. CASE BootSessionFails
  BY <1>5 DEF BootSessionFails, CoveredInv, Shapes, SnapshotIsPreSession,
       TempIsCovered, GameIsCovered, CaptureIsWhole, RestoreIsOrdered
<1>6. CASE BootSession
  BY <1>6 DEF BootSession, CoveredInv, Shapes, SnapshotIsPreSession,
       TempIsCovered, GameIsCovered, CaptureIsWhole, RestoreIsOrdered
<1>7. CASE BootCapSync
  BY <1>7 DEF BootCapSync, CoveredInv, Shapes, SnapshotIsPreSession,
       TempIsCovered, GameIsCovered, CaptureIsWhole, RestoreIsOrdered
<1>8. CASE Mark
  BY <1>8 DEF Mark, CoveredInv, Shapes, SnapshotIsPreSession,
       TempIsCovered, GameIsCovered, CaptureIsWhole, RestoreIsOrdered
<1>9. CASE Prepare
  BY <1>9 DEF Prepare, CoveredInv, Shapes, SnapshotIsPreSession,
       TempIsCovered, GameIsCovered, CaptureIsWhole, RestoreIsOrdered
<1>10. CASE Unprepared
  BY <1>10 DEF Unprepared, CoveredInv, Shapes, SnapshotIsPreSession,
       TempIsCovered, GameIsCovered, CaptureIsWhole, RestoreIsOrdered
<1>11. CASE CaptureFails
  BY <1>11 DEF CaptureFails, CoveredInv, Shapes, SnapshotIsPreSession, TempIsCovered,
       GameIsCovered, CaptureIsWhole, RestoreIsOrdered
<1>12. CASE CaptureBegin
  BY <1>12 DEF CaptureBegin, CoveredInv, Shapes, SnapshotIsPreSession, TempIsCovered,
       GameIsCovered, CaptureIsWhole, RestoreIsOrdered
<1>13. CASE CaptureManifest
  BY <1>13 DEF CaptureManifest, CoveredInv, Shapes, SnapshotIsPreSession,
       TempIsCovered, GameIsCovered, CaptureIsWhole, RestoreIsOrdered
<1>14. ASSUME NEW f \in Files, CaptureFile(f) PROVE CoveredInv'
  BY <1>14 DEF CaptureFile, CoveredInv, Shapes, SnapshotIsPreSession, TempIsCovered,
       GameIsCovered, CaptureIsWhole, RestoreIsOrdered
<1>15. ASSUME NEW f \in Files, StageFile(f) PROVE CoveredInv'
  BY <1>15 DEF StageFile, CoveredInv, Shapes, SnapshotIsPreSession,
       TempIsCovered, GameIsCovered, CaptureIsWhole, RestoreIsOrdered
<1>16. CASE StageSurfaces
  BY <1>16 DEF StageSurfaces, CoveredInv, Shapes, SnapshotIsPreSession, TempIsCovered,
       GameIsCovered, CaptureIsWhole, RestoreIsOrdered
<1>17. CASE StageFails
  BY <1>17 DEF StageFails, CoveredInv, Shapes, SnapshotIsPreSession,
       TempIsCovered, GameIsCovered, CaptureIsWhole, RestoreIsOrdered
<1>18. CASE ShellExecute
  BY <1>18 DEF ShellExecute, CoveredInv, Shapes, SnapshotIsPreSession, TempIsCovered,
       GameIsCovered, CaptureIsWhole, RestoreIsOrdered
<1>19. CASE RestoreBlocked
  BY <1>19 DEF RestoreBlocked, CoveredInv, Shapes, SnapshotIsPreSession,
       TempIsCovered, GameIsCovered, CaptureIsWhole, RestoreIsOrdered
<1>20. CASE RestoreBegin
  BY <1>20 DEF RestoreBegin, CoveredInv, Shapes, SnapshotIsPreSession, TempIsCovered,
       GameIsCovered, CaptureIsWhole, RestoreIsOrdered
<1>21. CASE RestoreProvider
  BY <1>21 DEF RestoreProvider, CoveredInv, Shapes, SnapshotIsPreSession,
       TempIsCovered, GameIsCovered, CaptureIsWhole, RestoreIsOrdered
<1>22. CASE SessionFails
  BY <1>22 DEF SessionFails, CoveredInv, Shapes, SnapshotIsPreSession, TempIsCovered,
       GameIsCovered, CaptureIsWhole, RestoreIsOrdered
<1>23. CASE Session
  BY <1>23 DEF Session, CoveredInv, Shapes, SnapshotIsPreSession,
       TempIsCovered, GameIsCovered, CaptureIsWhole, RestoreIsOrdered
<1>24. ASSUME NEW f \in Files, RestoreFile(f) PROVE CoveredInv'
  BY <1>24 DEF RestoreFile, CoveredInv, Shapes, SnapshotIsPreSession, TempIsCovered,
       GameIsCovered, CaptureIsWhole, RestoreIsOrdered
<1>25. ASSUME NEW f \in Files, RemoveFile(f) PROVE CoveredInv'
  BY <1>25 DEF RemoveFile, CoveredInv, Shapes, SnapshotIsPreSession,
       TempIsCovered, GameIsCovered, CaptureIsWhole, RestoreIsOrdered
<1>26. CASE TemporalAA
  BY <1>26 DEF TemporalAA, CoveredInv, Shapes, SnapshotIsPreSession,
       TempIsCovered, GameIsCovered, CaptureIsWhole, RestoreIsOrdered
<1>27. CASE ApplyReplay
  BY <1>27 DEF ApplyReplay, CoveredInv, Shapes, SnapshotIsPreSession, TempIsCovered,
       GameIsCovered, CaptureIsWhole, RestoreIsOrdered
<1>28. CASE VerifyReplay
  BY <1>28 DEF VerifyReplay, CoveredInv, Shapes, SnapshotIsPreSession, TempIsCovered,
       GameIsCovered, CaptureIsWhole, RestoreIsOrdered
<1>29. CASE RemoveReplay
  BY <1>29 DEF RemoveReplay, CoveredInv, Shapes, SnapshotIsPreSession, TempIsCovered,
       GameIsCovered, CaptureIsWhole, RestoreIsOrdered
<1>30. CASE RemoveManifest
  BY <1>30 DEF RemoveManifest, CoveredInv, Shapes, SnapshotIsPreSession,
       TempIsCovered, GameIsCovered, CaptureIsWhole, RestoreIsOrdered
<1>31. CASE RestoreFlex
  BY <1>31 DEF RestoreFlex, CoveredInv, Shapes, SnapshotIsPreSession, TempIsCovered,
       GameIsCovered, CaptureIsWhole, RestoreIsOrdered
<1>32. CASE RestoreCap
  BY <1>32 DEF RestoreCap, CoveredInv, Shapes, SnapshotIsPreSession,
       TempIsCovered, GameIsCovered, CaptureIsWhole, RestoreIsOrdered
<1>33. CASE Restored
  BY <1>33 DEF Restored, CoveredInv, Shapes, SnapshotIsPreSession,
       TempIsCovered, GameIsCovered, CaptureIsWhole, RestoreIsOrdered
<1>34. CASE NotRestored
  BY <1>34 DEF NotRestored, CoveredInv, Shapes, SnapshotIsPreSession, TempIsCovered,
       GameIsCovered, CaptureIsWhole, RestoreIsOrdered
<1>35. ASSUME NEW v \in Values, Apply(v) PROVE CoveredInv'
  BY <1>35 DEF Apply, CoveredInv, Shapes, SnapshotIsPreSession,
       TempIsCovered, GameIsCovered, CaptureIsWhole, RestoreIsOrdered
<1>36. CASE ApplyFails
  BY <1>36 DEF ApplyFails, CoveredInv, Shapes, SnapshotIsPreSession,
       TempIsCovered, GameIsCovered, CaptureIsWhole, RestoreIsOrdered
<1>37. CASE CloseComplete
  BY <1>37 DEF CloseComplete, CoveredInv, Shapes, SnapshotIsPreSession, TempIsCovered,
       GameIsCovered, CaptureIsWhole, RestoreIsOrdered
<1>38. CASE CloseIncomplete
  BY <1>38 DEF CloseIncomplete, CoveredInv, Shapes, SnapshotIsPreSession,
       TempIsCovered, GameIsCovered, CaptureIsWhole, RestoreIsOrdered
<1>39. CASE Destroyed
  BY <1>39 DEF Destroyed, CoveredInv, Shapes, SnapshotIsPreSession,
       TempIsCovered, GameIsCovered, CaptureIsWhole, RestoreIsOrdered
<1>40. CASE Poll
  BY <1>40 DEF Poll, Synchronize, CoveredInv, Shapes, SnapshotIsPreSession,
       TempIsCovered, GameIsCovered, CaptureIsWhole, RestoreIsOrdered
<1>41. CASE NoticeExit
  BY <1>41 DEF NoticeExit, CoveredInv, Shapes, SnapshotIsPreSession,
       TempIsCovered, GameIsCovered, CaptureIsWhole, RestoreIsOrdered
<1>42. CASE Attach
  BY <1>42 DEF Attach, CoveredInv, Shapes, SnapshotIsPreSession,
       TempIsCovered, GameIsCovered, CaptureIsWhole, RestoreIsOrdered
<1>43. CASE Window
  BY <1>43 DEF Window, CoveredInv, Shapes, SnapshotIsPreSession,
       TempIsCovered, GameIsCovered, CaptureIsWhole, RestoreIsOrdered
<1>44. CASE Closed
  BY <1>44 DEF Closed, Synchronize, CoveredInv, Shapes, SnapshotIsPreSession,
       TempIsCovered, GameIsCovered, CaptureIsWhole, RestoreIsOrdered
<1>45. CASE Finalize
  BY <1>45 DEF Finalize, Synchronize, CoveredInv, Shapes, SnapshotIsPreSession,
       TempIsCovered, GameIsCovered, CaptureIsWhole, RestoreIsOrdered
<1>46. CASE FinalizeUnstable
  BY <1>46 DEF FinalizeUnstable, CoveredInv, Shapes, SnapshotIsPreSession,
       TempIsCovered, GameIsCovered, CaptureIsWhole, RestoreIsOrdered
<1>47. CASE FinalizeUnprotected
  BY <1>47 DEF FinalizeUnprotected, CoveredInv, Shapes, SnapshotIsPreSession,
       TempIsCovered, GameIsCovered, CaptureIsWhole, RestoreIsOrdered
<1>48. CASE Launch
  BY <1>48 DEF Launch, CoveredInv, Shapes, SnapshotIsPreSession,
       TempIsCovered, GameIsCovered, CaptureIsWhole, RestoreIsOrdered
<1>49. CASE SaveGraphics
  BY <1>49 DEF SaveGraphics, Synchronize, CoveredInv, Shapes, SnapshotIsPreSession,
       TempIsCovered, GameIsCovered, CaptureIsWhole, RestoreIsOrdered
<1>50. CASE Close
  BY <1>50 DEF Close, CoveredInv, Shapes, SnapshotIsPreSession,
       TempIsCovered, GameIsCovered, CaptureIsWhole, RestoreIsOrdered
<1>51. CASE Detach
  BY <1>51 DEF Detach, CoveredInv, Shapes, SnapshotIsPreSession,
       TempIsCovered, GameIsCovered, CaptureIsWhole, RestoreIsOrdered
<1>52. CASE GameStart
  BY <1>52 DEF GameStart, Relying, CoveredInv, Shapes, SnapshotIsPreSession,
       TempIsCovered, GameIsCovered, CaptureIsWhole, RestoreIsOrdered
<1>53. CASE GameWindow
  BY <1>53 DEF GameWindow, CoveredInv, Shapes, SnapshotIsPreSession,
       TempIsCovered, GameIsCovered, CaptureIsWhole, RestoreIsOrdered
<1>54. CASE GameExit
  BY <1>54 DEF GameExit, CoveredInv, Shapes, SnapshotIsPreSession,
       TempIsCovered, GameIsCovered, CaptureIsWhole, RestoreIsOrdered
<1>55. CASE Crash
  BY <1>55 DEF Crash, CoveredInv, Shapes, SnapshotIsPreSession,
       TempIsCovered, GameIsCovered, CaptureIsWhole, RestoreIsOrdered
<1>56. ASSUME NEW v \in Values, GameRewrite(v) PROVE CoveredInv'
  BY <1>56 DEF GameRewrite, CoveredInv, Shapes, SnapshotIsPreSession, TempIsCovered,
       GameIsCovered, CaptureIsWhole, RestoreIsOrdered
<1>57. CASE UNCHANGED vars
  BY <1>57 DEF CoveredInv, Shapes, SnapshotIsPreSession,
       TempIsCovered, GameIsCovered, CaptureIsWhole, RestoreIsOrdered
<1> QED
  BY <1>1, <1>2, <1>3, <1>4, <1>5, <1>6, <1>7, <1>8, <1>9, <1>10, <1>11,
     <1>12, <1>13, <1>14, <1>15, <1>16, <1>17, <1>18, <1>19, <1>20, <1>21,
     <1>22, <1>23, <1>24, <1>25, <1>26, <1>27, <1>28, <1>29, <1>30, <1>31,
     <1>32, <1>33, <1>34, <1>35, <1>36, <1>37, <1>38, <1>39, <1>40, <1>41,
     <1>42, <1>43, <1>44, <1>45, <1>46, <1>47, <1>48, <1>49, <1>50, <1>51,
     <1>52, <1>53, <1>54, <1>55, <1>56, <1>57
     DEF Next, Starting, Preparing, Restoring, Saving, Closing, Ticking, Asked, Outside

-----------------------------------------------------------------------------
LEMMA InitHidden == Init => HiddenInv
  BY DEF Init, Forgotten, AtRest, HiddenInv, UnknownIsAnnounced, LaunchIsWhole,
       Untouched, EarlyBoot, Dismantling, Undoing

(* What is left of a session is announced or known at every step.           *)
LEMMA NextHidden ==
  ASSUME SessionAssumption, ~overtaken', CoveredInv, HiddenInv, [Next]_vars
  PROVE  HiddenInv'
<1>A. /\ Shapes /\ SnapshotIsPreSession /\ TempIsCovered /\ GameIsCovered
      /\ CaptureIsWhole /\ RestoreIsOrdered
  BY DEF CoveredInv
<1> USE DEF vars, disk, inis, snapshotFiles, world, memory, video, process, final, control,
        Goto, Idle, Halt, CallRestore, CallPrepare, Return, RaiseBanner, UntouchedMemory,
        Forget, Usable, Undoing, EarlyBoot, Awake, Dismantling, Untouched, Prepared
<1>1. CASE Boot
  BY <1>1, <1>A DEF Boot, HiddenInv, UnknownIsAnnounced, LaunchIsWhole,
     Shapes, TempIsCovered, GameIsCovered, CaptureIsWhole, RestoreIsOrdered
<1>2. CASE BootCap
  BY <1>2, <1>A DEF BootCap, HiddenInv, UnknownIsAnnounced, LaunchIsWhole,
     Shapes, TempIsCovered, GameIsCovered, CaptureIsWhole, RestoreIsOrdered
<1>3. CASE BootSurfaces
  BY <1>3, <1>A DEF BootSurfaces, HiddenInv, UnknownIsAnnounced, LaunchIsWhole,
     Shapes, TempIsCovered, GameIsCovered, CaptureIsWhole, RestoreIsOrdered
<1>4. CASE BootNoSession
  BY <1>4, <1>A DEF BootNoSession, HiddenInv, UnknownIsAnnounced, LaunchIsWhole,
     Shapes, TempIsCovered, GameIsCovered, CaptureIsWhole, RestoreIsOrdered
<1>5. CASE BootSessionFails
  BY <1>5, <1>A DEF BootSessionFails, HiddenInv, UnknownIsAnnounced, LaunchIsWhole,
     Shapes, TempIsCovered, GameIsCovered, CaptureIsWhole, RestoreIsOrdered
<1>6. CASE BootSession
  BY <1>6, <1>A DEF BootSession, HiddenInv, UnknownIsAnnounced, LaunchIsWhole,
     Shapes, TempIsCovered, GameIsCovered, CaptureIsWhole, RestoreIsOrdered
<1>7. CASE BootCapSync
  BY <1>7, <1>A DEF BootCapSync, HiddenInv, UnknownIsAnnounced, LaunchIsWhole,
     Shapes, TempIsCovered, GameIsCovered, CaptureIsWhole, RestoreIsOrdered
<1>8. CASE Mark
  BY <1>8, <1>A DEF Mark, HiddenInv, UnknownIsAnnounced, LaunchIsWhole,
     Shapes, TempIsCovered, GameIsCovered, CaptureIsWhole, RestoreIsOrdered
<1>9. CASE Prepare
  BY <1>9, <1>A DEF Prepare, HiddenInv, UnknownIsAnnounced, LaunchIsWhole,
     Shapes, TempIsCovered, GameIsCovered, CaptureIsWhole, RestoreIsOrdered
<1>10. CASE Unprepared
  BY <1>10, <1>A DEF Unprepared, HiddenInv, UnknownIsAnnounced, LaunchIsWhole,
     Shapes, TempIsCovered, GameIsCovered, CaptureIsWhole, RestoreIsOrdered
<1>11. CASE CaptureFails
  BY <1>11, <1>A DEF CaptureFails, HiddenInv, UnknownIsAnnounced, LaunchIsWhole,
     Shapes, TempIsCovered, GameIsCovered, CaptureIsWhole, RestoreIsOrdered
<1>12. CASE CaptureBegin
  BY <1>12, <1>A DEF CaptureBegin, HiddenInv, UnknownIsAnnounced, LaunchIsWhole,
     Shapes, TempIsCovered, GameIsCovered, CaptureIsWhole, RestoreIsOrdered
<1>13. CASE CaptureManifest
  BY <1>13, <1>A DEF CaptureManifest, HiddenInv, UnknownIsAnnounced, LaunchIsWhole,
     Shapes, TempIsCovered, GameIsCovered, CaptureIsWhole, RestoreIsOrdered
<1>14. ASSUME NEW f \in Files, CaptureFile(f) PROVE HiddenInv'
  BY <1>14, <1>A DEF CaptureFile, HiddenInv, UnknownIsAnnounced, LaunchIsWhole,
     Shapes, TempIsCovered, GameIsCovered, CaptureIsWhole, RestoreIsOrdered
<1>15. ASSUME NEW f \in Files, StageFile(f) PROVE HiddenInv'
  BY <1>15, <1>A DEF StageFile, HiddenInv, UnknownIsAnnounced, LaunchIsWhole,
     Shapes, TempIsCovered, GameIsCovered, CaptureIsWhole, RestoreIsOrdered
<1>16. CASE StageSurfaces
  BY <1>16, <1>A DEF StageSurfaces, HiddenInv, UnknownIsAnnounced, LaunchIsWhole,
     Shapes, TempIsCovered, GameIsCovered, CaptureIsWhole, RestoreIsOrdered
<1>17. CASE StageFails
  BY <1>17, <1>A DEF StageFails, HiddenInv, UnknownIsAnnounced, LaunchIsWhole,
     Shapes, TempIsCovered, GameIsCovered, CaptureIsWhole, RestoreIsOrdered
<1>18. CASE ShellExecute
  BY <1>18, <1>A DEF ShellExecute, HiddenInv, UnknownIsAnnounced, LaunchIsWhole,
     Shapes, TempIsCovered, GameIsCovered, CaptureIsWhole, RestoreIsOrdered
<1>19. CASE RestoreBlocked
  BY <1>19, <1>A DEF RestoreBlocked, HiddenInv, UnknownIsAnnounced, LaunchIsWhole,
     Shapes, TempIsCovered, GameIsCovered, CaptureIsWhole, RestoreIsOrdered
<1>20. CASE RestoreBegin
  BY <1>20, <1>A DEF RestoreBegin, HiddenInv, UnknownIsAnnounced, LaunchIsWhole,
     Shapes, TempIsCovered, GameIsCovered, CaptureIsWhole, RestoreIsOrdered
<1>21. CASE RestoreProvider
  BY <1>21, <1>A DEF RestoreProvider, HiddenInv, UnknownIsAnnounced, LaunchIsWhole,
     Shapes, TempIsCovered, GameIsCovered, CaptureIsWhole, RestoreIsOrdered
<1>22. CASE SessionFails
  BY <1>22, <1>A DEF SessionFails, HiddenInv, UnknownIsAnnounced, LaunchIsWhole,
     Shapes, TempIsCovered, GameIsCovered, CaptureIsWhole, RestoreIsOrdered
<1>23. CASE Session
  BY <1>23, <1>A DEF Session, HiddenInv, UnknownIsAnnounced, LaunchIsWhole,
     Shapes, TempIsCovered, GameIsCovered, CaptureIsWhole, RestoreIsOrdered
<1>24. ASSUME NEW f \in Files, RestoreFile(f) PROVE HiddenInv'
  BY <1>24, <1>A DEF RestoreFile, HiddenInv, UnknownIsAnnounced, LaunchIsWhole,
       Shapes, SnapshotIsPreSession, TempIsCovered, GameIsCovered, CaptureIsWhole,
       RestoreIsOrdered
<1>25. ASSUME NEW f \in Files, RemoveFile(f) PROVE HiddenInv'
  BY <1>25, <1>A DEF RemoveFile, HiddenInv, UnknownIsAnnounced, LaunchIsWhole,
     Shapes, TempIsCovered, GameIsCovered, CaptureIsWhole, RestoreIsOrdered
<1>26. CASE TemporalAA
  BY <1>26, <1>A DEF TemporalAA, HiddenInv, UnknownIsAnnounced, LaunchIsWhole,
     Shapes, TempIsCovered, GameIsCovered, CaptureIsWhole, RestoreIsOrdered
<1>27. CASE ApplyReplay
  BY <1>27, <1>A DEF ApplyReplay, HiddenInv, UnknownIsAnnounced, LaunchIsWhole,
     Shapes, TempIsCovered, GameIsCovered, CaptureIsWhole, RestoreIsOrdered
<1>28. CASE VerifyReplay
  BY <1>28, <1>A DEF VerifyReplay, HiddenInv, UnknownIsAnnounced, LaunchIsWhole,
     Shapes, TempIsCovered, GameIsCovered, CaptureIsWhole, RestoreIsOrdered
<1>29. CASE RemoveReplay
  BY <1>29, <1>A DEF RemoveReplay, HiddenInv, UnknownIsAnnounced, LaunchIsWhole,
     Shapes, TempIsCovered, GameIsCovered, CaptureIsWhole, RestoreIsOrdered
<1>30. CASE RemoveManifest
  BY <1>30, <1>A DEF RemoveManifest, HiddenInv, UnknownIsAnnounced, LaunchIsWhole,
     Shapes, TempIsCovered, GameIsCovered, CaptureIsWhole, RestoreIsOrdered
<1>31. CASE RestoreFlex
  BY <1>31, <1>A DEF RestoreFlex, HiddenInv, UnknownIsAnnounced, LaunchIsWhole,
     Shapes, TempIsCovered, GameIsCovered, CaptureIsWhole, RestoreIsOrdered
<1>32. CASE RestoreCap
  BY <1>32, <1>A DEF RestoreCap, HiddenInv, UnknownIsAnnounced, LaunchIsWhole,
     Shapes, TempIsCovered, GameIsCovered, CaptureIsWhole, RestoreIsOrdered
<1>33. CASE Restored
  BY <1>33, <1>A DEF Restored, HiddenInv, UnknownIsAnnounced, LaunchIsWhole,
     Shapes, TempIsCovered, GameIsCovered, CaptureIsWhole, RestoreIsOrdered
<1>34. CASE NotRestored
  BY <1>34, <1>A DEF NotRestored, HiddenInv, UnknownIsAnnounced, LaunchIsWhole,
     Shapes, TempIsCovered, GameIsCovered, CaptureIsWhole, RestoreIsOrdered
<1>35. ASSUME NEW v \in Values, Apply(v) PROVE HiddenInv'
  BY <1>35, <1>A DEF Apply, HiddenInv, UnknownIsAnnounced, LaunchIsWhole,
     Shapes, TempIsCovered, GameIsCovered, CaptureIsWhole, RestoreIsOrdered
<1>36. CASE ApplyFails
  BY <1>36, <1>A DEF ApplyFails, HiddenInv, UnknownIsAnnounced, LaunchIsWhole,
     Shapes, TempIsCovered, GameIsCovered, CaptureIsWhole, RestoreIsOrdered
<1>37. CASE CloseComplete
  BY <1>37, <1>A DEF CloseComplete, HiddenInv, UnknownIsAnnounced, LaunchIsWhole,
     Shapes, TempIsCovered, GameIsCovered, CaptureIsWhole, RestoreIsOrdered
<1>38. CASE CloseIncomplete
  BY <1>38, <1>A DEF CloseIncomplete, HiddenInv, UnknownIsAnnounced, LaunchIsWhole,
     Shapes, TempIsCovered, GameIsCovered, CaptureIsWhole, RestoreIsOrdered
<1>39. CASE Destroyed
  BY <1>39, <1>A DEF Destroyed, HiddenInv, UnknownIsAnnounced, LaunchIsWhole,
     Shapes, TempIsCovered, GameIsCovered, CaptureIsWhole, RestoreIsOrdered
<1>40. CASE Poll
  BY <1>40, <1>A DEF Poll, Synchronize, HiddenInv, UnknownIsAnnounced, LaunchIsWhole,
     Shapes, TempIsCovered, GameIsCovered, CaptureIsWhole, RestoreIsOrdered
<1>41. CASE NoticeExit
  BY <1>41, <1>A DEF NoticeExit, HiddenInv, UnknownIsAnnounced, LaunchIsWhole,
     Shapes, TempIsCovered, GameIsCovered, CaptureIsWhole, RestoreIsOrdered
<1>42. CASE Attach
  BY <1>42, <1>A DEF Attach, HiddenInv, UnknownIsAnnounced, LaunchIsWhole,
     Shapes, TempIsCovered, GameIsCovered, CaptureIsWhole, RestoreIsOrdered
<1>43. CASE Window
  BY <1>43, <1>A DEF Window, HiddenInv, UnknownIsAnnounced, LaunchIsWhole,
     Shapes, TempIsCovered, GameIsCovered, CaptureIsWhole, RestoreIsOrdered
<1>44. CASE Closed
  BY <1>44, <1>A DEF Closed, Synchronize, HiddenInv, UnknownIsAnnounced, LaunchIsWhole,
     Shapes, TempIsCovered, GameIsCovered, CaptureIsWhole, RestoreIsOrdered
<1>45. CASE Finalize
  BY <1>45, <1>A DEF Finalize, Synchronize, HiddenInv, UnknownIsAnnounced,
       LaunchIsWhole, Shapes, TempIsCovered, GameIsCovered, CaptureIsWhole,
       RestoreIsOrdered
<1>46. CASE FinalizeUnstable
  BY <1>46, <1>A DEF FinalizeUnstable, HiddenInv, UnknownIsAnnounced, LaunchIsWhole,
     Shapes, TempIsCovered, GameIsCovered, CaptureIsWhole, RestoreIsOrdered
<1>47. CASE FinalizeUnprotected
  BY <1>47, <1>A DEF FinalizeUnprotected, HiddenInv, UnknownIsAnnounced, LaunchIsWhole,
     Shapes, TempIsCovered, GameIsCovered, CaptureIsWhole, RestoreIsOrdered
<1>48. CASE Launch
  BY <1>48, <1>A DEF Launch, HiddenInv, UnknownIsAnnounced, LaunchIsWhole,
     Shapes, TempIsCovered, GameIsCovered, CaptureIsWhole, RestoreIsOrdered
<1>49. CASE SaveGraphics
  BY <1>49, <1>A DEF SaveGraphics, Synchronize, HiddenInv, UnknownIsAnnounced,
       LaunchIsWhole, Shapes, TempIsCovered, GameIsCovered, CaptureIsWhole,
       RestoreIsOrdered
<1>50. CASE Close
  BY <1>50, <1>A DEF Close, HiddenInv, UnknownIsAnnounced, LaunchIsWhole,
     Shapes, TempIsCovered, GameIsCovered, CaptureIsWhole, RestoreIsOrdered
<1>51. CASE Detach
  BY <1>51, <1>A DEF Detach, HiddenInv, UnknownIsAnnounced, LaunchIsWhole,
     Shapes, TempIsCovered, GameIsCovered, CaptureIsWhole, RestoreIsOrdered
<1>52. CASE GameStart
  BY <1>52, <1>A DEF GameStart, HiddenInv, UnknownIsAnnounced, LaunchIsWhole,
     Shapes, TempIsCovered, GameIsCovered, CaptureIsWhole, RestoreIsOrdered
<1>53. CASE GameWindow
  BY <1>53, <1>A DEF GameWindow, HiddenInv, UnknownIsAnnounced, LaunchIsWhole,
     Shapes, TempIsCovered, GameIsCovered, CaptureIsWhole, RestoreIsOrdered
<1>54. CASE GameExit
  BY <1>54, <1>A DEF GameExit, HiddenInv, UnknownIsAnnounced, LaunchIsWhole,
     Shapes, TempIsCovered, GameIsCovered, CaptureIsWhole, RestoreIsOrdered
<1>55. CASE Crash
  BY <1>55, <1>A DEF Crash, HiddenInv, UnknownIsAnnounced, LaunchIsWhole,
     Shapes, TempIsCovered, GameIsCovered, CaptureIsWhole, RestoreIsOrdered
<1>56. ASSUME NEW v \in Values, GameRewrite(v) PROVE HiddenInv'
  BY <1>56, <1>A DEF GameRewrite, HiddenInv, UnknownIsAnnounced, LaunchIsWhole,
     Shapes, TempIsCovered, GameIsCovered, CaptureIsWhole, RestoreIsOrdered
<1>57. CASE UNCHANGED vars
  BY <1>57 DEF HiddenInv, UnknownIsAnnounced, LaunchIsWhole,
     Shapes, TempIsCovered, GameIsCovered, CaptureIsWhole, RestoreIsOrdered
<1> QED
  BY <1>1, <1>2, <1>3, <1>4, <1>5, <1>6, <1>7, <1>8, <1>9, <1>10, <1>11,
     <1>12, <1>13, <1>14, <1>15, <1>16, <1>17, <1>18, <1>19, <1>20, <1>21,
     <1>22, <1>23, <1>24, <1>25, <1>26, <1>27, <1>28, <1>29, <1>30, <1>31,
     <1>32, <1>33, <1>34, <1>35, <1>36, <1>37, <1>38, <1>39, <1>40, <1>41,
     <1>42, <1>43, <1>44, <1>45, <1>46, <1>47, <1>48, <1>49, <1>50, <1>51,
     <1>52, <1>53, <1>54, <1>55, <1>56, <1>57
     DEF Next, Starting, Preparing, Restoring, Saving, Closing, Ticking, Asked, Outside

-----------------------------------------------------------------------------
LEMMA InitRecords == Init => RecordsAreFollowed
  BY DEF Init, Forgotten, AtRest, RecordsAreFollowed, Undoing

(* The settings of the player follow the copy and the confirmed change.     *)
LEMMA NextRecords ==
  ASSUME SessionAssumption, ~overtaken', CoveredInv, RecordsAreFollowed, [Next]_vars
  PROVE  RecordsAreFollowed'
<1>A. Shapes /\ GameIsCovered
  BY DEF CoveredInv
<1> USE DEF vars, disk, inis, snapshotFiles, world, memory, video, process, final, control,
        Goto, Idle, Halt, CallRestore, CallPrepare, Return, RaiseBanner, UntouchedMemory,
        Forget, Usable, Undoing, EarlyBoot, Awake, Confirmed
<1>1. CASE Boot
  BY <1>1, <1>A DEF Boot, RecordsAreFollowed, Shapes, GameIsCovered
<1>2. CASE BootCap
  BY <1>2, <1>A DEF BootCap, RecordsAreFollowed, Shapes, GameIsCovered
<1>3. CASE BootSurfaces
  BY <1>3, <1>A DEF BootSurfaces, RecordsAreFollowed, Shapes, GameIsCovered
<1>4. CASE BootNoSession
  BY <1>4, <1>A DEF BootNoSession, RecordsAreFollowed, Shapes, GameIsCovered
<1>5. CASE BootSessionFails
  BY <1>5, <1>A DEF BootSessionFails, RecordsAreFollowed, Shapes, GameIsCovered
<1>6. CASE BootSession
  BY <1>6, <1>A DEF BootSession, RecordsAreFollowed, Shapes, GameIsCovered
<1>7. CASE BootCapSync
  BY <1>7, <1>A DEF BootCapSync, RecordsAreFollowed, Shapes, GameIsCovered
<1>8. CASE Mark
  BY <1>8, <1>A DEF Mark, RecordsAreFollowed, Shapes, GameIsCovered
<1>9. CASE Prepare
  BY <1>9, <1>A DEF Prepare, RecordsAreFollowed, Shapes, GameIsCovered
<1>10. CASE Unprepared
  BY <1>10, <1>A DEF Unprepared, RecordsAreFollowed, Shapes, GameIsCovered
<1>11. CASE CaptureFails
  BY <1>11, <1>A DEF CaptureFails, RecordsAreFollowed, Shapes, GameIsCovered
<1>12. CASE CaptureBegin
  BY <1>12, <1>A DEF CaptureBegin, RecordsAreFollowed, Shapes, GameIsCovered
<1>13. CASE CaptureManifest
  BY <1>13, <1>A DEF CaptureManifest, RecordsAreFollowed, Shapes, GameIsCovered
<1>14. ASSUME NEW f \in Files, CaptureFile(f) PROVE RecordsAreFollowed'
  BY <1>14, <1>A DEF CaptureFile, RecordsAreFollowed, Shapes, GameIsCovered
<1>15. ASSUME NEW f \in Files, StageFile(f) PROVE RecordsAreFollowed'
  BY <1>15, <1>A DEF StageFile, RecordsAreFollowed, Shapes, GameIsCovered
<1>16. CASE StageSurfaces
  BY <1>16, <1>A DEF StageSurfaces, RecordsAreFollowed, Shapes, GameIsCovered
<1>17. CASE StageFails
  BY <1>17, <1>A DEF StageFails, RecordsAreFollowed, Shapes, GameIsCovered
<1>18. CASE ShellExecute
  BY <1>18, <1>A DEF ShellExecute, RecordsAreFollowed, Shapes, GameIsCovered
<1>19. CASE RestoreBlocked
  BY <1>19, <1>A DEF RestoreBlocked, RecordsAreFollowed, Shapes, GameIsCovered
<1>20. CASE RestoreBegin
  BY <1>20, <1>A DEF RestoreBegin, RecordsAreFollowed, Shapes, GameIsCovered
<1>21. CASE RestoreProvider
  BY <1>21, <1>A DEF RestoreProvider, RecordsAreFollowed, Shapes, GameIsCovered
<1>22. CASE SessionFails
  BY <1>22, <1>A DEF SessionFails, RecordsAreFollowed, Shapes, GameIsCovered
<1>23. CASE Session
  BY <1>23, <1>A DEF Session, RecordsAreFollowed, Shapes, GameIsCovered
<1>24. ASSUME NEW f \in Files, RestoreFile(f) PROVE RecordsAreFollowed'
  BY <1>24, <1>A DEF RestoreFile, RecordsAreFollowed, Shapes, GameIsCovered
<1>25. ASSUME NEW f \in Files, RemoveFile(f) PROVE RecordsAreFollowed'
  BY <1>25, <1>A DEF RemoveFile, RecordsAreFollowed, Shapes, GameIsCovered
<1>26. CASE TemporalAA
  BY <1>26, <1>A DEF TemporalAA, RecordsAreFollowed, Shapes, GameIsCovered
<1>27. CASE ApplyReplay
  BY <1>27, <1>A DEF ApplyReplay, RecordsAreFollowed, Shapes, GameIsCovered
<1>28. CASE VerifyReplay
  BY <1>28, <1>A DEF VerifyReplay, RecordsAreFollowed, Shapes, GameIsCovered
<1>29. CASE RemoveReplay
  BY <1>29, <1>A DEF RemoveReplay, RecordsAreFollowed, Shapes, GameIsCovered
<1>30. CASE RemoveManifest
  BY <1>30, <1>A DEF RemoveManifest, RecordsAreFollowed, Shapes, GameIsCovered
<1>31. CASE RestoreFlex
  BY <1>31, <1>A DEF RestoreFlex, RecordsAreFollowed, Shapes, GameIsCovered
<1>32. CASE RestoreCap
  BY <1>32, <1>A DEF RestoreCap, RecordsAreFollowed, Shapes, GameIsCovered
<1>33. CASE Restored
  BY <1>33, <1>A DEF Restored, RecordsAreFollowed, Shapes, GameIsCovered
<1>34. CASE NotRestored
  BY <1>34, <1>A DEF NotRestored, RecordsAreFollowed, Shapes, GameIsCovered
<1>35. ASSUME NEW v \in Values, Apply(v) PROVE RecordsAreFollowed'
  BY <1>35, <1>A DEF Apply, RecordsAreFollowed, Shapes, GameIsCovered
<1>36. CASE ApplyFails
  BY <1>36, <1>A DEF ApplyFails, RecordsAreFollowed, Shapes, GameIsCovered
<1>37. CASE CloseComplete
  BY <1>37, <1>A DEF CloseComplete, RecordsAreFollowed, Shapes, GameIsCovered
<1>38. CASE CloseIncomplete
  BY <1>38, <1>A DEF CloseIncomplete, RecordsAreFollowed, Shapes, GameIsCovered
<1>39. CASE Destroyed
  BY <1>39, <1>A DEF Destroyed, RecordsAreFollowed, Shapes, GameIsCovered
<1>40. CASE Poll
  BY <1>40, <1>A DEF Poll, Synchronize, RecordsAreFollowed, Shapes, GameIsCovered
<1>41. CASE NoticeExit
  BY <1>41, <1>A DEF NoticeExit, RecordsAreFollowed, Shapes, GameIsCovered
<1>42. CASE Attach
  BY <1>42, <1>A DEF Attach, RecordsAreFollowed, Shapes, GameIsCovered
<1>43. CASE Window
  BY <1>43, <1>A DEF Window, RecordsAreFollowed, Shapes, GameIsCovered
<1>44. CASE Closed
  BY <1>44, <1>A DEF Closed, Synchronize, RecordsAreFollowed, Shapes, GameIsCovered
<1>45. CASE Finalize
  BY <1>45, <1>A DEF Finalize, Synchronize, RecordsAreFollowed, Shapes, GameIsCovered
<1>46. CASE FinalizeUnstable
  BY <1>46, <1>A DEF FinalizeUnstable, RecordsAreFollowed, Shapes, GameIsCovered
<1>47. CASE FinalizeUnprotected
  BY <1>47, <1>A DEF FinalizeUnprotected, RecordsAreFollowed, Shapes, GameIsCovered
<1>48. CASE Launch
  BY <1>48, <1>A DEF Launch, RecordsAreFollowed, Shapes, GameIsCovered
<1>49. CASE SaveGraphics
  BY <1>49, <1>A DEF SaveGraphics, Synchronize, RecordsAreFollowed, Shapes,
       GameIsCovered
<1>50. CASE Close
  BY <1>50, <1>A DEF Close, RecordsAreFollowed, Shapes, GameIsCovered
<1>51. CASE Detach
  BY <1>51, <1>A DEF Detach, RecordsAreFollowed, Shapes, GameIsCovered
<1>52. CASE GameStart
  BY <1>52, <1>A DEF GameStart, RecordsAreFollowed, Shapes, GameIsCovered
<1>53. CASE GameWindow
  BY <1>53, <1>A DEF GameWindow, RecordsAreFollowed, Shapes, GameIsCovered
<1>54. CASE GameExit
  BY <1>54, <1>A DEF GameExit, RecordsAreFollowed, Shapes, GameIsCovered
<1>55. CASE Crash
  BY <1>55, <1>A DEF Crash, RecordsAreFollowed, Shapes, GameIsCovered
<1>56. ASSUME NEW v \in Values, GameRewrite(v) PROVE RecordsAreFollowed'
  BY <1>56, <1>A DEF GameRewrite, RecordsAreFollowed, Shapes, GameIsCovered
<1>57. CASE UNCHANGED vars
  BY <1>57 DEF RecordsAreFollowed, Shapes, GameIsCovered
<1> QED
  BY <1>1, <1>2, <1>3, <1>4, <1>5, <1>6, <1>7, <1>8, <1>9, <1>10, <1>11,
     <1>12, <1>13, <1>14, <1>15, <1>16, <1>17, <1>18, <1>19, <1>20, <1>21,
     <1>22, <1>23, <1>24, <1>25, <1>26, <1>27, <1>28, <1>29, <1>30, <1>31,
     <1>32, <1>33, <1>34, <1>35, <1>36, <1>37, <1>38, <1>39, <1>40, <1>41,
     <1>42, <1>43, <1>44, <1>45, <1>46, <1>47, <1>48, <1>49, <1>50, <1>51,
     <1>52, <1>53, <1>54, <1>55, <1>56, <1>57
     DEF Next, Starting, Preparing, Restoring, Saving, Closing, Ticking, Asked, Outside

-----------------------------------------------------------------------------
(* That KF2 has overtaken a restoration is never forgotten.                 *)
LEMMA OvertakenStays == overtaken /\ [Next]_vars => overtaken'
<1> SUFFICES ASSUME overtaken, [Next]_vars PROVE overtaken'
  OBVIOUS
<1> USE DEF vars, world
<1>1. CASE Starting
  BY <1>1 DEF Starting, Boot, BootCap, BootSurfaces, BootNoSession, BootSessionFails,
     BootSession, BootCapSync, Mark
<1>2. CASE Preparing
  BY <1>2 DEF Preparing, Prepare, Unprepared, CaptureFails, CaptureBegin,
     CaptureManifest, CaptureFile, StageFile, StageSurfaces, StageFails, ShellExecute
<1>3. CASE Restoring
  BY <1>3 DEF Restoring, RestoreBlocked, RestoreBegin, RestoreProvider, SessionFails,
     Session, RestoreFile, RemoveFile, TemporalAA, ApplyReplay, VerifyReplay,
     RemoveReplay, RemoveManifest, RestoreFlex, RestoreCap, Restored, NotRestored
<1>4. CASE Saving \/ Closing
  BY <1>4 DEF Saving, Apply, ApplyFails, Closing, CloseComplete, CloseIncomplete,
     Destroyed
<1>5. CASE Ticking \/ Asked
  BY <1>5 DEF Ticking, Poll, NoticeExit, Attach, Window, Closed, Finalize,
     FinalizeUnstable, FinalizeUnprotected, Asked, Launch, SaveGraphics, Close, Detach
<1>6. CASE Outside
  BY <1>6 DEF Outside, GameStart, GameWindow, GameExit, Crash, GameRewrite
<1> QED
  BY <1>1, <1>2, <1>3, <1>4, <1>5, <1>6 DEF Next

(* What holds until then.                                                   *)
CoveredUntil == overtaken \/ CoveredInv
HiddenUntil == overtaken \/ HiddenInv
FollowedUntil == overtaken \/ RecordsAreFollowed

(* The three invariants, each from those before it.                         *)
LEMMA InitUntil == Init => CoveredUntil /\ HiddenUntil /\ FollowedUntil
  BY InitCovered, InitHidden, InitRecords DEF CoveredUntil, HiddenUntil, FollowedUntil

LEMMA NextCoveredUntil ==
  ASSUME SessionAssumption, CoveredUntil, [Next]_vars PROVE CoveredUntil'
<1>1. CASE overtaken'
  BY <1>1 DEF CoveredUntil
<1>2. CASE ~overtaken'
  BY <1>2, OvertakenStays, NextCovered DEF CoveredUntil
<1> QED
  BY <1>1, <1>2

LEMMA NextHiddenUntil ==
  ASSUME SessionAssumption, CoveredUntil, HiddenUntil, [Next]_vars PROVE HiddenUntil'
<1>1. CASE overtaken'
  BY <1>1 DEF HiddenUntil
<1>2. CASE ~overtaken'
  BY <1>2, OvertakenStays, NextHidden DEF CoveredUntil, HiddenUntil
<1> QED
  BY <1>1, <1>2

LEMMA NextFollowedUntil ==
  ASSUME SessionAssumption, CoveredUntil, FollowedUntil, [Next]_vars
  PROVE  FollowedUntil'
<1>1. CASE overtaken'
  BY <1>1 DEF FollowedUntil
<1>2. CASE ~overtaken'
  BY <1>2, OvertakenStays, NextRecords DEF CoveredUntil, FollowedUntil
<1> QED
  BY <1>1, <1>2

(* Sessions can be taken back: whatever captures, stagings, restorations,   *)
(* failures and crashes follow each other, a snapshot holds no session      *)
(* value, and as long as any INI holds one the snapshot is there and whole  *)
(* (capture_session_config, restore_session_config); until KF2 is started   *)
(* in the moments the code relies on its being closed.                      *)
THEOREM SessionAlwaysCovered ==
  ASSUME SessionAssumption PROVE Spec => []SessionIsCovered
<1>1. CoveredUntil /\ [Next]_vars => CoveredUntil'
  BY NextCoveredUntil
<1>2. CoveredUntil => SessionIsCovered
  BY DEF CoveredUntil, CoveredInv, SessionIsCovered
<1> QED
  BY InitUntil, <1>1, <1>2, PTL DEF Spec

(* Nothing is hidden: at rest and without a banner, no session means INIs   *)
(* without session values, and a launch that is offered as prepared is      *)
(* prepared as a whole (prepare_automatic_external_launch_profile,          *)
(* restore_protected_session_config and their callers); until KF2 is        *)
(* started in the moments the code relies on its being closed.              *)
THEOREM NothingStaysHidden ==
  ASSUME SessionAssumption PROVE Spec => []NothingIsHidden
<1>1. CoveredUntil /\ [Next]_vars => CoveredUntil'
  BY NextCoveredUntil
<1>2. CoveredUntil /\ HiddenUntil /\ [Next]_vars => HiddenUntil'
  BY NextHiddenUntil
<1>3. HiddenUntil => NothingIsHidden
  BY DEF HiddenUntil, HiddenInv, UnknownIsAnnounced, LaunchIsWhole, NothingIsHidden,
     QuietMeansClean, ReadyIsPrepared, EarlyBoot, Dismantling, Undoing, Untouched,
     Prepared
<1> QED
  BY InitUntil, <1>1, <1>2, <1>3, PTL DEF Spec

(* What a step that ends the snapshot, or the record of confirmed graphics, *)
(* finds on disk.                                                           *)
LEMMA RecordsKept ==
  ASSUME SessionAssumption, CoveredInv, RecordsAreFollowed, [Next]_vars
  PROVE  /\ Usable /\ ~Usable' => temp = {} /\ graphics = Confirmed
         /\ replay # NoValue /\ replay' # replay => graphics = replay
<1> DEFINE Keep == UNCHANGED <<copies, manifest, replay>>
<1> USE DEF vars, disk, snapshotFiles, memory
<1>1. Starting => Keep \/ BootNoSession
  BY DEF Starting, Boot, BootCap, BootSurfaces, BootSessionFails, BootSession,
       BootCapSync, Mark
<1>2. Preparing => Keep \/ CaptureBegin \/ CaptureManifest \/ \E f \in Files : CaptureFile(f)
  BY DEF Preparing, Prepare, Unprepared, CaptureFails, StageFile, StageSurfaces,
       StageFails, ShellExecute
<1>3. Restoring => \/ Keep \/ Session \/ RemoveReplay \/ RemoveManifest
                   \/ \E f \in Files : RemoveFile(f)
  BY DEF Restoring, RestoreBlocked, RestoreBegin, RestoreProvider, SessionFails,
       RestoreFile, TemporalAA, ApplyReplay, VerifyReplay, RestoreFlex, RestoreCap,
       Restored, NotRestored
<1>4. Saving \/ Closing \/ Ticking \/ Asked => Keep
  BY DEF Saving, Apply, ApplyFails, Closing, CloseComplete, CloseIncomplete, Destroyed,
         Ticking, Poll, NoticeExit, Attach, Window, Closed, Finalize, FinalizeUnstable,
         FinalizeUnprotected, Asked, Launch, SaveGraphics, Close, Detach
<1>5. Outside => Keep
  BY DEF Outside, GameStart, GameWindow, GameExit, Crash, GameRewrite
<1>6. UNCHANGED vars => Keep
  OBVIOUS
<1> USE DEF RecordsAreFollowed, Undoing
<1>7. CASE BootNoSession \/ CaptureBegin
  BY <1>7 DEF BootNoSession, CaptureBegin, Usable
<1>8. CASE CaptureManifest \/ \E f \in Files : CaptureFile(f)
  BY <1>8 DEF CaptureManifest, CaptureFile, Usable, CoveredInv, CaptureIsWhole
<1>9. CASE Session
  BY <1>9 DEF Session, Usable
<1>10. ASSUME NEW f \in Files, RemoveFile(f)
       PROVE  /\ Usable /\ ~Usable' => temp = {} /\ graphics = Confirmed
              /\ replay' = replay
  BY <1>10 DEF RemoveFile, Usable, CoveredInv, RestoreIsOrdered, SessionAssumption
<1>11. CASE RemoveReplay
  BY <1>11 DEF RemoveReplay, Usable
<1>12. CASE RemoveManifest
  BY <1>12 DEF RemoveManifest, Usable, SessionAssumption
<1>13. CASE Keep
  BY <1>13 DEF Usable
<1> QED
  BY <1>1, <1>2, <1>3, <1>4, <1>5, <1>6, <1>7, <1>8, <1>9, <1>10, <1>11, <1>12, <1>13
       DEF Next

(* Records serve their time: the snapshot is given up only when every INI   *)
(* is restored and the graphics are the captured or the confirmed ones, and *)
(* the record of confirmed graphics only when the live INI holds them       *)
(* (restore_session_video_settings, complete_session_config); until KF2 is  *)
(* started in the moments the code relies on its being closed.              *)
THEOREM RecordsAlwaysServe ==
  ASSUME SessionAssumption PROVE Spec => RecordsServeTheirTime
<1>1. CoveredUntil /\ [Next]_vars => CoveredUntil'
  BY NextCoveredUntil
<1>2. CoveredUntil /\ FollowedUntil /\ [Next]_vars => FollowedUntil'
  BY NextFollowedUntil
<1>3. CoveredUntil /\ FollowedUntil /\ [Next]_vars
         => [Usable /\ ~Usable' => overtaken \/ (temp = {} /\ graphics = Confirmed)]_vars
  BY RecordsKept DEF CoveredUntil, FollowedUntil
<1>4. CoveredUntil /\ FollowedUntil /\ [Next]_vars
         => [replay # NoValue /\ replay' # replay => overtaken \/ graphics = replay]_vars
  BY RecordsKept DEF CoveredUntil, FollowedUntil
<1> QED
  BY InitUntil, <1>1, <1>2, <1>3, <1>4, PTL
     DEF Spec, RecordsServeTheirTime, DiscardedWhenRestored, ReplayHonoured

(* What TypeOK says of the files, of the memory and of the control state.   *)
FilesTyped ==
    /\ graphics \in Values /\ temp \subseteq Files /\ staged \subseteq Surfaces
    /\ copies \subseteq Files /\ savedTemp \subseteq copies
    /\ VideoFile \in copies => saved \in Values
    /\ VideoFile \notin copies => saved = NoValue
    /\ manifest \in BOOLEAN /\ replay \in Values \cup {NoValue}
    /\ marker \in {"clean", "open"}
    /\ game \in {"off", "starting", "running"} /\ gameTemp \subseteq Files
    /\ overtaken \in BOOLEAN
MemoryTyped ==
    /\ snapshot \in BOOLEAN /\ launch \in {"none", "ready", "armed"}
    /\ native \in Values \cup {NoValue} /\ seen \in Values \cup {NoValue}
    /\ bound \in {"none", "live", "gone"} /\ handoff \in {"none", "plain", "settings"}
    /\ capturing \in BOOLEAN /\ owns \in BOOLEAN /\ banner \in BOOLEAN
ControlTyped ==
    /\ pc \in {"off", "idle", "restore", "apply"}
                \cup BootSteps \cup PrepareSteps \cup RestoreSteps
    /\ caller \in Callers /\ purpose \in Purposes
    /\ todo \subseteq Files /\ complete \in BOOLEAN

(* From the first file written back to the check of the result, what is     *)
(* confirmed is what is recorded; a replay starts only if there is a record. *)
RecordAtHand ==
    /\ pc \in {"restoreFiles", "temporalAA", "replay", "verify"} => native = replay
    /\ pc \in {"replay", "verify"} => replay # NoValue

TypedInv == FilesTyped /\ MemoryTyped /\ ControlTyped /\ RecordAtHand

(* At the first start nothing is staged, captured or recorded.               *)
LEMMA InitTyped == ASSUME SessionAssumption PROVE Init => TypedInv
  BY SessionAssumption DEF Init, Forgotten, AtRest, TypedInv, FilesTyped, MemoryTyped,
     ControlTyped, RecordAtHand, Callers, Purposes

(* Every operation, every step of it, a crash and the game keep the types.   *)
LEMMA NextTyped == ASSUME SessionAssumption, TypedInv, [Next]_vars PROVE TypedInv'
<1> USE DEF vars, disk, inis, snapshotFiles, world, memory, video, process, final,
        control, Goto, Idle, Halt, CallRestore, CallPrepare, Return, RaiseBanner, UntouchedMemory,
        Forget, Usable, Awake
<1>I. FilesTyped /\ MemoryTyped /\ ControlTyped /\ RecordAtHand
  BY DEF TypedInv
<1>A. VideoFile \in Files /\ NoValue \notin Values
  BY DEF SessionAssumption
<1>1. CASE Boot
  <2>1. FilesTyped'
    BY <1>1, <1>I, <1>A DEF Boot, FilesTyped, MemoryTyped
  <2>2. MemoryTyped'
    BY <1>1, <1>I, <1>A DEF Boot, FilesTyped, MemoryTyped
  <2>3. ControlTyped'
    BY <1>1, <1>I, <1>A DEF Boot, ControlTyped, Callers, Purposes, BootSteps,
         PrepareSteps, RestoreSteps
  <2>4. RecordAtHand'
    BY <1>1, <1>I, <1>A DEF Boot, RecordAtHand
  <2> QED
    BY <2>1, <2>2, <2>3, <2>4 DEF TypedInv
<1>2. CASE BootCap
  <2>1. FilesTyped'
    BY <1>2, <1>I, <1>A DEF BootCap, FilesTyped, MemoryTyped
  <2>2. MemoryTyped'
    BY <1>2, <1>I, <1>A DEF BootCap, FilesTyped, MemoryTyped
  <2>3. ControlTyped'
    BY <1>2, <1>I, <1>A DEF BootCap, ControlTyped, Callers, Purposes, BootSteps,
         PrepareSteps, RestoreSteps
  <2>4. RecordAtHand'
    BY <1>2, <1>I, <1>A DEF BootCap, RecordAtHand
  <2> QED
    BY <2>1, <2>2, <2>3, <2>4 DEF TypedInv
<1>3. CASE BootSurfaces
  <2>1. FilesTyped'
    BY <1>3, <1>I, <1>A DEF BootSurfaces, FilesTyped, MemoryTyped
  <2>2. MemoryTyped'
    BY <1>3, <1>I, <1>A DEF BootSurfaces, FilesTyped, MemoryTyped
  <2>3. ControlTyped'
    BY <1>3, <1>I, <1>A DEF BootSurfaces, ControlTyped, Callers, Purposes, BootSteps,
         PrepareSteps, RestoreSteps
  <2>4. RecordAtHand'
    BY <1>3, <1>I, <1>A DEF BootSurfaces, RecordAtHand
  <2> QED
    BY <2>1, <2>2, <2>3, <2>4 DEF TypedInv
<1>4. CASE BootNoSession
  BY <1>4, <1>I, <1>A DEF BootNoSession, TypedInv, FilesTyped, MemoryTyped,
       ControlTyped, RecordAtHand, Callers, Purposes, BootSteps, PrepareSteps,
       RestoreSteps
<1>5. CASE BootSessionFails
  BY <1>5, <1>I, <1>A DEF BootSessionFails, TypedInv, FilesTyped, MemoryTyped,
       ControlTyped, RecordAtHand, Callers, Purposes, BootSteps, PrepareSteps,
       RestoreSteps
<1>6. CASE BootSession
  BY <1>6, <1>I, <1>A DEF BootSession, TypedInv, FilesTyped, MemoryTyped,
       ControlTyped, RecordAtHand, Callers, Purposes, BootSteps, PrepareSteps,
       RestoreSteps
<1>7. CASE BootCapSync
  <2>1. FilesTyped'
    BY <1>7, <1>I, <1>A DEF BootCapSync, FilesTyped, MemoryTyped
  <2>2. MemoryTyped'
    BY <1>7, <1>I, <1>A DEF BootCapSync, FilesTyped, MemoryTyped
  <2>3. ControlTyped'
    BY <1>7, <1>I, <1>A DEF BootCapSync, ControlTyped, Callers, Purposes, BootSteps,
         PrepareSteps, RestoreSteps
  <2>4. RecordAtHand'
    BY <1>7, <1>I, <1>A DEF BootCapSync, RecordAtHand
  <2> QED
    BY <2>1, <2>2, <2>3, <2>4 DEF TypedInv
<1>8. CASE Mark
  <2>1. FilesTyped'
    BY <1>8, <1>I, <1>A DEF Mark, FilesTyped, MemoryTyped
  <2>2. MemoryTyped'
    BY <1>8, <1>I, <1>A DEF Mark, FilesTyped, MemoryTyped
  <2>3. ControlTyped'
    BY <1>8, <1>I, <1>A DEF Mark, ControlTyped, Callers, Purposes, BootSteps,
         PrepareSteps, RestoreSteps
  <2>4. RecordAtHand'
    BY <1>8, <1>I, <1>A DEF Mark, RecordAtHand
  <2> QED
    BY <2>1, <2>2, <2>3, <2>4 DEF TypedInv
<1>9. CASE Prepare
  <2>1. FilesTyped'
    BY <1>9, <1>I, <1>A DEF Prepare, FilesTyped, MemoryTyped
  <2>2. MemoryTyped'
    BY <1>9, <1>I, <1>A DEF Prepare, FilesTyped, MemoryTyped
  <2>3. ControlTyped'
    BY <1>9, <1>I, <1>A DEF Prepare, ControlTyped, Callers, Purposes, BootSteps,
         PrepareSteps, RestoreSteps
  <2>4. RecordAtHand'
    BY <1>9, <1>I, <1>A DEF Prepare, RecordAtHand
  <2> QED
    BY <2>1, <2>2, <2>3, <2>4 DEF TypedInv
<1>10. CASE Unprepared
  <2>1. FilesTyped'
    BY <1>10, <1>I, <1>A DEF Unprepared, FilesTyped, MemoryTyped
  <2>2. MemoryTyped'
    BY <1>10, <1>I, <1>A DEF Unprepared, FilesTyped, MemoryTyped
  <2>3. ControlTyped'
    BY <1>10, <1>I, <1>A DEF Unprepared, ControlTyped, Callers, Purposes, BootSteps,
         PrepareSteps, RestoreSteps
  <2>4. RecordAtHand'
    BY <1>10, <1>I, <1>A DEF Unprepared, RecordAtHand
  <2> QED
    BY <2>1, <2>2, <2>3, <2>4 DEF TypedInv
<1>11. CASE CaptureFails
  <2>1. FilesTyped'
    BY <1>11, <1>I, <1>A DEF CaptureFails, FilesTyped, MemoryTyped
  <2>2. MemoryTyped'
    BY <1>11, <1>I, <1>A DEF CaptureFails, FilesTyped, MemoryTyped
  <2>3. ControlTyped'
    BY <1>11, <1>I, <1>A DEF CaptureFails, ControlTyped, Callers, Purposes, BootSteps,
         PrepareSteps, RestoreSteps
  <2>4. RecordAtHand'
    BY <1>11, <1>I, <1>A DEF CaptureFails, RecordAtHand
  <2> QED
    BY <2>1, <2>2, <2>3, <2>4 DEF TypedInv
<1>12. CASE CaptureBegin
  BY <1>12, <1>I, <1>A DEF CaptureBegin, TypedInv, FilesTyped, MemoryTyped,
       ControlTyped, RecordAtHand, Callers, Purposes, BootSteps, PrepareSteps,
       RestoreSteps
<1>13. CASE CaptureManifest
  <2>1. FilesTyped'
    BY <1>13, <1>I, <1>A DEF CaptureManifest, FilesTyped, MemoryTyped
  <2>2. MemoryTyped'
    BY <1>13, <1>I, <1>A DEF CaptureManifest, FilesTyped, MemoryTyped
  <2>3. ControlTyped'
    BY <1>13, <1>I, <1>A DEF CaptureManifest, ControlTyped, Callers, Purposes,
         BootSteps, PrepareSteps, RestoreSteps
  <2>4. RecordAtHand'
    BY <1>13, <1>I, <1>A DEF CaptureManifest, RecordAtHand
  <2> QED
    BY <2>1, <2>2, <2>3, <2>4 DEF TypedInv
<1>14. ASSUME NEW f \in Files, CaptureFile(f) PROVE TypedInv'
  BY <1>14, <1>I, <1>A DEF CaptureFile, TypedInv, FilesTyped, MemoryTyped,
       ControlTyped, RecordAtHand, Callers, Purposes, BootSteps, PrepareSteps,
       RestoreSteps
<1>15. ASSUME NEW f \in Files, StageFile(f) PROVE TypedInv'
  BY <1>15, <1>I, <1>A DEF StageFile, TypedInv, FilesTyped, MemoryTyped, ControlTyped,
       RecordAtHand, Callers, Purposes, BootSteps, PrepareSteps, RestoreSteps
<1>16. CASE StageSurfaces
  <2>1. FilesTyped'
    BY <1>16, <1>I, <1>A DEF StageSurfaces, Surfaces, FilesTyped, MemoryTyped
  <2>2. MemoryTyped'
    BY <1>16, <1>I, <1>A DEF StageSurfaces, Surfaces, FilesTyped, MemoryTyped
  <2>3. ControlTyped'
    BY <1>16, <1>I, <1>A DEF StageSurfaces, Surfaces, ControlTyped, Callers, Purposes,
         BootSteps, PrepareSteps, RestoreSteps
  <2>4. RecordAtHand'
    BY <1>16, <1>I, <1>A DEF StageSurfaces, Surfaces, RecordAtHand
  <2> QED
    BY <2>1, <2>2, <2>3, <2>4 DEF TypedInv
<1>17. CASE StageFails
  BY <1>17, <1>I, <1>A DEF StageFails, Surfaces, TypedInv, FilesTyped, MemoryTyped,
       ControlTyped, RecordAtHand, Callers, Purposes, BootSteps, PrepareSteps,
       RestoreSteps
<1>18. CASE ShellExecute
  <2>1. FilesTyped'
    BY <1>18, <1>I, <1>A DEF ShellExecute, FilesTyped, MemoryTyped
  <2>2. MemoryTyped'
    BY <1>18, <1>I, <1>A DEF ShellExecute, FilesTyped, MemoryTyped
  <2>3. ControlTyped'
    BY <1>18, <1>I, <1>A DEF ShellExecute, ControlTyped, Callers, Purposes, BootSteps,
         PrepareSteps, RestoreSteps
  <2>4. RecordAtHand'
    BY <1>18, <1>I, <1>A DEF ShellExecute, RecordAtHand
  <2> QED
    BY <2>1, <2>2, <2>3, <2>4 DEF TypedInv
<1>19. CASE RestoreBlocked
  BY <1>19, <1>I, <1>A DEF RestoreBlocked, TypedInv, FilesTyped, MemoryTyped,
       ControlTyped, RecordAtHand, Callers, Purposes, BootSteps, PrepareSteps,
       RestoreSteps
<1>20. CASE RestoreBegin
  BY <1>20, <1>I, <1>A DEF RestoreBegin, TypedInv, FilesTyped, MemoryTyped,
       ControlTyped, RecordAtHand, Callers, Purposes, BootSteps, PrepareSteps,
       RestoreSteps
<1>21. CASE RestoreProvider
  <2>1. FilesTyped'
    BY <1>21, <1>I, <1>A DEF RestoreProvider, FilesTyped, MemoryTyped
  <2>2. MemoryTyped'
    BY <1>21, <1>I, <1>A DEF RestoreProvider, FilesTyped, MemoryTyped
  <2>3. ControlTyped'
    BY <1>21, <1>I, <1>A DEF RestoreProvider, ControlTyped, Callers, Purposes,
         BootSteps, PrepareSteps, RestoreSteps
  <2>4. RecordAtHand'
    BY <1>21, <1>I, <1>A DEF RestoreProvider, RecordAtHand
  <2> QED
    BY <2>1, <2>2, <2>3, <2>4 DEF TypedInv
<1>22. CASE SessionFails
  <2>1. FilesTyped'
    BY <1>22, <1>I, <1>A DEF SessionFails, FilesTyped, MemoryTyped
  <2>2. MemoryTyped'
    BY <1>22, <1>I, <1>A DEF SessionFails, FilesTyped, MemoryTyped
  <2>3. ControlTyped'
    BY <1>22, <1>I, <1>A DEF SessionFails, ControlTyped, Callers, Purposes, BootSteps,
         PrepareSteps, RestoreSteps
  <2>4. RecordAtHand'
    BY <1>22, <1>I, <1>A DEF SessionFails, RecordAtHand
  <2> QED
    BY <2>1, <2>2, <2>3, <2>4 DEF TypedInv
<1>23. CASE Session
  BY <1>23, <1>I, <1>A DEF Session, TypedInv, FilesTyped, MemoryTyped, ControlTyped,
       RecordAtHand, Callers, Purposes, BootSteps, PrepareSteps, RestoreSteps
<1>24. ASSUME NEW f \in Files, RestoreFile(f) PROVE TypedInv'
  BY <1>24, <1>I, <1>A DEF RestoreFile, TypedInv, FilesTyped, MemoryTyped,
       ControlTyped, RecordAtHand, Callers, Purposes, BootSteps, PrepareSteps,
       RestoreSteps
<1>25. ASSUME NEW f \in Files, RemoveFile(f) PROVE TypedInv'
  BY <1>25, <1>I, <1>A DEF RemoveFile, TypedInv, FilesTyped, MemoryTyped,
       ControlTyped, RecordAtHand, Callers, Purposes, BootSteps, PrepareSteps,
       RestoreSteps
<1>26. CASE TemporalAA
  BY <1>26, <1>I, <1>A DEF TemporalAA, TypedInv, FilesTyped, MemoryTyped,
       ControlTyped, RecordAtHand, Callers, Purposes, BootSteps, PrepareSteps,
       RestoreSteps
<1>27. CASE ApplyReplay
  BY <1>27, <1>I, <1>A DEF ApplyReplay, TypedInv, FilesTyped, MemoryTyped,
       ControlTyped, RecordAtHand, Callers, Purposes, BootSteps, PrepareSteps,
       RestoreSteps
<1>28. CASE VerifyReplay
  BY <1>28, <1>I, <1>A DEF VerifyReplay, TypedInv, FilesTyped, MemoryTyped,
       ControlTyped, RecordAtHand, Callers, Purposes, BootSteps, PrepareSteps,
       RestoreSteps
<1>29. CASE RemoveReplay
  BY <1>29, <1>I, <1>A DEF RemoveReplay, TypedInv, FilesTyped, MemoryTyped,
       ControlTyped, RecordAtHand, Callers, Purposes, BootSteps, PrepareSteps,
       RestoreSteps
<1>30. CASE RemoveManifest
  <2>1. FilesTyped'
    BY <1>30, <1>I, <1>A DEF RemoveManifest, FilesTyped, MemoryTyped
  <2>2. MemoryTyped'
    BY <1>30, <1>I, <1>A DEF RemoveManifest, FilesTyped, MemoryTyped
  <2>3. ControlTyped'
    BY <1>30, <1>I, <1>A DEF RemoveManifest, ControlTyped, Callers, Purposes,
         BootSteps, PrepareSteps, RestoreSteps
  <2>4. RecordAtHand'
    BY <1>30, <1>I, <1>A DEF RemoveManifest, RecordAtHand
  <2> QED
    BY <2>1, <2>2, <2>3, <2>4 DEF TypedInv
<1>31. CASE RestoreFlex
  <2>1. FilesTyped'
    BY <1>31, <1>I, <1>A DEF RestoreFlex, FilesTyped, MemoryTyped
  <2>2. MemoryTyped'
    BY <1>31, <1>I, <1>A DEF RestoreFlex, FilesTyped, MemoryTyped
  <2>3. ControlTyped'
    BY <1>31, <1>I, <1>A DEF RestoreFlex, ControlTyped, Callers, Purposes, BootSteps,
         PrepareSteps, RestoreSteps
  <2>4. RecordAtHand'
    BY <1>31, <1>I, <1>A DEF RestoreFlex, RecordAtHand
  <2> QED
    BY <2>1, <2>2, <2>3, <2>4 DEF TypedInv
<1>32. CASE RestoreCap
  <2>1. FilesTyped'
    BY <1>32, <1>I, <1>A DEF RestoreCap, FilesTyped, MemoryTyped
  <2>2. MemoryTyped'
    BY <1>32, <1>I, <1>A DEF RestoreCap, FilesTyped, MemoryTyped
  <2>3. ControlTyped'
    BY <1>32, <1>I, <1>A DEF RestoreCap, ControlTyped, Callers, Purposes, BootSteps,
         PrepareSteps, RestoreSteps
  <2>4. RecordAtHand'
    BY <1>32, <1>I, <1>A DEF RestoreCap, RecordAtHand
  <2> QED
    BY <2>1, <2>2, <2>3, <2>4 DEF TypedInv
<1>33. CASE Restored
  <2>1. FilesTyped'
    BY <1>33, <1>I, <1>A DEF Restored, FilesTyped, MemoryTyped
  <2>2. MemoryTyped'
    BY <1>33, <1>I, <1>A DEF Restored, FilesTyped, MemoryTyped
  <2>3. ControlTyped'
    BY <1>33, <1>I, <1>A DEF Restored, ControlTyped, Callers, Purposes, BootSteps,
         PrepareSteps, RestoreSteps
  <2>4. RecordAtHand'
    BY <1>33, <1>I, <1>A DEF Restored, RecordAtHand
  <2> QED
    BY <2>1, <2>2, <2>3, <2>4 DEF TypedInv
<1>34. CASE NotRestored
  <2>1. FilesTyped'
    BY <1>34, <1>I, <1>A DEF NotRestored, FilesTyped, MemoryTyped
  <2>2. MemoryTyped'
    BY <1>34, <1>I, <1>A DEF NotRestored, FilesTyped, MemoryTyped
  <2>3. ControlTyped'
    BY <1>34, <1>I, <1>A DEF NotRestored, ControlTyped, Callers, Purposes, BootSteps,
         PrepareSteps, RestoreSteps
  <2>4. RecordAtHand'
    BY <1>34, <1>I, <1>A DEF NotRestored, RecordAtHand
  <2> QED
    BY <2>1, <2>2, <2>3, <2>4 DEF TypedInv
<1>35. ASSUME NEW v \in Values, Apply(v) PROVE TypedInv'
  <2>1. FilesTyped'
    BY <1>35, <1>I, <1>A DEF Apply, FilesTyped, MemoryTyped
  <2>2. MemoryTyped'
    BY <1>35, <1>I, <1>A DEF Apply, FilesTyped, MemoryTyped
  <2>3. ControlTyped'
    BY <1>35, <1>I, <1>A DEF Apply, ControlTyped, Callers, Purposes, BootSteps,
         PrepareSteps, RestoreSteps
  <2>4. RecordAtHand'
    BY <1>35, <1>I, <1>A DEF Apply, RecordAtHand
  <2> QED
    BY <2>1, <2>2, <2>3, <2>4 DEF TypedInv
<1>36. CASE ApplyFails
  <2>1. FilesTyped'
    BY <1>36, <1>I, <1>A DEF ApplyFails, FilesTyped, MemoryTyped
  <2>2. MemoryTyped'
    BY <1>36, <1>I, <1>A DEF ApplyFails, FilesTyped, MemoryTyped
  <2>3. ControlTyped'
    BY <1>36, <1>I, <1>A DEF ApplyFails, ControlTyped, Callers, Purposes, BootSteps,
         PrepareSteps, RestoreSteps
  <2>4. RecordAtHand'
    BY <1>36, <1>I, <1>A DEF ApplyFails, RecordAtHand
  <2> QED
    BY <2>1, <2>2, <2>3, <2>4 DEF TypedInv
<1>37. CASE CloseComplete
  BY <1>37, <1>I, <1>A DEF CloseComplete, TypedInv, FilesTyped, MemoryTyped,
       ControlTyped, RecordAtHand, Callers, Purposes, BootSteps, PrepareSteps,
       RestoreSteps
<1>38. CASE CloseIncomplete
  BY <1>38, <1>I, <1>A DEF CloseIncomplete, TypedInv, FilesTyped, MemoryTyped,
       ControlTyped, RecordAtHand, Callers, Purposes, BootSteps, PrepareSteps,
       RestoreSteps
<1>39. CASE Destroyed
  BY <1>39, <1>I, <1>A DEF Destroyed, TypedInv, FilesTyped, MemoryTyped, ControlTyped,
       RecordAtHand, Callers, Purposes, BootSteps, PrepareSteps, RestoreSteps
<1>40. CASE Poll
  BY <1>40, <1>I, <1>A DEF Poll, Synchronize, Confirmed, Rebase, TypedInv, FilesTyped,
       MemoryTyped, ControlTyped, RecordAtHand, Callers, Purposes, BootSteps,
       PrepareSteps, RestoreSteps
<1>41. CASE NoticeExit
  BY <1>41, <1>I, <1>A DEF NoticeExit, TypedInv, FilesTyped, MemoryTyped,
       ControlTyped, RecordAtHand, Callers, Purposes, BootSteps, PrepareSteps,
       RestoreSteps
<1>42. CASE Attach
  BY <1>42, <1>I, <1>A DEF Attach, Confirmed, Rebase, TypedInv, FilesTyped,
       MemoryTyped, ControlTyped, RecordAtHand, Callers, Purposes, BootSteps,
       PrepareSteps, RestoreSteps
<1>43. CASE Window
  BY <1>43, <1>I, <1>A DEF Window, TypedInv, FilesTyped, MemoryTyped, ControlTyped,
       RecordAtHand, Callers, Purposes, BootSteps, PrepareSteps, RestoreSteps
<1>44. CASE Closed
  <2>1. FilesTyped'
    BY <1>44, <1>I, <1>A DEF Closed, Synchronize, Confirmed, Rebase, FilesTyped,
         MemoryTyped
  <2>2. MemoryTyped'
    BY <1>44, <1>I, <1>A DEF Closed, Synchronize, Confirmed, Rebase, FilesTyped,
         MemoryTyped
  <2>3. ControlTyped'
    BY <1>44, <1>I, <1>A DEF Closed, Synchronize, Confirmed, Rebase, ControlTyped,
         Callers, Purposes, BootSteps, PrepareSteps, RestoreSteps
  <2>4. RecordAtHand'
    BY <1>44, <1>I, <1>A DEF Closed, Synchronize, Confirmed, Rebase, RecordAtHand
  <2> QED
    BY <2>1, <2>2, <2>3, <2>4 DEF TypedInv
<1>45. CASE Finalize
  <2>1. FilesTyped'
    BY <1>45, <1>I, <1>A DEF Finalize, Synchronize, Confirmed, Rebase, FilesTyped,
         MemoryTyped
  <2>2. MemoryTyped'
    BY <1>45, <1>I, <1>A DEF Finalize, Synchronize, Confirmed, Rebase, FilesTyped,
         MemoryTyped
  <2>3. ControlTyped'
    BY <1>45, <1>I, <1>A DEF Finalize, Synchronize, Confirmed, Rebase, ControlTyped,
         Callers, Purposes, BootSteps, PrepareSteps, RestoreSteps
  <2>4. RecordAtHand'
    BY <1>45, <1>I, <1>A DEF Finalize, Synchronize, Confirmed, Rebase, RecordAtHand
  <2> QED
    BY <2>1, <2>2, <2>3, <2>4 DEF TypedInv
<1>46. CASE FinalizeUnstable
  BY <1>46, <1>I, <1>A DEF FinalizeUnstable, TypedInv, FilesTyped, MemoryTyped,
       ControlTyped, RecordAtHand, Callers, Purposes, BootSteps, PrepareSteps,
       RestoreSteps
<1>47. CASE FinalizeUnprotected
  <2>1. FilesTyped'
    BY <1>47, <1>I, <1>A DEF FinalizeUnprotected, FilesTyped, MemoryTyped
  <2>2. MemoryTyped'
    BY <1>47, <1>I, <1>A DEF FinalizeUnprotected, FilesTyped, MemoryTyped
  <2>3. ControlTyped'
    BY <1>47, <1>I, <1>A DEF FinalizeUnprotected, ControlTyped, Callers, Purposes,
         BootSteps, PrepareSteps, RestoreSteps
  <2>4. RecordAtHand'
    BY <1>47, <1>I, <1>A DEF FinalizeUnprotected, RecordAtHand
  <2> QED
    BY <2>1, <2>2, <2>3, <2>4 DEF TypedInv
<1>48. CASE Launch
  BY <1>48, <1>I, <1>A DEF Launch, TypedInv, FilesTyped, MemoryTyped, ControlTyped,
       RecordAtHand, Callers, Purposes, BootSteps, PrepareSteps, RestoreSteps
<1>49. CASE SaveGraphics
  BY <1>49, <1>I, <1>A DEF SaveGraphics, Synchronize, Confirmed, Rebase, TypedInv,
       FilesTyped, MemoryTyped, ControlTyped, RecordAtHand, Callers, Purposes,
       BootSteps, PrepareSteps, RestoreSteps
<1>50. CASE Close
  BY <1>50, <1>I, <1>A DEF Close, TypedInv, FilesTyped, MemoryTyped, ControlTyped,
       RecordAtHand, Callers, Purposes, BootSteps, PrepareSteps, RestoreSteps
<1>51. CASE Detach
  BY <1>51, <1>I, <1>A DEF Detach, TypedInv, FilesTyped, MemoryTyped, ControlTyped,
       RecordAtHand, Callers, Purposes, BootSteps, PrepareSteps, RestoreSteps
<1>52. CASE GameStart
  <2>1. overtaken' \in BOOLEAN
    BY <1>52, <1>I DEF GameStart, FilesTyped
  <2>2. FilesTyped'
    BY <1>52, <1>I, <1>A, <2>1 DEF GameStart, FilesTyped
  <2>3. MemoryTyped' /\ ControlTyped' /\ RecordAtHand'
    BY <1>52, <1>I, <1>A DEF GameStart, MemoryTyped, ControlTyped, RecordAtHand
  <2> QED
    BY <2>2, <2>3 DEF TypedInv
<1>53. CASE GameWindow
  BY <1>53, <1>I, <1>A DEF GameWindow, TypedInv, FilesTyped, MemoryTyped,
       ControlTyped, RecordAtHand, Callers, Purposes, BootSteps, PrepareSteps,
       RestoreSteps
<1>54. CASE GameExit
  BY <1>54, <1>I, <1>A DEF GameExit, TypedInv, FilesTyped, MemoryTyped, ControlTyped,
       RecordAtHand, Callers, Purposes, BootSteps, PrepareSteps, RestoreSteps
<1>55. CASE Crash
  BY <1>55, <1>I, <1>A DEF Crash, TypedInv, FilesTyped, MemoryTyped, ControlTyped,
       RecordAtHand, Callers, Purposes, BootSteps, PrepareSteps, RestoreSteps
<1>56. ASSUME NEW v \in Values, GameRewrite(v) PROVE TypedInv'
  BY <1>56, <1>I, <1>A DEF GameRewrite, TypedInv, FilesTyped, MemoryTyped,
       ControlTyped, RecordAtHand, Callers, Purposes, BootSteps, PrepareSteps,
       RestoreSteps
<1>57. CASE UNCHANGED vars
  BY <1>57, <1>I DEF TypedInv, FilesTyped, MemoryTyped, ControlTyped, RecordAtHand
<1> QED
  BY <1>1, <1>2, <1>3, <1>4, <1>5, <1>6, <1>7, <1>8, <1>9, <1>10, <1>11, <1>12, <1>13,
       <1>14, <1>15, <1>16, <1>17, <1>18, <1>19, <1>20, <1>21, <1>22, <1>23, <1>24,
       <1>25, <1>26, <1>27, <1>28, <1>29, <1>30, <1>31, <1>32, <1>33, <1>34, <1>35,
       <1>36, <1>37, <1>38, <1>39, <1>40, <1>41, <1>42, <1>43, <1>44, <1>45, <1>46,
       <1>47, <1>48, <1>49, <1>50, <1>51, <1>52, <1>53, <1>54, <1>55, <1>56, <1>57 DEF
       Next, Starting, Preparing, Restoring, Saving, Closing, Ticking, Asked, Outside

(* Types, whatever the game does meanwhile: files, memory and control stay in *)
(* their ranges, so the graphics written back to the live INI are always      *)
(* somebody's settings and never an absent record                             *)
(* (restore_session_video_settings, restore_session_config).                  *)
THEOREM SessionTyped == ASSUME SessionAssumption PROVE Spec => []TypeOK
<1>1. Init => TypedInv
  BY InitTyped
<1>2. TypedInv /\ [Next]_vars => TypedInv'
  BY NextTyped
<1>3. TypedInv => TypeOK
  BY DEF TypedInv, FilesTyped, MemoryTyped, ControlTyped, TypeOK
<1> QED
  BY <1>1, <1>2, <1>3, PTL DEF Spec
================================================================================
