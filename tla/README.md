# KF2 Optimizer Next: TLA+ models and proofs

KF2 Optimizer Next changes files that belong to somebody else: the INI files and
runtime libraries of Killing Floor 2, and the files of its own installed package.
Every such change is a transaction with a backup, a journal or a snapshot and a
recovery at the next start; around it other programs write, calls fail and
processes die. While the game runs, it measures it from several threads and turns
its graphics quality down and up again through a channel that loses answers. This
directory models those transactions, threads and protocols in TLA+, checks them
with TLC and proves invariants of them with TLAPS. Paths are relative to the
repository (`src/...`, `docs/...`).

## Inventory

| Component | State | Operations | Hard part | What makes it correct |
|---|---|---|---|---|
| Configuration transaction (`src/config/apply_transaction.cpp`, `config_preview.cpp`) | INI files, the preview, written files | apply, rollback | external edits between check and replacement, several files, failing rollback | no half-made change is forgotten, no edit is destroyed |
| Backup store (`src/backup/backup_store.cpp`) | blobs, manifests, journals | create, verify, list, prune | order of writes and removals, shared blobs | a journal always leads to a manifest and blobs; the newest backup stays |
| Restore and recovery (`src/backup/restore_transaction.cpp`) | journals | restore, recover at start | several pending journals, conflicts, crash during recovery | all or nothing; what is not settled is shown |
| Atomic files (`src/platform/windows/atomic_file.cpp`) | target, temporaries, captured siblings | replace, replace if unchanged, remove, quarantine | two-step commit through `ReplaceFileW` | content is one of the expected ones, nothing is lost |
| Update transaction and helper (`src/update/update_transaction.cpp`, `update_helper.cpp`, `src/app/main.cpp`) | package files, backup, staged package, journal, receipt | install, hand over, roll back, recover, clean up | several processes, deaths, owner queries, timeouts | a half replaced package is repairable and never run |
| Update controller, repair, import (`src/update/update_controller.cpp`, `update_state.cpp`, `src/app/application_update.cpp`, `application_package_repair.cpp`, `src/security`) | phase, preferences, saved state, busy gate, package files | check, install, dismiss, repair, import | results of worker threads that arrive late, failing repair | one maintainer of the package at a time, only what the user approved |
| Session guard (`src/config/session_guard.cpp`) | snapshot tree, manifest | capture, restore, complete, recover | crash in the middle, KF2 still running | the user's INI files are back after the session |
| Application lifecycle (`src/app/application.cpp`, `session.cpp`) | session marker, runtime | start, run, shut down | failing shutdown keeps recovery armed | an unclean exit is recognised |
| Event log (`src/diagnostics/event_log.cpp`) | bounded log, worker, file | append, clear, flush, destroy | log full, failing writes, notification of the worker | nothing forgotten, a flush tells the truth |
| Asynchronous writer (`src/platform/windows/async_file_writer.cpp`) | queue, tickets, outcomes | submit, wait, destroy | coalescing, bounded outcomes | a wait tells the truth |
| Frame cap (`src/game/frame_rate_cap.cpp`) | two INI files, recovery record, setting | set, recover, synchronize | two files, kills in between, foreign edits | both files agree or a record says how to make them |
| Graphics settings (`src/game/video_settings.cpp`, `src/app/application_video_state.cpp`) | three INI files, choices, write times | read, choose, rebase, save | KF2 rewrites the files meanwhile | a save changes what was asked for and nothing else |
| Game log (`src/game/game_log_session.cpp` and parsers) | parsed session | read lines, travel, drain | worlds that follow each other while lines are late | what is measured in one world is not shown in another |
| Adaptive control channel (`src/game/adaptive_control_client.cpp`, `src/features/telemetry`) | mode, debt, dispatchers, KF2's receiver | enable, disable, change quality, settle | lost and late receipts, travel, two processes | a reduced quality is somebody's to give back |
| Governor (`src/optimizer/adaptive_governor.cpp`) | pressure, timers, measurement, floors | evaluate, select, judge, release | hysteresis, late evidence, queued rollbacks | no reduction without evidence of its own, quality comes back |
| Telemetry labs (`src/game/offline_telemetry_lab.cpp`, `gameplay_log_lab.cpp`) | installed package, marker, INI settings | stage, verify, restore, recover | partial failure, crash, the player's edits | only owned files and settings are taken back |
| FleX laboratory (`src/flex`) | runtime files, recovery copies, marker; solver slots | install, return, recover; observe | partial failure, running game, Steam; threads of the game | verified or original runtime; exact sums |
| Telemetry (`src/telemetry`, `src/features/telemetry`, `dxgi_frame_timing_session.cpp`) | worker, samples, log chunks, streams of presents | bind, collect, publish, pair, drain, stop | thread hand-off, lost events, resets | lines arrive once and in order, a certified window hides no loss |
| Overlay, UI (`src/overlay`, `src/ui`), FleX overlap runtime, tools | model of the shell, drawing | | | not modelled, see below |

How they interact: the UI thread calls the configuration transaction, which
uses the backup store, which uses the atomic file layer; `Application::start`
runs recovery before the window appears and raises the recovery banner that the
transaction's errors raise later. `main.cpp` looks for an interrupted update
before it takes the single-instance mutex; the update helper is a separate
process that talks to the new instance through its exit, a receipt file and the
journal. Before a game session the FleX runtime, the provider and the session
INIs are staged, and returned after it. While the game plays, a worker tails its
log and samples counters, ETW threads deliver its presents, and a tick on the UI
thread turns both into one sample, asks the governor, and sends its command
through the control channel to the provider that runs inside KF2.

## Modules

| Module | Models | Run | Theorems |
|---|---|---|---|
| `ConfigTransaction` | configuration transaction, backup store, recovery, callers | `config_apply` | 6 (`ConfigTransactionProofs`) |
| `AtomicConfig` | abstract all-or-nothing change, implemented by `ConfigTransaction` | `config_apply` | refinement, in `ConfigTransactionProofs` |
| `UpdateTransaction` | update transaction, helper, start-up recovery, cleanup | `update` | 4 (`UpdateTransactionProofs`) |
| `Maintenance` | checks, installation, Auto Repair, manual import, close | `maintenance` | 4 (`MaintenanceProofs`) |
| `ProtectedSession` | protected game session: snapshot, staged values, launch, restore, replay of graphics, start and shutdown | `session` | 4 (`ProtectedSessionProofs`) |
| `SessionHistory` | `ProtectedSession` with a history variable: the graphics the player confirmed | `session_graphics` | |
| `EventLog` | bounded event log with its worker thread | `game_watch`, `event_log`, `event_log_stop` | 3 (`GameWatchProofs`) |
| `AdaptiveControl` | live control channel, its receiver in KF2, mode and debt | `adaptive` | 3 (`AdaptiveControlProofs`) |
| `AdaptiveGovernor` | from samples to quality commands | `governor` | 3 (`AdaptiveGovernorProofs`) |
| `TelemetryWorker` | worker thread of the log and the counters, and its user | `game_watch`, `telemetry` | 1 (`GameWatchProofs`) |
| `FlexTransaction` | installation and return of the FleX runtime | `game_files` | 2 (`GameFilesProofs`) |
| `ProviderStaging` | staging of the telemetry provider | `game_files` | 2 (`GameFilesProofs`) |
| `FrameCap` | frame-rate cap transaction | `game_files` | 5 (`GameFilesProofs`) |
| `VideoSettings` | reading and saving of the graphics settings | `game_files` | 3 (`GameFilesProofs`) |
| `GameFiles` | the four above side by side, and their common properties | `game_files` | 8 (`GameFilesProofs`) |
| `FlexObservation` | solver slots in the game and the reader without a lock | `game_watch` | 2 (`GameWatchProofs`) |
| `GameLog` | session of the game log and the scene of the statistics | `game_watch` | 1 (`GameWatchProofs`) |
| `PresentCapture` | pairing of ETW present events, streams and losses | `game_watch` | 1 (`GameWatchProofs`) |
| `PresentDrain` | statistics computed on a worker of their own | `game_watch` | 1 (`GameWatchProofs`) |
| `AsyncWriter` | background writer of small files | `game_watch` | 1 (`GameWatchProofs`) |
| `GameWatch` | the five above, `EventLog` and `TelemetryWorker` side by side, and their properties | `game_watch` | 9 (`GameWatchProofs`) |
| `MC...` | TLC instances | | |

`AtomicConfig` is stated beside `ConfigTransaction` and `SessionHistory` on top of
`ProtectedSession`; otherwise a module stands alone. Where one component uses
another, the user takes the other's operation as one step that happens or fails:
a configuration transaction in `ProtectedSession`, the write of a file in
`EventLog`, the update helper in `Maintenance`, the control channel in
`AdaptiveGovernor`. `GameFiles` and `GameWatch` put several modules that share
no state side by side: a variable `part` says which of them a behaviour is about,
and the others stay at an initial state, so the sum has as many states as its
parts together. `FrameCap` and `AsyncWriter` are extended there and not
instantiated, so that the invariants TLC checks are those the theorems state. A
theorem of `GameFiles` or `GameWatch` counts for every module it speaks of.

### ConfigTransaction

State: `file`, `siblings` (captured `.rollback.` files), `objects`, `manifests`,
`journals` are on disk and survive a crash; `pc`, `mode`, `tx`, `at`, `written`,
`rollbackFailed`, `captured`, `visited`, `doomed`, `recoveryRequired` are memory
of the process. A backup id is the hash of both contents in the code and that
pair of contents here, so equal changes share an id, as they do in the code.
`debt`, `edit` and `touched` only observe.

Actions follow the code call by call: `Preview`, `Apply`, `Check` (every target
still holds the previewed bytes), `StoreObject`, `StoreManifest`,
`StoreJournal`, `VerifyBackup`, `StartReplacement`, then per file `ReplaceFile`
(`ReplaceFileW`, which captures the old bytes in a sibling) and
`SettleReplacement` (the captured bytes are compared and either accepted or
renamed back), `Readback`, `Verified` (journal `verification_complete`, the
commit point) and `Finish`; on a failure `RollbackFile`, `SettleRollback`,
`RollbackReadback`, `RolledBack`; after success `SelectDoomed` to `Pruned`; at a
start `RecoverJournal`, `RecoverFile`, `RecoverCommit`, `SettleRecovery`,
`RecoverReadback`, `RecoverFinish`. `Restore` runs the same transaction with the
bytes of a backup, `Standalone` only its backup part. `Edit` (another program
rewrites a file in place) and `Crash` may happen between any two of them, and
every call may fail (`Fault`).

Properties:

* `ChangeCanBeUndone`: a file that still holds the proposed bytes of a change that
  neither succeeded nor was undone belongs to a pending journal (`DebtRecorded`),
  and pruning keeps the backup just made, restorable (`LatestBackupKept`). A file
  whose captured bytes another program holds is given up (`Abandon`, which takes
  the change off its `debt`).
* `BackupChain`: a journal has its manifest, a manifest its blobs.
* `PendingIsVisible`: while the UI is idle a pending journal is shown by the banner.
* `EditSurvives`: an edit of another program is in the file, in a captured
  sibling or in a backup blob.
* `AllOrNothing`: refinement of `AtomicConfig`. The mapping reads a file through
  the journals (`Settled`): a change whose journal says `replacement_started`
  counts as not made, since recovery will undo it. A file another program touched
  competes from then on (`Compete`): the start of a replacement may take up several
  such files in one step, as three files and two edits show.

The recovery banner does not keep the user from a further change. `overlapped` remembers
that one was begun while the journal of an earlier one was pending: `ChangeCanBeUndone`
and `EditSurvives` are claimed up to then, and `AllOrNothing` lets every file compete
afterwards. `touched` are the files others edited, or whose captured file others held,
since the last change was requested.

Abstractions: contents are model values; hashing is equality; validation of
paths and drafts and the space check are failing calls; the store's own writes
either happen or fail without effect; a `ReplaceFileW` that fails after changing
something is not modelled; manifests and journals are never corrupted, so
quarantine does not happen; the frame cap synchronisation of a restore is one
nondeterministic failure. Edits made between `ReplaceFileW` and the rename that
undoes it do happen but are not claimed to survive.

### UpdateTransaction

Processes: 0 is the helper, 1 the instance that started it, the others are
instances started by the user, by the helper or by a recovering instance. Each
has a program counter, so any interleaving occurs and `Crash` may end any of
them. The installed package is a version per file (`target`), the work directory
is `backup` (number of files written, the manifests last), `staged`, `request`,
`receipt` and `journal` (phase and owner).

`ParseRequest`, `WaitForParent`, `CheckPackages`, `WriteBackup`,
`WriteBackupReady`, `OpenReplacement`, `ReplaceFile`, `VerifyInstalled` are
`apply_update_transaction`; `LaunchUpdated`, `PollReceipt`, `FinalReceipt`,
`StopChild`, `RollBack` the hand-over in `run_update_helper`; `Undo`,
`RestoreFile`, `Restored` the three places that write the backup back;
`RecoverWithoutJournal` to `RecoverBack` the cases of
`recover_update_transaction`, entered by the helper after a failure and by every
normal start; `AcquireInstance`, `SignalReady`, `MarkHandoff`, `Schedule` the
start of an instance; `CleanerWaits`, `CleanerRemoves`, `CleanerEnds` its
detached cleanup thread.

Properties:

* `TornIsSafe`: a half replaced package comes with everything the next normal
  start needs to repair it (`TornIsRecoverable`), and no instance serves the user
  on it (`NoTornService`).
* `FilesAreThere`: a journal a start would find has a complete backup, so recovery
  does not refuse the start (`JournalIsAuthority`), and nothing is removed while
  the helper runs (`CleanupAfterHelper`).
* `OutcomeIsTrue`: an update reported as installed stays, one reported as undone
  never comes back.
* `HelperEnds`: the helper ends.

Abstractions: one update at a time; removal follows the order in which NTFS
lists names (backup, extracted, the locked executable of a running helper,
receipt, request, journal); the journal's count of replaced files decides
nothing and is left out; reading and writing the journal of one phase change is
one step; process ids are not reused (the code compares start times); legacy
schemas, damaged journals, exceptions (exit 24) and a changed identity of the
target directory are not modelled; a launch fails when no instance is left
(`MaxApps`).

Three accidents happen in the run, are remembered in `mishaps`, and end or weaken what is
claimed, since the code does not withstand them:

* `premature`: the user starts the optimizer before the helper has written its journal,
  and the recovery of that start takes the transaction for one that never began. Its
  cleanup waits for the process that started it, not for the helper.
* `misread`: a package that is intact cannot be read for a moment at a start; recovery
  then rolls a verified update back, possibly under a running instance.
* `cut`: the removal of the work directory stops halfway. Only `JournalIsAuthority`
  is not claimed after it.

### ProtectedSession

Before a game session the optimizer captures every INI, stages temporary session
values over them, and puts the captured files back after the session, together
with the graphics settings the player confirmed in the game.

State: the player's INIs are `graphics` (settings in `VideoFile`), `temp` (the
files that hold session values) and `staged` (runtime packages installed for the
session); the snapshot tree is `copies`, `saved`, `savedTemp`, `manifest` and
`replay` (`graphics-replay.txt`); `marker` is the session marker. The game is
`game` with the session values it has loaded, `gameTemp`. Lost by a crash:
`snapshot`, `launch`, `native` and `seen` (graphics read from the running game),
`bound`, `handoff`, `capturing`, `owns`, `banner`, and the position `pc` of the
one UI thread with `caller`, `purpose`, `todo`, `complete` as its call stack.

| Actions | Code |
|---|---|
| `Boot` to `Mark` | recovery in the constructor of `UiRuntime`, `Application::start`, `SessionGuard::start` |
| `Prepare`, `Capture...`, `Stage...`, `Unprepared` | `prepare_automatic_external_launch_profile`, `capture_session_config` |
| `Launch`, `ShellExecute` | launch in `game_actions.cpp`; ticks run while `ShellExecute` pumps messages |
| `RestoreBlocked` to `NotRestored` | `restore_protected_session_config`; in it `RestoreFile` to `RemoveManifest` are `restore_session_video_settings`, `restore_session_config`, `complete_session_config` |
| `SaveGraphics`, `Apply`, `ApplyFails` | `apply_video_settings` |
| `Poll`, `NoticeExit`, `Attach`, `Window`, `Closed`, `Finalize...` | telemetry tick: `try_attach_telemetry`, `finalize_ended_game_session` |
| `Close`, `CloseComplete`, `CloseIncomplete`, `Destroyed` | `UiRuntime::shutdown`, `Application::shutdown_cleanly`, the destructor's second try |
| `GameStart`, `GameWindow`, `GameRewrite`, `GameExit`, `Crash` | the game and the end of the process, between any two steps |

Properties:

* `SessionIsCovered`: a finished snapshot holds no session values
  (`SnapshotIsPreSession`), and while an INI holds a session value a whole
  snapshot is there (`TempIsCovered`).
* `NothingIsHidden`: at rest, without a session and a banner, every INI is the
  player's (`QuietMeansClean`), and a launch offered as prepared is prepared as a
  whole (`ReadyIsPrepared`).
* `RecordsServeTheirTime`: the snapshot goes only when every INI is back with the
  captured graphics or those confirmed in the game (`DiscardedWhenRestored`), and
  a recorded graphics change stays on record until the INI holds it
  (`ReplayHonoured`).
* `SessionSettles`: once KF2 is closed a session is restored, prepared again or reported.
* `ConfirmedChangeKept` (in `SessionHistory`): a confirmed change survives restarts.

Abstractions: an INI is its graphics settings and whether it holds session
values; a snapshot tree is usable when its manifest and all copies are there
(hashes and identities come to that); a configuration transaction (`Apply`, the
replay) is one step; a rewrite by the game that leaves the graphics as they are
changes nothing. A removal that stops halfway does happen and leaves a manifest
without its copies: every INI is restored then, but the later starts can neither
use nor replace the snapshot and keep the banner. Not modelled: the rebuilds
after changed advanced settings, the Adaptive switch or a new game folder, which
call the same preparation and restore; the revalidation of a restarted game
process; the copy kept as evidence; the temporal antialiasing edit, which stays
in the INI on purpose. KF2 may be started at any moment, also between the check that
it does not run and the end of what relies on it; nothing in the program prevents that.
`overtaken` remembers such a start: the game may then write back session values whose
snapshot is being removed, so the safety properties are claimed up to it. The 90 s for
which an armed launch is waited for may pass at any moment.

### EventLog

State: `events` is `events_` with repetition counts, `pending`, `ready`, `due`,
`revision`, `persisted` the members of the same names, `file` what the file
holds, `copy` and `copied` locals of the worker; `worker` says what the worker
waits for or does, `owner` where the thread is that flushes and destroys the
log, `sleep` whether a thread is awake, asleep on the condition variable, or
between the test of its predicate and its sleep (`"falling"`, only the worker).

`AppendEvent`, `Refuse` and `Clear` are `append` and `clear`, `FlushCall` to
`FlushReturns` are `flush`, `RequestStop`, `NotifyStop` and `Join` the destructor,
`WorkerTests` to `Notify` are `persist_worker`. A worker that is falling asleep
holds the mutex, so only what takes no mutex happens then: the destructor, and a
deadline. `notify_one` wakes any of the sleeping threads, so it could wake a
flush in place of the worker; `WorkIsDone` shows that this does no harm.

Properties: `NothingForgotten` (unless a write is pending the file holds the log),
`FlushIsTruthful`, `HealthyExitDrains`, `WorkIsDone` (what is pending reaches the
disk, `LogReachesDisk`, and destruction with something pending ends, `DrainEnds`),
and `StopEnds` (destruction ends), which is violated.

Abstractions: events are model values, `Audit` those of
`is_retained_audit_event`; sequence numbers, statistics and saturating counters
are left out, as are the wake-ups without a reason that a condition variable may
have but need not have.

### AdaptiveControl

State: `kf2` is the game with the receiver of `assets/offline_telemetry`
(process, world, whether Adaptive is enabled, quality), `wire` the commands sent
and not yet handled, `job` what each of the two dispatchers holds, `app` the
optimizer's record: setting, confirmed mode, local quality, the debt. `unseen` is
a history variable: KF2 changed the quality it has, or would roll back to, and the
receipt was lost or thrown away; it ends when neither is reduced any more. The
quality to roll back to counts because settling a failed rollback brings it back:
with a history that forgot it as soon as the quality was the user's, four lost
receipts reached an ownerless reduction nobody had caused anew. The six qualities of the
resources are one level.

`Tick` is a telemetry tick (`reconcile_adaptive_runtime_mode`, the debt gate, the
polls of the dispatchers, `update_adaptive_controller` deciding any level),
`Observe` the reading of KF2's state from its log, `RetryDue` the timer of a
failed request, `Toggle` and `ChangePolicy` the user, `Attach`, `Detach`, `Close` the
binding and the shutdown, `Serve` KF2 handling the oldest command, `TimesOut` a
worker that gives up while its command may still be read later, `GameStarts`,
`GameExits`, `Travel` and `GameRetries` the game. A command's number is its place on the
wire; KF2 refuses numbers older than the last it accepted.

* `QualityIsAccounted`: a reduced quality is owed, shown, asked about or known to
  be unknown (`ReductionIsOwned`), and once KF2 has confirmed that Adaptive is off
  no command under way undoes the restored quality (`RestoredStays`).
* `DebtIsPaid`: a debt of a running game is struck off only at the user's quality.
* `SessionSettles`: while KF2 plays and the optimizer runs, the debt is settled and
  the saved mode is confirmed by the world KF2 plays in.

Left out: a worker that cannot be started or fails to publish its outcome; the
authentication of a frame, which is one that is rejected.

### AdaptiveGovernor

One `Tick` is `update_adaptive_controller`: the sample, as the band each of its
numbers falls in, goes through `Evaluate` (`gov`: pressure, its dwell, flips,
recovery), the measurement of the last reduction is judged (`response`, `rollback`,
`floor`), `Select` picks a resource or all of them, and a command is asked for.
`Answer` is KF2's, `Weather` starts or ends rough play, a pause, a new map. Time
is counted in ticks, and only ages are kept, capped where the code stops telling
them apart. `proof` is a history of the evidence, independent of the governor's
own timers.

* `EvidenceIsOwn`: a reduction is asked for only on pressure that lasted its dwell
  after the last applied change.
* `NothingUnjudged`: a command never gives up the measurement of a reduction.
* `CalmRecovers`: when play stays calm, the quality comes back to the user's and stays.

Left out: what only labels a decision, the fixed effect budgets and the two
watchdogs that freeze the controller. A moving average follows its sample by at
least one band a tick.

### Maintenance

State: `app` (process, close requested), `ctl` is `UpdateController::snapshot_`,
`disk` is `update-state.ini`, `check` and `install` the two workers, `repair` an Auto
Repair or an import, `files` the installed package (each file as released,
different, missing, or changed by somebody else meanwhile), `helper` the version
handed over. The clock may be set back.

The window thread runs one handler at a time: commands of the user (`User`), polls
of outcomes, ticks; the workers run between them (`Rest`). A repair plans, replaces,
verifies and rolls back file by file. The update helper is one step here.

* `OneMaintainer`: installation, repair, import and the helper exclude each other.
* `ConsentHonoured`: what is installed was approved, what is ignored is saved as
  ignored.
* `FailureIsContained`: a failed repair leaves every file as it found it
  (`FailedRepairUndone`), failed checks are spaced over restarts (`RetriesSpaced`).
* `CloseHonoured`: a close that waits for a repair takes place.

The JSON of a release and the archive are what they decide: a version, valid or
not. SHA-256 is equality.

### TelemetryWorker

State: `binding`, `generation`, `pending`, `resetLog`, `stopped`, `group`, `published`,
`chunks` are the members of `ResourceTelemetryWorker` under its mutex; `pc`,
`request`, `reader`, `catchUp`, `chunk` its thread; `ui` what the UI is bound to and
has been told. A log is a number of lines; each carries one event that latches
and one that starts a pre-warm. `Bind`, `Clear`, `Request`, `Adopt`, `Take` and `Stop`
are the calls of the UI, `GameLogs` is the game.

* `HandOffIsExact`: every event of the lines read reaches the UI once and in order
  (`UiFollowsReader`), a pre-warm starts once, for a line written after the log was
  opened (`PrewarmIsNew`), counters are of the binding in force (`SamplesAreCurrent`).
* `LinesArrive`: what the game writes reaches the UI, unless it leaves the process
  or a hand-over failed.

`GameWatch` instantiates it for the first property; the second is a liveness property
and has a run of its own.

### FlexTransaction

State: `files` the contents of every part in the game directory and of every
recovery copy, `marker` the transaction marker, `inUse` what a running KF2 has
loaded, `op` and `plan` the operation and the file operations it has still to do.
`Boot`, `Ensure`, `Return`, `UserRestore` are the callers, `BeginInstall`, `BeginUndo`,
`BeginReturn` the checks that begin a plan, `StepDone` and `StepFailed` one file
operation (which may fail after it replaced its target), `Steam` changes files
whenever the game does not run.

* `RuntimeIsWhole`: whatever was taken out of the game directory is in a recovery
  copy the marker leads to (`StockRecoverable`), the forwarder is never without the
  library it forwards to (`ForwarderHasRelay`), and a mixture is told
  (`MixedIsTold`).
* `ForeignKept`: a file Steam brought before an operation looked is not overwritten.

The computation of the optimized bytes (binary delta, recipe) succeeds or fails.

### ProviderStaging

The package is copied into KF2's `Published` directory under a marker, and settings
of KFEngine.ini and KFGame.ini load it and turn logging on. `job` and `pc` are the
operation in progress, with its removal as a subroutine; `user` is the value the
player last gave each setting. Staging, restoring and start-up recovery stop or fail
between any two file operations.

* `StagingIsReversible`: a logging setting that differs from the player's has the
  staged value and its baseline is on disk (`LoggingIsOwed`); health `clean` means
  that neither package nor marker nor setting is left (`CleanIsClean`); empty
  directories may stay.
* `ForeignPackageKept`: a removal never deletes a file of the player in place of the
  package, also one that comes late; a staging overwrites it only if it was put there
  after the staging had found the place free (`late`).

A package may appear at any moment, also between the check that the target is free
(`offline_telemetry_lab.cpp:679`) and the replacement (709), which then overwrites it;
the code holds no lock there. Directories made before one that cannot be made stay, with
nothing on record. Nobody writes an INI between its reading and its replacement in one
operation.

### FrameCap

Two INI files get the same cap, and the program's settings its target. `Arm` writes
the recovery record (original bytes and hashes of those to come), `Write` replaces a
file that still holds what was read, `Verify` reads both back, `Finish` empties the
record; `Recover`, `RestoreFile`, `Retire` undo what a record tells of; `Start`,
`SetTarget`, `Synchronize`, `ReturnTarget`, `Done`, `Failed` are the callers. A content
is its cap and the number of edits others made to the rest.

* `HalfIsOwed`: while the files disagree, a record holds originals that agree.
* `ShownIsCapped`: an idle program without a notice shows what both files hold.
* `EditsKept`: no edit of KF2 or the player is taken back.

### VideoSettings

A document maps each key the program reads to the values of its lines. `Reload` and
`Poll` read three files between two looks at their write times; `Choose` is the
player; `Save`, `Check`, `Built`, `Apply` reread, rebase the choice on what the files
hold now and write the keys of what changed; `BeginWrite` and `EndWrite` are KF2's
menu or an editor, with keys removed, repeated or spoilt. The table of options,
keys and values follows the source.

* `SavedIsAsked`: saved files read back as the choice of the player. What is asked is
  what differs from the values that were read: a choice put back to the value read is
  no request (`rebase_video_changes`), even when KF2 wrote that key meanwhile.
* `OthersKept`: a save changes no key of another option.
* `ShownIsCurrent`: while the write times are the remembered ones, the page shows
  what the files hold.

Read as the code has them: the texture groups are always there; an anisotropy that
no level lists is shown as the next known one; vertical sync and variable rate are
turned off by every save (`Forced`). A resolution is its value, not its place in
the list; keys that are written and never read are left out.

### FlexObservation

Inside the game the forwarder keeps a slot for each live solver under a lock
(`Game(t)`: create, update, destroy, step by step) and publishes the sums word by
word between two steps of a sequence number; the optimizer reads them without a lock
(`Reader`). The game uses a solver only between creation and destruction; the library
may reuse its address.

* `TrackingIsExact`: the slots are the solvers of the game.
* `AcceptedIsPublished`: what the reader accepts is one completed publication.

### GameLog

`LoadMap`, `Travel` and `Lines` are the game's current world writing lines, each
parsed as `GameLogSessionParser` does; `EndChunk`, `Expire` and `Drain` are the chunk
boundaries, the ageing of observations and the telemetry stage that places the start
of the FPS statistics. A measurement is named by the world that wrote it.

* `SessionIsOneWorld`: no count, wave, sample or control port of an earlier world is part
  of the session, a sample is one line, and after a drain the statistics cover one
  scene. The ended phase of a match is not included: a receipt for the same map leaves
  it (`NewWorldIsNew`, see "Beyond the runs").

### PresentCapture and PresentDrain

`PresentCapture`: the game's Present calls (`PresentStart`, `PresentStop`), the buffers
of the trace session that may lose either (`Flush` tells how many), the trace thread
that pairs them (`ReadEvent`), the streams of `PresentSource`, and the UI thread that
resets them or replaces a silent session. The number of a call is its time, the game
presents from one thread.

* `CertifiedMissesNothing`: a window certified as lossless holds every call whose
  Start was read, as long as no Start was paired with the Stop of another call.

`PresentDrain`: the worker that computes statistics (`TakeRequest`, `Compute`,
`Publish`) while presents are admitted, requested, reset or given a new boundary.

* `PublishedIsCurrent`: what can be read was computed after the last reset, and from
  no present before the boundary.

### AsyncWriter

`Submit` queues bytes for a target or renews the queued ones, `Wait` and `Answer` ask
for a ticket, `Take`, `Write`, `Publish` are the worker, `Fail` its failure, `Destroy` and
`End` the destructor. The bytes of a submission are its ticket.

* `SavedIsOnDisk`: a ticket told as saved is on disk with its own bytes or newer ones
  of the same target, then and later; a destructor that returns without a failure
  has left nothing unwritten.

A wait that answers "not saved" may be wrong the other way: an outcome that was
evicted, or never published, and a timeout are told as failures. `wait_until_idle`
is used by tests only and is left out.

## Runs

| Run | Shows | Bounds |
|---|---|---|
| `config_apply` | the safety of a change with an edit, a failing call and a crash anywhere, retention, and that it implements `AtomicConfig` | 2 files, 3 contents (original, proposed and foreign bytes differ), 1 backup kept, 2 changes: the second meets and prunes what the first left, settled or pending |
| `update` | safety of the update, and that the helper ends | 2 files, 5 instances, 2 starts by the user, 2 failing calls, 2 deaths: enough for a failing rollback that a second start repeats, and for each of the three accidents |
| `session` | the protected session | 2 files, 2 graphics settings; no bound on sessions, crashes or failures, the state is finite; a behaviour is followed until KF2 overtakes the optimizer (`NotOvertaken`) |
| `session_graphics` | `ConfirmedChangeKept` fails when the optimizer does not live to see the end of the game | 1 file |
| `event_log` | the event log reaches the disk and its drain ends | capacity 2, one ordinary and two audit events, 3 changes, one failing write besides the first: enough to evict either kind, to refuse an event and to log during a write that fails |
| `event_log_stop` | `StopEnds` fails for an idle worker | as `event_log` |
| `adaptive` | the control channel | 2 levels, 2 processes, 2 worlds, 2 changes of mind, 1 fault: a receipt or command of an earlier process and world meets the next |
| `governor` | the governor | one resource, 3 levels, one spell of rough play; six kinds of samples with every timer one tick: a reduction, its judgement, its rollback and the next one fit |
| `maintenance` | package maintenance | 2 files and the manifest, 2 versions, 2 starts, 1 failure, 2 commands, time 3 with a first retry after 2 |
| `telemetry` | that what the telemetry worker reads arrives | 2 sessions, 1 adapter, 1 queued chunk, 2 lines, 3 generations, 1 failing call: a binding that goes away and comes back |
| `game_files` | `FlexTransaction`, `ProviderStaging`, `FrameCap`, `VideoSettings` | 2 settings; rates 60 and 90, 1 edit a file, 2 failures, 1 kill; staging with 1 failure and 2 edits; 3 choices and one foreign write, over every option alone, the overall quality and the two pairs of options whose keys overlap; the FleX transaction without bounds |
| `game_watch` | `FlexObservation`, `GameLog`, `PresentCapture`, `PresentDrain`, `AsyncWriter`, safety of `EventLog` and of `TelemetryWorker` | 2 threads, 2 addresses, one slot, 2 attempts; 2 maps, 2 worlds, 4 lines; 3 swap chains (symmetric) for 2 streams, 3 calls, 1 restart, 1 reset; 3 presents and 3 changes; 2 targets, 4 tickets, 2 outcomes kept, 1 failure; the event log as in `event_log`, the telemetry worker as in `telemetry` |

Two files are enough for "some but not all files are changed", the situation every
recovery is about; a third file adds no new order of journal and file. Where a pool
is limited (slots, streams, outcomes, queued chunks) its limit is smaller than the
number of things that want a place.

The two violations:

* `session_graphics`: a graphics change confirmed during the game is in memory
  only until the restore begins, and the restore returns early while KF2 runs;
  closing the optimizer first loses the change without a word (against
  `docs/CHANGELOG_0.0.5-alpha.md:496`).
* `event_log_stop`: the destructor of the event log requests the stop and
  notifies without the mutex; in the moment between the worker's test and its
  sleep nobody is notified, and the join does not return (against
  `docs/DEVELOPER_GUIDE.md:113`).

### Beyond the runs

Modules state further claims of the documentation, or exempt something from a claim that a
history variable remembers. TLC finds each of the following when a configuration asks for
the claim, or for the property without its exemption:

* `ConfigTransaction` without the exemption of `Abandon`: `verify_existing_commit` leaves
  the target replaced when it cannot open the captured file, and `apply_preview` closes
  the journal; `ChangeCanBeUndone` fails (against `docs/SAFETY.md:101`).
* `ConfigTransaction` without `overlapped`: pruning removes the journal of a pending
  change, and `ChangeCanBeUndone` fails; with two backups kept and two failing calls,
  pending changes of one file are recovered in directory order, so the later one
  brings back bytes of the earlier, and `AllOrNothing` fails (against
  `docs/USER_GUIDE.md:260`).
* `UpdateTransaction` without `mishaps`: after a start before the journal the cleanup
  instance waits for the process that started it, not for a helper that has no journal
  yet, and `CleanupAfterHelper` fails (against `docs/UPDATES.md:76`). Removal starts with
  the backup, so cut short it leaves a journal that cannot be recovered, and
  `JournalIsAuthority` fails (against the comment at `src/update/update_helper.cpp:919`).
  A start that cannot read an intact package takes it for a damaged one and undoes the
  verified update; `TornIsSafe` and `OutcomeIsTrue` fail (`update_transaction.cpp:999`).
* `ProtectedSession` without `overtaken`: KF2 started between the check that it does not
  run and the end of the restore loads session values and writes them back, and
  `TempIsCovered` fails. With the exemptions, and without the constraint of the run,
  everything the run checks holds in all 13,070,670 states, `SessionSettles` included;
  that takes seven minutes on four cores.
* `ProviderStaging!OccupiedNeverOverwritten`: a package put in place after the check is
  overwritten (`offline_telemetry_lab.cpp:709`, against the message at line 682, "it was
  not overwritten").
* `FlexTransaction`: a library that Steam brings after `require_known_current` has looked
  is replaced; `ForeignKept` speaks of those that were there.
* `AdaptiveControl!RestoreBeforeResume`: the mode is confirmed over a debt that is
  still open (`telemetry_session_stage.cpp:279`, against `docs/HOW_IT_WORKS.md:83`).
* `AdaptiveGovernor!PromiseKept`, with two resources and mixed samples: a reduction
  of everything goes below the floor of one resource
  (`telemetry_adaptive_controller.cpp:371`, against `telemetry_adaptive_stage.cpp:350`).
* `Maintenance!OfferIsNewer`: the first start after an update may offer the version
  that is now installed (`update_controller.cpp:70`, against `docs/UPDATES.md:9`).
* `GameLog!NewWorldIsNew`: after a travel to the same map the session may stay at
  the end of the match before (against the parser's test, "still a new World").
* `PresentCapture!LostStopNeverMatches`: a Stop can be paired with the Start of an
  earlier call when the Stop of that one and the Start of its own are lost (against
  the comment of the trace thread); `CertifiedMissesNothing` is claimed up to then.

### Fairness and deadlock

`ConfigTransaction` assumes weak fairness of `Work`, the steps of the operation the
UI thread has begun; `UpdateTransaction` of the helper's steps, all of whose waits
have deadlines; `ProtectedSession` of what the UI thread has begun and of its
periodic timer; `EventLog` of the worker thread, of a destructor that has begun and
of time. `AdaptiveControl` assumes that the telemetry timer ticks, that a due retry
and a binding are noticed, that a connected KF2 serves its socket and retries its
restoration (both run in its own tick); `AdaptiveGovernor` that the timer ticks and
that a command sent is answered or fails, since the client has a timeout;
`TelemetryWorker` that the worker runs when woken and the timer requests and takes;
`Maintenance` that a repair under way proceeds and is polled. None assumes anything
of the user, of the game's play, of other programs, of failures or of other
instances. `CalmRecovers`, `SessionSettles` and `LinesArrive` name in their premises
what they need of them.

Deadlock is checked in `config_apply`, `session_graphics`, `governor` and `game_files`
(where only the FleX part may idle for ever). It is off in the others: the bounds on
changes, starts and failures let every behaviour come to rest, a user may leave the
program closed, and a destroyed log does nothing.

## Proofs

No theorem assumes more than the named assumption on the constants, and no path of the
code is switched off by one. Where the code gives a promise up, the property says up to
what it is claimed, by a history variable (`overlapped`, `touched`, `overtaken`, `mishaps`,
`late`, `mixed`, `unseen`); what happens beyond is told under "Beyond the runs". The
invariants of those proofs have the form "claimed until", and a lemma says that the
history variable never goes back (`OverlapStays`, `OvertakenStays`, `MishapsStay`). Each
invariant below was first checked by TLC on the constants of the run, or larger ones.

`ConfigTransactionProofs` proves for any number of files, any contents and any
bounds, from `ConstantsAssumption`:

* `TypeCorrect`: `Spec => []TypeOK`. `TypeOK` is not inductive: `RecoverFinish`
  needs `tx` to be a backup and the settling steps need `captured` to be bytes.
  `Position` adds what each value of `pc` promises about `tx`, `at` and
  `captured`; `TypeInv` is their conjunction.
* `BackupChainHolds`: `Spec => []BackupChain`. The strengthening says that, while
  the blobs of a backup are being stored, those of the files already passed are
  there, and that a backup in use by the operation at hand has its manifest.
* `PendingVisible`: `Spec => []PendingIsVisible`. The strengthening follows the
  journal of the operation at hand: outside recovery a pending journal is that
  one, or the banner is up already; during recovery it is still to be visited.
* `ChangeUndoable`: `ChangeCanBeUndone`. Until changes overlap, `DebtInv` says of each
  debt where its undoing stands: it is owed to the one pending journal, the file still
  holds the proposed bytes, and the loop that will undo it, rollback or recovery, has
  not passed the file (`Ahead`). That needs `OneChangeInv`, one pending journal and it
  is that of the change at hand, and `WrittenInv`, only files that differ are replaced;
  `UntouchedInv` and `NewestInv` (the manifest just written is the newest) complete it.
* `EditsSurvive`: `EditSurvives`. `EditInv` follows an edit through the file, the
  captured sibling and the blobs, and says that it is not mistaken for proposed bytes
  (`Told`).
* `ImplementsAtomicConfig`: `AllOrNothing`, the refinement of `AtomicConfig`. Until changes
  overlap, `UntouchedInv` gives the contents of a file nobody else touches at every
  position of the loops, `SettledKnown` what it reads through the journals. Most steps
  change nothing that untouched files read (`Quiet`): they are stutters, or `Compete`
  where files others touched are taken up or given back. `Verified` is `Commit`; a
  preview, a restore or a backup of its own is `Request`, a journal taken up by recovery
  `Resume`, an edit `Edit`. Once changes overlap all files compete, so any step is
  `Compete`, `Resume` or `Overlap` (`OverlapStep`).

`ProtectedSessionProofs` proves from `SessionAssumption`, the first three until the game
is started between a check that it is closed and the end of what relies on it, for any
INI files and graphics settings and any sessions, failures and crashes:

* `SessionAlwaysCovered`: `SessionIsCovered`. `CoveredInv` adds that what the game may
  still write is covered by the snapshot as well (`GameIsCovered`), that a capture is
  complete and taken from files without session values before anything is staged
  (`CaptureIsWhole`), and that restoring takes every session value back before it
  touches the snapshot (`RestoreIsOrdered`).
* `NothingStaysHidden`: `NothingIsHidden`. `HiddenInv` adds that, past the first steps
  of the start, a session that is not in memory is announced or there is none, and at
  which steps a launch offered as prepared may be taken apart.
* `RecordsAlwaysServe`: the action property `RecordsServeTheirTime`. `RecordsAreFollowed`
  relates graphics, snapshot and replay record at each step of a restoration.
* `SessionTyped`: `Spec => []TypeOK`, also after such a start. `RecordAtHand` says that from
  the first file written back to the check of the result the graphics confirmed in memory
  are those on record, and that a replay starts only if there is a record.

`UpdateTransactionProofs` proves from `UpdateAssumption`, for any number of managed files,
instances, failures and deaths:

* `TornAlwaysSafe` and `OutcomeAlwaysTrue`: `TornIsSafe` and `OutcomeIsTrue`, up to an
  early or misreading recovery. `UpdateInv`
  says what each step of the helper has established (`HelperKnows`), who else may run
  beside it (`OthersWait`), what package each kind of instance lives in
  (`KindsAreSettled`), that removal only starts, and a journal only lacks its backup,
  when nothing is left to repair (`CleaningIsLate`), and what a reported result rests
  on (`ResultIsTrue`). An exit code stays true because no later step
  can undo a `Settled` package.
* `FilesAlwaysThere`: `FilesAreThere`; `AuthorityUntil` is the part that a removal cut
  short ends.
* `UpdateTyped`: `Spec => []TypeOK`; `TypeOK` is inductive.

`AdaptiveGovernorProofs` proves from `GovernorAssumption` alone, for any resources,
steps, dwells, windows and samples:

* `ControllerTyped`: the controller's records keep their types, so no age passes its cap,
  no quality leaves the range of the user's and no command asks for a quality KF2 does
  not have. This one is not shallow: the bodies of `Evaluate` and `Select` are built from
  minima over sets and from nested choices, and their lemmas (`EvaluateIs`, `SelectIs`,
  `DemandIsLevel`, `ControlsIs`) serve the other two theorems.
* `NothingGoesUnjudged`: `NothingUnjudged`. `ResponseIsWhole` adds that what is being
  measured was applied at a known time from a known quality.
* `EvidenceIsAlwaysOwn`: the action property `EvidenceIsOwn`. The code keeps timers, the
  model beside them what has been observed since the last change (`proof`). `Backed`
  says that the timers never run ahead of it: a harsh pressure is confirmed, a harsh
  candidate was pressed for at least as long as its timer says, and calm is no older
  than the healthy candidate. `RestIsFresh` carries that over the end of a
  gameplay window, `DoubtIsNoReduction` over a rollback in doubt.

`AdaptiveControlProofs` proves from `AdaptiveControlAssumption`, for any number of
quality levels, processes, worlds, switches and faults:

* `QualityStaysAccounted`: `QualityIsAccounted`. A receipt tells what KF2 did when it
  handled the command; the optimizer takes it ticks later, when the game may have
  travelled, exited or been told something else, and a worker may have given up on a
  command that is still to be read. `Replies` lists what KF2 makes of a command: the
  quality stays, is set, is set with a rollback that failed, goes back to what a
  failed rollback owed, or goes back to the user's. `ChannelInv` says what may lie
  between command and receipt: worlds and processes grow (`Numbering`), no quality
  command is sent behind a quality command nor anything but a disable behind a mode
  (`Waiting`), what is remembered as asked is what is on the wire (`Asking`), so that
  an applied quality is the one asked for and no older command follows it
  (`Applied`, `Requested`). `Proved` is the heart of `RestoredStays`: a disable that was
  applied, a mode confirmed off, and a close with the game restored each leave the
  game at the user's quality with no fresh command under way. `Untouched` says that a
  game the optimizer was never bound to is left alone, which makes a debt that moves to
  a new process harmless; `Owned` is `ReductionIsOwned` told for the quality a failed
  rollback would restore as well, without which it is not inductive.
* `DebtsArePaid`: the action property `DebtIsPaid`, from the same invariant: a tick strikes
  off a debt only on a disable that `Proved` covers, a switch and a close only on a
  receipt they waited for.
* `ChannelTyped`: `Spec => []TypeOK`.

`GameFilesProofs` proves from `FilesAssumption` (rates are positive numbers, the values
that are no record, no write times and no texture tuple are none), for any rates,
settings, menus, edits, failures and kills. Each part has an invariant of its own; a
step is of one part (`StepOfOnePart`), and `FilesInv` is their conjunction:

* `RuntimeStaysWhole`: `RuntimeIsWhole`. `PlanInv` says of the rest of a plan what its
  first step may rely on and in which order the others follow (`InstallOrder`,
  `RestoreOrder`), as predicates of files and marker, so that what holds before a file
  operation and what holds after it are instances of one definition; `MarkerSays` is
  what each state of the marker promises about the saved originals.
* `StagingStaysReversible`: `StagingIsReversible`. `LoggingInv` adds that a baseline is kept
  as long as a setting is not the player's, `RemovalInv` how far a removal has come and
  where it goes from there.
* `HalfAlwaysOwed` and `ShownAlwaysCapped`: `HalfIsOwed` and `ShownIsCapped`. `CapInv`
  adds that a record that is ours holds originals that agree and differs from what is
  applied in the caps only (`RecordIsWhole`), what each step promises about record and
  files (`Progress`), and that a change under way knows the target to return to
  (`ChangeIsKnown`): without the last, a failed change would show a target nobody
  capped.
* `ShownStaysThere`: `ShownIsThere`, from `CapInv` and, for the graphics, `VideoInv`:
  remembered write times are never later than those of the files, and what was read
  under write times that are still those of the files is what they hold.
* `SavedReadsAsAsked`: the action property `SavedIsAsked`. `WishInv` says that the choices
  that differ from what was read are those the player asked for, and that the plan is
  the edit of what was read for them; `TuplesInv`, that a texture group is spoilt or all
  tuples. The rest is the round trip between choice and keys, option by option
  (`KeysReadBack`, `TexturesReadBack`): the thresholds of `Chosen` are those of `Keyed`.
* `ForeignWritesStay` and `EditsAlwaysKept`: the action properties `ForeignWritesKept` and
  `EditsKept`, from the same invariants.

`GameWatchProofs` proves from `WatchAssumption` and `WriterAssumption`, for any threads,
solvers, slots, worlds, lines, swap chains, calls, presents and targets:

* `TrackingStaysExact`: `TrackingIsExact`. `TrackingInv` follows each thread through
  creating, counting and destroying a solver: a solver is in the hands of one thread at
  most (`SolversHaveOneUser`), and the slots are the solvers but for those a thread is
  about to enter or to clear (`SlotsFollow`).
* `AcceptedWasPublished`: the action property `AcceptedIsPublished`. `MemoryInv` says what
  the words are while a writer is half way through them, `ReadingInv` which words
  a reader that saw an even sequence number can have.
* `ShownStaysTogether`: `ShownBelongsTogether`, from `LogInv` (what the parser holds is of
  the world whose receipt it read) and `DrainInv` (what the drain computes is of the
  scene it was handed).
* `CertifiedAlwaysMissesNothing`: `CertifiedMissesNothing`. `CaptureInv` places each call
  whose Start was read: pending, paired, or behind a recorded loss.
* `NothingIsForgotten`, `FlushTellsTheTruth` and `HealthyExitIsDrained`: the
  invariants `NothingForgotten`, `FlushIsTruthful` and `HealthyExitDrains`. None is
  inductive. `Persistence` adds that a copy being written lies between what is
  persisted and the present and equals the log if nothing came since
  (`CopyIsRecent`), that a healthy writer that has persisted the present revision
  has the log in the file (`FileIsPersisted`), and what the end of the worker
  means (`EndIsDrained`).
* `HandOffStaysExact`: `HandOffIsExact`. `HandInv` adds that what belongs to a binding
  that went away is void wherever it lies, until the worker has closed its log
  (`BindingFollows`), that a reader is never beyond the end of its file and behind what was
  there when it opened it only while it catches up (`ReadingOrdered`), and that a line
  begins at most one pre-warm, which is behind the reader from the moment it is offered
  (`PrewarmOrdered`). What the UI makes of a queue is a recursive function of it; that one
  chunk more adds its lines and nothing else (`ConsumedAppend`) follows from the
  least length at which it would not, which `WellFoundedInduction` provides.
* `SavedStaysOnDisk`: `SavedIsOnDisk`. `WriterInv` adds that tasks answer only older
  tickets of their own target (`Types`), that a target has one queued task, newer
  than the one being written and than the file (`Newer`), and that without a failure
  everything not written is queued or being written (`NothingLost`).

`MaintenanceProofs` proves for any package, versions, intervals, starts, failures
and commands:

* `OneMaintainerHolds` and `ConsentIsHonoured`: `OneMaintainer` and
  `ConsentHonoured`. `Gate` adds what keeps the three apart: the phase stays at
  `installing` from the start of an installation to the exit, which no repair
  enters; `Approved` ties the offer under installation to what the user wanted.
* `FailureStaysContained`: the action property `FailureIsContained`. `Recorded` says that,
  from the moment an automatic check is on disk, controller and state file both hold
  at least one failure and an attempt no older than that check (`Remembers`); a start
  reads it and waits. `Fresh` says that a request lives with its process, so only the
  constructor begins one after a restart, and that a repair which has not compared the
  files has nothing to undo. `RetryWaits`, that no retry delay is below the first
  however many failures there were, is proved by the least count for which it is false.
* `MaintenanceTyped`: `Spec => []TypeOK`. Beyond `TypeOK` one release is the newest, so that
  the choice of `Newest` exists, and a repair is somewhere in its plan; that the plan lists
  managed files rests on the bijections of finite sets (`SeqOfSet`).

Every invariant and every action property of a passing run is stated by a theorem.
Only model-checked: all liveness (`HelperEnds`, `SessionSettles`, `WorkIsDone`,
`CalmRecovers`, `CloseHonoured`, `LinesArrive`), which the prover does not cover, and the
two properties that the code violates (`SessionHistory` and `EventLog`), which are none
to prove.

## Not modelled

* Overlay, layout, drawing, animation, formatting and the presentation stage: they
  compute what is shown from the sample at hand and keep no state of consequence.
  What gates an action is modelled where the action is.
* The FleX overlap runtime (`src/flex/optimized`): it presents through D3D and CUDA;
  what it does depends on fences and streams of libraries outside the repository.
* System and GPU counters, game discovery, catalogs, `advanced_settings.cpp`: they
  query and keep the last value, only read, are tables, or edit as `VideoSettings`
  does with other keys.
* The byte layout of manifests, records, archives and deltas, hashes and
  identities: each is whole or not, equal or not.
* Temporaries, retries of a busy file and quarantine of `atomic_file.cpp`; rotation
  of the log of the previous session; crash recorder and reports, which write once.
* In the telemetry worker the chunk of expired observations, and the handler in `run`
  that makes a failure permanent; in the parser of the game log its reset, a log that is
  truncated or replaced while it is read (the worker's reopening is modelled in
  `TelemetryWorker`, the drain's resets in `PresentDrain`); in the trace thread the
  handler of an exception (`dxgi_frame_timing_session.cpp:268`, which clears what is
  pending and counts an unreported loss) and payloads that are too short.
* In the graphics settings the branches of `apply`, `reload` and `synchronize` for a
  protected session; `ProtectedSession` models what they do to the session.
* In the governor the labels, fixed effect budgets, start-up GPU profile and the two
  watchdogs; in the session the rebuilds after advanced settings or a new game folder.
* Build, packaging and research tools: no run-time state.

## What is left

Modules worth adding: a module of `atomic_file.cpp` with its
temporaries, shown to implement the one-step replacement the others use, and the
composition of `AdaptiveControl` with `AdaptiveGovernor`, whose product is beyond TLC
with the present bounds.
