---------------------------- MODULE Maintenance ----------------------------
(***************************************************************************)
(* What maintains the installed package while the application runs: update  *)
(* checks with their saved state and back-off, the installation up to the   *)
(* hand-over to the update helper, Auto Repair and the manual import of     *)
(* required files (src/update/update_controller.cpp, update_state.cpp,      *)
(* github_release_client.cpp, update_package.cpp, src/app/                  *)
(* application_update.cpp, application_package_repair.cpp, src/security/    *)
(* release_package_repair.cpp, package_integrity.cpp).                      *)
(*                                                                         *)
(* The window thread runs one handler at a time; each network request and   *)
(* Auto Repair has a worker thread whose outcome a later tick polls.  The   *)
(* helper itself is UpdateTransaction: here it leaves the old version or    *)
(* the new one.  A version is a number; a file is as released ("good"), was  *)
(* found different ("bad"), is missing ("none") or was changed by somebody  *)
(* else meanwhile ("odd").  The clock may be set back.                      *)
(***************************************************************************)
EXTENDS Naturals, Sequences, SequencesExt, FiniteSets

CONSTANTS
    Files,          \* managed files apart from the manifest
    Exe,            \* the running executable, one of Files
    Versions,       \* versions that may be published; the first is installed
    RetryInitial, RetryMaximum, CheckInterval,  \* of automatic checks
    MaxTime, MaxBoots, MaxFaults, MaxWishes     \* bounds

ASSUME MaintenanceAssumption ==
    /\ Exe \in Files /\ Files \subseteq STRING /\ IsFiniteSet(Files)
    /\ Versions \subseteq Nat \ {0} /\ 1 \in Versions
    /\ {RetryInitial, RetryMaximum, CheckInterval} \subseteq Nat \ {0}
    /\ RetryInitial <= RetryMaximum
    /\ {MaxTime, MaxBoots, MaxFaults, MaxWishes} \subseteq Nat /\ MaxTime >= 1

Manifest == "manifest"
Managed == Files \cup {Manifest}
None == 0
NoOffer == [version |-> None, asset |-> FALSE]
Offers == [version : Versions, asset : BOOLEAN]

VARIABLES
    app,        \* [on, boots, closing, asked, picker]: process and window
    ctl,        \* UpdateController::snapshot_
    disk,       \* update-state.ini
    time,       \* the wall clock
    faults,     \* how many failures have happened
    published,  \* the releases on GitHub
    check,      \* updates.check: the worker and its outcome
    install,    \* updates.install with the work directory
    repair,     \* package_repair_state, or an import under way
    files,      \* [Managed -> content] of the installed package
    installed,  \* its version
    helper,     \* the version handed to the update helper
    seen,       \* history: [asked, wanted]
    wishes      \* how many commands the user has given

vars == <<app, ctl, disk, time, faults, published, check, install, repair, files,
          installed, helper, seen, wishes>>
window == <<ctl, disk, check, install, seen>>
world == <<time, faults, published, files, installed, helper>>

Idle == [pc |-> "none", result |-> NoOffer]
NoRepair == [pc |-> "none", by |-> "none", plan |-> <<>>, done |-> 0,
             undone |-> TRUE]
NewController(auto) ==
    [phase |-> "idle", offer |-> NoOffer, completed |-> FALSE, cached |-> None,
     ignored |-> None, dismissed |-> FALSE, auto |-> auto, last |-> 0,
     attempt |-> 0, failures |-> 0]
NoState == [last |-> 0, result |-> "unknown", version |-> None,
            ignored |-> None, attempt |-> 0, failures |-> 0]

Times == 0 .. MaxTime
Version0 == Versions \cup {None}
Contents == {"good", "bad", "none", "odd"}

TypeOK ==
    /\ app \in [on : BOOLEAN, boots : 0 .. MaxBoots, closing : BOOLEAN,
                asked : BOOLEAN, picker : BOOLEAN]
    /\ ctl \in [phase : {"idle", "checking", "available", "current", "error",
                         "installing"},
                offer : Offers \cup {NoOffer}, completed : BOOLEAN,
                cached : Version0, ignored : Version0, dismissed : BOOLEAN,
                auto : BOOLEAN, last : Times, attempt : Times, failures : Nat]
    /\ disk \in [last : Times, result : {"unknown", "current", "available"},
                 version : Version0, ignored : Version0, attempt : Times,
                 failures : Nat]
    /\ time \in Times \ {0} /\ faults \in 0 .. MaxFaults
    /\ published \subseteq Offers
    /\ check \in [pc : {"none", "running", "found", "failed"},
                  result : Offers \cup {NoOffer}]
    /\ install \in [pc : {"none", "running", "prepared", "failed"},
                    result : Offers \cup {NoOffer}]
    /\ repair.pc \in {"none", "query", "replace", "rollback", "done",
                      "failed", "recovery"}
    /\ repair.by \in {"none", "auto", "import"}
    /\ files \in [Managed -> Contents]
    /\ installed \in Versions /\ helper \in Version0 /\ wishes \in 0 .. MaxWishes

Init ==
    /\ app = [on |-> FALSE, boots |-> 0, closing |-> FALSE, asked |-> FALSE,
              picker |-> FALSE]
    /\ ctl = NewController(TRUE) /\ disk = NoState
    /\ time = 1 /\ faults = 0
    /\ published = {[version |-> 1, asset |-> TRUE]}
    /\ check = Idle /\ install = Idle /\ repair = NoRepair
    /\ files \in [Managed -> {"good", "bad", "none"}]
    /\ files[Exe] = "good" /\ installed = 1 /\ helper = None
    /\ seen = [asked |-> 0, wanted |-> None] /\ wishes = 0

-----------------------------------------------------------------------------
(* The update state.                                                        *)

Persisted(c) ==
    [last |-> c.last, ignored |-> c.ignored, attempt |-> c.attempt,
     failures |-> c.failures,
     result |-> IF ~c.completed THEN "unknown"
                ELSE IF c.cached # None THEN "available" ELSE "current",
     version |-> IF c.completed THEN c.cached ELSE None]

(* load_update_state: what cannot be read counts as nothing known.            *)
Loaded(readable) == IF readable THEN disk ELSE NoState

(* restore_preferences                                                      *)
Restored(d, auto) ==
    LET completed == d.result # "unknown" /\ d.last > 0
        cached == IF completed /\ d.result = "available" THEN d.version ELSE None
    IN  [NewController(auto) EXCEPT
            !.last = d.last, !.completed = completed, !.cached = cached,
            !.ignored = d.ignored, !.attempt = d.attempt,
            !.failures = IF d.attempt > 0 THEN d.failures ELSE 0,
            !.dismissed = cached # None /\ cached = d.ignored]

(* automatic_failure_retry_seconds: doubled with every failure but the first.*)
RetryAfter(failures) ==
    LET delay[n \in 0 .. failures] ==
            IF n <= 1 THEN RetryInitial
            ELSE IF 2 * delay[n - 1] < RetryMaximum THEN 2 * delay[n - 1]
            ELSE RetryMaximum
    IN  delay[failures]

Within(past, span) == past > 0 /\ time >= past /\ time - past < span

(* A backward wall-clock jump makes the stored time stale, not recent.       *)
Throttled(c) ==
    \/ Within(c.last, CheckInterval)
    \/ c.failures > 0 /\ Within(c.attempt, RetryAfter(c.failures))

(* Mutant: a check may begin while the approved package is being prepared    *)
BeginsWhileInstalling(c, trigger) ==
    c.phase # "checking" /\ (trigger = "automatic" => c.auto /\ ~Throttled(c))

Begins(c, trigger) ==
    /\ c.phase \notin {"checking", "installing"}
    /\ trigger = "automatic" => c.auto /\ ~Throttled(c)

Checking(c, trigger) ==
    [c EXCEPT !.phase = "checking", !.offer = NoOffer, !.attempt = time,
              !.failures = IF trigger = "automatic" THEN @ + 1 ELSE @]

(* complete_check with a release, or none that is newer.                     *)
Completed(c, offer) ==
    [c EXCEPT !.last = IF c.attempt > 0 THEN c.attempt ELSE @,
              !.failures = 0, !.offer = offer, !.completed = TRUE,
              !.cached = offer.version,
              !.dismissed = offer # NoOffer /\ offer.version = c.ignored,
              !.phase = IF offer = NoOffer THEN "current" ELSE "available"]

Fails(did) ==
    /\ did => faults < MaxFaults
    /\ faults' = IF did THEN faults + 1 ELSE faults

(* persist_update_snapshot: atomic_replace_utf8, which may fail.             *)
Saves(c, saved) == disk' = IF saved THEN Persisted(c) ELSE disk

-----------------------------------------------------------------------------
(* GitHub.                                                                  *)

(* parse_github_releases: the newest release above the installed version.    *)
Newest ==
    LET newer == {r \in published : r.version > installed}
    IN  IF newer = {} THEN NoOffer
        ELSE CHOOSE r \in newer : \A other \in newer : other.version <= r.version

(* parse_exact_github_release: the package of the installed version.         *)
ExactRelease == [version |-> installed, asset |-> TRUE] \in published

Publishes ==
    /\ \E v \in Versions, asset \in BOOLEAN :
          /\ \A r \in published : r.version < v
          /\ published' = published \cup {[version |-> v, asset |-> asset]}
    /\ UNCHANGED <<app, window, time, faults, repair, files, installed, helper>>

-----------------------------------------------------------------------------
(* The window thread.                                                       *)

Stopped(a) == [a EXCEPT !.on = FALSE, !.closing = FALSE, !.asked = FALSE,
                        !.picker = FALSE]
Responsive == app.on /\ repair.by # "import"
Busy == repair.pc # "none" \/ ctl.phase \in {"checking", "installing"}

(* start_update_check on the controller c: the attempt is on disk before the *)
(* request is made.                                                         *)
StartsCheck(c, trigger, saved, launched) ==
    LET begun == Checking(c, trigger) IN
    /\ Saves(begun, saved)
    /\ ctl' = IF launched THEN begun ELSE [begun EXCEPT !.phase = "error"]
    /\ check' = IF launched THEN [pc |-> "running", result |-> NoOffer] ELSE check
    /\ seen' = [seen EXCEPT !.asked =
                  IF trigger = "manual" THEN @
                  ELSE IF saved THEN time ELSE 0]

(* The constructor: the state is read, or read as empty when it cannot be,   *)
(* and the automatic check is tried.                                        *)
Boot ==
    /\ ~app.on /\ helper = None /\ app.boots < MaxBoots
    /\ app' = [Stopped(app) EXCEPT !.on = TRUE, !.boots = @ + 1]
    /\ \E readable, saved, launched \in BOOLEAN :
          LET c == Restored(Loaded(readable), ctl.auto) IN
          /\ Fails(~readable \/ ~saved)
          /\ \/ Begins(c, "automatic") /\ StartsCheck(c, "automatic", saved, launched)
             \/ /\ ~Begins(c, "automatic") /\ saved /\ launched
                /\ ctl' = c
                /\ seen' = IF readable THEN seen ELSE [seen EXCEPT !.asked = 0]
                /\ UNCHANGED <<check, disk>>
    /\ UNCHANGED <<time, published, install, repair, files, installed, helper>>

ManualCheck ==
    /\ Responsive /\ Begins(ctl, "manual")
    /\ \E saved, launched \in BOOLEAN :
          Fails(~saved) /\ StartsCheck(ctl, "manual", saved, launched)
    /\ UNCHANGED <<app, time, published, install, repair, files, installed, helper>>

PollCheck ==
    /\ Responsive /\ check.pc \in {"found", "failed"}
    /\ check' = Idle
    /\ \/ /\ ctl.phase # "checking"
          /\ UNCHANGED <<ctl, disk, faults>>
       \/ /\ ctl.phase = "checking" /\ check.pc = "failed"
          /\ ctl' = [ctl EXCEPT !.phase = "error"]
          /\ UNCHANGED <<disk, faults>>
       \/ /\ ctl.phase = "checking" /\ check.pc = "found"
          /\ ctl' = Completed(ctl, check.result)
          /\ \E saved \in BOOLEAN : Fails(~saved) /\ Saves(ctl', saved)
    /\ seen' = IF check.pc = "found" THEN [seen EXCEPT !.asked = 0] ELSE seen
    /\ UNCHANGED <<app, time, published, install, repair, files, installed, helper>>

Dismiss ==
    /\ Responsive
    /\ ctl.phase = "available" \/ ctl.cached # None
    /\ ctl' = [ctl EXCEPT !.dismissed = TRUE]
    /\ UNCHANGED <<app, disk, check, install, seen, repair, world>>

(* ignore_update: the proposed controller replaces the old one once saved.   *)
Ignored(c, saved) ==
    IF saved THEN [c EXCEPT !.ignored = c.cached, !.dismissed = TRUE] ELSE c

Ignore ==
    /\ Responsive /\ ctl.cached # None
    /\ \E saved \in BOOLEAN :
          /\ Fails(~saved)
          /\ Saves([ctl EXCEPT !.ignored = ctl.cached], saved)
          /\ ctl' = Ignored(ctl, saved)
    /\ UNCHANGED <<app, time, check, install, seen, repair, published, files,
                   installed, helper>>

ToggleAutomatic ==
    /\ Responsive /\ ctl' = [ctl EXCEPT !.auto = ~@]
    /\ UNCHANGED <<app, disk, check, install, seen, repair, world>>

(* begin_install_with_user_consent and the worker.                           *)
StartInstall ==
    /\ Responsive /\ ~Busy
    /\ ctl.phase = "available" /\ ctl.offer.asset /\ ~ctl.dismissed
    /\ \/ /\ ctl' = [ctl EXCEPT !.phase = "installing"]
          /\ install' = [pc |-> "running", result |-> ctl.offer]
          /\ seen' = [seen EXCEPT !.wanted = ctl.offer.version]
       \/ UNCHANGED <<ctl, install, seen>>      \* no folder or no worker
    /\ UNCHANGED <<app, disk, check, repair, world>>

PollInstall ==
    /\ Responsive /\ install.pc \in {"prepared", "failed"}
    /\ install' = Idle
    /\ \/ /\ install.pc = "prepared" /\ ctl.offer # NoOffer
          /\ helper' = ctl.offer.version
          /\ app' = [app EXCEPT !.closing = TRUE]       \* WM_CLOSE is posted
          /\ UNCHANGED <<ctl, seen>>
       \/ /\ ctl' = [ctl EXCEPT !.phase =
                       IF ctl.offer # NoOffer THEN "available" ELSE "error"]
          /\ seen' = [seen EXCEPT !.wanted = None]
          /\ UNCHANGED <<app, helper>>
    /\ UNCHANGED <<disk, check, repair, time, faults, published, files, installed>>

StartRepair ==
    /\ Responsive /\ ~Busy
    /\ repair' = [NoRepair EXCEPT !.pc = "query", !.by = "auto"]
    /\ UNCHANGED <<app, window, world>>

Finished == repair.pc \in {"done", "failed", "recovery"}

(* Mutant: the close that was put off is forgotten with the repair           *)
CloseForgotten(a) == [a EXCEPT !.asked = FALSE]

(* The WM_CLOSE that was put off is posted again.                            *)
CloseAgain(a) == [a EXCEPT !.asked = FALSE, !.closing = @ \/ a.asked]

PollRepair ==
    /\ app.on /\ Finished /\ repair.by = "auto"
    /\ repair' = NoRepair
    /\ app' = CloseAgain(app)
    /\ UNCHANGED <<window, world>>

(* repair_package: the folder picker pumps messages.                         *)
OpenPicker ==
    /\ Responsive /\ ~Busy /\ ~app.picker
    /\ app' = [app EXCEPT !.picker = TRUE]
    /\ UNCHANGED <<window, repair, world>>

(* Mutant: what happened while the picker was open is not looked at          *)
NeverBusy == FALSE

StillBusy == Busy

ClosePicker ==
    /\ Responsive /\ app.picker
    /\ app' = [app EXCEPT !.picker = FALSE]
    /\ \/ UNCHANGED repair          \* cancelled, or busy
       \/ /\ ~StillBusy
          /\ repair' = [NoRepair EXCEPT !.pc = "query", !.by = "import"]
    /\ UNCHANGED <<window, world>>

EndImport ==
    /\ Finished /\ repair.by = "import"
    /\ repair' = NoRepair
    /\ UNCHANGED <<app, window, world>>

AsksToClose ==
    /\ Responsive /\ ~app.closing /\ ~app.picker
    /\ app' = [app EXCEPT !.closing = TRUE]
    /\ UNCHANGED <<window, repair, world>>

CanClose == repair.by # "auto"

(* on_close: a running repair defers it.  The process ends with its detached *)
(* workers.                                                                 *)
Close ==
    /\ Responsive /\ app.closing
    /\ IF CanClose
       THEN /\ app' = Stopped(app) /\ check' = Idle /\ install' = Idle
            /\ UNCHANGED <<ctl, disk, seen>>
       ELSE /\ app' = [app EXCEPT !.closing = FALSE, !.asked = TRUE]
            /\ UNCHANGED window
    /\ UNCHANGED <<repair, world>>

-----------------------------------------------------------------------------
(* The workers.                                                             *)

(* The answer, or what cannot be read as a list of releases.                 *)
Answers == {[pc |-> "found", result |-> Newest],
            [pc |-> "failed", result |-> NoOffer]}

CheckAnswers ==
    /\ check.pc = "running" /\ check' \in Answers
    /\ UNCHANGED <<app, ctl, disk, install, seen, repair, world>>

(* download: the bytes have the size and the digest that GitHub lists.       *)
Downloads(offer) == offer \in published

(* The archive is extracted, and is the package of that release.             *)
Prepares(offer) == offer.asset /\ Downloads(offer)

(* prepare_update_package: any failure removes the work directory.           *)
InstallAnswers ==
    /\ install.pc = "running"
    /\ \/ install' = [install EXCEPT !.pc = "failed"]
       \/ Prepares(install.result) /\ install' = [install EXCEPT !.pc = "prepared"]
    /\ UNCHANGED <<app, ctl, disk, check, seen, repair, world>>

(* The source is complete: its manifest and files are those of the installed *)
(* version, downloaded for Auto Repair, chosen by the user for an import.     *)
SourceComplete == repair.by = "import" \/ ExactRelease

(* What is to be replaced, the manifest last.                                *)
Changed == SetToSeq({f \in Files : files[f] # "good"})
             \o (IF files[Manifest] = "good" THEN <<>> ELSE <<Manifest>>)

(* The exact release is verified completely and compared with what is        *)
(* installed before a file is written.                                      *)
RepairPlans ==
    /\ repair.pc = "query"
    /\ repair' \in
         {[repair EXCEPT !.pc = "failed"]} \cup
         (IF files[Exe] # "good" \/ ~SourceComplete THEN {}
          ELSE {[repair EXCEPT !.pc = "replace",
                   !.plan = [i \in DOMAIN Changed |->
                               [file |-> Changed[i], was |-> files[Changed[i]]]]]})
    /\ UNCHANGED <<app, window, world>>

NextChange == repair.plan[repair.done + 1]

(* fail_after_mutation: what has been committed is undone.                   *)
RollingBack ==
    [repair EXCEPT !.pc = "rollback", !.plan = SubSeq(@, 1, repair.done)]

(* atomic_replace_utf8_if_unchanged                                         *)
RepairReplaces ==
    /\ repair.pc = "replace" /\ repair.done < Len(repair.plan)
    /\ \/ /\ files[NextChange.file] = NextChange.was
          /\ files' = [files EXCEPT ![NextChange.file] = "good"]
          /\ repair' = [repair EXCEPT !.done = @ + 1]
       \/ repair' = RollingBack /\ UNCHANGED files
    /\ UNCHANGED <<app, window, time, faults, published, installed, helper>>

(* audit_package_integrity of the whole package                             *)
RepairVerifies ==
    /\ repair.pc = "replace" /\ repair.done = Len(repair.plan)
    /\ repair' \in {RollingBack} \cup
         (IF \A f \in Managed : files[f] = "good"
          THEN {[repair EXCEPT !.pc = "done"]} ELSE {})
    /\ UNCHANGED <<app, window, world>>

(* Mutant: what was put back is not compared with what was there.           *)
UnverifiedEnd(restored) == "failed"
RollbackEnd(restored) == IF restored THEN "failed" ELSE "recovery"

(* rollback_repair_changes, from the last change back, then verified.        *)
RepairRollsBack ==
    /\ repair.pc = "rollback"
    /\ IF repair.done > 0
       THEN LET c == repair.plan[repair.done]
                undo == files[c.file] = "good"
            IN  /\ \/ /\ undo
                      /\ files' = [files EXCEPT ![c.file] = c.was]
                      /\ repair' = [repair EXCEPT !.done = @ - 1]
                   \/ /\ repair' = [repair EXCEPT !.done = @ - 1, !.undone = FALSE]
                      /\ UNCHANGED files
       ELSE LET same == \A i \in DOMAIN repair.plan :
                            files[repair.plan[i].file] = repair.plan[i].was
            IN  /\ repair' = [repair EXCEPT !.pc = RollbackEnd(repair.undone /\ same)]
                /\ UNCHANGED files
    /\ UNCHANGED <<app, window, time, faults, published, installed, helper>>

-----------------------------------------------------------------------------
(* Everything else.                                                         *)

(* The helper, when the application has ended: see UpdateTransaction.        *)
HelperEnds ==
    /\ ~app.on /\ helper # None
    /\ helper' = None
    /\ \/ /\ installed' = helper /\ files' = [f \in Managed |-> "good"]
       \/ UNCHANGED <<installed, files>>
    /\ UNCHANGED <<app, window, repair, time, faults, published>>

Crash ==
    /\ app.on /\ Fails(TRUE)
    /\ app' = Stopped(app) /\ repair' = NoRepair
    /\ check' = Idle /\ install' = Idle
    /\ UNCHANGED <<ctl, disk, seen, time, published, files, installed, helper>>

(* Somebody else writes into the package directory; what he wrote before a   *)
(* repair compares the files is a file found different.                      *)
FileChanges ==
    /\ repair.pc \in {"replace", "rollback"} /\ Fails(TRUE)
    /\ \E f \in Managed : files' = [files EXCEPT ![f] = "odd"]
    /\ UNCHANGED <<app, window, repair, time, published, installed, helper>>

TimePasses ==
    /\ time < MaxTime /\ time' = time + 1
    /\ UNCHANGED <<app, window, repair, faults, published, files, installed, helper>>

ClockSetBack ==
    /\ time > 1 /\ time' = 1 /\ Fails(TRUE)
    /\ seen' = [seen EXCEPT !.asked = 0]
    /\ UNCHANGED <<app, ctl, disk, check, install, repair, published, files,
                   installed, helper>>

Repairs == RepairPlans \/ RepairReplaces \/ RepairVerifies \/ RepairRollsBack
Wish ==
    \/ ManualCheck \/ Dismiss \/ Ignore \/ ToggleAutomatic \/ StartInstall
    \/ StartRepair \/ OpenPicker \/ AsksToClose
User == wishes < MaxWishes /\ wishes' = wishes + 1 /\ Wish
Ticks == PollCheck \/ PollInstall \/ PollRepair \/ EndImport \/ Close
Environment ==
    Publishes \/ HelperEnds \/ Crash \/ FileChanges \/ TimePasses \/ ClockSetBack

Rest ==
    \/ Boot \/ Ticks \/ ClosePicker \/ CheckAnswers \/ InstallAnswers
    \/ Repairs \/ Environment

Next == User \/ (Rest /\ UNCHANGED wishes)

(* The window thread's ticks and the repair worker go on; requests have      *)
(* time-outs.                                                               *)
Spec == Init /\ [][Next]_vars /\ WF_vars(PollRepair /\ UNCHANGED wishes)
             /\ WF_vars(Repairs /\ UNCHANGED wishes)

-----------------------------------------------------------------------------
(* Two actors never maintain the package at once: a repair or import that    *)
(* writes, an installation that is prepared or handed over; and no repair    *)
(* outlives the process, so the helper never meets one (hazard of            *)
(* application_update.cpp:382, the one busy gate).                          *)
OneMaintainer ==
    /\ repair.pc # "none" => install.pc = "none" /\ helper = None
    /\ repair.pc # "none" => app.on

(* The version handed to the helper is the one the user approved and the     *)
(* worker prepared, whatever was checked or published meanwhile.             *)
InstallIsConsented ==
    /\ install.pc # "none" => ctl.offer = install.result
    /\ helper # None => helper = seen.wanted

(* An ignored version is on disk: "An ignore preference is not applied until *)
(* saving succeeds" (application_update.cpp:90).                            *)
IgnoredIsSaved == ctl.ignored # None => disk.ignored = ctl.ignored

(* Nothing is installed that the user has not approved, and what he refused  *)
(* for good stays refused after a restart.                                   *)
ConsentHonoured == InstallIsConsented /\ IgnoredIsSaved

(* rollback_repair_changes: a repair that fails without demanding recovery   *)
(* has left every file it replaced as it found it.                          *)
FailedRepairUndone ==
    [][repair'.pc = "failed" /\ repair.pc # "failed" =>
         \A i \in DOMAIN repair.plan :
            files'[repair.plan[i].file] = repair.plan[i].was]_vars

(* Failed or lost automatic checks back off, over restarts and crashes: two  *)
(* of them are at least the first retry delay apart, unless the state could  *)
(* not be saved or read or the clock was set back.                          *)
RetriesSpaced ==
    [][~app.on /\ check'.pc = "running" /\ seen.asked # 0 /\ faults' = faults
       => time - seen.asked >= RetryInitial]_vars

(* A failure leaves nothing behind: neither a half repaired package, nor a   *)
(* request repeated without end.                                            *)
FailureIsContained == FailedRepairUndone /\ RetriesSpaced

(* A close that waits for a repair is asked for again when it has ended.     *)
CloseHonoured == app.asked ~> app.closing \/ ~app.on

(* The version shown as available is newer than the installed one:           *)
(* docs/UPDATES.md:9 "When a newer version is available, the same button     *)
(* changes to Update available".                                            *)
OfferIsNewer == app.on /\ ctl.cached # None => ctl.cached > installed
=============================================================================
