-------------------------- MODULE AdaptiveControl --------------------------
(***************************************************************************)
(* The live control channel between the optimizer and KF2: who owns a       *)
(* reduced graphics quality, and how it is given back across worlds,        *)
(* processes, lost receipts and changes of the user's mind                  *)
(* (src/features/telemetry/telemetry_adaptive_stage.cpp,                    *)
(* telemetry_adaptive_controller.cpp, telemetry_session_stage.cpp,          *)
(* src/game/adaptive_control_client.cpp, src/optimizer/                     *)
(* adaptive_actuation.cpp), with the receiver inside KF2                    *)
(* (assets/offline_telemetry/*.uc).                                         *)
(*                                                                         *)
(* The six resource qualities are one level, 0 .. Top, and what the         *)
(* controller decides is any other level: AdaptiveGovernor has the          *)
(* decision.  A command number is its place in `wire`: a number accepted by *)
(* KF2 makes every older command stale.  A telemetry tick is one step: it   *)
(* runs on one thread, and the workers only leave outcomes, which a tick    *)
(* looks at once, after it reconciled.  A worker that cannot be started or  *)
(* that fails to publish its outcome is left out; one that fails is not.    *)
(***************************************************************************)
EXTENDS Integers, Sequences, SequencesExt

CONSTANTS
    Top,            \* 100 %, the user's maximum quality
    MaxProcesses,   \* bound on KF2 processes
    MaxWorlds,      \* bound on the worlds they travel through
    MaxToggles,     \* bound on the user's changes of mode and of policy
    MaxFaults       \* bound on lost receipts, late commands, failing
                    \* restores inside KF2 and rejected frames

ASSUME AdaptiveControlAssumption ==
    /\ Top \in Nat \ {0}
    /\ MaxProcesses \in Nat \ {0} /\ MaxWorlds \in Nat \ {0}
    /\ MaxToggles \in Nat /\ MaxFaults \in Nat

Level == 0 .. Top
NoLevel == -1
NoProcess == 0
NoWorld == 0        \* the main menu or a loading screen: no listener
NoAsk == [from |-> NoLevel, to |-> NoLevel, current |-> FALSE]
Free == [status |-> "free", op |-> "none", answer |-> "none"]
Workers == {"mode", "quality"}
Ops == {"enable", "disable", "quality"}
Answers == {"applied", "restored", "unknown", "failed"}

VARIABLES
    kf2,    \* the game: [process, world, enabled, quality, before, originals]
            \* before: the composition of a failed rollback,
            \* originals: restoring the originals failed
    wire,   \* commands sent and not yet handled, oldest first
    job,    \* [worker -> what its dispatcher holds]
    app,    \* the optimizer's record of the game, see TypeOK
    unseen, \* KF2 changed the quality it has, or would roll back to, and the
            \* optimizer never saw, or threw away, the receipt
    bound   \* the bounds: [processes, worlds, toggles, faults] used up

vars == <<kf2, wire, job, app, unseen, bound>>

Identities == (0 .. MaxProcesses) \X (0 .. MaxWorlds)

TypeOK ==
    /\ kf2 \in [process : 0 .. MaxProcesses, world : 0 .. MaxWorlds,
                enabled : BOOLEAN, quality : Level,
                before : Level \cup {NoLevel}, originals : BOOLEAN]
    /\ \A i \in DOMAIN wire :
          wire[i] \in [from : Workers \cup {"none"}, op : Ops,
                       to : Level \cup {NoLevel}, world : 1 .. MaxWorlds,
                       stale : BOOLEAN]
    /\ job \in [Workers -> [status : {"free", "busy", "done"},
                            op : Ops \cup {"none"},
                            answer : Answers \cup {"none"}]]
    /\ app \in [process : 0 .. MaxProcesses,        \* game_process
                report : 0 .. MaxWorlds,            \* world of the last frame
                setting : BOOLEAN,                  \* the saved mode
                seen : Identities,                  \* adaptive_runtime_mode_*
                confirmed : BOOLEAN,
                pending : {"none", "enable", "disable"},
                due : BOOLEAN,                      \* five seconds have passed
                debt : 0 .. MaxProcesses,           \* adaptive_restore_debt
                local : Level,                      \* adaptive_resource_quality
                known : BOOLEAN,                    \* adaptive_quality_state_known
                rollback : Level \cup {NoLevel},
                ask : [from : Level \cup {NoLevel}, to : Level \cup {NoLevel},
                       current : BOOLEAN],          \* adaptive_control_pending
                slot : BOOLEAN,                     \* tracker awaits a receipt
                closed : {"open", "restored", "unrestored"}]
    /\ unseen \in BOOLEAN
    /\ bound \in [processes : 0 .. MaxProcesses, worlds : 0 .. MaxWorlds,
                  toggles : 0 .. MaxToggles, faults : 0 .. MaxFaults]

Init ==
    /\ kf2 = [process |-> NoProcess, world |-> NoWorld, enabled |-> FALSE,
              quality |-> Top, before |-> NoLevel, originals |-> FALSE]
    /\ wire = <<>>
    /\ job = [w \in Workers |-> Free]
    /\ app = [process |-> NoProcess, report |-> NoWorld, setting |-> TRUE,
              seen |-> <<0, 0>>, confirmed |-> FALSE, pending |-> "none",
              due |-> TRUE, debt |-> NoProcess, local |-> Top, known |-> TRUE,
              rollback |-> NoLevel, ask |-> NoAsk, slot |-> FALSE,
              closed |-> "open"]
    /\ unseen = FALSE
    /\ bound = [processes |-> 0, worlds |-> 0, toggles |-> 0, faults |-> 0]

Faulty == bound.faults < MaxFaults
Fault == [bound EXCEPT !.faults = @ + 1]

-----------------------------------------------------------------------------
(* The receiver inside KF2.                                                 *)

Known(g) == g.before = NoLevel /\ ~g.originals

Refusal(g) == IF Known(g) THEN "failed" ELSE "unknown"

(* RestoreOriginal: the process-owned originals are back and verified.      *)
Restored(g) ==
    [g EXCEPT !.quality = Top, !.before = NoLevel, !.originals = FALSE]

Reply(g, answer, commits, fault) ==
    [kf2 |-> g, answer |-> answer, commits |-> commits, fault |-> fault]

RefusesStale(g) == {Reply(g, Refusal(g), FALSE, FALSE)}

(* A failed rollback is settled before any other command but a disable.     *)
SettlesRollback(g) ==
    {Reply([g EXCEPT !.quality = g.before, !.before = NoLevel],
           "restored", TRUE, FALSE),
     Reply(g, "unknown", FALSE, TRUE)}

(* Enabling needs the originals back and the fixed effects verified; fixed  *)
(* effects that do not verify put the originals back.                        *)
Enables(g) ==
    LET base == IF g.originals THEN Restored(g) ELSE g IN
    {Reply([base EXCEPT !.enabled = TRUE], "applied", TRUE, FALSE),
     Reply(g, Refusal(g), FALSE, TRUE),
     Reply(Restored(g), "failed", FALSE, TRUE)}

(* Disabling always takes control away; the originals may stay behind, to   *)
(* be retried by KF2 itself, or the fixed effects may not verify.            *)
Disables(g) ==
    LET off == [g EXCEPT !.enabled = FALSE] IN
    {Reply(Restored(off), "applied", TRUE, FALSE),
     Reply(Restored(off), "failed", TRUE, TRUE),
     Reply([off EXCEPT !.originals = TRUE], "unknown", TRUE, TRUE)}

SetsQuality(g, to) ==
    {Reply([g EXCEPT !.quality = to], "applied", TRUE, FALSE),
     Reply(g, Refusal(g), FALSE, TRUE),                 \* rolled back
     Reply(g, "restored", FALSE, TRUE),                 \* after the readback
     Reply([g EXCEPT !.quality = to, !.before = g.quality],
           "unknown", FALSE, TRUE)}

(* Mutant: the number of a command is not compared with the last one        *)
ReplayedControl(g, m) ==
    IF m.op # "disable" /\ g.before # NoLevel THEN SettlesRollback(g)
    ELSE CASE m.op = "enable" -> Enables(g)
           [] m.op = "disable" -> Disables(g)
           [] m.op = "quality" /\ g.enabled -> SetsQuality(g, m.to)
           [] OTHER -> {Reply(g, Refusal(g), FALSE, FALSE)}

ApplyAdaptiveResourceControl(g, m) ==
    IF m.stale THEN RefusesStale(g)
    ELSE IF m.op # "disable" /\ g.before # NoLevel THEN SettlesRollback(g)
    ELSE CASE m.op = "enable" -> Enables(g)
           [] m.op = "disable" -> Disables(g)
           [] m.op = "quality" ->
                IF g.enabled THEN SetsQuality(g, m.to)
                ELSE {Reply(g, Refusal(g), FALSE, FALSE)}

(* A number KF2 accepted makes every older one stale.                       *)
Outdated(messages) ==
    [i \in DOMAIN messages |-> [messages[i] EXCEPT !.stale = TRUE]]

(* The game's quality, or the one it would roll back to, is not the user's. *)
Reduced(g) == g.quality < Top \/ g.before \in 0 .. (Top - 1)

(* What the optimizer does not know about the quality after a reply.        *)
Unseen(r, lost) ==
    Reduced(r.kf2) /\ (unseen \/ (lost /\ r.kf2.quality # kf2.quality))

-----------------------------------------------------------------------------
(* The workers: adaptive_control_client.cpp.  A command sent to a world     *)
(* that is gone finds nobody listening.                                      *)

Answered(worker, answer) ==
    IF worker = "none" THEN job
    ELSE [job EXCEPT ![worker].status = "done", ![worker].answer = answer]

(* The receipt of a command handled by KF2 may be lost.                      *)
Deliver(i) ==
    LET m == wire[i] IN
    /\ m.world = kf2.world
    /\ \E r \in ApplyAdaptiveResourceControl(kf2, m), lost \in BOOLEAN :
          /\ r.fault \/ (lost /\ m.from # "none") => Faulty
          /\ ~(r.fault /\ lost)
          /\ m.from = "none" => ~lost
          /\ kf2' = r.kf2
          /\ wire' = (IF r.commits THEN Outdated(SubSeq(wire, 1, i - 1))
                      ELSE SubSeq(wire, 1, i - 1))
                     \o SubSeq(wire, i + 1, Len(wire))
          /\ job' = Answered(m.from, IF lost THEN "failed" ELSE r.answer)
          /\ unseen' = Unseen(r, lost \/ m.from = "none")
          /\ bound' = (IF r.fault \/ lost THEN Fault ELSE bound)
    /\ UNCHANGED app

Unreachable(i) ==
    /\ wire[i].world # kf2.world
    /\ job' = Answered(wire[i].from, "failed")
    /\ wire' = RemoveAt(wire, i)
    /\ UNCHANGED <<kf2, app, unseen, bound>>

(* The worker gives up waiting; KF2 still reads the command later.           *)
TimesOut(i) ==
    /\ Faulty /\ wire[i].from # "none" /\ wire[i].world = kf2.world
    /\ job' = Answered(wire[i].from, "failed")
    /\ wire' = [wire EXCEPT ![i].from = "none"]
    /\ bound' = Fault
    /\ UNCHANGED <<kf2, app, unseen>>

Serve == \E i \in DOMAIN wire : Deliver(i) \/ Unreachable(i)

Command(worker, op, to, world) ==
    [from |-> worker, op |-> op, to |-> to, world |-> world, stale |-> FALSE]

Busy(op) == [status |-> "busy", op |-> op, answer |-> "none"]

-----------------------------------------------------------------------------
(* One telemetry tick, as functions of the optimizer's record.  `frame` is  *)
(* the world the tick captured.                                             *)

MayBeReduced(a, jobs) ==
    \/ a.local < Top \/ ~a.known \/ a.rollback # NoLevel
    \/ a.ask # NoAsk \/ jobs["quality"].status # "free"

(* The head of reconcile_adaptive_runtime_mode: a new world or process      *)
(* takes the confirmation away and turns a possible reduction into a debt.   *)
AtBoundary(a, jobs) ==
    IF a.seen = <<a.process, a.report>> THEN a
    ELSE [a EXCEPT !.confirmed = FALSE, !.pending = "none",
                   !.debt = IF MayBeReduced(a, jobs) THEN a.process ELSE @]

(* Mutant: a mode that was not confirmed is not tried again                 *)
SendsModeOnce(before, a, jobs) ==
    /\ a.report # NoWorld /\ before.seen # <<before.process, before.report>>
    /\ jobs["mode"].status = "free"
    /\ a.debt # NoProcess => jobs["quality"].status = "free"

SendsMode(before, a, jobs) ==
    /\ a.report # NoWorld
    /\ \/ before.seen # <<before.process, before.report>>
       \/ ~a.confirmed /\ a.due
    /\ jobs["mode"].status = "free"
    /\ a.debt # NoProcess => jobs["quality"].status = "free"

Mode(enabled) == IF enabled THEN "enable" ELSE "disable"
Desired(a) == Mode(a.debt = NoProcess /\ a.setting)

ModeSent(a) ==
    [a EXCEPT !.seen = <<a.process, a.report>>, !.due = FALSE,
              !.confirmed = FALSE, !.pending = Desired(a)]

(* poll_adaptive_quality_dispatcher                                         *)
QualityPolled(a, j) ==
    LET accepted == a.ask.current /\ a.slot
        settled == [a EXCEPT !.ask = NoAsk,
                             !.slot = IF accepted THEN FALSE ELSE @] IN
    IF a.ask = NoAsk THEN a
    ELSE CASE j.answer = "restored" ->
                [settled EXCEPT !.known = TRUE, !.rollback = NoLevel]
           [] j.answer = "unknown" ->
                [settled EXCEPT !.known = FALSE, !.rollback = a.ask.from]
           [] j.answer = "applied" /\ accepted ->
                [settled EXCEPT !.known = TRUE, !.local = a.ask.to,
                    !.rollback = IF a.ask.to >= @ THEN NoLevel ELSE @]
           [] OTHER -> settled

(* Mutant: any APPLIED receipt proves the mode that is awaited now          *)
AnyReceiptProves(a, j) ==
    LET proof == j.answer = "applied" IN
    IF a.pending = "none" THEN a
    ELSE IF proof /\ a.pending = "disable" /\ a.debt # NoProcess
    THEN [a EXCEPT !.local = Top, !.known = TRUE, !.rollback = NoLevel,
                   !.debt = NoProcess, !.pending = "none",
                   !.confirmed = ~a.setting, !.due = a.setting \/ @]
    ELSE [a EXCEPT !.confirmed = proof, !.pending = "none"]

(* poll_adaptive_runtime_mode                                               *)
ModePolled(a, j) ==
    LET proof == j.answer = "applied" /\ j.op = a.pending
        settles == proof /\ j.op = "disable" /\ a.debt # NoProcess IN
    IF a.pending = "none" THEN a
    ELSE IF settles
    THEN [a EXCEPT !.local = Top, !.known = TRUE, !.rollback = NoLevel,
                   !.debt = NoProcess, !.pending = "none",
                   !.confirmed = ~a.setting, !.due = a.setting \/ @]
    ELSE [a EXCEPT !.confirmed = proof, !.pending = "none"]

(* The gates of update_adaptive_controller before the governor's decision    *)
(* may become a command.                                                     *)
MayDispatch(a, jobs) ==
    /\ a.debt = NoProcess /\ a.confirmed /\ a.setting
    /\ a.report # NoWorld /\ jobs["quality"].status = "free" /\ ~a.slot

(* An unknown composition is first rolled back.                              *)
Decisions(a) ==
    IF ~a.known THEN {a.rollback} \ {NoLevel} ELSE Level \ {a.local}

Tick ==
    /\ app.process # NoProcess /\ app.closed = "open"
    /\ LET atBoundary == AtBoundary(app, job)
           sends == SendsMode(app, atBoundary, job)
           sent == IF sends THEN ModeSent(atBoundary) ELSE atBoundary
           polled == IF job["quality"].status = "done"
                     THEN QualityPolled(sent, job["quality"]) ELSE sent
           decided == IF job["mode"].status = "done"
                      THEN ModePolled(polled, job["mode"]) ELSE polled
           mode == Command("mode", Desired(atBoundary), NoLevel, app.report)
           jobs == [w \in Workers |->
                      IF job[w].status = "done" THEN Free
                      ELSE IF w = "mode" /\ sends THEN Busy(mode.op)
                      ELSE job[w]]
       IN
       \/ /\ app' = decided /\ job' = jobs
          /\ wire' = wire \o (IF sends THEN <<mode>> ELSE <<>>)
       \/ /\ MayDispatch(decided, jobs)
          /\ \E to \in Decisions(decided) :
                /\ app' = [decided EXCEPT !.slot = TRUE,
                      !.ask = [from |-> decided.local, to |-> to,
                               current |-> TRUE]]
                /\ job' = [jobs EXCEPT !["quality"] = Busy("quality")]
                /\ wire' = Append(wire,
                              Command("quality", "quality", to, app.report))
    /\ unseen' = (unseen \/ /\ job["quality"].status = "done"
                            /\ job["quality"].answer = "applied"
                            /\ kf2.quality < Top
                            /\ app.ask # NoAsk
                            /\ ~(app.ask.current /\ app.slot))
    /\ UNCHANGED <<kf2, bound>>

(* The next frame reports the world KF2 is in.                               *)
Observe ==
    /\ app.closed = "open"
    /\ app.process # NoProcess /\ app.process = kf2.process
    /\ app.report # kf2.world
    /\ app' = [app EXCEPT !.report = kf2.world]
    /\ UNCHANGED <<kf2, wire, job, unseen, bound>>

(* Five seconds since the last attempt.                                      *)
RetryDue ==
    /\ ~app.due /\ app.closed = "open" /\ app' = [app EXCEPT !.due = TRUE]
    /\ UNCHANGED <<kf2, wire, job, unseen, bound>>

-----------------------------------------------------------------------------
(* Commands the user interface sends itself, waiting for the receipt: it is  *)
(* got, the command finds nobody, the receipt is lost, or it is read late.    *)

Result(g, w, u, ok, fault) ==
    [kf2 |-> g, wire |-> w, unseen |-> u, ok |-> ok, fault |-> fault]

Results(op) ==
    LET m == Command("none", op, NoLevel, app.report)
        handled(lost) ==
            {Result(r.kf2, IF r.commits THEN Outdated(wire) ELSE wire,
                    Unseen(r, FALSE), r.answer = "applied" /\ ~lost,
                    r.fault \/ lost) :
                r \in ApplyAdaptiveResourceControl(kf2, m)}
    IN  IF app.report # kf2.world
        THEN {Result(kf2, wire, unseen, FALSE, FALSE)}
        ELSE (UNION {handled(lost) : lost \in BOOLEAN})
             \cup {Result(kf2, wire, unseen, FALSE, TRUE),
                   Result(kf2, Append(wire, m), unseen, FALSE, TRUE)}

(* The world after a command the user interface sent.                       *)
Sent(r) ==
    /\ r.fault => Faulty
    /\ kf2' = r.kf2 /\ wire' = r.wire /\ unseen' = r.unseen

(* reset_local_adaptive_controller_for_mode                                 *)
ResetLocal(a, enabled) ==
    IF enabled \/ a.debt # NoProcess THEN [a EXCEPT !.ask = NoAsk]
    ELSE [a EXCEPT !.ask = NoAsk, !.slot = FALSE, !.local = Top, !.known = TRUE]

ModeDeferred(a, enabled) ==
    [ResetLocal(a, enabled) EXCEPT !.confirmed = FALSE, !.pending = Mode(enabled),
                                   !.due = TRUE]

ModeConfirmed(a, enabled) ==
    ResetLocal([a EXCEPT !.seen = <<a.process, a.report>>, !.due = FALSE,
                         !.confirmed = TRUE, !.pending = "none",
                         !.debt = IF enabled THEN @ ELSE NoProcess], enabled)

(* toggle_adaptive_optimization and set_live_adaptive_enabled: a disable     *)
(* reserves the debt before anything can fail.                               *)
Reserved(a, enabled) ==
    IF enabled THEN [a EXCEPT !.setting = TRUE]
    ELSE [a EXCEPT !.setting = FALSE, !.debt = kf2.process, !.known = FALSE]

Toggle ==
    /\ app.closed = "open" /\ bound.toggles < MaxToggles
    /\ LET enabled == ~app.setting
           a == Reserved(app, enabled)
       IN
       \/ /\ kf2.process = NoProcess
          /\ app' = [app EXCEPT !.setting = enabled]
          /\ bound' = [bound EXCEPT !.toggles = @ + 1]
          /\ UNCHANGED <<kf2, wire, unseen>>
       \/ /\ kf2.process # NoProcess
          /\ app.report = NoWorld \/ job["mode"].status # "free"
          /\ app' = ModeDeferred(a, enabled)
          /\ bound' = [bound EXCEPT !.toggles = @ + 1]
          /\ UNCHANGED <<kf2, wire, unseen>>
       \/ /\ kf2.process # NoProcess
          /\ app.report # NoWorld /\ job["mode"].status = "free"
          /\ \E r \in Results(Mode(enabled)) :
                /\ Sent(r)
                /\ app' = (IF r.ok THEN ModeConfirmed(a, enabled)
                           ELSE ModeDeferred(a, enabled))
                /\ bound' = [bound EXCEPT !.toggles = @ + 1,
                                !.faults = IF r.fault THEN @ + 1 ELSE @]
    /\ UNCHANGED job

(* Saving a changed policy rebases the tracker: the receipt of a request in  *)
(* flight will be of an old generation.                                      *)
ChangePolicy ==
    /\ app.closed = "open" /\ bound.toggles < MaxToggles
    /\ app.ask.current
    /\ app' = [app EXCEPT !.slot = FALSE, !.ask.current = FALSE]
    /\ bound' = [bound EXCEPT !.toggles = @ + 1]
    /\ UNCHANGED <<kf2, wire, job, unseen>>

(* restore_live_adaptive_quality: the debt is taken before the command, and  *)
(* dropped when the process is gone or KF2 confirms.                         *)
Owner(a) ==
    IF a.process # NoProcess THEN a.process
    ELSE IF a.debt # NoProcess THEN a.debt ELSE kf2.process

LiveRestored(a, r) ==
    IF r.ok THEN [a EXCEPT !.ask = NoAsk, !.local = Top, !.known = TRUE,
                           !.debt = NoProcess]
    ELSE [a EXCEPT !.debt = Owner(a)]

LiveRestores(a) ==
    LET alone(ok) == Result(kf2, wire, unseen, ok, FALSE) IN
    IF Owner(a) = NoProcess \/ Owner(a) # kf2.process THEN {alone(TRUE)}
    ELSE IF a.report = NoWorld THEN {alone(FALSE)}
    ELSE Results("disable")

(* detach_telemetry: what is left of the record.                            *)
Detached(a) ==
    LET debt == IF a.debt = kf2.process THEN a.debt ELSE NoProcess
        unbound == [a EXCEPT !.process = NoProcess, !.report = NoWorld,
                        !.ask = NoAsk, !.slot = FALSE, !.confirmed = FALSE,
                        !.pending = "none", !.debt = debt] IN
    IF debt # NoProcess THEN unbound
    ELSE [unbound EXCEPT !.seen = <<0, 0>>, !.due = TRUE, !.local = Top,
                         !.known = TRUE, !.rollback = NoLevel]

(* A rejected frame, a resume of the system, or the end of the process.      *)
Detach ==
    /\ app.process # NoProcess /\ app.closed = "open"
    /\ LET spent == IF app.process = kf2.process THEN 1 ELSE 0 IN
       \/ /\ app.debt = NoProcess
          /\ \E r \in LiveRestores(app) :
                LET used == bound.faults + spent + IF r.fault THEN 1 ELSE 0 IN
                /\ used <= MaxFaults /\ bound' = [bound EXCEPT !.faults = used]
                /\ Sent(r) /\ app' = Detached(LiveRestored(app, r))
       \/ /\ app.debt # NoProcess
          /\ bound.faults + spent <= MaxFaults
          /\ bound' = [bound EXCEPT !.faults = @ + spent]
          /\ app' = Detached(app) /\ UNCHANGED <<kf2, wire, unseen>>
    /\ UNCHANGED job

(* Binding to a process: a debt of another one is void.                      *)
Attach ==
    /\ app.process = NoProcess /\ app.closed = "open"
    /\ kf2.process # NoProcess
    /\ app' = (IF app.debt \in {NoProcess, kf2.process}
               THEN [app EXCEPT !.process = kf2.process]
               ELSE [app EXCEPT !.process = kf2.process, !.debt = NoProcess,
                        !.local = Top, !.known = TRUE, !.rollback = NoLevel])
    /\ UNCHANGED <<kf2, wire, job, unseen, bound>>

(* shutdown, and shutdown_fallback after a failure.                         *)
Close ==
    /\ app.closed # "restored"
    /\ \E r \in LiveRestores(app) :
          /\ Sent(r)
          /\ app' = [LiveRestored(app, r) EXCEPT
                        !.closed = IF r.ok THEN "restored" ELSE "unrestored"]
          /\ bound' = (IF r.fault THEN Fault ELSE bound)
    /\ UNCHANGED job

-----------------------------------------------------------------------------
(* The game on its own.                                                     *)

(* A game started after the optimizer closed is of no concern here.          *)
GameStarts ==
    /\ app.closed = "open"
    /\ kf2.process = NoProcess /\ bound.processes < MaxProcesses
    /\ \E enabled \in BOOLEAN :
          kf2' = [process |-> bound.processes + 1, world |-> NoWorld,
                  enabled |-> enabled, quality |-> Top, before |-> NoLevel,
                  originals |-> FALSE]
    /\ bound' = [bound EXCEPT !.processes = @ + 1]
    /\ UNCHANGED <<wire, job, app, unseen>>

GameExits ==
    /\ kf2.process # NoProcess
    /\ kf2' = [kf2 EXCEPT !.process = NoProcess, !.world = NoWorld,
                  !.enabled = FALSE, !.quality = Top, !.before = NoLevel,
                  !.originals = FALSE]
    /\ unseen' = FALSE
    /\ UNCHANGED <<wire, job, app, bound>>

(* A new world has a new probe, a new listener and forgets the last number;  *)
(* the mode and the graphics state belong to the process.                    *)
Travel ==
    /\ kf2.process # NoProcess
    /\ \/ /\ kf2.world # NoWorld
          /\ kf2' = [kf2 EXCEPT !.world = NoWorld] /\ UNCHANGED bound
       \/ /\ bound.worlds < MaxWorlds
          /\ kf2' = [kf2 EXCEPT !.world = bound.worlds + 1]
          /\ bound' = [bound EXCEPT !.worlds = @ + 1]
    /\ UNCHANGED <<wire, job, app, unseen>>

(* KF2 retries to restore the originals.                                    *)
GameRetries ==
    /\ kf2.world # NoWorld /\ kf2.originals
    /\ kf2' = Restored(kf2) /\ unseen' = FALSE
    /\ UNCHANGED <<wire, job, app, bound>>

-----------------------------------------------------------------------------
Next ==
    \/ Tick \/ Observe \/ RetryDue \/ Toggle \/ ChangePolicy
    \/ Attach \/ Detach \/ Close
    \/ Serve \/ \E i \in DOMAIN wire : TimesOut(i)
    \/ GameStarts \/ GameExits \/ Travel \/ GameRetries

(* The tick timer runs while the application does, a command is handled or   *)
(* fails within its timeout, and time passes.                                *)
Spec ==
    /\ Init /\ [][Next]_vars
    /\ WF_vars(Tick) /\ WF_vars(Observe) /\ WF_vars(RetryDue)
    /\ WF_vars(Attach) /\ WF_vars(Detach /\ app.process # kf2.process)
    /\ WF_vars(Serve) /\ WF_vars(GameRetries)

(* Once the optimizer holds KF2's confirmation that Adaptive is off, the     *)
(* game is at the user's quality, takes no quality command, and none still   *)
(* under way can change that.  Closed with the game confirmed or gone, it    *)
(* stays at the user's quality, too.                                         *)
RestoredStays ==
    /\ app.closed = "restored" => kf2.quality = Top
    /\ (/\ app.confirmed /\ ~app.setting /\ app.debt = NoProcess
        /\ app.closed = "open" /\ app.process = kf2.process
        /\ app.seen = <<kf2.process, kf2.world>> /\ kf2.process # NoProcess)
       => kf2.quality = Top /\ ~kf2.enabled

(* A quality reduced in the running game is somebody's to give back: the     *)
(* optimizer owes it, shows it as its own, knows that it does not know, or   *)
(* waits for the receipt.  Only a receipt that was lost or thrown away can   *)
(* leave an ownerless reduction.                                             *)
ReductionIsOwned ==
    (kf2.quality < Top /\ app.closed = "open" /\ ~unseen) =>
        \/ app.debt = kf2.process \/ app.local < Top \/ ~app.known
        \/ app.ask # NoAsk

(* The quality of the running game is the user's, or the optimizer knows     *)
(* that it is not.                                                          *)
QualityIsAccounted == ReductionIsOwned /\ RestoredStays

(* A debt of a running game is only struck off when the game is back at the  *)
(* user's quality.                                                          *)
DebtIsPaid ==
    [][(app.debt = kf2.process /\ app.debt # NoProcess
          /\ app'.debt # app.debt) => kf2'.quality = Top]_vars

(* While KF2 plays in a world and the optimizer runs, a debt is settled      *)
(* (unless the mode was confirmed over it, see RestoreBeforeResume), and the *)
(* saved mode is confirmed by the world KF2 plays in.                        *)
Playing == kf2.world # NoWorld /\ app.closed = "open"
SessionSettles ==
    <>[]Playing =>
        /\ app.debt # NoProcess ~> (app.debt = NoProcess \/ app.confirmed)
        /\ <>(app.confirmed /\ app.seen = <<kf2.process, kf2.world>>)

(* docs/HOW_IT_WORKS.md:83-87: only after the debt is settled may the saved  *)
(* Adaptive mode resume.                                                     *)
RestoreBeforeResume ==
    ~(/\ app.debt # NoProcess /\ app.debt = kf2.process
      /\ app.confirmed /\ kf2.enabled /\ app.setting /\ app.closed = "open")
=============================================================================
