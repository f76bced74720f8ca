------------------------- MODULE AdaptiveGovernor -------------------------
(***************************************************************************)
(* The Adaptive controller: frame samples become a pressure with            *)
(* hysteresis, the pressure becomes a quality command for one resource or   *)
(* for all, the effect of a reduction is measured, and a reduction that did *)
(* not help is taken back and not repeated (src/optimizer/                  *)
(* adaptive_governor.cpp, resource_pressure.cpp, quality_response.hpp,      *)
(* src/features/telemetry/telemetry_adaptive_stage.hpp and _controller.cpp).*)
(*                                                                         *)
(* Time is counted in telemetry ticks and only ages are kept, each capped   *)
(* where the code no longer distinguishes it.  A number of a sample is the  *)
(* band it falls in (0 healthy, 1 warning, 2 corrective, 3 emergency).  The *)
(* moving averages follow the sample by at least one band a tick.  The      *)
(* channel to KF2 is AdaptiveControl: here a command is answered or fails.  *)
(* What only labels a decision (bottleneck, disposition), the fixed effect  *)
(* budgets and the two watchdogs that freeze the controller are left out.   *)
(***************************************************************************)
EXTENDS Integers, FiniteSets, FiniteSetsExt

CONSTANTS
    Resources,      \* what can be reduced by itself: cpu, gpu, vram, ram
    Top,            \* the user's maximum quality, in steps above the minimum
    EmergencyStep, InterventionStep, RecoveryStep,
    Dwell,          \* [pressure -> ticks it must last], "drop" is a
                    \* catastrophic live drop, "low" the percentile windows
    MaxFlips,       \* bound on the direction changes that slow a release
    Stabilization,  \* hold after a telemetry transition
    Grace, Observation,             \* after an applied change
    MapGuard, MixedGuard,               \* after a map became ready
    Interval,       \* [pressure -> ticks between two commands]
    Samples,        \* the samples of rough play, a subset of Sample
    MaxRough        \* bound on spells of rough play, pauses and new maps

Mixed == "mixed"
Recover == "recover"
Targets == Resources \cup {Mixed, Recover}
Level == 0 .. Top
NoTime == -1
Unset == -1
Signal == 0 .. 3
Pressures == {"observing", "healthy", "warning", "intervention", "emergency"}

(* ResourcePressureEstimator: what is scarce, 1 attributed and 2 critical    *)
(* memory pressure, and headroom for a recovery.                            *)
ResourceReport ==
    [primary : Resources \cup {Mixed}, memory : 0 .. 2, safe : BOOLEAN]

Sample ==
    [kind : {"valid", "degraded", "unavailable", "duplicate", "stale_window",
             "transition"},
     live : Signal, sustained : Signal, tail : Signal,
     low : {"healthy", "unhealthy", "correct"},   \* percentile windows
     drop : BOOLEAN,            \* half of the target frame rate
     resources : ResourceReport,
     open : BOOLEAN]            \* no zed time, verified session, bridge free

CalmSample ==
    [kind |-> "valid", live |-> 0, sustained |-> 0, tail |-> 0,
     low |-> "healthy", drop |-> FALSE, open |-> TRUE,
     resources |-> [primary |-> Mixed, memory |-> 0, safe |-> TRUE]]

LastAge == Max({Observation, MixedGuard, Interval["recovery"]})
DwellCap == Max({Dwell[p] : p \in DOMAIN Dwell}) + MaxFlips

ASSUME GovernorAssumption ==
    /\ IsFiniteSet(Resources) /\ Resources # {}
    /\ Resources \cap {Mixed, Recover} = {}
    /\ Top \in Nat \ {0}
    /\ {EmergencyStep, InterventionStep, RecoveryStep} \subseteq Nat \ {0}
    /\ Dwell \in [{"drop", "emergency", "intervention", "warning", "healthy",
                   "low"} -> Nat \ {0}]
    /\ Interval \in [{"emergency", "intervention", "recovery"} -> Nat]
    /\ Dwell["drop"] <= Dwell["emergency"]
    /\ Dwell["emergency"] <= Dwell["intervention"]
    /\ {MaxFlips, Stabilization, Grace, MapGuard, MixedGuard, MaxRough}
          \subseteq Nat
    /\ Observation \in Nat /\ Grace <= Observation
    /\ Samples \subseteq Sample

VARIABLES
    gov,        \* AdaptiveGovernor, see TypeOK
    quality,    \* adaptive_resource_quality
    floor,      \* adaptive_quality_reduction_floor
    rollback,   \* [to, of]: adaptive_quality_rollback_target and _resource
    known,      \* adaptive_quality_state_known
    ask,        \* adaptive_control_pending with what the worker holds
    response,   \* quality_response: the reduction under measurement
    clock,      \* ages: [applied, dispatch, map]
    play,       \* [active, rough, spells]: what KF2 is doing
    proof       \* history, see Proven: [pressed, calm, confirmed, lost]

vars == <<gov, quality, floor, rollback, known, ask, response, clock, play,
          proof>>

NoRollback == [to |-> Unset, of |-> Mixed]
NoAsk == [of |-> Mixed, from |-> Unset, to |-> Unset, answer |-> "none"]
NoResponse == [of |-> Mixed, from |-> Unset, applied |-> FALSE]
NoProof == [pressed |-> NoTime, calm |-> NoTime, confirmed |-> FALSE,
            lost |-> FALSE]

(* AdaptiveGovernor::reset                                                  *)
NewGovernor ==
    [active |-> "observing", candidate |-> "observing", since |-> 0,
     low |-> NoTime, flips |-> 0, settling |-> 0, live |-> Unset,
     tail |-> Unset]

TypeOK ==
    /\ gov \in [active : Pressures, candidate : Pressures,
                since : 0 .. DwellCap,          \* age of the candidate
                low : {NoTime} \cup 0 .. DwellCap,
                flips : 0 .. MaxFlips,
                settling : 0 .. Stabilization,
                live : Signal \cup {Unset}, tail : Signal \cup {Unset}]
    /\ quality \in [Resources -> Level] /\ floor \in [Resources -> Level]
    /\ rollback \in [to : Level \cup {Unset}, of : Targets]
    /\ known \in BOOLEAN
    /\ ask \in [of : Targets, from : Level \cup {Unset},
                to : Level \cup {Unset},
                answer : {"none", "applied", "restored", "unknown", "failed"}]
    /\ response \in [of : Targets, from : Level \cup {Unset}, applied : BOOLEAN]
    /\ clock \in [applied : {NoTime} \cup 0 .. LastAge,
                  dispatch : {NoTime} \cup 0 .. LastAge, map : 0 .. LastAge]
    /\ play \in [active : BOOLEAN, rough : BOOLEAN, spells : 0 .. MaxRough]
    /\ proof \in [pressed : {NoTime} \cup 0 .. DwellCap,
                  calm : {NoTime} \cup 0 .. DwellCap, confirmed : BOOLEAN,
                  lost : BOOLEAN]

Init ==
    /\ gov = NewGovernor /\ proof = NoProof
    /\ quality = [r \in Resources |-> Top] /\ floor = [r \in Resources |-> 0]
    /\ rollback = NoRollback /\ known = TRUE
    /\ ask = NoAsk /\ response = NoResponse
    /\ clock = [applied |-> NoTime, dispatch |-> NoTime, map |-> 0]
    /\ play = [active |-> FALSE, rough |-> TRUE, spells |-> 0]

AtLeast(a, b) == IF a < b THEN b ELSE a
Older(age, cap) == IF age = NoTime \/ age = cap THEN age ELSE age + 1
Since(age, ticks) == age # NoTime /\ age >= ticks
NotWithin(age, ticks) == age = NoTime \/ age >= ticks

-----------------------------------------------------------------------------
(* Qualities of several resources.                                          *)

Lowest(q) == Min({q[r] : r \in Resources})

ControlQuality(q, of) == IF of \in Resources THEN q[of] ELSE Lowest(q)

WithQuality(q, of, to) ==
    [r \in Resources |->
        CASE of = Recover -> AtLeast(q[r], to)
          [] of \in {Mixed, r} -> to
          [] OTHER -> q[r]]

-----------------------------------------------------------------------------
(* From a sample to a pressure.                                             *)

(* The next value of a moving average between its last one and the sample.  *)
Smoothed(last, raw) ==
    IF last = Unset \/ last = raw THEN {raw}
    ELSE IF last < raw THEN last + 1 .. raw ELSE raw .. last - 1

CorrectionLevel(live, sustained, tail, drop) ==
    IF drop \/ (live = 3 /\ (sustained >= 1 \/ tail >= 1)) THEN 3
    ELSE IF \/ live >= 2 /\ (sustained >= 2 \/ tail >= 2)
            \/ tail >= 2 /\ (live >= 1 \/ sustained >= 1)
    THEN 2 ELSE 0

(* The level a sample asks for, with its averages and the percentile timer. *)
Demand(s, live, tail, low) ==
    LET seen == CorrectionLevel(AtLeast(live, s.live), s.sustained, tail, s.drop)
        any == {live, s.live, s.sustained, tail}
        watched == IF seen = 0 /\ (Max(any) >= 1 \/ s.low # "healthy")
                   THEN 1 ELSE seen
        lasting == IF Since(low, Dwell["low"]) THEN AtLeast(watched, 2)
                   ELSE watched
    IN  IF s.resources.memory = 2 THEN 3
        ELSE IF s.resources.memory = 1 THEN AtLeast(lasting, 2) ELSE lasting

PressureOf(level) ==
    CASE level = 0 -> "healthy" [] level = 1 -> "warning"
      [] level = 2 -> "intervention" [] level = 3 -> "emergency"

(* update_pressure_hysteresis: a pressure must last before it is active, a   *)
(* release the longer, the oftener the direction changed.                    *)
Hysteresis(g, desired, drop) ==
    LET candidate == IF desired = g.candidate THEN g
                     ELSE [g EXCEPT !.candidate = desired, !.since = 0]
        dwell == CASE desired = "healthy" -> Dwell["healthy"] + g.flips
                   [] desired = "emergency" /\ drop -> Dwell["drop"]
                   [] OTHER -> Dwell[desired]
        turns == (desired = "healthy") # (g.active = "healthy")
    IN  IF desired # g.active /\ candidate.since >= dwell
        THEN [candidate EXCEPT !.active = desired,
                 !.flips = IF turns THEN Min({@ + 1, MaxFlips}) ELSE @]
        ELSE candidate

(* reset_for_boundary of a frame transition inside the controller.           *)
AtTransition == [NewGovernor EXCEPT !.settling = Stabilization]

LowTimer(g, s) ==
    IF s.low # "correct" \/ s.kind # "valid" THEN NoTime ELSE AtLeast(g.low, 0)

Decision(g, used, level, s) ==
    [gov |-> g, used |-> used, level |-> level,
     pressed |-> \/ CorrectionLevel(s.live, s.sustained, s.tail, s.drop) >= 2
                 \/ Since(g.low, Dwell["low"])]

Held(g, s) == {Decision(g, FALSE, 0, s)}

(* The decision on a fresh sample, with the averages it leaves.              *)
Analysed(g, s, live, tail) ==
    LET low == LowTimer(g, s)
        level == Demand(s, live, tail, low)
        analysed == [g EXCEPT !.live = live, !.tail = tail, !.low = low]
    IN  Decision(Hysteresis(analysed, PressureOf(level), s.drop), TRUE, level, s)

(* AdaptiveGovernor::evaluate.  A sample is held back when its frames are    *)
(* older than a change (changed), when it shows nothing new, and while the   *)
(* telemetry settles.                                                       *)
Evaluate(g, s, changed) ==
    IF changed THEN Held(g, s)
    ELSE IF s.kind = "unavailable" THEN Held([g EXCEPT !.low = NoTime], s)
    ELSE IF s.kind = "transition" THEN Held(AtTransition, s)
    ELSE IF g.settling > 0 \/ s.kind = "duplicate" THEN Held(g, s)
    ELSE {Analysed(g, s, live, tail) :
             live \in Smoothed(g.live, s.live), tail \in Smoothed(g.tail, s.tail)}

(* Mutant: the last step up to the maximum is not taken                     *)
RecoveryBelowTop(d, s, q) ==
    /\ d.gov.active = "healthy" /\ d.level = 0
    /\ s.resources.safe /\ Lowest(q) + RecoveryStep < Top

RecoveryEligible(d, s, q) ==
    /\ d.gov.active = "healthy" /\ d.level = 0
    /\ s.resources.safe /\ Lowest(q) < Top

(* Mutant: an emergency does not wait for the last change to be measured     *)
SettledUnlessEmergency(active) ==
    active = "emergency" \/ NotWithin(clock.applied, Observation)

(* Receipt time starts the observation window of a change.                   *)
Settled(active) == NotWithin(clock.applied, Observation)

-----------------------------------------------------------------------------
(* From a pressure to a command: select_adaptive_runtime_control.            *)

Want(of, to) == {[of |-> of, to |-> to]}
Nothing == {}

Reduction(active, s, q, bottom) ==
    LET step == IF active = "emergency" THEN EmergencyStep ELSE InterventionStep
    IN  Max({0, ControlQuality(bottom, s.resources.primary),
             ControlQuality(q, s.resources.primary) - step})

Select(d, s, q, back, sure, bottom) ==
    LET active == d.gov.active
        to == Reduction(active, s, q, bottom)
    IN
    IF ~d.used \/ s.kind # "valid" \/ ~s.open THEN Nothing
    ELSE IF ~sure /\ back.to # Unset THEN Want(back.of, back.to)
    ELSE IF clock.map < MapGuard \/ ~Settled(active) THEN Nothing
    ELSE IF back.to # Unset /\ back.to > ControlQuality(q, back.of)
    THEN Want(back.of, back.to)
    ELSE IF active \in {"emergency", "intervention"}
    THEN IF /\ d.pressed \/ s.resources.memory >= 1
            /\ NotWithin(clock.dispatch, Interval[active])
            /\ to < ControlQuality(q, s.resources.primary)
            /\ s.resources.primary = Mixed => clock.map >= MixedGuard
         THEN Want(s.resources.primary, to) ELSE Nothing
    ELSE IF /\ RecoveryEligible(d, s, q)
            /\ NotWithin(clock.dispatch, Interval["recovery"])
    THEN Want(Recover, Min({Top, Lowest(q) + RecoveryStep}))
    ELSE Nothing

-----------------------------------------------------------------------------
(* What the last command did.                                               *)

(* Mutant: the controller goes on with the pressure from before the change   *)
ChangeUnnoticed(g) == g

(* notify_quality_applied: a new epoch of evidence begins.                   *)
ChangeNoticed(g) == [NewGovernor EXCEPT !.settling = g.settling]

(* poll_adaptive_quality_dispatcher; a rejected or failed command changes    *)
(* nothing.                                                                  *)
Polled ==
    LET of == ask.of
        met == rollback.of = of /\ rollback.to # Unset /\ ask.to >= rollback.to
        same == [q |-> quality, back |-> rollback, sure |-> known,
                 response |-> response, gov |-> gov, changed |-> FALSE]
    IN  CASE ask.answer = "applied" ->
               [same EXCEPT !.q = WithQuality(quality, of, ask.to),
                   !.back = IF met THEN NoRollback ELSE @,
                   !.sure = TRUE, !.response.applied = @ \/ response.from # Unset,
                   !.gov = ChangeNoticed(gov), !.changed = TRUE]
          [] ask.answer = "restored" ->
               [same EXCEPT !.back = NoRollback, !.sure = TRUE,
                   !.response = NoResponse, !.gov = ChangeNoticed(gov),
                   !.changed = TRUE]
          [] ask.answer = "unknown" ->
               [same EXCEPT !.back = [to |-> ask.from, of |-> of],
                   !.sure = FALSE, !.response = NoResponse]
          [] OTHER -> same

(* What the measurement says: nothing yet, the reduction helped, or not; an  *)
(* inconclusive one, as one whose gameplay ended, counts as not.             *)
Verdicts(r, age, active) ==
    IF ~r.applied THEN {"none"}
    ELSE IF ~active THEN {"ineffective"}
    ELSE IF age < Observation - Grace THEN {"none", "ineffective"}
    ELSE IF age < Observation THEN {"none", "improved", "ineffective"}
    ELSE {"improved", "ineffective"}

(* observe_adaptive_quality_response with the feedback it applies.           *)
Judged(p, verdict) ==
    LET r == p.response IN
    CASE verdict = "none" -> [floor |-> floor, back |-> p.back, response |-> r]
      [] verdict = "improved" ->
           [floor |-> floor, back |-> p.back, response |-> NoResponse]
      [] verdict = "ineffective" ->
           [floor |-> WithQuality(floor, r.of, r.from),
            back |-> [to |-> AtLeast(p.back.to, r.from), of |-> r.of],
            response |-> NoResponse]

-----------------------------------------------------------------------------
(* What justifies a reduction, kept apart from the controller's own timers:  *)
(* corrective samples in a row since the last change or window, not refuted  *)
(* by healthy ones for the longest dwell since.                             *)
Proven(p, d) ==
    LET pressed == IF d.level >= 2 THEN AtLeast(p.pressed, 0) ELSE NoTime
        calm == IF d.level = 0 THEN AtLeast(p.calm, 0) ELSE NoTime
    IN  IF ~d.used THEN p
        ELSE [p EXCEPT !.pressed = pressed, !.calm = calm,
                !.confirmed =
                   \/ Since(pressed, Dwell["drop"])
                   \/ @ /\ ~Since(calm, Dwell["healthy"] + MaxFlips)]

AgedProof(p) ==
    [p EXCEPT !.pressed = Older(@, DwellCap), !.calm = Older(@, DwellCap)]

-----------------------------------------------------------------------------
(* One telemetry tick: update_adaptive_controller.                          *)

AgedGovernor(g) ==
    [g EXCEPT !.since = Older(@, DwellCap), !.low = Older(@, DwellCap),
              !.settling = AtLeast(@ - 1, 0)]

AgedClock(c) ==
    [applied |-> Older(c.applied, LastAge),
     dispatch |-> Older(c.dispatch, LastAge), map |-> Older(c.map, LastAge)]

Usable == IF play.rough THEN Samples ELSE {CalmSample}

Unanswered == IF ask.answer = "none" THEN ask ELSE NoAsk

(* A reduction starts a measurement; whatever was measured is given up.      *)
Dispatched(w, q) ==
    /\ ask' = [of |-> w.of, from |-> ControlQuality(q, w.of), to |-> w.to,
               answer |-> "none"]
    /\ response' = IF w.to < ControlQuality(q, w.of)
                   THEN [of |-> w.of, from |-> ControlQuality(q, w.of),
                         applied |-> FALSE]
                   ELSE NoResponse

(* A tick of gameplay with the sample s, the polled state p, what is left of *)
(* the measurement j, and the clock c.                                      *)
Controls(s, p, j, c) ==
    IF s.kind = "stale_window"
    THEN /\ gov' = NewGovernor /\ proof' = NoProof
         /\ response' = j.response /\ ask' = Unanswered
         /\ clock' = AgedClock([c EXCEPT !.map = 0])
    ELSE \E d \in Evaluate(p.gov, s, p.changed) :
            LET wants == IF Unanswered = NoAsk
                         THEN Select(d, s, p.q, j.back, p.sure, j.floor)
                         ELSE Nothing
                seen == IF p.changed \/ s.kind = "transition" THEN NoProof
                        ELSE AgedProof(Proven(proof, d))
            IN
            /\ gov' = AgedGovernor(d.gov)
            /\ \/ /\ wants = Nothing
                  /\ proof' = seen
                  /\ ask' = Unanswered /\ response' = j.response
                  /\ clock' = AgedClock(c)
               \/ /\ \E w \in wants : Dispatched(w, p.q)
                  /\ proof' = [seen EXCEPT !.lost = j.response.applied]
                  /\ clock' = AgedClock([c EXCEPT !.dispatch = 0])

(* A menu or loading screen throws the controller's window away; qualities,  *)
(* floors and the queued rollback stay.                                     *)
Rests(p, j, c) ==
    /\ gov' = IF play.active THEN NewGovernor ELSE p.gov
    /\ proof' = NoProof
    /\ response' = j.response /\ ask' = Unanswered
    /\ clock' = AgedClock(c)

Tick(active) ==
    LET p == Polled
        starts == active /\ ~play.active
        c == [clock EXCEPT !.applied = IF p.changed THEN 0 ELSE @,
                           !.map = IF starts THEN 0 ELSE @]
    IN
    /\ play.active /\ ~active => play.spells < MaxRough
    /\ play' = [play EXCEPT !.active = active,
                  !.spells = IF play.active /\ ~active THEN @ + 1 ELSE @]
    /\ quality' = p.q /\ known' = p.sure
    /\ \E verdict \in Verdicts(p.response, c.applied, active) :
          LET j == Judged(p, verdict) IN
          /\ floor' = j.floor /\ rollback' = j.back
          /\ IF active
             THEN \E s \in Usable :
                     Controls(s, IF starts THEN [p EXCEPT !.gov = NewGovernor]
                                 ELSE p, j, c)
             ELSE Rests(p, j, c)

(* The worker got its answer, or none in time.                              *)
Answer ==
    /\ ask # NoAsk /\ ask.answer = "none"
    /\ \E answer \in IF play.rough
                     THEN {"applied", "restored", "unknown", "failed"}
                     ELSE {"applied"} :
          /\ answer = "restored" => ~known
          /\ ask' = [ask EXCEPT !.answer = answer]
    /\ UNCHANGED <<gov, quality, floor, rollback, known, response, clock, play,
                   proof>>

(* The fight is over, or begins.                                            *)
Weather ==
    /\ play.rough \/ play.spells < MaxRough
    /\ play' = [play EXCEPT !.rough = ~@,
                  !.spells = IF play.rough THEN @ ELSE @ + 1]
    /\ UNCHANGED <<gov, quality, floor, rollback, known, ask, response, clock,
                   proof>>

Next == Tick(TRUE) \/ Tick(FALSE) \/ Answer \/ Weather

(* The telemetry timer and the worker's timeout.                            *)
Spec ==
    /\ Init /\ [][Next]_vars
    /\ WF_vars(Tick(TRUE) \/ Tick(FALSE)) /\ WF_vars(Answer)

-----------------------------------------------------------------------------
Reduces(a) == a # NoAsk /\ a.to < a.from
Asks == ask' # ask /\ ask' # NoAsk /\ ask'.answer = "none"

(* adaptive_governor.cpp:1271, "its timestamp begins a new                   *)
(* performance-evidence epoch": a reduction is only asked for on pressure    *)
(* that lasted a dwell entirely after the last applied change and the last   *)
(* new window, and was not refuted by a healthy dwell since.  It is the      *)
(* shortest of the dwells that is demanded here, also where the governor     *)
(* waits for a longer one.                                                   *)
EvidenceIsOwn == [][Asks /\ Reduces(ask') => proof'.confirmed]_vars

(* telemetry_adaptive_stage.hpp:280, "cancel its own evidence": a command    *)
(* never gives up the measurement of a reduction that KF2 applied.           *)
NothingUnjudged == ~proof.lost

(* When the fight is over, the user's quality comes back.                   *)
CalmRecovers ==
    <>[](play.active /\ ~play.rough) =>
        <>[](\A r \in Resources : quality[r] = Top)

(* telemetry_adaptive_stage.cpp:350: a reduction that did not improve frame  *)
(* pacing "will not be reduced again during this gameplay session".          *)
PromiseKept ==
    [][\A r \in Resources : quality'[r] < quality[r] => quality'[r] >= floor[r]]_vars
=============================================================================
