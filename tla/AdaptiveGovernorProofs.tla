------------------------ MODULE AdaptiveGovernorProofs ------------------------
(***************************************************************************)
(* The Adaptive controller, proved for any resources, steps, dwells, ages,  *)
(* samples and spells: its records keep their types, no command gives up    *)
(* the measurement of a reduction that KF2 applied, and a reduction is only *)
(* asked for on evidence gathered since the last change or new window.      *)
(***************************************************************************)
EXTENDS AdaptiveGovernor, WellFoundedInduction, TLAPS

Governors ==
    [active : Pressures, candidate : Pressures, since : 0 .. DwellCap,
     low : {NoTime} \cup 0 .. DwellCap, flips : 0 .. MaxFlips,
     settling : 0 .. Stabilization, live : Signal \cup {Unset},
     tail : Signal \cup {Unset}]
Backs == [to : Level \cup {Unset}, of : Targets]
Responses == [of : Targets, from : Level \cup {Unset}, applied : BOOLEAN]
Proofs ==
    [pressed : {NoTime} \cup 0 .. DwellCap, calm : {NoTime} \cup 0 .. DwellCap,
     confirmed : BOOLEAN, lost : BOOLEAN]
Clocks ==
    [applied : {NoTime} \cup 0 .. LastAge, dispatch : {NoTime} \cup 0 .. LastAge,
     map : 0 .. LastAge]

(* The pressures that reduce.                                               *)
Harsh == {"intervention", "emergency"}

(* What is asked of KF2 is whole, and starts from the quality of today.      *)
AskIsWhole ==
    ask # NoAsk =>
        /\ ask.from = ControlQuality(quality, ask.of)
        /\ ask.from \in Level /\ ask.to \in Level

(* What is measured was applied at a known time from a known quality.        *)
ResponseIsWhole ==
    response.applied => clock.applied # NoTime /\ response.from # Unset /\ known

(* In doubt about the quality, the way back is never a reduction.            *)
DoubtIsNoReduction ==
    ~known /\ rollback.to # Unset =>
        rollback.to >= ControlQuality(quality, rollback.of)

(* The controller's timers never run ahead of the history: a harsh pressure  *)
(* is confirmed, a harsh candidate is pressed for as long as it is one, and  *)
(* calm is no older than the healthy candidate.                             *)
Backed(g, p) ==
    /\ g.active \in Harsh => p.confirmed
    /\ g.candidate \in Harsh => p.pressed # NoTime /\ p.pressed >= g.since
    /\ p.calm # NoTime => g.candidate = "healthy" /\ g.since >= p.calm

EvidenceHolds == Backed(gov, proof)

(* Outside of gameplay the controller has no window.                         *)
RestIsFresh ==
    ~play.active =>
        proof = NoProof /\ gov.active = "observing" /\ gov.candidate = "observing"

GovernorInv ==
    /\ TypeOK /\ AskIsWhole /\ ResponseIsWhole /\ DoubtIsNoReduction
    /\ EvidenceHolds /\ RestIsFresh /\ NothingUnjudged

-----------------------------------------------------------------------------
(* A set of numbers that is not empty has a least one.                       *)
LEMMA LeastExists ==
  ASSUME NEW S \in SUBSET Nat, S # {}
  PROVE  \E m \in S : \A y \in S : m <= y
<1> DEFINE R == {ss \in Nat \X Nat : ss[1] < ss[2]}
<1>1. IsWellFoundedOn(R, Nat)
  <2>1. OpToRel(<, Nat) = R
    BY DEF OpToRel
  <2> QED
    BY <2>1, NatLessThanWellFounded
<1>2. PICK m \in S : \A y \in S : ~ (<<y, m>> \in R)
  BY <1>1, WFMin
<1>3. ASSUME NEW y \in S PROVE m <= y
  <2>1. <<y, m>> \notin R /\ <<y, m>> \in Nat \X Nat
    BY <1>2, <1>3
  <2>2. ~(<<y, m>>[1] < <<y, m>>[2])
    BY <2>1
  <2> QED
    BY <2>2, <1>3
<1> QED
  BY <1>3

LEMMA LeastIs ==
  ASSUME NEW S, S \subseteq Int, NEW m \in S, \A y \in S : m <= y
  PROVE  Min(S) = m
<1>1. \E x \in S : \A y \in S : x =< y
  OBVIOUS
<1>2. Min(S) \in S /\ \A y \in S : Min(S) =< y
  BY <1>1, Zenon DEF Min
<1>3. Min(S) <= m /\ m <= Min(S) /\ Min(S) \in Int /\ m \in Int
  BY <1>2
<1> QED
  BY <1>3

LEMMA MostIs ==
  ASSUME NEW S, S \subseteq Int, NEW m \in S, \A y \in S : y <= m
  PROVE  Max(S) = m
<1>1. \E x \in S : \A y \in S : x >= y
  OBVIOUS
<1>2. Max(S) \in S /\ \A y \in S : Max(S) >= y
  BY <1>1, Zenon DEF Max
<1>3. Max(S) >= m /\ m >= Max(S) /\ Max(S) \in Int /\ m \in Int
  BY <1>2
<1> QED
  BY <1>3

(* The least and the greatest of two numbers.                                *)
LEMMA LeastOfTwo ==
  ASSUME NEW a \in Int, NEW b \in Int
  PROVE  Min({a, b}) = IF a <= b THEN a ELSE b
<1>1. CASE a <= b
  BY <1>1, LeastIs
<1>2. CASE ~(a <= b)
  BY <1>2, LeastIs
<1> QED
  BY <1>1, <1>2

LEMMA MostOfThree ==
  ASSUME NEW a \in Int, NEW b \in Int, NEW c \in Int
  PROVE  Max({a, b, c}) \in {a, b, c}
<1>1. PICK m \in {a, b, c} : \A y \in {a, b, c} : y <= m
  OBVIOUS
<1> QED
  BY <1>1, MostIs

(* The longest dwell and the last age that is told apart are numbers.        *)
LEMMA Caps == ASSUME GovernorAssumption PROVE DwellCap \in Nat /\ LastAge \in Nat
<1> DEFINE Names == {"drop", "emergency", "intervention", "warning", "healthy", "low"}
<1>1. DOMAIN Dwell = Names /\ \A p \in Names : Dwell[p] \in Nat
  BY DEF GovernorAssumption
<1>2. \E d \in Names : \A p \in Names : Dwell[p] <= Dwell[d]
  BY <1>1
<1>3. Max({Dwell[p] : p \in DOMAIN Dwell}) \in Nat
  <2>1. PICK d \in Names : \A p \in Names : Dwell[p] <= Dwell[d]
    BY <1>2
  <2>2. {Dwell[p] : p \in DOMAIN Dwell} \subseteq Int
    BY <1>1
  <2>3. /\ Dwell[d] \in {Dwell[p] : p \in DOMAIN Dwell}
        /\ \A y \in {Dwell[p] : p \in DOMAIN Dwell} : y <= Dwell[d]
    BY <1>1, <2>1
  <2>4. Max({Dwell[p] : p \in DOMAIN Dwell}) = Dwell[d]
    BY <2>2, <2>3, MostIs
  <2> QED
    BY <1>1, <2>4
<1>4. Interval["recovery"] \in Nat /\ Observation \in Nat /\ MixedGuard \in Nat
      /\ MaxFlips \in Nat
  BY DEF GovernorAssumption
<1>5. LastAge \in Nat
  <2>1. LastAge \in {Observation, MixedGuard, Interval["recovery"]}
    BY <1>4, MostOfThree DEF LastAge
  <2> QED
    BY <1>4, <2>1
<1> QED
  BY <1>3, <1>4, <1>5 DEF DwellCap

(* The lowest quality is one, and none is lower.                             *)
LEMMA LowestIsLevel ==
  ASSUME GovernorAssumption, NEW q \in [Resources -> Level]
  PROVE  Lowest(q) \in Level
<1> DEFINE S == {q[r] : r \in Resources}
<1>1. S \in SUBSET Nat /\ S \subseteq Level /\ S # {}
  BY DEF GovernorAssumption, Level
<1>2. PICK m \in S : \A y \in S : m <= y
  BY <1>1, LeastExists
<1>3. Min(S) = m
  BY <1>1, <1>2, LeastIs
<1> QED
  BY <1>1, <1>3 DEF Lowest

LEMMA ControlIsLevel ==
  ASSUME GovernorAssumption, NEW q \in [Resources -> Level], NEW of
  PROVE  ControlQuality(q, of) \in Level
  BY LowestIsLevel DEF ControlQuality

LEMMA WithQualityIsQuality ==
  ASSUME NEW q \in [Resources -> Level], NEW of, NEW to \in Level
  PROVE  WithQuality(q, of, to) \in [Resources -> Level]
  BY DEF WithQuality, AtLeast, Level

(* An age grows up to its cap, and an older age stays the older one.         *)
LEMMA Ageing ==
  ASSUME NEW cap \in Nat, NEW a \in {NoTime} \cup 0 .. cap,
         NEW b \in {NoTime} \cup 0 .. cap
  PROVE  /\ Older(a, cap) \in {NoTime} \cup 0 .. cap
         /\ a # NoTime <=> Older(a, cap) # NoTime
         /\ a # NoTime => Older(a, cap) \in 0 .. cap
         /\ a <= b => Older(a, cap) <= Older(b, cap)
  BY DEF Older, NoTime

-----------------------------------------------------------------------------
(* The hysteresis: the candidate is the desired pressure, its age starts     *)
(* over when it is new, a pressure becomes active by having been the         *)
(* candidate for at least the shortest dwell, and a healthy candidate that   *)
(* outlasts its dwell does become active.                                   *)
LEMMA HysteresisIs ==
  ASSUME GovernorAssumption, NEW g \in Governors, NEW drop \in BOOLEAN,
         NEW desired \in Pressures \ {"observing"}
  PROVE  LET h == Hysteresis(g, desired, drop) IN
         /\ h \in Governors /\ h.candidate = desired
         /\ h.since = IF desired = g.candidate THEN g.since ELSE 0
         /\ h.active # g.active => h.active = desired
         /\ h.active # g.active /\ desired \in Harsh =>
               desired = g.candidate /\ g.since >= Dwell["drop"]
         /\ desired = "healthy" /\ h.since >= Dwell["healthy"] + MaxFlips =>
               h.active = "healthy"
<1> DEFINE c == IF desired = g.candidate THEN g
                ELSE [g EXCEPT !.candidate = desired, !.since = 0]
           dwell == CASE desired = "healthy" -> Dwell["healthy"] + g.flips
                      [] desired = "emergency" /\ drop -> Dwell["drop"]
                      [] OTHER -> Dwell[desired]
           turns == (desired = "healthy") # (g.active = "healthy")
           h == Hysteresis(g, desired, drop)
<1>1. /\ DwellCap \in Nat /\ MaxFlips \in Nat
      /\ desired \in {"healthy", "warning", "intervention", "emergency"}
      /\ Dwell["drop"] \in Nat \ {0} /\ Dwell["healthy"] \in Nat \ {0}
      /\ Dwell["emergency"] \in Nat /\ Dwell["intervention"] \in Nat
      /\ Dwell["warning"] \in Nat
      /\ Dwell["drop"] <= Dwell["emergency"]
      /\ Dwell["emergency"] <= Dwell["intervention"]
  BY Caps DEF GovernorAssumption, Pressures
<1>2. g.since \in 0 .. DwellCap /\ g.flips \in 0 .. MaxFlips
  BY DEF Governors
<1>3. /\ c \in Governors /\ c.candidate = desired /\ c.active = g.active
      /\ c.since = IF desired = g.candidate THEN g.since ELSE 0
      /\ c.flips = g.flips
  <2>1. CASE desired = g.candidate
    BY <2>1
  <2>2. CASE desired # g.candidate
    <3>1. c = [g EXCEPT !.candidate = desired, !.since = 0] /\ 0 \in 0 .. DwellCap
      BY <1>1, <2>2
    <3> QED
      BY <2>2, <3>1 DEF Governors
  <2> QED
    BY <2>1, <2>2
<1>4. /\ desired = "healthy" => dwell <= Dwell["healthy"] + MaxFlips
      /\ desired \in Harsh => dwell >= Dwell["drop"]
  BY <1>1, <1>2 DEF Harsh
<1>5. CASE desired # g.active /\ c.since >= dwell
  <2>1. h = [c EXCEPT !.active = desired,
                      !.flips = IF turns THEN Min({@ + 1, MaxFlips}) ELSE @]
    BY <1>5 DEF Hysteresis
  <2>2. (IF turns THEN Min({c.flips + 1, MaxFlips}) ELSE c.flips) \in 0 .. MaxFlips
    <3>1. c.flips \in 0 .. MaxFlips /\ c.flips + 1 \in Int
      BY <1>1, <1>2, <1>3
    <3>2. Min({c.flips + 1, MaxFlips}) =
             IF c.flips + 1 <= MaxFlips THEN c.flips + 1 ELSE MaxFlips
      BY <1>1, <3>1, LeastOfTwo
    <3>3. Min({c.flips + 1, MaxFlips}) \in 0 .. MaxFlips
      BY <1>1, <3>1, <3>2
    <3> QED
      BY <3>1, <3>3
  <2>3. h \in Governors /\ h.candidate = desired /\ h.active = desired
        /\ h.since = c.since
    BY <1>3, <2>1, <2>2 DEF Governors
  <2>4. desired \in Harsh => desired = g.candidate /\ g.since >= Dwell["drop"]
    BY <1>1, <1>2, <1>3, <1>4, <1>5 DEF Harsh
  <2> QED
    BY <1>3, <2>3, <2>4
<1>6. CASE ~(desired # g.active /\ c.since >= dwell)
  <2>1. h = c
    BY <1>6 DEF Hysteresis
  <2>2. desired = "healthy" /\ c.since >= Dwell["healthy"] + MaxFlips =>
           g.active = "healthy"
    BY <1>1, <1>2, <1>3, <1>4, <1>6
  <2> QED
    BY <1>3, <2>1, <2>2
<1> QED
  BY <1>5, <1>6

(* The level a sample asks for is one of four.                               *)
LEMMA DemandIsLevel ==
  ASSUME NEW s \in Sample, NEW live, NEW tail, NEW low
  PROVE  Demand(s, live, tail, low) \in 0 .. 3
<1>1. s.resources.memory \in 0 .. 2
  BY DEF Sample, ResourceReport
<1>2. CorrectionLevel(AtLeast(live, s.live), s.sustained, tail, s.drop) \in {0, 2, 3}
  BY DEF CorrectionLevel
<1> QED
  BY <1>1, <1>2 DEF Demand, AtLeast

LEMMA PressureIsDesired ==
  ASSUME NEW level \in 0 .. 3
  PROVE  /\ PressureOf(level) \in Pressures \ {"observing"}
         /\ PressureOf(level) = "healthy" <=> level = 0
         /\ PressureOf(level) \in Harsh <=> level >= 2
  BY DEF PressureOf, Pressures, Harsh

LEMMA SmoothedIsSignal ==
  ASSUME NEW last \in Signal \cup {Unset}, NEW raw \in Signal
  PROVE  Smoothed(last, raw) \subseteq Signal
  BY DEF Smoothed, Signal, Unset

(* The two windows the controller starts over with.                          *)
LEMMA FreshGovernors ==
  ASSUME GovernorAssumption, NEW g \in Governors
  PROVE  /\ NewGovernor \in Governors /\ AtTransition \in Governors
         /\ ChangeNoticed(g) \in Governors
  BY Caps DEF Governors, NewGovernor, AtTransition, ChangeNoticed, Pressures,
     NoTime, Unset, GovernorAssumption

(* An evaluation either holds the sample back, and leaves pressure and       *)
(* candidate alone or starts over, or uses it in the hysteresis.             *)
LEMMA EvaluateIs ==
  ASSUME GovernorAssumption, NEW g \in Governors, NEW s \in Sample,
         NEW changed \in BOOLEAN, NEW d \in Evaluate(g, s, changed)
  PROVE  /\ d.gov \in Governors /\ d.used \in BOOLEAN /\ d.level \in 0 .. 3
         /\ ~d.used =>
               \/ d.gov = AtTransition /\ s.kind = "transition"
               \/ /\ d.gov.active = g.active /\ d.gov.since = g.since
                  /\ d.gov.candidate = g.candidate
         /\ d.used =>
               /\ ~changed /\ s.kind # "transition"
               /\ \E a \in Governors :
                     /\ a.active = g.active /\ a.candidate = g.candidate
                     /\ a.since = g.since
                     /\ d.gov = Hysteresis(a, PressureOf(d.level), s.drop)
<1>1. /\ [g EXCEPT !.low = NoTime] \in Governors
      /\ AtTransition \in Governors
  BY FreshGovernors DEF Governors, NoTime
<1>2. ASSUME NEW h, d \in Held(h, s), h \in Governors
      PROVE  d.gov = h /\ ~d.used /\ d.used \in BOOLEAN /\ d.level \in 0 .. 3
  <2>1. d = Decision(h, FALSE, 0, s)
    BY <1>2 DEF Held
  <2>2. d.gov = h /\ d.used = FALSE /\ d.level = 0
    BY <2>1 DEF Decision
  <2>3. d.level \in 0 .. 3
    BY <2>2
  <2>4. ~d.used /\ d.used \in BOOLEAN
    BY <2>2, Zenon
  <2> QED
    BY <2>2, <2>3, <2>4
<1>3. CASE changed
  BY <1>2, <1>3 DEF Evaluate
<1>4. CASE ~changed /\ s.kind = "unavailable"
  <2>1. d \in Held([g EXCEPT !.low = NoTime], s)
    BY <1>4 DEF Evaluate
  <2>2. d.gov = [g EXCEPT !.low = NoTime] /\ ~d.used /\ d.used \in BOOLEAN
        /\ d.level \in 0 .. 3
    BY <1>1, <1>2, <2>1
  <2> QED
    BY <1>1, <2>2 DEF Governors
<1>5. CASE ~changed /\ s.kind = "transition"
  <2>1. d \in Held(AtTransition, s)
    BY <1>5 DEF Evaluate
  <2> QED
    BY <1>1, <1>2, <1>5, <2>1
<1>6. CASE ~changed /\ s.kind # "unavailable" /\ s.kind # "transition"
           /\ (g.settling > 0 \/ s.kind = "duplicate")
  <2>1. d \in Held(g, s)
    BY <1>6 DEF Evaluate
  <2> QED
    BY <1>2, <2>1
<1>7. CASE ~changed /\ s.kind # "unavailable" /\ s.kind # "transition"
           /\ ~(g.settling > 0 \/ s.kind = "duplicate")
  <2>1. PICK live \in Smoothed(g.live, s.live), tail \in Smoothed(g.tail, s.tail) :
           d = Analysed(g, s, live, tail)
    <3>1. g.settling \in Int
      BY DEF Governors
    <3> QED
      BY <1>7, <3>1 DEF Evaluate
  <2> DEFINE low == LowTimer(g, s)
             a == [g EXCEPT !.live = live, !.tail = tail, !.low = low]
             level == Demand(s, live, tail, low)
  <2>2. s.drop \in BOOLEAN /\ s.live \in Signal /\ s.tail \in Signal
    BY DEF Sample
  <2>3. live \in Signal /\ tail \in Signal
    BY <2>1, <2>2, SmoothedIsSignal DEF Governors
  <2>4. low \in {NoTime} \cup 0 .. DwellCap
    BY Caps DEF LowTimer, AtLeast, Governors, NoTime
  <2>5. /\ a \in Governors /\ a.active = g.active /\ a.candidate = g.candidate
        /\ a.since = g.since
    BY <2>3, <2>4 DEF Governors
  <2>6. level \in 0 .. 3 /\ PressureOf(level) \in Pressures \ {"observing"}
    BY DemandIsLevel, PressureIsDesired
  <2>7. d.gov = Hysteresis(a, PressureOf(level), s.drop) /\ d.level = level
        /\ d.used = TRUE
    BY <2>1 DEF Analysed, Decision
  <2>8. d.gov \in Governors
    BY <2>2, <2>5, <2>6, <2>7, HysteresisIs
  <2> QED
    BY <1>7, <2>5, <2>6, <2>7, <2>8
<1> QED
  BY <1>3, <1>4, <1>5, <1>6, <1>7

-----------------------------------------------------------------------------
PolledStates ==
    [q : [Resources -> Level], back : Backs, sure : BOOLEAN, response : Responses,
     gov : Governors, changed : BOOLEAN]

(* The answer of KF2: what is polled keeps its types; only an answer that    *)
(* changes the quality restarts the controller, and it ends the doubt; what  *)
(* goes on being measured was applied before, or just now.                  *)
LEMMA PolledIs ==
  ASSUME GovernorAssumption, TypeOK, AskIsWhole, ResponseIsWhole, DoubtIsNoReduction
  PROVE  /\ Polled \in PolledStates
         /\ Polled.q \in [Resources -> Level] /\ Polled.back \in Backs
         /\ Polled.sure \in BOOLEAN /\ Polled.response \in Responses
         /\ Polled.gov \in Governors /\ Polled.changed \in BOOLEAN
         /\ Polled.changed => Polled.gov = ChangeNoticed(gov)
         /\ ~Polled.changed => Polled.gov = gov
         /\ ask.answer = "none" => Polled.q = quality
         /\ Polled.response.applied =>
               /\ Polled.response.from # Unset /\ Polled.sure
               /\ Polled.changed \/ response.applied
         /\ ~Polled.sure /\ Polled.back.to # Unset =>
               Polled.back.to >= ControlQuality(Polled.q, Polled.back.of)
<1> DEFINE of == ask.of
           met == rollback.of = of /\ rollback.to # Unset /\ ask.to >= rollback.to
           same == [q |-> quality, back |-> rollback, sure |-> known,
                    response |-> response, gov |-> gov, changed |-> FALSE]
<1>1. /\ quality \in [Resources -> Level] /\ rollback \in Backs
      /\ known \in BOOLEAN /\ response \in Responses /\ gov \in Governors
      /\ ChangeNoticed(gov) \in Governors
  BY FreshGovernors DEF TypeOK, Backs, Responses, Governors
<1>2. NoRollback \in Backs /\ NoResponse \in Responses /\ ~NoResponse.applied
      /\ NoRollback.to = Unset
  BY DEF NoRollback, NoResponse, Backs, Responses, Targets
<1>3. ask.of \in Targets /\ ask.from \in Level \cup {Unset}
  BY DEF TypeOK
<1>4. CASE ask.answer = "applied"
  <2>1. Polled = [same EXCEPT !.q = WithQuality(quality, of, ask.to),
                     !.back = IF met THEN NoRollback ELSE @,
                     !.sure = TRUE, !.response.applied = @ \/ response.from # Unset,
                     !.gov = ChangeNoticed(gov), !.changed = TRUE]
    BY <1>4 DEF Polled
  <2>2. ask.to \in Level
    BY <1>4 DEF AskIsWhole, NoAsk
  <2>3. WithQuality(quality, of, ask.to) \in [Resources -> Level]
    BY <1>1, <2>2, WithQualityIsQuality
  <2>4. /\ Polled.q = WithQuality(quality, of, ask.to)
        /\ Polled.back = (IF met THEN NoRollback ELSE rollback)
        /\ Polled.sure = TRUE /\ Polled.gov = ChangeNoticed(gov)
        /\ Polled.changed = TRUE
        /\ Polled.response =
              [response EXCEPT !.applied = @ \/ response.from # Unset]
    BY <2>1
  <2>5. /\ Polled.response \in Responses
        /\ Polled.response.applied => Polled.response.from # Unset
    BY <1>1, <2>4 DEF Responses, ResponseIsWhole
  <2>6. Polled = [q |-> Polled.q, back |-> Polled.back, sure |-> Polled.sure,
                  response |-> Polled.response, gov |-> Polled.gov,
                  changed |-> Polled.changed]
    BY <2>1
  <2>7. Polled.back \in Backs
    BY <1>1, <1>2, <2>4
  <2>8. Polled \in PolledStates
    BY <1>1, <2>3, <2>4, <2>5, <2>6, <2>7 DEF PolledStates
  <2> QED
    BY <1>1, <1>2, <1>4, <2>3, <2>4, <2>5, <2>7, <2>8
<1>5. CASE ask.answer = "restored"
  <2>1. Polled = [same EXCEPT !.back = NoRollback, !.sure = TRUE,
                     !.response = NoResponse, !.gov = ChangeNoticed(gov),
                     !.changed = TRUE]
    BY <1>5 DEF Polled
  <2>2. /\ Polled.q = quality /\ Polled.back = NoRollback /\ Polled.sure = TRUE
        /\ Polled.response = NoResponse /\ Polled.gov = ChangeNoticed(gov)
        /\ Polled.changed = TRUE
    BY <2>1
  <2>3. Polled \in PolledStates
    BY <1>1, <1>2, <2>1 DEF PolledStates
  <2> QED
    BY <1>1, <1>2, <1>5, <2>2, <2>3
<1>6. CASE ask.answer = "unknown"
  <2>1. Polled = [same EXCEPT !.back = [to |-> ask.from, of |-> of],
                     !.sure = FALSE, !.response = NoResponse]
    BY <1>6 DEF Polled
  <2>2. /\ Polled.q = quality /\ Polled.back = [to |-> ask.from, of |-> of]
        /\ Polled.sure = FALSE /\ Polled.response = NoResponse
        /\ Polled.gov = gov /\ Polled.changed = FALSE
    BY <2>1
  <2>3. [to |-> ask.from, of |-> of] \in Backs
    BY <1>3 DEF Backs
  <2>4. ask.from = ControlQuality(quality, of) /\ ask.from \in Level
    BY <1>6 DEF AskIsWhole, NoAsk
  <2>5. Polled.back.to >= ControlQuality(Polled.q, Polled.back.of)
    BY <2>2, <2>4 DEF Level
  <2>6. Polled \in PolledStates
    BY <1>1, <1>2, <2>1, <2>3 DEF PolledStates
  <2> QED
    BY <1>1, <1>2, <1>6, <2>2, <2>3, <2>5, <2>6
<1>7. CASE ask.answer \notin {"applied", "restored", "unknown"}
  <2>1. Polled = same
    BY <1>7 DEF Polled
  <2>2. /\ Polled.q = quality /\ Polled.back = rollback /\ Polled.sure = known
        /\ Polled.response = response /\ Polled.gov = gov
        /\ Polled.changed = FALSE
    BY <2>1
  <2>3. Polled \in PolledStates
    BY <1>1, <2>1 DEF PolledStates
  <2> QED
    BY <1>1, <2>2, <2>3 DEF ResponseIsWhole, DoubtIsNoReduction
<1> QED
  BY <1>4, <1>5, <1>6, <1>7

(* The measurement: one that goes on is that of before, and in gameplay its  *)
(* time is not up; without one, nothing is learned.                         *)
LEMMA JudgedIs ==
  ASSUME GovernorAssumption, TypeOK, NEW p, p.back \in Backs, p.response \in Responses,
         p.response.applied => p.response.from # Unset,
         NEW age \in {NoTime} \cup 0 .. LastAge, NEW active \in BOOLEAN,
         NEW verdict \in Verdicts(p.response, age, active)
  PROVE  LET j == Judged(p, verdict) IN
         /\ j.floor \in [Resources -> Level] /\ j.back \in Backs
         /\ j.response \in Responses
         /\ ~p.response.applied => j.back = p.back
         /\ j.response.applied =>
               j.response = p.response /\ (active => age < Observation)
<1> DEFINE r == p.response
           j == Judged(p, verdict)
<1>1. /\ verdict \in {"none", "improved", "ineffective"}
      /\ ~r.applied => verdict = "none"
      /\ r.applied /\ active /\ verdict = "none" => age < Observation
  <2>1. Observation \in Nat /\ Grace \in Nat /\ age \in Int
    BY Caps DEF GovernorAssumption, NoTime
  <2> QED
    BY <2>1 DEF Verdicts
<1>2. NoResponse \in Responses /\ ~NoResponse.applied /\ floor \in [Resources -> Level]
  BY DEF NoResponse, Responses, Targets, TypeOK
<1>3. CASE verdict = "none"
  <2>1. j = [floor |-> floor, back |-> p.back, response |-> r]
    BY <1>3 DEF Judged
  <2> QED
    BY <1>1, <1>2, <1>3, <2>1
<1>4. CASE verdict = "improved"
  <2>1. j = [floor |-> floor, back |-> p.back, response |-> NoResponse]
    BY <1>4 DEF Judged
  <2> QED
    BY <1>2, <2>1
<1>5. CASE verdict = "ineffective"
  <2>1. j = [floor |-> WithQuality(floor, r.of, r.from),
             back |-> [to |-> AtLeast(p.back.to, r.from), of |-> r.of],
             response |-> NoResponse]
    BY <1>5 DEF Judged
  <2>2. r.applied /\ r.from \in Level /\ r.of \in Targets
    BY <1>1, <1>5 DEF Responses
  <2>3. WithQuality(floor, r.of, r.from) \in [Resources -> Level]
    BY <1>2, <2>2, WithQualityIsQuality
  <2>4. AtLeast(p.back.to, r.from) \in Level \cup {Unset}
    BY <2>2 DEF AtLeast, Backs
  <2>5. [to |-> AtLeast(p.back.to, r.from), of |-> r.of] \in Backs
    BY <2>2, <2>4 DEF Backs
  <2> QED
    BY <1>2, <2>1, <2>2, <2>3, <2>5
<1> QED
  BY <1>1, <1>3, <1>4, <1>5

(* The command takes back what is queued to be taken back.                   *)
IsWayBack(w, back) == w.of = back.of /\ w.to = back.to /\ back.to # Unset

(* A command is only sent on a sample that was used; unless in doubt, after  *)
(* the last change was observed; and it reduces only under a harsh pressure, *)
(* or in doubt, on the way back.                                            *)
LEMMA SelectIs ==
  ASSUME GovernorAssumption, NEW d, NEW s \in Sample, NEW q \in [Resources -> Level],
         NEW back \in Backs, NEW sure \in BOOLEAN, NEW bottom \in [Resources -> Level],
         NEW w \in Select(d, s, q, back, sure, bottom)
  PROVE  /\ d.used /\ w.of \in Targets /\ w.to \in Level
         /\ sure => NotWithin(clock.applied, Observation)
         /\ w.to < ControlQuality(q, w.of) =>
               d.gov.active \in Harsh \/ IsWayBack(w, back)
         /\ sure /\ w.to < ControlQuality(q, w.of) => d.gov.active \in Harsh
<1> DEFINE active == d.gov.active
           to == Reduction(active, s, q, bottom)
           primary == s.resources.primary
<1>1. primary \in Resources \cup {Mixed} /\ Recover \notin Resources
  BY DEF Sample, ResourceReport, GovernorAssumption
<1>2. /\ Top \in Nat \ {0} /\ RecoveryStep \in Nat \ {0}
      /\ EmergencyStep \in Nat \ {0} /\ InterventionStep \in Nat \ {0}
  BY DEF GovernorAssumption
<1>3. Lowest(q) \in Level /\ ControlQuality(q, Recover) = Lowest(q)
  BY <1>1, LowestIsLevel DEF ControlQuality
<1>4. to \in Level
  <2> DEFINE step == IF active = "emergency" THEN EmergencyStep ELSE InterventionStep
             a == ControlQuality(bottom, primary)
             b == ControlQuality(q, primary) - step
  <2>1. a \in Level /\ ControlQuality(q, primary) \in Level
    BY ControlIsLevel
  <2>2. a \in Int /\ b \in Int /\ a <= Top /\ b <= Top
    BY <1>2, <2>1 DEF Level
  <2>3. \A x \in {0, a, b} : x \in Int /\ x <= Top
    BY <1>2, <2>2
  <2>4. PICK m \in {0, a, b} : \A x \in {0, a, b} : x <= m
    BY <2>2
  <2>5. Max({0, a, b}) = m
    BY <2>3, <2>4, MostIs
  <2>6. m \in Level
    BY <2>3, <2>4 DEF Level
  <2> QED
    BY <2>5, <2>6 DEF Reduction
<1>5. Min({Top, Lowest(q) + RecoveryStep}) \in Level
      /\ ~(Min({Top, Lowest(q) + RecoveryStep}) < Lowest(q))
  <2>1. /\ Top \in Int /\ Lowest(q) + RecoveryStep \in Int
        /\ Lowest(q) \in 0 .. Top
    BY <1>2, <1>3 DEF Level
  <2>2. Min({Top, Lowest(q) + RecoveryStep}) =
           IF Top <= Lowest(q) + RecoveryStep THEN Top ELSE Lowest(q) + RecoveryStep
    BY <2>1, LeastOfTwo
  <2> QED
    BY <1>2, <2>1, <2>2 DEF Level
<1>6. d.used
  BY DEF Select, Nothing
<1>7. CASE ~sure /\ back.to # Unset
  <2>1. w = [of |-> back.of, to |-> back.to]
    BY <1>6, <1>7 DEF Select, Nothing, Want
  <2> QED
    BY <1>6, <1>7, <2>1 DEF Backs, IsWayBack
<1>8. CASE ~(~sure /\ back.to # Unset)
  <2>1. ~(clock.map < MapGuard \/ ~Settled(active))
    BY <1>8 DEF Select, Nothing
  <2>2. NotWithin(clock.applied, Observation)
    BY <2>1 DEF Settled
  <2>3. CASE back.to # Unset /\ back.to > ControlQuality(q, back.of)
    <3>1. w = [of |-> back.of, to |-> back.to]
      BY <1>6, <1>8, <2>1, <2>3 DEF Select, Nothing, Want
    <3>2. ControlQuality(q, back.of) \in Int /\ back.to \in Int /\ back.to \in Level
      BY <2>3, ControlIsLevel DEF Backs, Level
    <3> QED
      BY <1>6, <2>2, <2>3, <3>1, <3>2 DEF Backs
  <2>4. CASE ~(back.to # Unset /\ back.to > ControlQuality(q, back.of))
             /\ active \in {"emergency", "intervention"}
    <3>1. w = [of |-> primary, to |-> to]
      BY <1>6, <1>8, <2>1, <2>4 DEF Select, Nothing, Want
    <3> QED
      BY <1>1, <1>4, <1>6, <2>2, <2>4, <3>1 DEF Targets, Harsh
  <2>5. CASE ~(back.to # Unset /\ back.to > ControlQuality(q, back.of))
             /\ active \notin {"emergency", "intervention"}
    <3>1. w = [of |-> Recover, to |-> Min({Top, Lowest(q) + RecoveryStep})]
      BY <1>6, <1>8, <2>1, <2>5 DEF Select, Nothing, Want
    <3> QED
      BY <1>3, <1>5, <1>6, <2>2, <3>1 DEF Targets
  <2> QED
    BY <2>3, <2>4, <2>5
<1> QED
  BY <1>7, <1>8

-----------------------------------------------------------------------------
(* The history keeps up with the hysteresis: what an evaluation makes of the *)
(* controller stays backed by what the same sample makes of the history.     *)
LEMMA ProvenBacks ==
  ASSUME GovernorAssumption, NEW g \in Governors, NEW p \in Proofs, Backed(g, p),
         NEW s \in Sample, s.kind # "transition",
         NEW changed \in BOOLEAN, ~changed, NEW d \in Evaluate(g, s, changed)
  PROVE  /\ Proven(p, d) \in Proofs /\ Proven(p, d).lost = p.lost
         /\ Backed(d.gov, Proven(p, d))
<1>1. /\ d.used \in BOOLEAN /\ d.level \in 0 .. 3 /\ d.gov \in Governors
      /\ ~d.used => /\ d.gov.active = g.active /\ d.gov.since = g.since
                    /\ d.gov.candidate = g.candidate
  BY EvaluateIs
<1>2. CASE ~d.used
  <2>1. Proven(p, d) = p
    BY <1>2 DEF Proven
  <2> QED
    BY <1>1, <1>2, <2>1 DEF Backed
<1>3. CASE d.used
  <2>1. PICK a \in Governors :
           /\ a.active = g.active /\ a.candidate = g.candidate /\ a.since = g.since
           /\ d.gov = Hysteresis(a, PressureOf(d.level), s.drop)
    BY <1>3, EvaluateIs
  <2> DEFINE h == d.gov
             desired == PressureOf(d.level)
             pressed == IF d.level >= 2 THEN AtLeast(p.pressed, 0) ELSE NoTime
             calm == IF d.level = 0 THEN AtLeast(p.calm, 0) ELSE NoTime
             confirmed == \/ Since(pressed, Dwell["drop"])
                          \/ p.confirmed /\ ~Since(calm, Dwell["healthy"] + MaxFlips)
  <2>2. Proven(p, d) = [p EXCEPT !.pressed = pressed, !.calm = calm,
                                 !.confirmed = confirmed]
    BY <1>3 DEF Proven
  <2>3. /\ p.pressed \in {NoTime} \cup 0 .. DwellCap
        /\ p.calm \in {NoTime} \cup 0 .. DwellCap /\ p.confirmed \in BOOLEAN
        /\ DwellCap \in Nat /\ g.since \in 0 .. DwellCap
        /\ Dwell["drop"] \in Nat \ {0} /\ Dwell["healthy"] \in Nat \ {0}
        /\ MaxFlips \in Nat
    BY Caps DEF Proofs, Governors, GovernorAssumption
  <2>4. /\ pressed \in {NoTime} \cup 0 .. DwellCap
        /\ calm \in {NoTime} \cup 0 .. DwellCap
        /\ d.level >= 2 => pressed # NoTime /\ pressed >= p.pressed /\ pressed >= 0
        /\ calm # NoTime => d.level = 0 /\ (p.calm # NoTime => calm = p.calm)
                            /\ (p.calm = NoTime => calm = 0)
    BY <1>1, <2>3 DEF AtLeast, NoTime
  <2>5. /\ Proven(p, d) \in Proofs /\ Proven(p, d).lost = p.lost
        /\ Proven(p, d).pressed = pressed /\ Proven(p, d).calm = calm
        /\ Proven(p, d).confirmed = confirmed
    BY <2>2, <2>3, <2>4 DEF Proofs, Since
  <2>6. /\ desired \in Pressures \ {"observing"}
        /\ desired = "healthy" <=> d.level = 0
        /\ desired \in Harsh <=> d.level >= 2
    BY <1>1, PressureIsDesired
  <2>7. /\ h.candidate = desired
        /\ h.since = IF desired = a.candidate THEN a.since ELSE 0
        /\ h.active # a.active => h.active = desired
        /\ h.active # a.active /\ desired \in Harsh =>
              desired = a.candidate /\ a.since >= Dwell["drop"]
        /\ desired = "healthy" /\ h.since >= Dwell["healthy"] + MaxFlips =>
              h.active = "healthy"
    <3>1. s.drop \in BOOLEAN
      BY DEF Sample
    <3> QED
      BY <2>1, <2>6, <3>1, HysteresisIs
  <2>8. h.candidate \in Harsh => pressed # NoTime /\ pressed >= h.since
    BY <2>1, <2>3, <2>4, <2>6, <2>7 DEF Backed, NoTime
  <2>9. calm # NoTime => h.candidate = "healthy" /\ h.since >= calm
    BY <2>1, <2>3, <2>4, <2>6, <2>7 DEF Backed, NoTime
  <2>10. ASSUME h.active \in Harsh PROVE confirmed
    <3>1. CASE h.active # a.active
      <4>1. /\ desired = g.candidate /\ desired \in Harsh
            /\ g.since >= Dwell["drop"]
        BY <2>1, <2>7, <2>10, <3>1
      <4>2. p.pressed >= g.since
        BY <4>1 DEF Backed
      <4>3. pressed >= Dwell["drop"] /\ pressed # NoTime
        BY <2>3, <2>4, <2>6, <4>1, <4>2 DEF NoTime
      <4> QED
        BY <4>3 DEF Since
    <3>2. CASE h.active = a.active
      <4>1. p.confirmed
        BY <2>1, <2>10, <3>2 DEF Backed
      <4>2. ~Since(calm, Dwell["healthy"] + MaxFlips)
        <5>1. SUFFICES ASSUME calm # NoTime, calm >= Dwell["healthy"] + MaxFlips
                       PROVE  FALSE
          BY DEF Since
        <5>2. h.since >= Dwell["healthy"] + MaxFlips /\ desired = "healthy"
          <6>1. h.since \in Int /\ calm \in Int
            BY <1>1, <2>3, <2>4 DEF Governors, NoTime
          <6> QED
            BY <2>3, <2>7, <2>9, <5>1, <6>1
        <5> QED
          BY <2>7, <2>10, <5>2 DEF Harsh
      <4> QED
        BY <4>1, <4>2
    <3> QED
      BY <3>1, <3>2
  <2> QED
    BY <2>5, <2>8, <2>9, <2>10 DEF Backed
<1> QED
  BY <1>1, <1>2, <1>3

(* Time passes for both alike.                                               *)
LEMMA AgeingBacks ==
  ASSUME GovernorAssumption, NEW g \in Governors, NEW p \in Proofs, Backed(g, p)
  PROVE  /\ AgedGovernor(g) \in Governors /\ AgedProof(p) \in Proofs
         /\ AgedProof(p).lost = p.lost /\ Backed(AgedGovernor(g), AgedProof(p))
<1>1. /\ DwellCap \in Nat /\ g.since \in 0 .. DwellCap
      /\ g.since \in {NoTime} \cup 0 .. DwellCap /\ g.since # NoTime
      /\ g.low \in {NoTime} \cup 0 .. DwellCap
      /\ p.pressed \in {NoTime} \cup 0 .. DwellCap
      /\ p.calm \in {NoTime} \cup 0 .. DwellCap
      /\ g.settling \in 0 .. Stabilization /\ Stabilization \in Nat
  BY Caps DEF Governors, Proofs, GovernorAssumption, NoTime
<1> DEFINE since == Older(g.since, DwellCap)
           low == Older(g.low, DwellCap)
           settling == AtLeast(g.settling - 1, 0)
           pressed == Older(p.pressed, DwellCap)
           calm == Older(p.calm, DwellCap)
<1>2. since \in 0 .. DwellCap /\ low \in {NoTime} \cup 0 .. DwellCap
  BY <1>1, Ageing
<1>3. settling \in 0 .. Stabilization
  BY <1>1 DEF AtLeast
<1>4. /\ pressed \in {NoTime} \cup 0 .. DwellCap /\ calm \in {NoTime} \cup 0 .. DwellCap
      /\ p.pressed # NoTime <=> pressed # NoTime
      /\ p.calm # NoTime <=> calm # NoTime
      /\ g.since <= p.pressed => since <= pressed
      /\ p.calm <= g.since => calm <= since
  BY <1>1, Ageing
<1>5. /\ AgedGovernor(g) \in Governors /\ AgedGovernor(g).active = g.active
      /\ AgedGovernor(g).candidate = g.candidate /\ AgedGovernor(g).since = since
  BY <1>2, <1>3 DEF AgedGovernor, Governors
<1>6. /\ AgedProof(p) \in Proofs /\ AgedProof(p).lost = p.lost
      /\ AgedProof(p).confirmed = p.confirmed
      /\ AgedProof(p).pressed = pressed /\ AgedProof(p).calm = calm
  BY <1>4 DEF AgedProof, Proofs
<1>7. /\ p.pressed >= g.since <=> g.since <= p.pressed
      /\ g.since >= p.calm <=> p.calm <= g.since
      /\ pressed >= since <=> since <= pressed
      /\ since >= calm <=> calm <= since
  BY <1>1, <1>2, <1>4 DEF NoTime
<1> QED
  BY <1>4, <1>5, <1>6, <1>7 DEF Backed

LEMMA ClockAges ==
  ASSUME GovernorAssumption, NEW c \in Clocks
  PROVE  /\ AgedClock(c) \in Clocks
         /\ AgedClock(c).applied # NoTime <=> c.applied # NoTime
<1>1. /\ LastAge \in Nat /\ c.applied \in {NoTime} \cup 0 .. LastAge
      /\ c.dispatch \in {NoTime} \cup 0 .. LastAge
      /\ c.map \in {NoTime} \cup 0 .. LastAge /\ c.map # NoTime
  BY Caps DEF Clocks, NoTime
<1>2. /\ Older(c.applied, LastAge) \in {NoTime} \cup 0 .. LastAge
      /\ Older(c.dispatch, LastAge) \in {NoTime} \cup 0 .. LastAge
      /\ Older(c.map, LastAge) \in 0 .. LastAge
      /\ c.applied # NoTime <=> Older(c.applied, LastAge) # NoTime
  BY <1>1, Ageing
<1> QED
  BY <1>2 DEF AgedClock, Clocks

(* The histories a new window starts from.                                   *)
LEMMA FreshBacks ==
  ASSUME GovernorAssumption, NEW g, g.active = "observing", g.candidate = "observing"
  PROVE  Backed(g, NoProof) /\ NoProof \in Proofs /\ NoProof.lost = FALSE
  BY DEF Backed, NoProof, Proofs, Harsh, NoTime

LEMMA FreshObserves ==
  ASSUME GovernorAssumption, NEW g \in Governors
  PROVE  /\ NewGovernor.active = "observing" /\ NewGovernor.candidate = "observing"
         /\ AtTransition.active = "observing" /\ AtTransition.candidate = "observing"
         /\ ChangeNoticed(g).active = "observing"
         /\ ChangeNoticed(g).candidate = "observing"
         /\ AgedGovernor(g).active = g.active
         /\ AgedGovernor(g).candidate = g.candidate
  BY DEF NewGovernor, AtTransition, ChangeNoticed, AgedGovernor, Governors

-----------------------------------------------------------------------------
(* A tick of gameplay, from what was polled (p) and judged (j).              *)
LEMMA ControlsIs ==
  ASSUME GovernorAssumption, proof \in Proofs, ~proof.lost,
         ask \in [of : Targets, from : Level \cup {Unset}, to : Level \cup {Unset},
                  answer : {"none", "applied", "restored", "unknown", "failed"}],
         NEW p, NEW j, NEW c \in Clocks, NEW s \in Sample,
         p.q \in [Resources -> Level], p.sure \in BOOLEAN, p.changed \in BOOLEAN,
         p.gov \in Governors,
         p.changed => p.gov.active = "observing" /\ p.gov.candidate = "observing",
         ~p.changed => Backed(p.gov, proof),
         j.back \in Backs, j.floor \in [Resources -> Level], j.response \in Responses,
         j.response.applied => p.sure,
         j.response.applied /\ ~p.changed => ~NotWithin(clock.applied, Observation),
         ~p.sure /\ j.back.to # Unset => j.back.to >= ControlQuality(p.q, j.back.of),
         Controls(s, p, j, c)
  PROVE  /\ gov' \in Governors /\ proof' \in Proofs /\ ~proof'.lost
         /\ Backed(gov', proof')
         /\ response' \in Responses
         /\ response'.applied => response' = j.response
         /\ clock' \in Clocks
         /\ clock'.applied # NoTime <=> c.applied # NoTime
         /\ \/ ask' = Unanswered
            \/ /\ \E w \in [of : Targets, to : Level] :
                     ask' = [of |-> w.of, from |-> ControlQuality(p.q, w.of),
                             to |-> w.to, answer |-> "none"]
               /\ Reduces(ask') => proof'.confirmed
<1>1. /\ NewGovernor \in Governors /\ AtTransition \in Governors
      /\ Backed(NewGovernor, NoProof) /\ NoProof \in Proofs /\ ~NoProof.lost
  BY FreshGovernors, FreshObserves, FreshBacks
<1>2. \A k \in Clocks : /\ AgedClock(k) \in Clocks
                        /\ AgedClock(k).applied # NoTime <=> k.applied # NoTime
  BY ClockAges
<1>3. /\ [c EXCEPT !.map = 0] \in Clocks /\ [c EXCEPT !.map = 0].applied = c.applied
      /\ [c EXCEPT !.dispatch = 0] \in Clocks
      /\ [c EXCEPT !.dispatch = 0].applied = c.applied
  BY Caps DEF Clocks
<1>4. CASE s.kind = "stale_window"
  <2>1. /\ gov' = NewGovernor /\ proof' = NoProof
        /\ response' = j.response /\ ask' = Unanswered
        /\ clock' = AgedClock([c EXCEPT !.map = 0])
    BY <1>4 DEF Controls
  <2>2. clock' \in Clocks /\ (clock'.applied # NoTime <=> c.applied # NoTime)
    BY <1>2, <1>3, <2>1
  <2> QED
    BY <1>1, <2>1, <2>2
<1>5. CASE s.kind # "stale_window"
  <2> DEFINE wants(d) == IF Unanswered = NoAsk
                         THEN Select(d, s, p.q, j.back, p.sure, j.floor)
                         ELSE Nothing
             seen(d) == IF p.changed \/ s.kind = "transition" THEN NoProof
                        ELSE AgedProof(Proven(proof, d))
  <2>1. PICK d \in Evaluate(p.gov, s, p.changed) :
           /\ gov' = AgedGovernor(d.gov)
           /\ \/ /\ wants(d) = Nothing
                 /\ proof' = seen(d)
                 /\ ask' = Unanswered /\ response' = j.response
                 /\ clock' = AgedClock(c)
              \/ /\ \E w \in wants(d) : Dispatched(w, p.q)
                 /\ proof' = [seen(d) EXCEPT !.lost = j.response.applied]
                 /\ clock' = AgedClock([c EXCEPT !.dispatch = 0])
    BY <1>5, Zenon DEF Controls
  <2>2. /\ d.gov \in Governors
        /\ ~d.used =>
              \/ d.gov = AtTransition /\ s.kind = "transition"
              \/ d.gov.active = p.gov.active /\ d.gov.candidate = p.gov.candidate
        /\ d.used => ~p.changed /\ s.kind # "transition"
    BY EvaluateIs
  <2>3. /\ seen(d) \in Proofs /\ ~seen(d).lost /\ gov' \in Governors
        /\ Backed(gov', seen(d))
        /\ ~p.changed /\ s.kind # "transition" =>
              /\ seen(d).confirmed = Proven(proof, d).confirmed
              /\ Backed(d.gov, Proven(proof, d))
    <3>1. CASE p.changed \/ s.kind = "transition"
      <4>1. seen(d) = NoProof
        BY <3>1
      <4>2. d.gov.active = "observing" /\ d.gov.candidate = "observing"
        <5>1. CASE p.changed
          BY <2>2, <5>1, FreshObserves
        <5>2. CASE s.kind = "transition" /\ ~p.changed
          <6>1. d \in Held(AtTransition, s)
            BY <5>2 DEF Evaluate
          <6>2. d.gov = AtTransition
            BY <6>1 DEF Held, Decision
          <6> QED
            BY <6>2, FreshObserves
        <5> QED
          BY <3>1, <5>1, <5>2
      <4>3. AgedGovernor(d.gov).active = "observing"
            /\ AgedGovernor(d.gov).candidate = "observing"
        BY <2>2, <4>2, FreshObserves
      <4>4. Backed(AgedGovernor(d.gov), NoProof)
        BY <4>3, FreshBacks
      <4>5. AgedGovernor(d.gov) \in Governors
        BY <1>1, <2>2, <4>2, AgeingBacks, FreshBacks
      <4> QED
        BY <1>1, <2>1, <3>1, <4>1, <4>4, <4>5
    <3>2. CASE ~p.changed /\ s.kind # "transition"
      <4>1. /\ Proven(proof, d) \in Proofs /\ Proven(proof, d).lost = proof.lost
            /\ Backed(d.gov, Proven(proof, d))
        BY <3>2, ProvenBacks
      <4>2. /\ AgedGovernor(d.gov) \in Governors
            /\ AgedProof(Proven(proof, d)) \in Proofs
            /\ AgedProof(Proven(proof, d)).lost = proof.lost
            /\ Backed(AgedGovernor(d.gov), AgedProof(Proven(proof, d)))
        BY <2>2, <4>1, AgeingBacks
      <4>3. AgedProof(Proven(proof, d)).confirmed = Proven(proof, d).confirmed
        BY <4>1 DEF AgedProof, Proofs
      <4>4. seen(d) = AgedProof(Proven(proof, d))
        BY <3>2
      <4> QED
        BY <2>1, <4>1, <4>2, <4>3, <4>4
    <3> QED
      BY <3>1, <3>2
  <2>4. CASE /\ wants(d) = Nothing
             /\ proof' = seen(d)
             /\ ask' = Unanswered /\ response' = j.response
             /\ clock' = AgedClock(c)
    BY <1>2, <2>3, <2>4
  <2>5. CASE /\ \E w \in wants(d) : Dispatched(w, p.q)
             /\ proof' = [seen(d) EXCEPT !.lost = j.response.applied]
             /\ clock' = AgedClock([c EXCEPT !.dispatch = 0])
    <3>1. PICK w \in wants(d) : Dispatched(w, p.q)
      BY <2>5
    <3>2. w \in Select(d, s, p.q, j.back, p.sure, j.floor)
      BY <3>1 DEF Nothing
    <3>3. /\ d.used /\ w.of \in Targets /\ w.to \in Level
          /\ p.sure => NotWithin(clock.applied, Observation)
          /\ w.to < ControlQuality(p.q, w.of) =>
                d.gov.active \in Harsh \/ IsWayBack(w, j.back)
          /\ p.sure /\ w.to < ControlQuality(p.q, w.of) => d.gov.active \in Harsh
      <4> HIDE DEF wants, seen
      <4>1. d.used /\ w.of \in Targets /\ w.to \in Level
        BY <3>2, SelectIs
      <4>2. p.sure => NotWithin(clock.applied, Observation)
        BY <3>2, SelectIs
      <4>3. w.to < ControlQuality(p.q, w.of) =>
               d.gov.active \in Harsh \/ IsWayBack(w, j.back)
        BY <3>2, SelectIs
      <4>4. p.sure /\ w.to < ControlQuality(p.q, w.of) => d.gov.active \in Harsh
        BY <3>2, SelectIs
      <4> QED
        BY <4>1, <4>2, <4>3, <4>4
    <3>4. ~p.changed /\ s.kind # "transition"
      BY <2>2, <3>3
    <3>5. ~j.response.applied
      BY <3>3, <3>4
    <3>6. /\ proof' \in Proofs /\ ~proof'.lost
          /\ proof'.confirmed = Proven(proof, d).confirmed /\ Backed(gov', proof')
      <4>1. j.response.applied = FALSE
        BY <3>5 DEF Responses
      <4>2. proof' = [seen(d) EXCEPT !.lost = FALSE]
        BY <2>5, <4>1
      <4>3. /\ proof' \in Proofs /\ ~proof'.lost /\ proof'.confirmed = seen(d).confirmed
            /\ proof'.pressed = seen(d).pressed /\ proof'.calm = seen(d).calm
        BY <2>3, <4>2 DEF Proofs
      <4>4. Backed(gov', proof')
        BY <2>3, <4>3 DEF Backed
      <4> QED
        BY <2>3, <3>4, <4>3, <4>4
    <3>7. clock' \in Clocks /\ (clock'.applied # NoTime <=> c.applied # NoTime)
      BY <1>2, <1>3, <2>5
    <3>8. ask' = [of |-> w.of, from |-> ControlQuality(p.q, w.of), to |-> w.to,
                  answer |-> "none"]
      BY <3>1 DEF Dispatched
    <3>9. response' \in Responses /\ ~response'.applied
      <4>1. NoResponse \in Responses /\ ~NoResponse.applied
        BY DEF NoResponse, Responses, Targets
      <4>2. ControlQuality(p.q, w.of) \in Level
        BY ControlIsLevel
      <4>3. [of |-> w.of, from |-> ControlQuality(p.q, w.of), applied |-> FALSE]
               \in Responses
        BY <3>3, <4>2 DEF Responses
      <4> QED
        BY <3>1, <4>1, <4>3 DEF Dispatched
    <3>10. ASSUME Reduces(ask') PROVE proof'.confirmed
      <4>1. w.to < ControlQuality(p.q, w.of)
        BY <3>8, <3>10 DEF Reduces
      <4>2. CASE d.gov.active \in Harsh
        BY <2>3, <3>4, <3>6, <4>2 DEF Backed
      <4>3. CASE ~p.sure /\ IsWayBack(w, j.back)
        <5>1. w.to >= ControlQuality(p.q, w.of)
          BY <4>3 DEF IsWayBack
        <5>2. w.to \in Int /\ ControlQuality(p.q, w.of) \in Int
          BY <3>3, ControlIsLevel DEF Level
        <5> QED
          BY <4>1, <5>1, <5>2
      <4> QED
        BY <3>3, <4>1, <4>2, <4>3
    <3>11. \E u \in [of : Targets, to : Level] :
              ask' = [of |-> u.of, from |-> ControlQuality(p.q, u.of),
                      to |-> u.to, answer |-> "none"]
      <4> DEFINE u == [of |-> w.of, to |-> w.to]
      <4>1. u \in [of : Targets, to : Level] /\ u.of = w.of /\ u.to = w.to
        BY <3>3
      <4> QED
        BY <3>8, <4>1
    <3> QED
      BY <2>3, <3>6, <3>7, <3>9, <3>10, <3>11
  <2> QED
    BY <2>1, <2>4, <2>5
<1> QED
  BY <1>4, <1>5

(* What a tick leaves to the invariant: the parts of it, joined.             *)
LEMMA TickKeeps ==
  ASSUME GovernorAssumption, GovernorInv, NEW active \in BOOLEAN, Tick(active)
  PROVE  GovernorInv' /\ (Asks /\ Reduces(ask') => proof'.confirmed)
<1> DEFINE p == Polled
           starts == active /\ ~play.active
           c == [clock EXCEPT !.applied = IF p.changed THEN 0 ELSE @,
                              !.map = IF starts THEN 0 ELSE @]
<1> USE DEF GovernorInv
<1>1. /\ p \in PolledStates
      /\ p.q \in [Resources -> Level] /\ p.back \in Backs
      /\ p.sure \in BOOLEAN /\ p.response \in Responses
      /\ p.gov \in Governors /\ p.changed \in BOOLEAN
      /\ p.changed => p.gov = ChangeNoticed(gov)
      /\ ~p.changed => p.gov = gov
      /\ ask.answer = "none" => p.q = quality
      /\ p.response.applied =>
            /\ p.response.from # Unset /\ p.sure
            /\ p.changed \/ response.applied
      /\ ~p.sure /\ p.back.to # Unset => p.back.to >= ControlQuality(p.q, p.back.of)
  BY PolledIs
<1>2. /\ clock \in Clocks /\ gov \in Governors /\ proof \in Proofs
      /\ play \in [active : BOOLEAN, rough : BOOLEAN, spells : 0 .. MaxRough]
      /\ ask \in [of : Targets, from : Level \cup {Unset}, to : Level \cup {Unset},
                  answer : {"none", "applied", "restored", "unknown", "failed"}]
  BY DEF TypeOK, Clocks, Governors, Proofs
<1>3. /\ c \in Clocks /\ c.applied \in {NoTime} \cup 0 .. LastAge
      /\ c.applied = (IF p.changed THEN 0 ELSE clock.applied)
  <2> DEFINE a == IF p.changed THEN 0 ELSE clock.applied
             m == IF starts THEN 0 ELSE clock.map
  <2>1. a \in {NoTime} \cup 0 .. LastAge /\ m \in 0 .. LastAge
    BY <1>2, Caps DEF Clocks
  <2>2. c = [clock EXCEPT !.applied = a, !.map = m]
    BY <1>2 DEF Clocks
  <2> HIDE DEF a, m, c
  <2>3. c \in Clocks /\ c.applied = a
    BY <1>2, <2>1, <2>2 DEF Clocks
  <2> QED
    BY <2>1, <2>3 DEF a
<1>4. p.response.applied => c.applied # NoTime
  BY <1>1, <1>3 DEF ResponseIsWhole, NoTime
<1>5. play' \in [active : BOOLEAN, rough : BOOLEAN, spells : 0 .. MaxRough]
      /\ play'.active = active
  <2>1. MaxRough \in Nat
    BY DEF GovernorAssumption
  <2> DEFINE n == IF play.active /\ ~active THEN play.spells + 1 ELSE play.spells
  <2>2. n \in 0 .. MaxRough
    BY <1>2, <2>1 DEF Tick
  <2>3. play' = [play EXCEPT !.active = active, !.spells = n]
    BY <1>2 DEF Tick
  <2> QED
    BY <1>2, <2>2, <2>3
<1>6. quality' = p.q /\ known' = p.sure
  BY DEF Tick
<1>7. PICK verdict \in Verdicts(p.response, c.applied, active) :
         LET j == Judged(p, verdict) IN
         /\ floor' = j.floor /\ rollback' = j.back
         /\ IF active
            THEN \E s \in Usable :
                    Controls(s, IF starts THEN [p EXCEPT !.gov = NewGovernor]
                                ELSE p, j, c)
            ELSE Rests(p, j, c)
  BY Zenon DEF Tick
<1> DEFINE j == Judged(p, verdict)
           pp == IF starts THEN [p EXCEPT !.gov = NewGovernor] ELSE p
<1>J. floor' = j.floor /\ rollback' = j.back
  BY <1>7
<1>8. /\ j.floor \in [Resources -> Level] /\ j.back \in Backs
      /\ j.response \in Responses
      /\ ~p.response.applied => j.back = p.back
      /\ j.response.applied =>
            j.response = p.response /\ (active => c.applied < Observation)
  BY <1>1, <1>3, JudgedIs
<1>9. j.response.applied => p.sure /\ j.response.from # Unset /\ c.applied # NoTime
  BY <1>1, <1>4, <1>8
<1>10. ~p.sure => j.back = p.back
  BY <1>1, <1>8
<1>11. Unanswered \in [of : Targets, from : Level \cup {Unset},
                       to : Level \cup {Unset},
                       answer : {"none", "applied", "restored", "unknown", "failed"}]
  BY <1>2 DEF Unanswered, NoAsk, Targets
<1>12. Unanswered # NoAsk =>
          /\ Unanswered.from = ControlQuality(p.q, Unanswered.of)
          /\ Unanswered.from \in Level /\ Unanswered.to \in Level
  BY <1>1 DEF Unanswered, AskIsWhole
(* Both kinds of tick leave the state of the controller like this.           *)
<1> DEFINE Left ==
             /\ gov' \in Governors /\ proof' \in Proofs /\ ~proof'.lost
             /\ Backed(gov', proof')
             /\ response' \in Responses
             /\ response'.applied => response' = j.response
             /\ clock' \in Clocks
             /\ clock'.applied # NoTime <=> c.applied # NoTime
             /\ \/ ask' = Unanswered
                \/ /\ \E w \in [of : Targets, to : Level] :
                         ask' = [of |-> w.of, from |-> ControlQuality(p.q, w.of),
                                 to |-> w.to, answer |-> "none"]
                   /\ Reduces(ask') => proof'.confirmed
             /\ ~active => proof' = NoProof /\ gov'.active = "observing"
                           /\ gov'.candidate = "observing"
<1>13. ASSUME active PROVE Left
  <2>1. PICK s \in Usable : Controls(s, pp, j, c)
    BY <1>7, <1>13
  <2>2. s \in Sample
    <3>1. CalmSample \in Sample
      BY DEF CalmSample, Sample, Signal, ResourceReport
    <3> QED
      BY <3>1 DEF Usable, GovernorAssumption
  <2>3. /\ pp.q = p.q /\ pp.sure = p.sure /\ pp.changed = p.changed
        /\ pp.gov = IF starts THEN NewGovernor ELSE p.gov
    BY <1>1 DEF PolledStates
  <2>4. pp.gov \in Governors
    BY <1>1, <1>2, <2>3, FreshGovernors
  <2>5. pp.changed => pp.gov.active = "observing" /\ pp.gov.candidate = "observing"
    BY <1>1, <1>2, <2>3, FreshObserves
  <2>6. ~pp.changed => Backed(pp.gov, proof)
    <3>1. CASE starts
      <4>1. proof = NoProof /\ pp.gov = NewGovernor
        BY <2>3, <3>1 DEF RestIsFresh
      <4>2. Backed(NewGovernor, NoProof)
        BY <1>2, FreshObserves, FreshBacks
      <4> QED
        BY <4>1, <4>2
    <3>2. CASE ~starts
      BY <1>1, <2>3, <3>2 DEF EvidenceHolds
    <3> QED
      BY <3>1, <3>2
  <2>7. j.response.applied /\ ~pp.changed => ~NotWithin(clock.applied, Observation)
    <3>1. SUFFICES ASSUME j.response.applied, ~p.changed
                   PROVE  ~NotWithin(clock.applied, Observation)
      BY <2>3
    <3>2. clock.applied # NoTime /\ clock.applied < Observation
      BY <1>3, <1>8, <1>9, <1>13, <3>1
    <3>3. clock.applied \in Int /\ Observation \in Int
      BY <1>2, Caps DEF Clocks, GovernorAssumption, NoTime
    <3> QED
      BY <3>2, <3>3 DEF NotWithin
  <2>8. ~pp.sure /\ j.back.to # Unset => j.back.to >= ControlQuality(pp.q, j.back.of)
    BY <1>1, <1>10, <2>3
  <2>9. /\ pp.q \in [Resources -> Level] /\ pp.sure \in BOOLEAN
        /\ pp.changed \in BOOLEAN /\ (j.response.applied => pp.sure)
    BY <1>1, <1>9, <2>3
  <2> HIDE DEF pp, p, j, c
  <2>10. /\ gov' \in Governors /\ proof' \in Proofs /\ ~proof'.lost
         /\ Backed(gov', proof')
         /\ response' \in Responses
         /\ response'.applied => response' = j.response
         /\ clock' \in Clocks
         /\ clock'.applied # NoTime <=> c.applied # NoTime
         /\ \/ ask' = Unanswered
            \/ /\ \E w \in [of : Targets, to : Level] :
                     ask' = [of |-> w.of, from |-> ControlQuality(pp.q, w.of),
                             to |-> w.to, answer |-> "none"]
               /\ Reduces(ask') => proof'.confirmed
    <3>1. ~proof.lost
      BY DEF NothingUnjudged
    <3> QED
      BY <1>2, <1>3, <1>8, <2>1, <2>2, <2>4, <2>5, <2>6, <2>7, <2>8, <2>9, <3>1,
         ControlsIs, Zenon
  <2> QED
    BY <1>13, <2>3, <2>10
<1>14. ASSUME ~active PROVE Left
  <2>1. /\ gov' = IF play.active THEN NewGovernor ELSE p.gov
        /\ proof' = NoProof
        /\ response' = j.response /\ ask' = Unanswered
        /\ clock' = AgedClock(c)
    BY <1>7, <1>14 DEF Rests
  <2>2. /\ gov' \in Governors /\ gov'.active = "observing"
        /\ gov'.candidate = "observing"
    BY <1>1, <1>2, <2>1, FreshGovernors, FreshObserves DEF RestIsFresh
  <2>3. Backed(gov', NoProof) /\ NoProof \in Proofs /\ ~NoProof.lost
    BY <2>2, FreshBacks
  <2>4. clock' \in Clocks /\ (clock'.applied # NoTime <=> c.applied # NoTime)
    BY <1>3, <2>1, ClockAges
  <2> QED
    BY <1>8, <1>14, <2>1, <2>2, <2>3, <2>4
<1>15. Left
  BY <1>13, <1>14
<1> HIDE DEF p, c, j, pp
<1>16. /\ ask' \in [of : Targets, from : Level \cup {Unset}, to : Level \cup {Unset},
                    answer : {"none", "applied", "restored", "unknown", "failed"}]
       /\ ask' # NoAsk => /\ ask'.from = ControlQuality(quality', ask'.of)
                          /\ ask'.from \in Level /\ ask'.to \in Level
       /\ Asks /\ Reduces(ask') => proof'.confirmed
  <2>1. CASE ask' = Unanswered
    <3>1. ~Asks
      BY <2>1 DEF Asks, Unanswered
    <3> QED
      BY <1>6, <1>11, <1>12, <2>1, <3>1
  <2>2. CASE /\ \E w \in [of : Targets, to : Level] :
                   ask' = [of |-> w.of, from |-> ControlQuality(p.q, w.of),
                           to |-> w.to, answer |-> "none"]
             /\ Reduces(ask') => proof'.confirmed
    <3>1. PICK w \in [of : Targets, to : Level] :
             ask' = [of |-> w.of, from |-> ControlQuality(p.q, w.of),
                     to |-> w.to, answer |-> "none"]
      BY <2>2
    <3>2. ControlQuality(p.q, w.of) \in Level
      BY <1>1, ControlIsLevel
    <3>3. /\ ask'.from = ControlQuality(quality', ask'.of)
          /\ ask'.from \in Level /\ ask'.to \in Level
      BY <1>6, <3>1, <3>2
    <3>4. ask' \in [of : Targets, from : Level \cup {Unset}, to : Level \cup {Unset},
                    answer : {"none", "applied", "restored", "unknown", "failed"}]
      BY <3>1, <3>2
    <3> QED
      BY <2>2, <3>3, <3>4
  <2> QED
    BY <1>15, <2>1, <2>2
<1>17. TypeOK'
  <2>1. quality' \in [Resources -> Level] /\ floor' \in [Resources -> Level]
        /\ rollback' \in Backs /\ known' \in BOOLEAN
    BY <1>1, <1>6, <1>J, <1>8
  <2>2. gov' \in Governors /\ proof' \in Proofs /\ response' \in Responses
        /\ clock' \in Clocks
    BY <1>15
  <2> QED
    BY <1>5, <1>16, <2>1, <2>2, Zenon
       DEF TypeOK, Governors, Backs, Responses, Proofs, Clocks
<1>18. ResponseIsWhole'
  BY <1>6, <1>9, <1>15 DEF ResponseIsWhole
<1>19. DoubtIsNoReduction'
  BY <1>1, <1>6, <1>J, <1>10 DEF DoubtIsNoReduction
<1>20. EvidenceHolds' /\ NothingUnjudged' /\ RestIsFresh'
  BY <1>5, <1>15 DEF EvidenceHolds, NothingUnjudged, RestIsFresh
<1>21. AskIsWhole'
  BY <1>16 DEF AskIsWhole
<1> QED
  BY <1>16, <1>17, <1>18, <1>19, <1>20, <1>21

(* The answer of KF2 and the weather of the fight touch nothing of it.       *)
LEMMA OthersKeep ==
  ASSUME GovernorAssumption, GovernorInv, Answer \/ Weather \/ UNCHANGED vars
  PROVE  GovernorInv' /\ ~(Asks /\ Reduces(ask'))
<1> USE DEF GovernorInv
<1>1. CASE Answer
  <2>1. PICK answer \in {"applied", "restored", "unknown", "failed"} :
           ask' = [ask EXCEPT !.answer = answer]
    BY <1>1 DEF Answer
  <2>2. /\ ask' \in [of : Targets, from : Level \cup {Unset}, to : Level \cup {Unset},
                     answer : {"none", "applied", "restored", "unknown", "failed"}]
        /\ ask'.of = ask.of /\ ask'.from = ask.from /\ ask'.to = ask.to
        /\ ask'.answer # "none" /\ ask # NoAsk
    BY <1>1, <2>1 DEF TypeOK, Answer
  <2>3. UNCHANGED <<gov, quality, floor, rollback, known, response, clock, play, proof>>
    BY <1>1 DEF Answer
  <2>4. TypeOK' /\ AskIsWhole' /\ ~Asks
    BY <2>2, <2>3 DEF TypeOK, AskIsWhole, Asks
  <2>5. ResponseIsWhole' /\ DoubtIsNoReduction' /\ EvidenceHolds' /\ RestIsFresh'
        /\ NothingUnjudged'
    BY <2>3 DEF ResponseIsWhole, DoubtIsNoReduction, EvidenceHolds, RestIsFresh,
       NothingUnjudged
  <2> QED
    BY <2>4, <2>5
<1>2. CASE Weather
  <2>1. /\ play' \in [active : BOOLEAN, rough : BOOLEAN, spells : 0 .. MaxRough]
        /\ play'.active = play.active
    <3>1. MaxRough \in Nat
      BY DEF GovernorAssumption
    <3>2. play \in [active : BOOLEAN, rough : BOOLEAN, spells : 0 .. MaxRough]
      BY DEF TypeOK
    <3> DEFINE n == IF play.rough THEN play.spells ELSE play.spells + 1
    <3>3. n \in 0 .. MaxRough
      BY <1>2, <3>1, <3>2 DEF Weather
    <3>4. play' = [play EXCEPT !.rough = ~@, !.spells = n]
      BY <1>2, <3>2 DEF Weather
    <3> QED
      BY <3>2, <3>3, <3>4
  <2>2. UNCHANGED <<gov, quality, floor, rollback, known, ask, response, clock, proof>>
    BY <1>2 DEF Weather
  <2>3. TypeOK' /\ AskIsWhole' /\ ~Asks
    BY <2>1, <2>2 DEF TypeOK, AskIsWhole, Asks
  <2>4. ResponseIsWhole' /\ DoubtIsNoReduction' /\ EvidenceHolds' /\ RestIsFresh'
        /\ NothingUnjudged'
    BY <2>1, <2>2 DEF ResponseIsWhole, DoubtIsNoReduction, EvidenceHolds,
       RestIsFresh, NothingUnjudged
  <2> QED
    BY <2>3, <2>4
<1>3. CASE UNCHANGED vars
  <2>1. UNCHANGED <<gov, quality, floor, rollback, known, ask, response, clock, play,
                    proof>>
    BY <1>3 DEF vars
  <2>2. TypeOK' /\ AskIsWhole' /\ ~Asks
    BY <2>1 DEF TypeOK, AskIsWhole, Asks
  <2>3. ResponseIsWhole' /\ DoubtIsNoReduction' /\ EvidenceHolds' /\ RestIsFresh'
        /\ NothingUnjudged'
    BY <2>1 DEF ResponseIsWhole, DoubtIsNoReduction, EvidenceHolds, RestIsFresh,
       NothingUnjudged
  <2> QED
    BY <2>2, <2>3
<1> QED
  BY <1>1, <1>2, <1>3

LEMMA GovernorInit == ASSUME GovernorAssumption PROVE Init => GovernorInv
<1> SUFFICES ASSUME Init PROVE GovernorInv
  OBVIOUS
<1>1. /\ NewGovernor \in Governors /\ Backed(NewGovernor, NoProof)
      /\ NoProof \in Proofs /\ ~NoProof.lost
      /\ NewGovernor.active = "observing" /\ NewGovernor.candidate = "observing"
  <2>1. NewGovernor \in Governors
    BY Caps DEF Governors, NewGovernor, Pressures, NoTime, Unset, GovernorAssumption
  <2> QED
    BY <2>1, FreshObserves, FreshBacks
<1>2. /\ quality \in [Resources -> Level] /\ floor \in [Resources -> Level]
  BY DEF Init, Level, GovernorAssumption
<1>3. rollback \in Backs /\ response \in Responses /\ ~response.applied /\ known
  BY DEF Init, NoRollback, NoResponse, Backs, Responses, Targets
<1>4. ask \in [of : Targets, from : Level \cup {Unset}, to : Level \cup {Unset},
               answer : {"none", "applied", "restored", "unknown", "failed"}]
      /\ ask = NoAsk
  BY DEF Init, NoAsk, Targets
<1>5. clock \in Clocks
  BY Caps DEF Init, Clocks
<1>6. play \in [active : BOOLEAN, rough : BOOLEAN, spells : 0 .. MaxRough]
  BY DEF Init, GovernorAssumption
<1>7. TypeOK
  BY <1>1, <1>2, <1>3, <1>4, <1>5, <1>6
     DEF Init, TypeOK, Governors, Backs, Responses, Proofs, Clocks
<1> QED
  BY <1>1, <1>3, <1>4, <1>7 DEF Init, GovernorInv, AskIsWhole, ResponseIsWhole,
     DoubtIsNoReduction, EvidenceHolds, RestIsFresh, NothingUnjudged

LEMMA GovernorStep ==
  ASSUME GovernorAssumption, GovernorInv, [Next]_vars
  PROVE  GovernorInv' /\ [Asks /\ Reduces(ask') => proof'.confirmed]_vars
<1>1. CASE \E active \in BOOLEAN : Tick(active)
  BY <1>1, TickKeeps
<1>2. CASE Answer \/ Weather \/ UNCHANGED vars
  BY <1>2, OthersKeep
<1> QED
  BY <1>1, <1>2 DEF Next

LEMMA GovernorInvariant == ASSUME GovernorAssumption PROVE Spec => []GovernorInv
<1>1. Init => GovernorInv
  BY GovernorInit
<1>2. GovernorInv /\ [Next]_vars => GovernorInv'
  BY GovernorStep
<1> QED
  BY <1>1, <1>2, PTL DEF Spec

(* Every record of the controller keeps its type, for any resources, steps,  *)
(* timers and samples: no age passes its cap, no quality leaves the range of *)
(* the user's, and what is asked of KF2 is always a quality it has.          *)
THEOREM ControllerTyped == ASSUME GovernorAssumption PROVE Spec => []TypeOK
<1>1. GovernorInv => TypeOK
  BY DEF GovernorInv
<1> QED
  BY <1>1, GovernorInvariant, PTL

(* A command never gives up the measurement of a reduction that KF2 applied  *)
(* (telemetry_adaptive_stage.hpp:280): the observation window that holds     *)
(* commands back is at least as long as the one in which the effect is       *)
(* judged, whatever the windows are.                                        *)
THEOREM NothingGoesUnjudged ==
  ASSUME GovernorAssumption PROVE Spec => []NothingUnjudged
<1>1. GovernorInv => NothingUnjudged
  BY DEF GovernorInv
<1> QED
  BY <1>1, GovernorInvariant, PTL

(* A reduction is only asked for on pressure that lasted its dwell entirely  *)
(* after the last applied change and the last new window                     *)
(* (adaptive_governor.cpp:1271), for any dwells and samples.                *)
THEOREM EvidenceIsAlwaysOwn ==
  ASSUME GovernorAssumption PROVE Spec => EvidenceIsOwn
<1>1. GovernorInv /\ [Next]_vars => [Asks /\ Reduces(ask') => proof'.confirmed]_vars
  BY GovernorStep
<1> QED
  BY <1>1, GovernorInvariant, PTL DEF Spec, EvidenceIsOwn
=============================================================================
