---------------------------- MODULE GameWatchProofs ----------------------------
(***************************************************************************)
(* The parts that watch the running KF2, proved for any threads, solvers,   *)
(* maps, swap chains, targets and any bound of the model: the slots are the *)
(* solvers, a reader takes no torn publication, what is shown together      *)
(* belongs together, no certified window misses a call, the event log       *)
(* forgets nothing, the log and the counters reach the UI exactly, and a    *)
(* report that is told as saved is on disk.                                 *)
(*                                                                         *)
(* The parts share no state.  Each has an inductive invariant of its own    *)
(* (TrackingInv with MemoryInv and ReadingInv, LogInv, CaptureInv, DrainInv,*)
(* Persistence, HandInv, WriterInv).                                        *)
(***************************************************************************)
EXTENDS GameWatch, SequenceTheorems, FiniteSetTheorems, WellFoundedInduction, TLAPS

(***************************************************************************)
(* The observation of the FleX solvers.                                     *)
(***************************************************************************)

Working == {"register", "retire", "destroy"}

ObservationTypes ==
    /\ alive \in [Addresses -> Nat] /\ held \subseteq Addresses
    /\ DOMAIN slots \subseteq Addresses
    /\ pc \in [Threads -> {"free", "count"} \cup Working] /\ DOMAIN arg = Threads
    /\ \A t \in Threads : pc[t] # "free" => arg[t] \in Addresses
    /\ lock \in Threads \cup {"nobody"}
    /\ lock # "nobody" => pc[lock] \in {"register", "count", "retire"}

(* A solver that is created, retired or destroyed is one thread's alone.    *)
SolversHaveOneUser ==
    /\ \A a \in held : alive[a] # 0
    /\ \A t \in Threads :
          /\ pc[t] \in Working =>
                /\ alive[arg[t]] # 0 /\ arg[t] \notin held
                /\ \A u \in Threads \ {t} : pc[u] # "free" => arg[u] # arg[t]
          /\ pc[t] = "count" => arg[t] \in held

(* A slot is added before the game is given the solver, and removed before  *)
(* the library may give its address away.                                   *)
SlotsFollow ==
    ~quarantine =>
        /\ held \subseteq DOMAIN slots
        /\ \A a \in DOMAIN slots : slots[a].capacity = alive[a] /\ alive[a] # 0
        /\ lock # "nobody" =>
              /\ pc[lock] = "register" => arg[lock] \in DOMAIN slots
              /\ pc[lock] = "retire" => arg[lock] \notin DOMAIN slots
        /\ \A t \in Threads : pc[t] = "destroy" => arg[t] \notin DOMAIN slots

TrackingInv == ObservationTypes /\ SolversHaveOneUser /\ SlotsFollow

LEMMA TrackingStarts == Observation!ObservationAssumption /\ Observation!Init => TrackingInv
BY DEF Observation!ObservationAssumption, Observation!Init, TrackingInv,
     ObservationTypes, SolversHaveOneUser, SlotsFollow, Observation!Free,
     Observation!Nobody, Working

LEMMA TrackingStep ==
  ASSUME Observation!ObservationAssumption, TrackingInv, [Observation!Next]_ofObservation
  PROVE  TrackingInv'
<1> USE DEF TrackingInv, Observation!Free, Observation!Nobody, Observation!Tracked, Working,
            Observation!ObservationAssumption
<1>1. CASE UNCHANGED ofObservation
  BY <1>1 DEF ofObservation, ObservationTypes, SolversHaveOneUser, SlotsFollow
<1>2. ASSUME NEW t \in Threads, NEW do \in {"register", "count", "retire"}, NEW a \in Addresses,
             Observation!Call(t, do, a)
      PROVE  /\ pc' = [pc EXCEPT ![t] = do] /\ arg' = [arg EXCEPT ![t] = a] /\ pc[t] = "free"
             /\ slots' = slots /\ quarantine' = quarantine /\ lock' = lock
  BY <1>2 DEF Observation!Call, Observation!tracking
<1>3. ASSUME NEW t \in Threads, Observation!Create(t) PROVE TrackingInv'
  <2>1. PICK a \in Addresses, c \in Capacities :
           /\ alive[a] = 0 /\ alive' = [alive EXCEPT ![a] = c] /\ held' = held
           /\ Observation!Call(t, "register", a)
    BY <1>3 DEF Observation!Create
  <2>2. c \in Nat /\ c # 0
    OBVIOUS
  <2>3. /\ pc' = [pc EXCEPT ![t] = "register"] /\ arg' = [arg EXCEPT ![t] = a]
        /\ pc[t] = "free" /\ slots' = slots /\ quarantine' = quarantine /\ lock' = lock
    BY <2>1, <1>2
  <2>4. ObservationTypes'
    BY <2>1, <2>2, <2>3 DEF ObservationTypes
  <2>5. SolversHaveOneUser'
    BY <2>1, <2>2, <2>3 DEF ObservationTypes, SolversHaveOneUser
  <2>6. SlotsFollow'
    BY <2>1, <2>2, <2>3 DEF ObservationTypes, SolversHaveOneUser, SlotsFollow
  <2> QED
    BY <2>4, <2>5, <2>6
<1>4. ASSUME NEW t \in Threads, Observation!Register(t) PROVE TrackingInv'
  <2>1. /\ pc[t] = "register" /\ lock = "nobody" /\ lock' = t
        /\ UNCHANGED <<alive, held, pc, arg>>
        /\ \/ /\ slots' = [a \in DOMAIN slots \cup {arg[t]} |->
                             IF a = arg[t] THEN [capacity |-> alive[a], count |-> -1]
                             ELSE slots[a]]
              /\ quarantine' = quarantine
           \/ quarantine' = TRUE /\ slots' = slots
    BY <1>4 DEF Observation!Register, Observation!Lock, Observation!library,
         Observation!Unseen
  <2>4. ObservationTypes'
    BY <2>1 DEF ObservationTypes
  <2>5. SolversHaveOneUser'
    BY <2>1 DEF ObservationTypes, SolversHaveOneUser
  <2>6. SlotsFollow'
    BY <2>1 DEF ObservationTypes, SolversHaveOneUser, SlotsFollow
  <2> QED
    BY <2>4, <2>5, <2>6
<1>5. ASSUME NEW t \in Threads, Observation!Count(t) PROVE TrackingInv'
  <2>1. PICK a \in held : Observation!Call(t, "count", a) /\ UNCHANGED <<alive, held>>
    BY <1>5 DEF Observation!Count, Observation!library
  <2>3. /\ pc' = [pc EXCEPT ![t] = "count"] /\ arg' = [arg EXCEPT ![t] = a]
        /\ pc[t] = "free" /\ slots' = slots /\ quarantine' = quarantine /\ lock' = lock
        /\ a \in Addresses
    BY <2>1, <1>2 DEF ObservationTypes
  <2>4. ObservationTypes'
    BY <2>1, <2>3 DEF ObservationTypes
  <2>5. SolversHaveOneUser'
    BY <2>1, <2>3 DEF ObservationTypes, SolversHaveOneUser
  <2>6. SlotsFollow'
    BY <2>1, <2>3 DEF ObservationTypes, SolversHaveOneUser, SlotsFollow
  <2> QED
    BY <2>4, <2>5, <2>6
<1>6. ASSUME NEW t \in Threads, Observation!RecordCount(t) PROVE TrackingInv'
  <2>1. PICK n : /\ pc[t] = "count" /\ lock = "nobody" /\ lock' = t
                 /\ UNCHANGED <<alive, held, pc, arg, quarantine>>
                 /\ slots' = [slots EXCEPT ![arg[t]].count = n]
    BY <1>6 DEF Observation!RecordCount, Observation!Lock, Observation!library
  <2>2. DOMAIN slots' = DOMAIN slots
        /\ \A a \in DOMAIN slots : slots'[a].capacity = slots[a].capacity
    BY <2>1
  <2>4. ObservationTypes'
    BY <2>1, <2>2 DEF ObservationTypes
  <2>5. SolversHaveOneUser'
    BY <2>1 DEF ObservationTypes, SolversHaveOneUser
  <2>6. SlotsFollow'
    BY <2>1, <2>2 DEF ObservationTypes, SolversHaveOneUser, SlotsFollow
  <2> QED
    BY <2>4, <2>5, <2>6
<1>7. ASSUME NEW t \in Threads, Observation!CountUntracked(t) PROVE TrackingInv'
  BY <1>7 DEF Observation!CountUntracked, Observation!library, ObservationTypes,
              SolversHaveOneUser, SlotsFollow
<1>8. ASSUME NEW t \in Threads, Observation!Destroy(t) PROVE TrackingInv'
  <2>1. PICK a \in held : /\ \A u \in Threads : pc[u] # "free" => arg[u] # a
                          /\ held' = held \ {a} /\ alive' = alive
                          /\ Observation!Call(t, "retire", a)
    BY <1>8 DEF Observation!Destroy
  <2>3. /\ pc' = [pc EXCEPT ![t] = "retire"] /\ arg' = [arg EXCEPT ![t] = a]
        /\ pc[t] = "free" /\ slots' = slots /\ quarantine' = quarantine /\ lock' = lock
        /\ a \in Addresses
    BY <2>1, <1>2 DEF ObservationTypes
  <2>4. ObservationTypes'
    BY <2>1, <2>3 DEF ObservationTypes
  <2>5. SolversHaveOneUser'
    BY <2>1, <2>3 DEF ObservationTypes, SolversHaveOneUser
  <2>6. SlotsFollow'
    BY <2>1, <2>3 DEF ObservationTypes, SolversHaveOneUser, SlotsFollow
  <2> QED
    BY <2>4, <2>5, <2>6
<1>9. ASSUME NEW t \in Threads, Observation!Retire(t) PROVE TrackingInv'
  <2>1. /\ pc[t] = "retire" /\ lock = "nobody" /\ lock' = t
        /\ UNCHANGED <<alive, held, pc, arg>>
        /\ slots' = [a \in DOMAIN slots \ {arg[t]} |-> slots[a]]
        /\ quarantine' = (quarantine \/ arg[t] \notin DOMAIN slots)
    BY <1>9 DEF Observation!Retire, Observation!Lock, Observation!library
  <2>4. ObservationTypes'
    BY <2>1 DEF ObservationTypes
  <2>5. SolversHaveOneUser'
    BY <2>1 DEF ObservationTypes, SolversHaveOneUser
  <2>6. SlotsFollow'
    BY <2>1 DEF ObservationTypes, SolversHaveOneUser, SlotsFollow
  <2> QED
    BY <2>4, <2>5, <2>6
<1>10. ASSUME NEW t \in Threads, Observation!DestroyOriginal(t) PROVE TrackingInv'
  <2>1. /\ pc[t] = "destroy" /\ alive' = [alive EXCEPT ![arg[t]] = 0]
        /\ pc' = [pc EXCEPT ![t] = "free"]
        /\ UNCHANGED <<held, slots, quarantine, lock, arg>>
    BY <1>10 DEF Observation!DestroyOriginal, Observation!tracking
  <2>4. ObservationTypes'
    BY <2>1 DEF ObservationTypes
  <2>5. SolversHaveOneUser'
    BY <2>1 DEF ObservationTypes, SolversHaveOneUser
  <2>6. SlotsFollow'
    BY <2>1 DEF ObservationTypes, SolversHaveOneUser, SlotsFollow
  <2> QED
    BY <2>4, <2>5, <2>6
<1>11. ASSUME NEW t \in Threads, Observation!PublishWord(t) PROVE TrackingInv'
  BY <1>11 DEF Observation!PublishWord, Observation!library, Observation!tracking,
               ObservationTypes, SolversHaveOneUser, SlotsFollow
<1>12. ASSUME NEW t \in Threads, Observation!PublishEnd(t) PROVE TrackingInv'
  <2>1. /\ lock = t /\ lock' = "nobody"
        /\ pc' = [pc EXCEPT ![t] = IF pc[t] = "retire" THEN "destroy" ELSE "free"]
        /\ held' = IF pc[t] = "register" THEN held \cup {arg[t]} ELSE held
        /\ UNCHANGED <<alive, slots, quarantine, arg>>
    BY <1>12 DEF Observation!PublishEnd, Observation!tracking
  <2>4. ObservationTypes'
    BY <2>1 DEF ObservationTypes
  <2>5. SolversHaveOneUser'
    BY <2>1 DEF ObservationTypes, SolversHaveOneUser
  <2>6. SlotsFollow'
    BY <2>1 DEF ObservationTypes, SolversHaveOneUser, SlotsFollow
  <2> QED
    BY <2>4, <2>5, <2>6
<1>13. CASE Observation!Reader
  BY <1>13 DEF Observation!Reader, Observation!NewReading, Observation!ReadBefore,
       Observation!ReadWord, Observation!ReadAfter, Observation!library,
       Observation!tracking, ObservationTypes, SolversHaveOneUser, SlotsFollow
<1> QED
  BY <1>1, <1>3, <1>4, <1>5, <1>6, <1>7, <1>8, <1>9, <1>10, <1>11, <1>12, <1>13
     DEF Observation!Next, Observation!Game

LEMMA TrackingExact == TrackingInv => Observation!TrackingIsExact
BY DEF TrackingInv, SlotsFollow, Observation!TrackingIsExact, Observation!Tracked

(* What a reader took for word w while the publication p was complete: only  *)
(* the counts may have been withdrawn since.                                *)
Fits(w, v, p) == IF w = "countsValid" THEN v <= p /\ v \in Nat ELSE v = p

IsSequence(q) == \E S : q \in Seq(S)

MemoryInv ==
    /\ sequence \in Nat /\ (lock = "nobody" <=> sequence % 2 = 0)
    /\ written \in 0..6 /\ IsFiniteSet(DOMAIN slots)
    /\ DOMAIN shared = Observation!WordsSet /\ shared["max"] \in Nat
    /\ published["countsValid"] \in Nat
    /\ IF lock = "nobody"
       THEN \A w \in Observation!WordsSet : Fits(w, shared[w], published[w])
       ELSE \A i \in 1..written :
               shared[Observation!Words[i]] = Observation!Word(Observation!Words[i])

ReadingInv ==
    /\ DOMAIN observationReading = {"attempt", "before", "got", "accepted"}
    /\ IsSequence(observationReading.got)
    /\ observationReading.before = -1 => observationReading.got = <<>>
    /\ observationReading.before # -1 =>
          /\ observationReading.before \in Nat /\ observationReading.before <= sequence
          /\ observationReading.before % 2 = 0
          /\ observationReading.before = sequence =>
                \A i \in 1..Len(observationReading.got) : i <= 6 =>
                    Fits(Observation!Words[i], observationReading.got[i],
                         published[Observation!Words[i]])

LockIsOneThreads == lock \in Threads \cup {"nobody"}

LEMMA SequenceGrows ==
  ASSUME NEW q, IsSequence(q), NEW v
  PROVE  /\ IsSequence(Append(q, v)) /\ Len(q) \in Nat /\ Len(Append(q, v)) = Len(q) + 1
         /\ \A i \in 1..Len(q) : Append(q, v)[i] = q[i]
         /\ Append(q, v)[Len(q) + 1] = v
<1>1. PICK S : q \in Seq(S)
  BY DEF IsSequence
<1>2. q \in Seq(S \cup {v})
  BY <1>1
<1> QED
  BY <1>2, AppendProperties, LenProperties DEF IsSequence

LEMMA MaxOfTwo ==
  ASSUME NEW x \in Nat, NEW y \in Nat
  PROVE  Observation!Max({x, y}) = IF x <= y THEN y ELSE x
BY DEF Observation!Max

LEMMA ObservationCardinality == \A S : Observation!Cardinality(S) = Cardinality(S)
BY DEF Observation!Cardinality, Cardinality

LEMMA TheWords ==
  /\ Observation!WordsSet = {"live", "max", "capacity", "active", "capacityValid", "countsValid"}
  /\ Len(Observation!Words) = 6 /\ DOMAIN Observation!Words = 1..6
  /\ \A i \in 1..6 : Observation!Words[i] \in Observation!WordsSet
  /\ \A i, j \in 1..6 : Observation!Words[i] = Observation!Words[j] => i = j
  /\ \A w \in Observation!WordsSet : \E i \in 1..6 : Observation!Words[i] = w
  /\ Observation!Words[6] = "countsValid"
<1>1. Len(Observation!Words) = 6 /\ DOMAIN Observation!Words = 1..6
  BY DEF Observation!Words
<1>2. Observation!WordsSet = {"live", "max", "capacity", "active", "capacityValid", "countsValid"}
  BY <1>1 DEF Observation!Words, Observation!WordsSet
<1>3. \A i \in 1..6 : i = 1 \/ i = 2 \/ i = 3 \/ i = 4 \/ i = 5 \/ i = 6
  OBVIOUS
<1>4. \A w \in Observation!WordsSet : \E i \in 1..6 : Observation!Words[i] = w
  BY <1>1 DEF Observation!WordsSet
<1>5. \A i \in 1..6 : Observation!Words[i] \in Observation!WordsSet
  BY <1>1 DEF Observation!WordsSet
<1> QED
  BY <1>1, <1>2, <1>3, <1>4, <1>5 DEF Observation!Words

(* The words depend on nothing but the slots, and the maximum on itself.    *)
LEMMA WordStays ==
  ASSUME slots' = slots, NEW w, w # "max"
  PROVE  Observation!Word(w)' = Observation!Word(w)
BY DEF Observation!Word, Observation!CountsValid, Observation!CapacityValid,
       Observation!Tracked, Observation!Sum

LEMMA MemoryStarts ==
  Observation!ObservationAssumption /\ Observation!Init => MemoryInv /\ ReadingInv
<1> SUFFICES ASSUME Observation!ObservationAssumption, Observation!Init
             PROVE  MemoryInv /\ ReadingInv
  OBVIOUS
<1>1. IsFiniteSet(DOMAIN slots) /\ IsSequence(observationReading.got)
  BY FS_EmptySet, EmptySeq DEF Observation!Init, IsSequence
<1>2. Len(observationReading.got) = 0
  BY EmptySeq DEF Observation!Init
<1> QED
  BY <1>1, <1>2, TheWords DEF Observation!ObservationAssumption, Observation!Init,
       MemoryInv, ReadingInv, Fits, Observation!Nobody

LEMMA MemoryStep ==
  ASSUME Observation!ObservationAssumption, LockIsOneThreads, MemoryInv,
         [Observation!Next]_ofObservation
  PROVE  MemoryInv'
<1> USE DEF Observation!Nobody, Observation!Tracked, Observation!ObservationAssumption,
            LockIsOneThreads
<1>1. ASSUME UNCHANGED <<shared, sequence, written, published, lock, slots>> PROVE MemoryInv'
  <2>1. \A w : Observation!Word(w)' = Observation!Word(w)
    BY <1>1 DEF Observation!Word, Observation!CountsValid, Observation!CapacityValid,
                Observation!Sum
  <2>2. CASE lock = "nobody"
    BY <1>1, <2>2 DEF MemoryInv
  <2>3. CASE lock # "nobody"
    BY <1>1, <2>1, <2>3 DEF MemoryInv
  <2> QED
    BY <2>2, <2>3
<1>2. ASSUME NEW t \in Threads, Observation!Lock(t), IsFiniteSet(DOMAIN slots') PROVE MemoryInv'
  <2>1. /\ lock = "nobody" /\ lock' = t /\ t # "nobody" /\ sequence' = sequence + 1
        /\ written' = 0 /\ UNCHANGED <<shared, published>>
    BY <1>2 DEF Observation!Lock
  <2> QED
    BY <1>2, <2>1 DEF MemoryInv
<1>3. ASSUME NEW t \in Threads, Observation!Register(t) PROVE MemoryInv'
  <2>1. IsFiniteSet(DOMAIN slots')
    BY <1>3, FS_AddElement DEF Observation!Register, MemoryInv
  <2> QED
    BY <1>2, <1>3, <2>1 DEF Observation!Register
<1>4. ASSUME NEW t \in Threads, Observation!RecordCount(t) PROVE MemoryInv'
  <2>1. IsFiniteSet(DOMAIN slots')
    BY <1>4 DEF Observation!RecordCount, MemoryInv
  <2> QED
    BY <1>2, <1>4, <2>1 DEF Observation!RecordCount
<1>5. ASSUME NEW t \in Threads, Observation!Retire(t) PROVE MemoryInv'
  <2>1. IsFiniteSet(DOMAIN slots')
    BY <1>5, FS_RemoveElement DEF Observation!Retire, MemoryInv
  <2> QED
    BY <1>2, <1>5, <2>1 DEF Observation!Retire
<1>6. ASSUME NEW t \in Threads, Observation!CountUntracked(t) PROVE MemoryInv'
  BY <1>6, TheWords DEF Observation!CountUntracked, MemoryInv, Fits
<1>7. ASSUME NEW t \in Threads, Observation!PublishWord(t) PROVE MemoryInv'
  <2> DEFINE n == written + 1
             word == Observation!Words[n]
  <2>1. /\ lock = t /\ lock # "nobody" /\ lock' = lock /\ n \in 1..6 /\ written' = n
        /\ shared' = [shared EXCEPT ![word] = Observation!Word(word)]
        /\ slots' = slots /\ sequence' = sequence /\ published' = published
    BY <1>7, TheWords DEF Observation!PublishWord, Observation!tracking, MemoryInv
  <2>2. word \in Observation!WordsSet /\ DOMAIN shared = Observation!WordsSet
    BY <2>1, TheWords DEF MemoryInv
  <2>3. Cardinality(DOMAIN slots) \in Nat
    BY FS_CardinalityType DEF MemoryInv
  <2>4. Observation!Word("max") = IF shared["max"] <= Cardinality(DOMAIN slots)
                                  THEN Cardinality(DOMAIN slots) ELSE shared["max"]
    <3>1. Observation!Word("max") = Observation!Max({shared["max"], Cardinality(DOMAIN slots)})
      BY ObservationCardinality DEF Observation!Word
    <3> QED
      BY <2>3, <3>1, MaxOfTwo DEF MemoryInv
  <2>5. shared'["max"] \in Nat
    BY <2>1, <2>2, <2>3, <2>4 DEF MemoryInv
  <2>6. Observation!Word("max")' = IF shared'["max"] <= Cardinality(DOMAIN slots)
                                   THEN Cardinality(DOMAIN slots) ELSE shared'["max"]
    <3>1. Observation!Word("max")' = Observation!Max({shared'["max"], Cardinality(DOMAIN slots)})
      BY <2>1, ObservationCardinality DEF Observation!Word
    <3> QED
      BY <2>3, <2>5, <3>1, MaxOfTwo
  <2>7. Observation!Word("max")' = IF word = "max" THEN Observation!Word("max")
                                   ELSE Observation!Word("max")
    BY <2>1, <2>2, <2>3, <2>4, <2>6 DEF MemoryInv
  <2>8. \A w : Observation!Word(w)' = Observation!Word(w)
    BY <2>1, <2>7, WordStays
  <2>9. ASSUME NEW i \in 1..n
        PROVE  shared'[Observation!Words[i]] = Observation!Word(Observation!Words[i])
    <3>1. i \in 1..6 /\ Observation!Words[i] \in Observation!WordsSet
      BY <2>1, TheWords
    <3>2. CASE i = n
      BY <2>1, <2>2, <3>2
    <3>3. CASE i # n
      <4>1. i \in 1..written /\ Observation!Words[i] # word
        BY <2>1, <3>1, <3>3, TheWords DEF MemoryInv
      <4> QED
        BY <2>1, <2>2, <3>1, <4>1 DEF MemoryInv
    <3> QED
      BY <3>2, <3>3
  <2>10. \A i \in 1..written' :
            shared'[Observation!Words[i]] = Observation!Word(Observation!Words[i])'
    BY <2>1, <2>8, <2>9
  <2> HIDE DEF n, word
  <2>11. DOMAIN shared' = DOMAIN shared
    BY <2>1
  <2> QED
    BY <2>1, <2>5, <2>10, <2>11 DEF MemoryInv
<1>8. ASSUME NEW t \in Threads, Observation!PublishEnd(t) PROVE MemoryInv'
  <2>1. /\ lock = t /\ lock # "nobody" /\ lock' = "nobody" /\ written = 6 /\ written' = 6
        /\ sequence' = sequence + 1 /\ slots' = slots /\ shared' = shared
        /\ published' = [w \in Observation!WordsSet |-> Observation!Word(w)]
    BY <1>8, TheWords DEF Observation!PublishEnd, Observation!tracking, MemoryInv
  <2>2. \A w \in Observation!WordsSet : shared[w] = Observation!Word(w)
    BY <2>1, TheWords DEF MemoryInv
  <2>3. published'["countsValid"] \in Nat
    BY <2>1, TheWords DEF Observation!Word
  <2>4. \A w \in Observation!WordsSet : Fits(w, shared'[w], published'[w])
    BY <2>1, <2>2, <2>3, TheWords DEF Fits
  <2> QED
    BY <2>1, <2>3, <2>4 DEF MemoryInv
<1>9. ASSUME NEW t \in Threads, NEW do, NEW a, Observation!Call(t, do, a) PROVE MemoryInv'
  BY <1>1, <1>9 DEF Observation!Call, Observation!tracking, Observation!memory
<1>10. ASSUME NEW t \in Threads,
              Observation!Create(t) \/ Observation!Count(t) \/ Observation!Destroy(t)
       PROVE  MemoryInv'
  BY <1>9, <1>10 DEF Observation!Create, Observation!Count, Observation!Destroy
<1>11. ASSUME NEW t \in Threads, Observation!DestroyOriginal(t) PROVE MemoryInv'
  BY <1>1, <1>11 DEF Observation!DestroyOriginal, Observation!tracking,
       Observation!memory
<1>12. CASE Observation!Reader
  BY <1>1, <1>12 DEF Observation!Reader, Observation!NewReading,
       Observation!ReadBefore, Observation!ReadWord, Observation!ReadAfter,
       Observation!tracking, Observation!memory
<1>13. CASE UNCHANGED ofObservation
  BY <1>1, <1>13 DEF ofObservation
<1> QED
  BY <1>3, <1>4, <1>5, <1>6, <1>7, <1>8, <1>10, <1>11, <1>12, <1>13
     DEF Observation!Next, Observation!Game

LEMMA ReadingStep ==
  ASSUME Observation!ObservationAssumption, LockIsOneThreads, MemoryInv, MemoryInv', ReadingInv,
         [Observation!Next]_ofObservation
  PROVE  ReadingInv'
<1> DEFINE got == observationReading.got
<1>1. ASSUME observationReading' = observationReading, sequence' \in Nat, sequence <= sequence',
             sequence' = sequence => published' = published
      PROVE  ReadingInv'
  BY <1>1 DEF MemoryInv, ReadingInv
<1>2. ASSUME NEW t \in Threads, Observation!Game(t) PROVE ReadingInv'
  <2>1. /\ observationReading' = observationReading
        /\ \/ sequence' = sequence /\ published' = published
           \/ sequence' = sequence + 1
    BY <1>2 DEF Observation!Game, Observation!Create, Observation!Register,
         Observation!Count, Observation!RecordCount, Observation!CountUntracked,
         Observation!Destroy, Observation!Retire, Observation!DestroyOriginal,
         Observation!PublishWord, Observation!PublishEnd, Observation!Call,
         Observation!Lock, Observation!memory
  <2> QED
    BY <1>1, <2>1 DEF MemoryInv
<1>3. CASE Observation!NewReading
  <2>1. IsSequence(<<>>) /\ Len(<<>>) = 0
    BY EmptySeq DEF IsSequence
  <2> QED
    BY <1>3, <2>1 DEF Observation!NewReading, ReadingInv
<1>4. CASE Observation!ReadBefore
  <2>1. IsSequence(<<>>) /\ Len(<<>>) = 0
    BY EmptySeq DEF IsSequence
  <2>2. sequence' = sequence /\ published' = published
    BY <1>4 DEF Observation!ReadBefore, Observation!memory
  <2>3. CASE sequence % 2 = 1
    BY <1>4, <2>1, <2>3 DEF Observation!ReadBefore, Observation!Again, ReadingInv
  <2>4. CASE sequence % 2 # 1
    <3>1. observationReading' = [observationReading EXCEPT !.before = sequence]
      BY <1>4, <2>4 DEF Observation!ReadBefore
    <3> QED
      BY <1>4, <2>1, <2>2, <2>4, <3>1 DEF Observation!ReadBefore, MemoryInv, ReadingInv
  <2> QED
    BY <2>3, <2>4
<1>5. CASE Observation!ReadWord
  <2> DEFINE n == Len(got) + 1
             v == shared[Observation!Words[n]]
  <2>1. /\ observationReading' = [observationReading EXCEPT !.got = Append(got, v)]
        /\ observationReading.before # -1 /\ Len(got) < 6
        /\ sequence' = sequence /\ published' = published
    BY <1>5, TheWords DEF Observation!ReadWord, Observation!memory, ReadingInv
  <2>2. /\ IsSequence(Append(got, v)) /\ Len(got) \in Nat /\ Len(Append(got, v)) = n
        /\ \A i \in 1..Len(got) : Append(got, v)[i] = got[i]
        /\ Append(got, v)[n] = v
    BY SequenceGrows DEF ReadingInv
  <2>3. n \in 1..6 /\ Observation!Words[n] \in Observation!WordsSet
    BY <2>1, <2>2, TheWords
  <2>4. observationReading.before = sequence =>
            Fits(Observation!Words[n], v, published[Observation!Words[n]])
    BY <2>1, <2>3 DEF MemoryInv, ReadingInv
  <2> HIDE DEF n, v, got
  <2>5. /\ observationReading'.got = Append(got, v)
        /\ observationReading'.before = observationReading.before
        /\ DOMAIN observationReading' = DOMAIN observationReading
    BY <2>1 DEF ReadingInv
  <2>6. observationReading.before = sequence =>
            \A i \in 1..n : i <= 6 =>
               Fits(Observation!Words[i], Append(got, v)[i], published[Observation!Words[i]])
    <3> SUFFICES ASSUME observationReading.before = sequence, NEW i \in 1..n, i <= 6
                 PROVE  Fits(Observation!Words[i], Append(got, v)[i],
                             published[Observation!Words[i]])
      OBVIOUS
    <3>1. CASE i = n
      BY <2>2, <2>4, <3>1
    <3>2. CASE i # n
      <4>1. i \in 1..Len(got)
        BY <2>2, <3>2 DEF n
      <4> QED
        BY <2>1, <2>2, <4>1 DEF ReadingInv, got
    <3> QED
      BY <3>1, <3>2
  <2> QED
    BY <2>1, <2>2, <2>5, <2>6 DEF ReadingInv
<1>6. CASE Observation!ReadAfter
  <2>1. IsSequence(<<>>) /\ Len(<<>>) = 0
    BY EmptySeq DEF IsSequence
  <2>2. sequence' = sequence /\ published' = published
    BY <1>6 DEF Observation!ReadAfter, Observation!memory
  <2>3. CASE Observation!Undisturbed
    BY <1>6, <2>1, <2>2, <2>3 DEF Observation!ReadAfter, ReadingInv
  <2>4. CASE ~Observation!Undisturbed
    BY <1>6, <2>1, <2>2, <2>4 DEF Observation!ReadAfter, Observation!Again, ReadingInv
  <2> QED
    BY <2>3, <2>4
<1>7. CASE UNCHANGED ofObservation
  BY <1>1, <1>7 DEF ofObservation, MemoryInv
<1> QED
  BY <1>2, <1>3, <1>4, <1>5, <1>6, <1>7 DEF Observation!Next, Observation!Reader

(* Only the last check of the sequence number accepts.                      *)
LEMMA AcceptedStep ==
  ASSUME LockIsOneThreads, MemoryInv, ReadingInv, [Observation!Next]_ofObservation,
         observationReading.accepted = <<>>, observationReading'.accepted # <<>>
  PROVE  /\ \A w \in Observation!WordsSet \ {"countsValid"} :
               Observation!Accepted(w)' = published[w]
         /\ Observation!Accepted("countsValid")' <= published["countsValid"]
<1> DEFINE got == observationReading.got
<1>1. CASE observationReading'.accepted = observationReading.accepted
  BY <1>1
<1>2. CASE observationReading' = [attempt |-> 1, before |-> -1, got |-> <<>>, accepted |-> <<>>]
  BY <1>2
<1>3. CASE Observation!ReadAfter /\ Observation!Undisturbed
  <2>1. /\ observationReading'.accepted = got /\ Len(got) = 6
        /\ observationReading.before = sequence /\ sequence # -1
    BY <1>3, TheWords DEF Observation!ReadAfter, Observation!Undisturbed, ReadingInv,
         MemoryInv
  <2>2. \A i \in 1..6 : Fits(Observation!Words[i], got[i], published[Observation!Words[i]])
    BY <2>1 DEF ReadingInv
  <2>3. ASSUME NEW w \in Observation!WordsSet
        PROVE  Fits(w, Observation!Accepted(w)', published[w])
    <3> DEFINE i == CHOOSE i \in DOMAIN Observation!Words : Observation!Words[i] = w
    <3>1. i \in 1..6 /\ Observation!Words[i] = w
      BY TheWords
    <3>2. Observation!Accepted(w)' = got[i]
      BY <2>1 DEF Observation!Accepted
    <3> HIDE DEF i
    <3> QED
      BY <2>2, <3>1, <3>2
  <2> QED
    BY <2>3, TheWords DEF Fits
<1>4. ASSUME NEW t \in Threads, Observation!Game(t)
      PROVE  observationReading' = observationReading
  BY <1>4 DEF Observation!Game, Observation!Create, Observation!Register,
       Observation!Count, Observation!RecordCount, Observation!CountUntracked,
       Observation!Destroy, Observation!Retire, Observation!DestroyOriginal,
       Observation!PublishWord, Observation!PublishEnd, Observation!Call,
       Observation!Lock
<1>5. CASE Observation!Reader /\ ~(Observation!ReadAfter /\ Observation!Undisturbed)
  BY <1>1, <1>2, <1>5 DEF Observation!Reader, Observation!NewReading,
       Observation!ReadBefore, Observation!ReadWord, Observation!ReadAfter,
       Observation!Again, ReadingInv
<1>6. CASE UNCHANGED ofObservation
  BY <1>1, <1>6 DEF ofObservation
<1> QED
  BY <1>1, <1>3, <1>4, <1>5, <1>6 DEF Observation!Next

(***************************************************************************)
(* The log of the game.                                                     *)
(***************************************************************************)

SessionFields ==
    {"map", "phase", "mode", "readOnly", "gen", "port", "pool", "acted", "ui", "rev", "movie",
     "loadObs", "movieObs", "alive", "wave", "sample"}

LogTypes ==
    /\ DOMAIN logSession = SessionFields
    /\ logSession.rev \in Nat /\ logSession.loadObs \in Nat /\ logSession.movieObs \in Nat
    /\ now \in Nat \ {0}
    /\ DOMAIN world = {"id", "map", "mode", "told", "ended"} /\ world.id \in Nat
    /\ IF logReading = None
       THEN logSession.loadObs < now /\ logSession.movieObs < now
       ELSE logSession.loadObs <= now /\ logSession.movieObs <= now

(* How far behind its world the session may be: an online game travels on   *)
(* before it is told, a game that is played alone cannot.                   *)
SessionOfWorld ==
    /\ logSession.mode \in {None, world.mode}
    /\ logSession.mode = None => logSession.gen = None
    /\ world.mode = "standalone" => logSaid = world.id
    /\ world.told => logSaid = world.id
    /\ logSession.map = "menu" => world.mode = "standalone"
    /\ logSession.gen # None =>
          /\ logSession.gen \in Nat /\ logSession.gen <= world.id /\ logSession.gen = logSaid
          /\ logSession.gen = world.id => logSession.map = world.map

ValuesAreOfWorld(s, w) ==
    /\ s.alive.v \in {None, w} /\ s.wave.v \in {None, w} /\ s.sample.v \in {None, w}
    /\ s.port \in {None, w}

SampleFits(sample) ==
    sample.v # None =>
        /\ sample.awake <= sample.total
        /\ sample.detail # None => sample.detail <= sample.total

(* The session still is the one the last drain saw, further on; or a map    *)
(* has been loaded since.                                                   *)
Reloaded(s, p) == s.map = "menu" \/ s.loadObs > p.load

FurtherOn(s, p) ==
    /\ s.rev >= p.rev /\ s.movieObs >= p.movie
    /\ p.gen # None => s.gen # None /\ s.gen >= p.gen

(* A change of scene that the next drain will see, or that leaves it        *)
(* nothing to measure.                                                      *)
SceneChanged(s, p) ==
    \/ Reloaded(s, p)
    \/ s.rev > p.rev \/ s.movieObs > p.movie
    \/ s.gen # None /\ (p.gen = None \/ s.gen > p.gen)
    \/ s.ui = Log!NoUi

SeenInv ==
    seen # None =>
        /\ DOMAIN seen = {"active", "map", "gen", "rev", "load", "movie"}
        /\ seen.rev \in Nat /\ seen.load \in Nat /\ seen.movie \in Nat
        /\ seen.gen # None => seen.gen \in Nat
        /\ seen.load < now /\ seen.movie < now
        /\ seen.active => seen.map # "menu"
        /\ ~seen.active => window = None

SceneInv ==
    ~blind /\ seen # None /\ window # None =>
        /\ Reloaded(logSession, seen) \/ FurtherOn(logSession, seen)
        /\ window = scenes \/ SceneChanged(logSession, seen)

LogInv ==
    /\ LogTypes /\ SessionOfWorld /\ ValuesAreOfWorld(logSession, logSaid)
    /\ SampleFits(logSession.sample) /\ SeenInv /\ SceneInv

(* What a line that opens no world may do to the session s: values of the   *)
(* world of its last load or receipt, revisions, and things forgotten.      *)
Told(s, t, mode, said_, obs) ==
    /\ DOMAIN t = SessionFields
    /\ t.map = s.map /\ t.gen = s.gen /\ t.loadObs = s.loadObs
    /\ t.mode = s.mode \/ (s.mode = None /\ t.mode = mode)
    /\ (t.rev = s.rev /\ t.ui \in {s.ui, Log!NoUi}) \/ t.rev = s.rev + 1
    /\ t.movieObs = s.movieObs \/ t.movieObs = obs
    /\ ValuesAreOfWorld(t, said_) /\ SampleFits(t.sample)

LEMMA NoNone ==
  Log!LogAssumption =>
      None \notin Nat \cup {"current", "history", "gameplay", "standalone", "client", "host"}
BY DEF Log!LogAssumption, Log!Online

LEMMA LogStarts == Log!LogAssumption /\ Log!Init => LogInv
<1> SUFFICES ASSUME Log!LogAssumption, Log!Init PROVE LogInv
  OBVIOUS
<1> USE NoNone DEF Log!Init
<1>1. /\ DOMAIN logSession = SessionFields /\ logSession.rev = 0 /\ logSession.loadObs = 0
      /\ logSession.movieObs = 0 /\ logSession.mode = None /\ logSession.gen = None
      /\ logSession.map = None /\ logSession.alive.v = None /\ logSession.wave.v = None
      /\ logSession.sample.v = None /\ logSession.port = None
  BY DEF Log!NoSession, Log!Loaded, Log!NoValue, Log!NoSample, SessionFields
<1>2. LogTypes
  BY <1>1 DEF LogTypes
<1>3. SessionOfWorld
  BY <1>1 DEF SessionOfWorld
<1> QED
  BY <1>1, <1>2, <1>3 DEF LogInv, ValuesAreOfWorld, SampleFits, SeenInv, SceneInv

(***************************************************************************)
(* The lines.                                                               *)
(***************************************************************************)

(* A line that opens no world leaves the session as it should be.           *)
LEMMA ToldKeeps ==
  ASSUME Log!LogAssumption, LogInv, logReading' # None, now' = now, logSaid' = logSaid,
         UNCHANGED <<seen, window, blind>>, DOMAIN world' = DOMAIN world,
         world'.id = world.id, world'.map = world.map, world'.mode = world.mode,
         world'.told = world.told,
         Told(logSession, logSession', world.mode, logSaid, now),
         scenes' = scenes \/ logSession'.ui # logSession.ui
                          \/ logSession'.movieObs # logSession.movieObs
  PROVE  LogInv'
<1> USE NoNone DEF LogInv, Told
<1>1. LogTypes'
  BY DEF LogTypes
<1>2. SessionOfWorld'
  BY DEF SessionOfWorld
<1>3. SeenInv'
  BY DEF SeenInv
<1>4. SceneInv'
  <2> SUFFICES ASSUME ~blind, seen # None, window # None
               PROVE  /\ Reloaded(logSession', seen) \/ FurtherOn(logSession', seen)
                      /\ window = scenes' \/ SceneChanged(logSession', seen)
    BY DEF SceneInv
  <2>1. /\ Reloaded(logSession, seen) \/ FurtherOn(logSession, seen)
        /\ window = scenes \/ SceneChanged(logSession, seen)
    BY DEF SceneInv
  <2>2. /\ seen.rev \in Nat /\ seen.load \in Nat /\ seen.movie \in Nat /\ seen.movie < now
    BY DEF SeenInv
  <2>3. Reloaded(logSession, seen) => Reloaded(logSession', seen)
    BY DEF Reloaded
  <2>4. FurtherOn(logSession, seen) => FurtherOn(logSession', seen)
    BY <2>2 DEF FurtherOn, LogTypes
  <2>5. FurtherOn(logSession, seen) /\ logSession'.movieObs # logSession.movieObs
            => SceneChanged(logSession', seen)
    BY <2>2 DEF SceneChanged
  <2>6. FurtherOn(logSession, seen) /\ logSession'.ui # logSession.ui
            => SceneChanged(logSession', seen)
    BY <2>2 DEF SceneChanged, FurtherOn, LogTypes
  <2>7. Reloaded(logSession', seen) => SceneChanged(logSession', seen)
    BY DEF SceneChanged
  <2>8. FurtherOn(logSession, seen) /\ SceneChanged(logSession, seen) =>
           SceneChanged(logSession', seen)
    BY <2>2, <2>3 DEF SceneChanged, FurtherOn, LogTypes
  <2> QED
    BY <2>1, <2>3, <2>4, <2>5, <2>6, <2>7, <2>8
<1> QED
  BY <1>1, <1>2, <1>3, <1>4

(* What every line has in common.                                           *)
LEMMA ReadTells ==
  ASSUME Log!LogAssumption, NEW l, Log!Read(l)
  PROVE  /\ logReading' # None /\ now' = now /\ UNCHANGED <<seen, window, blind>>
         /\ logSession' = Log!LineRead(logSession, l, now)
         /\ l.kind \notin {"load", "receipt"} =>
               /\ logSaid' = logSaid
               /\ scenes' = scenes \/ logSession'.gen # logSession.gen
                     \/ logSession'.ui # logSession.ui
                     \/ logSession'.movieObs # logSession.movieObs
BY NoNone DEF Log!Read, Log!stats
LEMMA LinesTell ==
  ASSUME Log!LogAssumption, LogInv, Log!Lines, ~Log!ReceiptLine
  PROVE  LogInv'
<1> DEFINE told(l) == Told(logSession, Log!LineRead(logSession, l, now), world.mode, logSaid, now)
<1> USE NoNone
<1>1. ASSUME NEW l, Log!Read(l), l.kind \notin {"load", "receipt"}, told(l),
             UNCHANGED world \/ world' = [world EXCEPT !.ended = TRUE]
      PROVE  LogInv'
  <2>1. /\ logReading' # None /\ now' = now /\ UNCHANGED <<seen, window, blind>>
        /\ logSession' = Log!LineRead(logSession, l, now) /\ logSaid' = logSaid
        /\ scenes' = scenes \/ logSession'.gen # logSession.gen
                            \/ logSession'.ui # logSession.ui
                            \/ logSession'.movieObs # logSession.movieObs
    BY <1>1, ReadTells
  <2>2. /\ Told(logSession, logSession', world.mode, logSaid, now)
        /\ logSession'.gen = logSession.gen
    BY <1>1, <2>1 DEF Told
  <2>3. /\ DOMAIN world' = DOMAIN world /\ world'.id = world.id /\ world'.map = world.map
        /\ world'.mode = world.mode /\ world'.told = world.told
    BY <1>1 DEF LogInv, LogTypes
  <2> QED
    BY <2>1, <2>2, <2>3, ToldKeeps
<1> HIDE DEF told
<1> USE DEF LogInv, LogTypes, Told, ValuesAreOfWorld, SessionFields
<1>2. CASE Log!NetModeLine
  <2> DEFINE l == [kind |-> "netmode", mode |-> world.mode]
  <2>1. Log!Read(l) /\ UNCHANGED world /\ l.kind = "netmode" /\ l.mode = world.mode
    BY <1>2 DEF Log!NetModeLine
  <2> HIDE DEF l
  <2>2. Log!LineRead(logSession, l, now) = Log!NetModeRead(logSession, l)
    BY <2>1 DEF Log!LineRead
  <2>3. told(l)
    BY <2>1, <2>2 DEF told, Log!NetModeRead, Log!ClearGameplay, Log!ClearSample,
         Log!NoValue, Log!NoSample, SampleFits, SessionOfWorld
  <2> QED
    BY <1>1, <2>1, <2>3
<1>3. CASE Log!BridgeLine
  <2>1. PICK port \in {world.id, None} : Log!Read([kind |-> "bridge", port |-> port])
    BY <1>3 DEF Log!BridgeLine
  <2> DEFINE l == [kind |-> "bridge", port |-> port]
  <2>2. l.kind = "bridge" /\ l.port \in {logSaid, None} /\ UNCHANGED world /\ Log!Read(l)
    BY <1>3, <2>1 DEF Log!BridgeLine, SessionOfWorld
  <2> HIDE DEF l
  <2>3. Log!LineRead(logSession, l, now) = Log!BridgeRead(logSession, l)
    BY <2>2 DEF Log!LineRead
  <2>4. told(l)
    BY <2>2, <2>3 DEF told, Log!BridgeRead
  <2> QED
    BY <1>1, <2>2, <2>4
<1>4. CASE Log!CorpseLine
  <2>1. PICK state \in {"populated", "action"} :
           Log!Read([kind |-> "corpse", state |-> state, pool |-> world.id])
    BY <1>4 DEF Log!CorpseLine
  <2> DEFINE l == [kind |-> "corpse", state |-> state, pool |-> world.id]
  <2>2. l.kind = "corpse" /\ UNCHANGED world /\ Log!Read(l)
    BY <1>4, <2>1 DEF Log!CorpseLine
  <2> HIDE DEF l
  <2>3. Log!LineRead(logSession, l, now) = Log!CorpseRead(logSession, l)
    BY <2>2 DEF Log!LineRead
  <2>4. told(l)
    BY <2>2, <2>3 DEF told, Log!CorpseRead
  <2> QED
    BY <1>1, <2>2, <2>4
<1>5. CASE Log!UiLine
  <2>1. PICK u : Log!Read([kind |-> "ui", mode |-> world.mode, ui |-> u])
    BY <1>5 DEF Log!UiLine
  <2> DEFINE l == [kind |-> "ui", mode |-> world.mode, ui |-> u]
  <2>2. l.kind = "ui" /\ UNCHANGED world /\ Log!Read(l)
    BY <1>5, <2>1 DEF Log!UiLine
  <2> HIDE DEF l
  <2>3. Log!LineRead(logSession, l, now) = Log!UiRead(logSession, l)
    BY <2>2 DEF Log!LineRead
  <2>4. told(l)
    BY <2>2, <2>3 DEF told, Log!UiRead
  <2> QED
    BY <1>1, <2>2, <2>4
<1>6. CASE Log!MovieLine
  <2>1. CASE Log!Read([kind |-> "movie_start"])
    <3> DEFINE l == [kind |-> "movie_start"]
    <3>2. l.kind = "movie_start" /\ UNCHANGED world /\ Log!Read(l)
      BY <1>6, <2>1 DEF Log!MovieLine
    <3> HIDE DEF l
    <3>3. Log!LineRead(logSession, l, now) = Log!MovieStartRead(logSession)
      BY <3>2 DEF Log!LineRead
    <3>4. told(l)
      BY <3>2, <3>3 DEF told, Log!MovieStartRead
    <3> QED
      BY <1>1, <3>2, <3>4
  <2>2. ASSUME NEW other \in BOOLEAN, Log!Read([kind |-> "movie_end", other |-> other])
        PROVE  LogInv'
    <3> DEFINE l == [kind |-> "movie_end", other |-> other]
    <3>2. l.kind = "movie_end" /\ UNCHANGED world /\ Log!Read(l)
      BY <1>6, <2>2 DEF Log!MovieLine
    <3> HIDE DEF l
    <3>3. Log!LineRead(logSession, l, now) = Log!MovieEndRead(logSession, l, now)
      BY <3>2 DEF Log!LineRead
    <3>4. told(l)
      BY <3>2, <3>3 DEF told, Log!MovieEndRead
    <3> QED
      BY <1>1, <3>2, <3>4
  <2> QED
    BY <1>6, <2>1, <2>2 DEF Log!MovieLine
<1>7. CASE Log!CountLine
  <2>1. PICK kind \in {"alive", "wave"} : Log!Read([kind |-> kind, v |-> world.id])
    BY <1>7 DEF Log!CountLine
  <2> DEFINE l == [kind |-> kind, v |-> world.id]
  <2>2. /\ l.kind \in {"alive", "wave"} /\ l.v = world.id /\ UNCHANGED world /\ Log!Read(l)
        /\ Log!Offline(logSession) => l.v = logSaid
    BY <1>7, <2>1 DEF Log!CountLine, Log!Offline, SessionOfWorld
  <2> HIDE DEF l
  <2>3. Log!LineRead(logSession, l, now) \in
            {Log!CountRead(logSession, l, now), Log!WaveRead(logSession, l, now)}
    BY <2>2 DEF Log!LineRead
  <2>4. told(l)
    BY <2>2, <2>3 DEF told, Log!CountRead, Log!WaveRead
  <2> QED
    BY <1>1, <2>2, <2>4
<1>8. CASE Log!SampleLine
  <2>1. PICK total, awake, detail :
           Log!Read([kind |-> "sample", v |-> world.id, total |-> total, awake |-> awake,
                     detail |-> detail])
    BY <1>8 DEF Log!SampleLine
  <2> DEFINE l == [kind |-> "sample", v |-> world.id, total |-> total, awake |-> awake,
                   detail |-> detail]
  <2>2. /\ l.kind = "sample" /\ l.v = world.id /\ UNCHANGED world /\ Log!Read(l)
        /\ Log!Offline(logSession) => l.v = logSaid
    BY <1>8, <2>1 DEF Log!SampleLine, Log!Offline, SessionOfWorld
  <2> HIDE DEF l
  <2>3. Log!LineRead(logSession, l, now) = Log!SampleRead(logSession, l, now)
    BY <2>2 DEF Log!LineRead
  <2>4. told(l)
    <3>1. CASE Log!LineRead(logSession, l, now) = logSession
      BY <3>1 DEF told
    <3>2. CASE Log!LineRead(logSession, l, now) # logSession
      <4> DEFINE sample == [v |-> l.v, total |-> l.total, awake |-> l.awake,
                            detail |-> l.detail, obs |-> now]
      <4>1. /\ Log!LineRead(logSession, l, now) = [logSession EXCEPT !.sample = sample]
            /\ Log!Offline(logSession) /\ Log!Consistent(l)
        BY <2>3, <3>2 DEF Log!SampleRead, Log!Apply, Log!Counted
      <4>2. sample.v = logSaid /\ SampleFits(sample)
        BY <2>2, <4>1 DEF Log!Consistent, SampleFits
      <4> HIDE DEF sample
      <4> QED
        BY <4>1, <4>2 DEF told
    <3> QED
      BY <3>1, <3>2
  <2> QED
    BY <1>1, <2>2, <2>4
<1>9. CASE Log!EndedLine
  <2> DEFINE l == [kind |-> "ended"]
  <2>2. l.kind = "ended" /\ world' = [world EXCEPT !.ended = TRUE] /\ Log!Read(l)
    BY <1>9 DEF Log!EndedLine
  <2> HIDE DEF l
  <2>3. Log!LineRead(logSession, l, now) = Log!EndedRead(logSession)
    BY <2>2 DEF Log!LineRead
  <2>4. told(l)
    BY <2>2, <2>3 DEF told, Log!EndedRead, Log!ClearGameplay, Log!ClearSample,
         Log!NoValue, Log!NoSample, SampleFits
  <2> QED
    BY <1>1, <2>2, <2>4
<1> QED
  BY <1>2, <1>3, <1>4, <1>5, <1>6, <1>7, <1>8, <1>9 DEF Log!Lines
(* A map is loaded: a fresh session.                                        *)
LEMMA LoadKeeps ==
  ASSUME Log!LogAssumption, LogInv,
         NEW m \in Maps \cup {"menu"}, NEW mode \in {"standalone"} \cup Log!Online,
         Log!LoadMap(m, mode)
  PROVE  LogInv'
<1> DEFINE l == [kind |-> "load", map |-> m]
<1> USE NoNone DEF LogInv, LogTypes
<1>1. /\ world' = [id |-> world.id + 1, map |-> m, mode |-> mode,
                   told |-> mode \notin Log!Online, ended |-> FALSE]
      /\ m = "menu" => mode = "standalone"
      /\ Log!Read(l) /\ l.kind = "load" /\ l.map = m
  BY DEF Log!LoadMap, Log!Enter
<1> HIDE DEF l
<1>2. /\ logReading' # None /\ now' = now /\ UNCHANGED <<seen, window, blind>>
      /\ logSession' = Log!Loaded(m, now) /\ logSaid' = world'.id
  BY <1>1, ReadTells DEF Log!LineRead, Log!Read
<1>3. /\ DOMAIN logSession' = SessionFields /\ logSession'.rev = 0 /\ logSession'.movieObs = 0
      /\ logSession'.loadObs = IF m = "menu" THEN 0 ELSE now
      /\ logSession'.mode = None /\ logSession'.gen = None
      /\ logSession'.map = m /\ logSession'.alive.v = None /\ logSession'.wave.v = None
      /\ logSession'.sample.v = None /\ logSession'.port = None
  BY <1>2 DEF Log!Loaded, Log!NoValue, Log!NoSample, SessionFields
<1>4. LogTypes'
  BY <1>1, <1>2, <1>3
<1>5. SessionOfWorld'
  BY <1>1, <1>2, <1>3 DEF SessionOfWorld
<1>6. ValuesAreOfWorld(logSession, logSaid)' /\ SampleFits(logSession.sample)'
  BY <1>3 DEF ValuesAreOfWorld, SampleFits
<1>7. SeenInv'
  BY <1>2 DEF SeenInv
<1>8. SceneInv'
  BY <1>2, <1>3 DEF SeenInv, SceneInv, SceneChanged, Reloaded
<1> QED
  BY <1>4, <1>5, <1>6, <1>7, <1>8

(* The provider's receipt of an online world: either the session is of that *)
(* world already, or it keeps nothing that was measured before.             *)
LEMMA ReceiptKeeps ==
  ASSUME Log!LogAssumption, LogInv, Log!ReceiptLine
  PROVE  LogInv'
<1> DEFINE l == [kind |-> "receipt", mode |-> world.mode, map |-> world.map, gen |-> world.id]
<1> USE NoNone DEF LogInv, LogTypes
<1>1. /\ logSession # Log!NoSession /\ world.mode \in Log!Online /\ world.map # "menu"
      /\ world' = [world EXCEPT !.told = TRUE]
      /\ Log!Read(l) /\ l.kind = "receipt" /\ l.mode = world.mode /\ l.map = world.map
      /\ l.gen = world.id
  BY DEF Log!ReceiptLine
<1> HIDE DEF l
<1>2. /\ logReading' # None /\ now' = now /\ UNCHANGED <<seen, window, blind>>
      /\ logSession' = Log!ReceiptRead(logSession, l)
      /\ logSaid' = IF logSession'.gen # logSession.gen THEN world'.id ELSE logSaid
      /\ logSession'.gen = logSession.gen =>
            scenes' = scenes \/ logSession'.ui # logSession.ui
                            \/ logSession'.movieObs # logSession.movieObs
  BY <1>1, ReadTells DEF Log!LineRead, Log!Read
<1>3. /\ DOMAIN world' = DOMAIN world /\ world'.id = world.id /\ world'.map = world.map
      /\ world'.mode = world.mode /\ world'.told = TRUE /\ world.mode # "standalone"
  BY <1>1 DEF Log!Online
<1>4. logSession.mode \in {None, "standalone", l.mode}
  BY <1>1 DEF SessionOfWorld
<1>5. /\ DOMAIN logSession' = SessionFields
      /\ logSession'.map = world.map /\ logSession'.gen = world.id
      /\ logSession'.mode = world.mode
      /\ logSession'.rev = logSession.rev /\ logSession'.loadObs = logSession.loadObs
      /\ logSession'.movieObs = logSession.movieObs
  BY <1>1, <1>2, <1>4 DEF Log!ReceiptRead, Log!ClearGameplay, Log!ClearSample,
       SessionFields
<1>6. CASE logSession.gen = world.id
  <2>1. logSession.map = world.map /\ logSaid = world.id
    BY <1>6 DEF SessionOfWorld
  <2>2. /\ logSession'.ui = logSession.ui /\ logSession'.alive = logSession.alive
        /\ logSession'.wave = logSession.wave /\ logSession'.sample = logSession.sample
        /\ logSession'.port = logSession.port
    BY <1>1, <1>2, <1>4, <1>6, <2>1 DEF Log!ReceiptRead, SessionFields
  <2>3. logSaid' = logSaid /\ scenes' = scenes
    BY <1>2, <1>5, <1>6, <2>2
  <2>4. SessionOfWorld'
    BY <1>1, <1>3, <1>5, <2>1, <2>3 DEF SessionOfWorld, Log!Online
  <2>5. ValuesAreOfWorld(logSession, logSaid)' /\ SampleFits(logSession.sample)'
    BY <2>2, <2>3 DEF ValuesAreOfWorld, SampleFits
  <2>6. SceneInv'
    <3> SUFFICES ASSUME ~blind, seen # None, window # None
                 PROVE  /\ Reloaded(logSession', seen) \/ FurtherOn(logSession', seen)
                        /\ window = scenes \/ SceneChanged(logSession', seen)
      BY <1>2, <2>3 DEF SceneInv
    <3>1. /\ Reloaded(logSession, seen) \/ FurtherOn(logSession, seen)
          /\ window = scenes \/ SceneChanged(logSession, seen)
      BY <1>2 DEF SceneInv
    <3> QED
      BY <1>5, <1>6, <2>1, <2>2, <3>1 DEF Reloaded, FurtherOn, SceneChanged
  <2>7. LogTypes'
    BY <1>2, <1>3, <1>5
  <2>8. SeenInv'
    BY <1>2 DEF SeenInv
  <2> QED
    BY <2>4, <2>5, <2>6, <2>7, <2>8
<1>7. CASE logSession.gen # world.id
  <2>1. /\ logSession'.alive.v = None /\ logSession'.wave.v = None
        /\ logSession'.sample.v = None /\ logSession'.port = None
        /\ logSession'.ui = Log!NoUi
    BY <1>1, <1>2, <1>4, <1>7 DEF Log!ReceiptRead, Log!ClearGameplay, Log!ClearSample,
            Log!NoValue, Log!NoSample, SessionFields
  <2>3. logSaid' = world.id
    BY <1>2, <1>3, <1>5, <1>7
  <2>4. SessionOfWorld'
    BY <1>1, <1>3, <1>5, <2>3 DEF SessionOfWorld, Log!Online
  <2>5. ValuesAreOfWorld(logSession, logSaid)' /\ SampleFits(logSession.sample)'
    BY <2>1 DEF ValuesAreOfWorld, SampleFits
  <2>6. SceneInv'
    <3> SUFFICES ASSUME ~blind, seen # None, window # None
                 PROVE  /\ Reloaded(logSession', seen) \/ FurtherOn(logSession', seen)
                        /\ SceneChanged(logSession', seen)
      BY <1>2 DEF SceneInv
    <3>1. Reloaded(logSession, seen) \/ FurtherOn(logSession, seen)
      BY <1>2 DEF SceneInv
    <3>2. logSession.map # "menu"
      BY <1>3 DEF SessionOfWorld
    <3>3. FurtherOn(logSession, seen) => FurtherOn(logSession', seen)
      BY <1>5 DEF FurtherOn, SessionOfWorld, SeenInv
    <3> QED
      BY <1>5, <2>1, <3>1, <3>2, <3>3 DEF Reloaded, SceneChanged
  <2>7. LogTypes'
    BY <1>2, <1>3, <1>5
  <2>8. SeenInv'
    BY <1>2 DEF SeenInv
  <2> QED
    BY <2>4, <2>5, <2>6, <2>7, <2>8
<1> QED
  BY <1>6, <1>7

LEMMA TravelKeeps ==
  ASSUME Log!LogAssumption, LogInv, NEW m \in Maps, Log!Travel(m)
  PROVE  LogInv'
<1> USE NoNone DEF LogInv, LogTypes
<1>1. /\ world' = [id |-> world.id + 1, map |-> m, mode |-> world.mode, told |-> FALSE,
                   ended |-> FALSE]
      /\ world.mode # "standalone"
      /\ UNCHANGED <<now, logReading, logSession, logSaid, scenes, blind, seen, window>>
  BY DEF Log!Travel, Log!Enter, Log!parser, Log!stats, Log!Online
<1>2. SessionOfWorld'
  BY <1>1 DEF SessionOfWorld
<1>3. ValuesAreOfWorld(logSession, logSaid)' /\ SampleFits(logSession.sample)'
  BY <1>1 DEF ValuesAreOfWorld, SampleFits
<1>4. SeenInv' /\ SceneInv'
  BY <1>1 DEF SeenInv, SceneInv
<1> QED
  BY <1>1, <1>2, <1>3, <1>4

LEMMA EndChunkKeeps ==
  ASSUME Log!LogAssumption, LogInv, Log!EndChunk
  PROVE  LogInv'
<1> USE NoNone DEF LogInv, LogTypes
<1>1. /\ logReading # None /\ logReading' = None /\ now' = now + 1
      /\ UNCHANGED <<world, logSaid, scenes, seen, window>>
  BY DEF Log!EndChunk, Log!game, Log!stats
<1>2. \/ logSession' = logSession /\ (blind' <=> blind)
      \/ /\ logSession' = Log!WithoutMeasurements(logSession)
         /\ (blind' <=> blind \/ logSession.loadObs + logSession.movieObs > 0)
  <2>1. CASE logReading = "history"
    BY <2>1 DEF Log!EndChunk
  <2>2. CASE logReading # "history"
    BY <2>2 DEF Log!EndChunk
  <2> QED
    BY <2>1, <2>2
<1>3. /\ DOMAIN logSession' = SessionFields
      /\ logSession'.map = logSession.map /\ logSession'.mode = logSession.mode
      /\ logSession'.gen = logSession.gen /\ logSession'.rev = logSession.rev
      /\ logSession'.ui = logSession.ui /\ logSession'.port = logSession.port
      /\ logSession'.loadObs \in {0, logSession.loadObs}
      /\ logSession'.movieObs \in {0, logSession.movieObs}
      /\ ~blind' => logSession'.loadObs = logSession.loadObs
                    /\ logSession'.movieObs = logSession.movieObs /\ ~blind
  <2>1. CASE logSession' = logSession /\ (blind' <=> blind)
    BY <2>1
  <2>2. CASE /\ logSession' = Log!WithoutMeasurements(logSession)
             /\ (blind' <=> blind \/ logSession.loadObs + logSession.movieObs > 0)
    <3>1. /\ DOMAIN logSession' = SessionFields
          /\ logSession'.map = logSession.map /\ logSession'.mode = logSession.mode
          /\ logSession'.gen = logSession.gen /\ logSession'.rev = logSession.rev
          /\ logSession'.ui = logSession.ui /\ logSession'.port = logSession.port
          /\ logSession'.loadObs = 0 /\ logSession'.movieObs = 0
      BY <2>2 DEF Log!WithoutMeasurements, Log!ClearSample, SessionFields
    <3> QED
      BY <2>2, <3>1
  <2> QED
    BY <1>2, <2>1, <2>2
<1>4. ValuesAreOfWorld(logSession', logSaid) /\ SampleFits(logSession'.sample)
  <2>1. \/ logSession' = logSession
        \/ /\ logSession'.alive = Log!NoValue /\ logSession'.wave = Log!NoValue
           /\ logSession'.sample = Log!NoSample /\ logSession'.port = logSession.port
    BY <1>2 DEF Log!WithoutMeasurements, Log!ClearSample, SessionFields
  <2> QED
    BY <2>1 DEF Log!NoValue, Log!NoSample, ValuesAreOfWorld, SampleFits
<1>5. SessionOfWorld'
  BY <1>1, <1>3 DEF SessionOfWorld
<1>6. SeenInv'
  BY <1>1 DEF SeenInv
<1>7. SceneInv'
  BY <1>1, <1>3 DEF SceneInv, Reloaded, FurtherOn, SceneChanged
<1>8. LogTypes'
  BY <1>1, <1>3
<1> QED
  BY <1>1, <1>4, <1>5, <1>6, <1>7, <1>8

LEMMA ExpireKeeps ==
  ASSUME Log!LogAssumption, LogInv, Log!Expire
  PROVE  LogInv'
<1> USE NoNone DEF LogInv, LogTypes
<1>1. UNCHANGED <<world, now, logReading, logSaid, scenes, blind, seen, window>>
  BY DEF Log!Expire, Log!game, Log!stats
<1>2. /\ DOMAIN logSession' = SessionFields
      /\ logSession'.map = logSession.map /\ logSession'.mode = logSession.mode
      /\ logSession'.gen = logSession.gen /\ logSession'.rev = logSession.rev
      /\ logSession'.ui = logSession.ui /\ logSession'.port = logSession.port
      /\ logSession'.loadObs = logSession.loadObs /\ logSession'.movieObs = logSession.movieObs
      /\ logSession'.alive \in {Log!NoValue, logSession.alive}
      /\ logSession'.wave \in {Log!NoValue, logSession.wave}
      /\ logSession'.sample \in {Log!NoSample, logSession.sample}
  BY DEF Log!Expire, SessionFields
<1>3. ValuesAreOfWorld(logSession', logSaid) /\ SampleFits(logSession'.sample)
  BY <1>2 DEF Log!NoValue, Log!NoSample, ValuesAreOfWorld, SampleFits
<1>4. SessionOfWorld'
  BY <1>1, <1>2 DEF SessionOfWorld
<1>5. SeenInv' /\ SceneInv'
  BY <1>1, <1>2 DEF SeenInv, SceneInv, Reloaded, FurtherOn, SceneChanged
<1> QED
  BY <1>1, <1>2, <1>3, <1>4, <1>5

LEMMA DrainKeeps ==
  ASSUME Log!LogAssumption, LogInv, Log!Drain
  PROVE  LogInv'
<1> USE NoNone DEF LogInv, LogTypes
<1>1. /\ logReading = None /\ seen' = Log!Seen
      /\ window' = IF ~Log!Active(logSession) THEN None
                   ELSE IF seen = None THEN scenes
                   ELSE IF Log!Moved(seen, Log!Seen) THEN scenes ELSE window
      /\ blind' = (blind /\ window' = window)
      /\ UNCHANGED <<world, now, logReading, logSession, logSaid, scenes>>
  BY DEF Log!Drain, Log!game, Log!parser
<1>2. CASE logSession = Log!NoSession
  <2>1. seen' = None
    BY <1>1, <1>2 DEF Log!Seen
  <2> QED
    BY <1>1, <2>1 DEF SeenInv, SceneInv, SessionOfWorld
<1>3. CASE logSession # Log!NoSession
  <2> DEFINE c == [active |-> Log!Active(logSession), map |-> logSession.map,
                   gen |-> logSession.gen, rev |-> logSession.rev,
                   load |-> logSession.loadObs, movie |-> logSession.movieObs]
  <2>1. seen' = c /\ Log!Seen = c
    BY <1>1, <1>3 DEF Log!Seen
  <2>2. /\ DOMAIN c = {"active", "map", "gen", "rev", "load", "movie"}
        /\ c.active = Log!Active(logSession) /\ c.map = logSession.map
        /\ c.gen = logSession.gen /\ c.rev = logSession.rev
        /\ c.load = logSession.loadObs /\ c.movie = logSession.movieObs
    OBVIOUS
  <2> HIDE DEF c
  <2>3. Log!Active(logSession) => logSession.map # "menu" /\ logSession.ui # Log!NoUi
    BY DEF Log!Active, Log!InGame, Log!NoUi
  <2>4. SeenInv'
    BY <1>1, <2>1, <2>2, <2>3 DEF SeenInv, SessionOfWorld
  <2>5. Reloaded(logSession, c) \/ FurtherOn(logSession, c)
    BY <2>2 DEF FurtherOn, SessionOfWorld
  <2>6. ASSUME ~blind', window' # None PROVE window' = scenes
    <3>1. Log!Active(logSession)
      BY <1>1, <2>6
    <3>2. CASE seen = None \/ Log!Moved(seen, c)
      BY <1>1, <2>1, <3>1, <3>2
    <3>3. CASE seen # None /\ ~Log!Moved(seen, c)
      <4>1. window' = window /\ ~blind
        BY <1>1, <2>1, <2>6, <3>1, <3>3
      <4>2. ~SceneChanged(logSession, seen)
        BY <2>2, <2>3, <3>1, <3>3 DEF Log!Moved, SceneChanged, Reloaded, SeenInv,
             SessionOfWorld
      <4> QED
        BY <2>6, <3>3, <4>1, <4>2 DEF SceneInv
    <3> QED
      BY <3>2, <3>3
  <2>7. SceneInv'
    BY <1>1, <2>1, <2>5, <2>6 DEF SceneInv
  <2>8. SessionOfWorld'
    BY <1>1 DEF SessionOfWorld
  <2> QED
    BY <1>1, <2>4, <2>7, <2>8
<1> QED
  BY <1>2, <1>3

LEMMA LogStep ==
  ASSUME Log!LogAssumption, LogInv, [Log!Next]_ofLog
  PROVE  LogInv'
<1>1. CASE UNCHANGED ofLog
  BY <1>1 DEF ofLog, LogInv, LogTypes, SessionOfWorld, SeenInv, SceneInv
<1>2. CASE Log!Lines
  BY <1>2, LinesTell, ReceiptKeeps
<1> QED
  BY <1>1, <1>2, LoadKeeps, TravelKeeps, EndChunkKeeps, ExpireKeeps, DrainKeeps DEF
       Log!Next

LEMMA LogIsOneWorld == Log!LogAssumption /\ LogInv => Log!SessionIsOneWorld
<1> SUFFICES ASSUME Log!LogAssumption, LogInv PROVE Log!SessionIsOneWorld
  OBVIOUS
<1>1. Log!NothingOfAnEarlierWorld
  BY DEF LogInv, ValuesAreOfWorld, Log!NothingOfAnEarlierWorld
<1>2. Log!SampleIsOneLine
  BY DEF LogInv, SampleFits, Log!SampleIsOneLine
<1>3. Log!StatisticsAreOfOneScene
  <2> SUFFICES ASSUME ~blind, seen # None, seen = Log!Seen, window # None
               PROVE  window = scenes
    BY DEF Log!StatisticsAreOfOneScene
  <2>1. /\ seen.active = Log!Active(logSession) /\ seen.map = logSession.map
        /\ seen.gen = logSession.gen /\ seen.rev = logSession.rev
        /\ seen.load = logSession.loadObs /\ seen.movie = logSession.movieObs
    BY DEF Log!Seen
  <2>2. seen.active /\ seen.map # "menu"
    BY DEF LogInv, SeenInv
  <2>3. logSession.ui # Log!NoUi
    <3>1. Log!Active(logSession)
      BY <2>1, <2>2, Zenon
    <3>2. Log!Active(logSession) => logSession.ui # Log!NoUi
      BY NoNone DEF Log!Active, Log!NoUi
    <3> QED
      BY <3>1, <3>2
  <2> QED
    BY <2>1, <2>2, <2>3 DEF LogInv, LogTypes, SeenInv, SceneInv, SceneChanged, Reloaded
<1> QED
  BY <1>1, <1>2, <1>3 DEF Log!SessionIsOneWorld

(***************************************************************************)
(* Frame timing.                                                            *)
(***************************************************************************)

Starts == [kind : {"start"}, id : Nat, chain : Chains, test : BOOLEAN]
Stops == [kind : {"stop"}, id : Nat, failed : BOOLEAN]

CaptureTypes ==
    /\ calls \in Nat /\ observed \in Nat /\ lost \in Nat /\ observed <= lost
    /\ call # None => call.id \in Nat /\ call.id <= calls /\ call.test \in BOOLEAN
    /\ DOMAIN reader = {"pending", "invalidated", "reported", "owed"}
    /\ reader.reported \in Nat /\ reader.invalidated \in Nat /\ reader.owed \in Nat
    /\ reader.reported <= reader.invalidated /\ reader.invalidated <= observed
    /\ read \subseteq Starts
    /\ reader.pending # None => reader.pending \in read
    /\ trace \in Seq(Starts \cup Stops)
    /\ DOMAIN source = {"streams", "since", "lossy", "lossAt", "last"}
    /\ source.lossAt \in 0..calls
    /\ \A c \in DOMAIN source.streams : source.streams[c] \subseteq 0..calls

(* Events are read in the order of the calls, and calls are admitted in it. *)
ReadInOrder ==
    /\ \A e \in read :
          /\ e.id <= calls
          /\ reader.pending # None => e.id <= reader.pending.id
          /\ \A f \in read : e.id = f.id => e = f
    /\ reader.pending # None =>
          \A c \in DOMAIN source.streams : \A at \in source.streams[c] : at < reader.pending.id

(* An event is later than all that was read before it.                      *)
Later(id) ==
    /\ \A e \in read : e.id < id
    /\ \A c \in DOMAIN source.streams : \A at \in source.streams[c] : at < id

TraceInOrder ==
    \A i \in 1..Len(trace) :
        /\ trace[i].kind = "stop" /\ trace[i].failed => trace[i].id \in bad
        /\ trace[i].kind = "start" =>
              /\ trace[i].id <= calls /\ Later(trace[i].id)
              /\ \A j \in 1..Len(trace) :
                    i < j /\ trace[j].kind = "start" => trace[i].id < trace[j].id

(* A loss that will be recorded before the next call is admitted.           *)
Owing == Capture!OwesLoss(reader) \/ observed # reader.invalidated

(* Why no certified window can miss the call e: it is there, it is behind   *)
(* the last loss, or it lies outside of all that its stream holds.          *)
Covered(e) ==
    \/ e.id \in bad
    \/ reader.pending # None /\ reader.pending.id = e.id
    \/ e.chain \in DOMAIN source.streams /\ e.id \in source.streams[e.chain]
    \/ source.lossy /\ e.id <= source.lossAt
    \/ Owing /\ \A c \in DOMAIN source.streams : \A at \in source.streams[c] : at < e.id
    \/ e.chain \in DOMAIN source.streams => \A at \in source.streams[e.chain] : at > e.id

CaptureInv ==
    CaptureTypes /\ ReadInOrder /\ TraceInOrder /\ (~mixed => \A e \in read : Covered(e))

LEMMA NoneIsNoStart == Capture!PresentAssumption => None \notin Starts
BY DEF Capture!PresentAssumption, Starts

LEMMA CaptureCertified == CaptureInv => Capture!CertifiedMissesNothing
<1> SUFFICES ASSUME CaptureInv, ~mixed, NEW c \in Chains, NEW begin \in 1..calls,
                    NEW end \in 1..calls, Capture!Certified(c, begin, end),
                    NEW e \in read, e.chain = c, e.id \in begin..end, e.id \notin bad
             PROVE  e.id \in source.streams[c]
  BY DEF Capture!CertifiedMissesNothing
<1>1. /\ c \in DOMAIN source.streams /\ begin \in source.streams[c] /\ end \in source.streams[c]
      /\ source.lossy => begin > source.lossAt
  BY DEF Capture!Certified
<1>2. begin <= e.id /\ e.id <= end /\ e.id \in Nat /\ source.lossAt \in Nat
  BY DEF CaptureInv, CaptureTypes, Starts
<1>3. Covered(e)
  BY DEF CaptureInv
<1>4. CASE reader.pending # None /\ reader.pending.id = e.id
  BY <1>1, <1>2, <1>4 DEF CaptureInv, CaptureTypes, ReadInOrder
<1> QED
  BY <1>1, <1>2, <1>3, <1>4 DEF Covered

LEMMA CaptureStarts == Capture!Init => CaptureInv
<1> SUFFICES ASSUME Capture!Init PROVE CaptureInv
  OBVIOUS
<1>1. trace \in Seq(Starts \cup Stops) /\ Len(trace) = 0
  BY EmptySeq DEF Capture!Init
<1>2. /\ DOMAIN source = {"streams", "since", "lossy", "lossAt", "last"}
      /\ source.lossAt = 0 /\ DOMAIN source.streams = {}
  BY DEF Capture!Init, Capture!NewSource, Capture!NewStreams
<1>3. /\ DOMAIN reader = {"pending", "invalidated", "reported", "owed"}
      /\ reader.pending = None /\ reader.invalidated = 0 /\ reader.reported = 0
      /\ reader.owed = 0
  BY DEF Capture!Init, Capture!NewReader
<1>4. CaptureTypes
  BY <1>1, <1>2, <1>3 DEF Capture!Init, CaptureTypes
<1> QED
  BY <1>1, <1>2, <1>3, <1>4 DEF Capture!Init, CaptureInv, ReadInOrder, TraceInOrder

(***************************************************************************)
(* The greatest of bounded numbers, and the least.                          *)
(***************************************************************************)

LEMMA LeastExists ==
  ASSUME NEW S \in SUBSET Nat, S # {}
  PROVE  \E m \in S : \A y \in S : m <= y
<1> DEFINE R == {ss \in Nat \X Nat : ss[1] < ss[2]}
<1>1. IsWellFoundedOn(R, Nat)
  <2>1. OpToRel(<, Nat) = R
    BY DEF OpToRel
  <2> QED
    BY <2>1, NatLessThanWellFounded
<1>2. PICK m \in S : \A y \in S : ~ (<<y, m>> \in R)
  BY <1>1, WFMin
<1>3. ASSUME NEW y \in S PROVE m <= y
  <2>1. <<y, m>> \notin R /\ <<y, m>> \in Nat \X Nat
    BY <1>2, <1>3
  <2>2. ~(<<y, m>>[1] < <<y, m>>[2])
    BY <2>1
  <2> QED
    BY <2>2, <1>3
<1> QED
  BY <1>3

LEMMA LeastOf ==
  ASSUME NEW S \in SUBSET Nat, S # {}
  PROVE  Capture!Min(S) \in S /\ \A x \in S : Capture!Min(S) <= x
BY LeastExists DEF Capture!Min

LEMMA GreatestOf ==
  ASSUME NEW n \in Nat, NEW S, S \subseteq 0..n, S # {}
  PROVE  Capture!Max(S) \in S /\ \A x \in S : Capture!Max(S) >= x
<1> DEFINE D == {k \in 0..n : n - k \in S}
<1>1. D \in SUBSET Nat /\ D # {}
  <2>1. PICK x \in S : TRUE
    OBVIOUS
  <2>2. x \in 0..n
    BY <2>1
  <2>3. n - x \in 0..n /\ n - (n - x) = x
    BY <2>2
  <2>4. n - x \in D
    BY <2>1, <2>3
  <2>5. D \subseteq Nat
    OBVIOUS
  <2> HIDE DEF D
  <2> QED
    BY <2>4, <2>5
<1>2. PICK k \in D : \A j \in D : k <= j
  <2> HIDE DEF D
  <2> QED
    BY <1>1, LeastExists
<1>3. \A x \in S : n - k >= x
  <2> TAKE x \in S
  <2>1. x \in 0..n
    OBVIOUS
  <2>2. n - x \in 0..n /\ n - (n - x) = x
    BY <2>1
  <2>3. n - x \in D
    BY <2>2
  <2>4. k <= n - x /\ k \in 0..n
    BY <1>2, <2>3
  <2> QED
    BY <2>1, <2>4
<1>4. n - k \in S
  BY <1>2
<1> QED
  BY <1>3, <1>4 DEF Capture!Max

(***************************************************************************)
(* The source.                                                              *)
(***************************************************************************)

SourceFields == {"streams", "since", "lossy", "lossAt", "last"}
SourceOk(s, n) ==
    /\ DOMAIN s = SourceFields /\ s.lossAt \in 0..n
    /\ \A c \in DOMAIN s.streams : s.streams[c] \subseteq 0..n

LEMMA LossIsRecorded ==
  ASSUME NEW n \in Nat, NEW s, SourceOk(s, n), NEW at \in 0..n
  PROVE  LET t == Capture!LossRecorded(s, at) IN
         /\ SourceOk(t, n) /\ t.streams = s.streams
         /\ t.lossy /\ at <= t.lossAt /\ s.lossAt <= t.lossAt
<1> DEFINE S == {s.lossAt, at} \cup {Capture!Newest(s, c) : c \in DOMAIN s.streams}
           t == [s EXCEPT !.lossy = TRUE, !.lossAt = Capture!Max(S)]
<1>1. S \subseteq 0..n /\ S # {}
  <2>1. ASSUME NEW c \in DOMAIN s.streams PROVE Capture!Newest(s, c) \in 0..n
    <3>1. s.streams[c] \cup {0} \subseteq 0..n /\ s.streams[c] \cup {0} # {}
      BY DEF SourceOk
    <3> QED
      BY <3>1, GreatestOf DEF Capture!Newest
  <2> QED
    BY <2>1 DEF SourceOk
<1>2. Capture!Max(S) \in S /\ Capture!Max(S) >= at /\ Capture!Max(S) >= s.lossAt
  <2>1. at \in S /\ s.lossAt \in S
    OBVIOUS
  <2> HIDE DEF S
  <2> QED
    BY <1>1, <2>1, GreatestOf
<1>3. Capture!Max(S) \in 0..n
  BY <1>1, <1>2
<1>4. Capture!LossRecorded(s, at) = t
  BY DEF Capture!LossRecorded
<1> HIDE DEF S
<1>5. /\ DOMAIN t = SourceFields /\ t.lossAt = Capture!Max(S) /\ t.streams = s.streams /\ t.lossy
  BY DEF SourceOk, SourceFields
<1> HIDE DEF t
<1> QED
  BY <1>2, <1>3, <1>4, <1>5 DEF SourceOk

LEMMA CaptureCardinality == \A S : Capture!Cardinality(S) = Cardinality(S)
BY DEF Capture!Cardinality, Cardinality

LEMMA CallIsIngested ==
  ASSUME Capture!PresentAssumption, NEW n \in Nat, NEW s, SourceOk(s, n), NEW c, NEW at \in 0..n,
         \A d \in DOMAIN s.streams : \A x \in s.streams[d] : x < at
  PROVE  LET t == Capture!Ingested(s, c, at) IN
         /\ SourceOk(t, n) /\ t.lossy = s.lossy /\ t.lossAt = s.lossAt
         /\ c \in DOMAIN t.streams /\ at \in t.streams[c]
         /\ \A d \in DOMAIN t.streams :
               /\ d # c => d \in DOMAIN s.streams /\ t.streams[d] = s.streams[d]
               /\ \A x \in t.streams[d] : x <= at
         /\ \A x \in t.streams[c] : x # at => c \in DOMAIN s.streams /\ x \in s.streams[c]
         /\ c \in DOMAIN s.streams =>
               \A x \in s.streams[c] \ t.streams[c] : \A y \in t.streams[c] : y > x
<1> DEFINE w == Capture!WithStream(s, c, at)
           all == w.streams[c] \cup {at}
           kept == IF Cardinality(all) <= Capacity THEN all ELSE all \ {Capture!Min(all)}
           t == [w EXCEPT !.last = c, !.streams[c] = kept]
<1>1. /\ DOMAIN w = SourceFields /\ w.lossy = s.lossy /\ w.lossAt = s.lossAt
      /\ c \in DOMAIN w.streams
      /\ IF c \in DOMAIN s.streams THEN w.streams[c] = s.streams[c] ELSE w.streams[c] = {}
      /\ \A d \in DOMAIN w.streams : d # c => d \in DOMAIN s.streams /\ w.streams[d] = s.streams[d]
  <2>1. CASE c \in DOMAIN s.streams
    BY <2>1 DEF Capture!WithStream, SourceOk
  <2>2. CASE c \notin DOMAIN s.streams
    <3>1. PICK gone, since :
             w = [s EXCEPT !.streams = [d \in (DOMAIN s.streams \ gone) \cup {c} |->
                                           IF d = c THEN {} ELSE s.streams[d]],
                           !.since = since]
      BY <2>2 DEF Capture!WithStream
    <3> HIDE DEF w
    <3> QED
      BY <2>2, <3>1 DEF SourceOk, SourceFields
  <2> QED
    BY <2>1, <2>2
<1>2. Capture!Ingested(s, c, at) = t
  BY CaptureCardinality DEF Capture!Ingested
<1> HIDE DEF w
<1>3. all \subseteq 0..n /\ at \in all /\ (\A x \in all \ {at} : x < at)
      /\ \A x \in all : x <= at
  BY <1>1 DEF SourceOk
<1>4. /\ kept \subseteq all /\ at \in kept
      /\ \A x \in all \ kept : \A y \in kept : y > x
  <2>1. CASE Cardinality(all) <= Capacity
    BY <1>3, <2>1
  <2>2. CASE ~(Cardinality(all) <= Capacity)
    <3> DEFINE m == Capture!Min(all)
    <3>1. all \in SUBSET Nat /\ all # {}
      BY <1>3
    <3>2. m \in all /\ \A x \in all : m <= x
      <4> HIDE DEF all
      <4> QED
        BY <3>1, LeastOf
    <3>3. m # at
      <4> SUFFICES ASSUME m = at PROVE FALSE
        OBVIOUS
      <4>1. \A x \in all : x = at
        BY <1>3, <3>1, <3>2
      <4>2. all = {at}
        BY <1>3, <4>1
      <4>3. Cardinality(all) = 1
        BY <4>2, FS_Singleton
      <4> QED
        BY <2>2, <4>3 DEF Capture!PresentAssumption
    <3>4. kept = all \ {m}
      BY <2>2
    <3> HIDE DEF m, kept, all
    <3> QED
      BY <1>3, <3>1, <3>2, <3>3, <3>4
  <2> QED
    BY <2>1, <2>2
<1>5. /\ DOMAIN t = SourceFields /\ t.lossy = w.lossy /\ t.lossAt = w.lossAt
      /\ DOMAIN t.streams = DOMAIN w.streams /\ t.streams[c] = kept
      /\ \A d \in DOMAIN w.streams : d # c => t.streams[d] = w.streams[d]
  <2> HIDE DEF kept
  <2> QED
    BY <1>1 DEF SourceFields
<1> HIDE DEF t, kept
<1>6. \A d \in DOMAIN t.streams : t.streams[d] \subseteq 0..n /\ \A x \in t.streams[d] : x <= at
  <2> TAKE d \in DOMAIN t.streams
  <2>1. CASE d = c
    <3>1. t.streams[d] \subseteq all
      BY <1>4, <1>5, <2>1
    <3> HIDE DEF all
    <3> QED
      BY <1>3, <3>1
  <2>2. CASE d # c
    BY <1>1, <1>5, <2>2 DEF SourceOk
  <2> QED
    BY <2>1, <2>2
<1>7. SourceOk(t, n)
  BY <1>1, <1>5, <1>6 DEF SourceOk
<1>8. \A x \in t.streams[c] : x # at => c \in DOMAIN s.streams /\ x \in s.streams[c]
  BY <1>1, <1>4, <1>5
<1>9. c \in DOMAIN s.streams =>
         \A x \in s.streams[c] \ t.streams[c] : \A y \in t.streams[c] : y > x
  BY <1>1, <1>4, <1>5
<1> QED
  BY <1>1, <1>2, <1>4, <1>5, <1>6, <1>7, <1>8, <1>9
(***************************************************************************)
(* The trace thread.                                                        *)
(***************************************************************************)

LEMMA TidiedOwes ==
  ASSUME CaptureTypes, NEW at
  PROVE  LET r == Capture!Tidied(at) IN
         /\ DOMAIN r = {"pending", "invalidated", "reported", "owed"}
         /\ r.reported = reader.reported /\ r.invalidated = observed /\ r.owed \in Nat
         /\ r.pending \in {reader.pending, None}
         /\ r.pending = None /\ reader.pending # None => Capture!OwesLoss(r)
         /\ Owing => Capture!OwesLoss(r)
<1> DEFINE r == Capture!Cleared(reader)
           t == Capture!Tidied(at)
<1>1. /\ DOMAIN r = {"pending", "invalidated", "reported", "owed"}
      /\ r.reported = reader.reported /\ r.invalidated = observed /\ r.owed \in Nat
      /\ r.pending \in {reader.pending, None}
      /\ r.pending = None /\ reader.pending # None => Capture!OwesLoss(r)
      /\ Owing => Capture!OwesLoss(r)
  <2>1. CASE observed # reader.invalidated
    BY <2>1 DEF Capture!Cleared, Capture!OwesLoss, CaptureTypes
  <2>2. CASE observed = reader.invalidated
    BY <2>2 DEF Capture!Cleared, Capture!OwesLoss, CaptureTypes, Owing
  <2> QED
    BY <2>1, <2>2
<1>2. t = r \/ t = [r EXCEPT !.pending = None, !.owed = @ + 1]
  BY DEF Capture!Tidied, Capture!GivenUp
<1> HIDE DEF r, t
<1>3. /\ DOMAIN t = {"pending", "invalidated", "reported", "owed"}
      /\ t.reported = reader.reported /\ t.invalidated = observed /\ t.owed \in Nat
      /\ t.pending \in {reader.pending, None}
      /\ t.pending = None /\ reader.pending # None => Capture!OwesLoss(t)
      /\ Owing => Capture!OwesLoss(t)
  <2>1. CASE t = r
    BY <1>1, <2>1
  <2>2. CASE t = [r EXCEPT !.pending = None, !.owed = @ + 1]
    <3>1. /\ DOMAIN t = {"pending", "invalidated", "reported", "owed"}
          /\ t.reported = r.reported /\ t.invalidated = r.invalidated /\ t.owed = r.owed + 1
          /\ t.pending = None
      BY <1>1, <2>2
    <3>2. t.owed # 0 /\ t.owed \in Nat
      BY <1>1, <3>1
    <3> QED
      BY <1>1, <3>1, <3>2 DEF Capture!OwesLoss
  <2> QED
    BY <1>2, <2>1, <2>2
<1> QED
  BY <1>3 DEF t

(* A call stays covered when the reader gives its Start up: it owes a loss, *)
(* or the call has failed.                                                  *)
LEMMA StaysCovered ==
  ASSUME CaptureTypes, ReadInOrder, source' = source, bad \subseteq bad', Owing => Owing',
         reader.pending # None =>
            reader'.pending = reader.pending \/ Owing' \/ reader.pending.id \in bad',
         NEW e \in read, Covered(e)
  PROVE  Covered(e)'
BY DEF ReadInOrder, Covered

(* What happens besides the trace thread.                                   *)
LEMMA TraceGrows ==
  ASSUME CaptureTypes, TraceInOrder, NEW ev \in Starts \cup Stops, trace' = Append(trace, ev),
         calls' \in Nat, calls <= calls', bad \subseteq bad', UNCHANGED <<read, source>>,
         ev.kind = "stop" /\ ev.failed => ev.id \in bad',
         ev.kind = "start" => /\ ev.id <= calls' /\ Later(ev.id)
                              /\ \A i \in 1..Len(trace) :
                                    trace[i].kind = "start" => trace[i].id < ev.id
  PROVE  TraceInOrder' /\ trace' \in Seq(Starts \cup Stops)
<1>1. /\ Append(trace, ev) \in Seq(Starts \cup Stops) /\ Len(trace) \in Nat
      /\ Len(Append(trace, ev)) = Len(trace) + 1
      /\ \A i \in 1..Len(trace) : Append(trace, ev)[i] = trace[i]
      /\ Append(trace, ev)[Len(trace) + 1] = ev
  BY AppendProperties, LenProperties DEF CaptureTypes
<1>2. \A i \in 1..Len(trace') : \/ i \in 1..Len(trace) /\ trace'[i] = trace[i]
                                \/ i = Len(trace) + 1 /\ trace'[i] = ev
  BY <1>1
<1>3. \A i \in 1..Len(trace) : trace[i].id \in Nat /\ trace[i] \in Starts \cup Stops
  BY ElementOfSeq DEF CaptureTypes, Starts, Stops
<1>4. ev.id \in Nat
  BY DEF Starts, Stops
<1>5. TraceInOrder'
  <2> SUFFICES ASSUME NEW i \in 1..Len(trace')
               PROVE  /\ (trace'[i].kind = "stop" /\ trace'[i].failed) => trace'[i].id \in bad'
                      /\ (trace'[i].kind = "start") =>
                            /\ trace'[i].id <= calls' /\ Later(trace'[i].id)
                            /\ \A j \in 1..Len(trace') :
                                  (i < j /\ trace'[j].kind = "start") => trace'[i].id < trace'[j].id
    BY DEF TraceInOrder, Later
  <2>1. CASE i \in 1..Len(trace) /\ trace'[i] = trace[i]
    <3>1. (trace[i].kind = "stop" /\ trace[i].failed) => trace[i].id \in bad'
      BY <2>1 DEF TraceInOrder
    <3>2. ASSUME trace[i].kind = "start"
          PROVE  trace[i].id <= calls' /\ Later(trace[i].id)
      BY <1>3, <2>1, <3>2 DEF TraceInOrder, CaptureTypes
    <3>3. ASSUME trace[i].kind = "start", NEW j \in 1..Len(trace'), i < j,
                 trace'[j].kind = "start"
          PROVE  trace[i].id < trace'[j].id
      <4>1. CASE j \in 1..Len(trace) /\ trace'[j] = trace[j]
        BY <2>1, <3>3, <4>1 DEF TraceInOrder
      <4>2. CASE trace'[j] = ev
        BY <2>1, <3>3, <4>2
      <4> QED
        BY <1>2, <4>1, <4>2
    <3> QED
      BY <2>1, <3>1, <3>2, <3>3
  <2>2. CASE i = Len(trace) + 1 /\ trace'[i] = ev
    <3>1. \A j \in 1..Len(trace') : ~ (i < j)
      BY <1>1, <2>2
    <3> QED
      BY <2>2, <3>1
  <2> QED
    BY <1>2, <2>1, <2>2
<1> QED
  BY <1>1, <1>5
LEMMA TraceStays ==
  ASSUME TraceInOrder, CaptureTypes, UNCHANGED <<trace, read, source>>, calls' \in Nat,
         calls <= calls', bad \subseteq bad'
  PROVE  TraceInOrder'
<1>1. \A i \in 1..Len(trace) : trace[i].id \in Nat
  BY ElementOfSeq DEF CaptureTypes, Starts, Stops
<1> QED
  BY <1>1 DEF TraceInOrder, Later, CaptureTypes

(* What happens besides the trace thread changes nothing that is covered.   *)
LEMMA EnvironmentStep ==
  ASSUME CaptureInv, UNCHANGED <<read, source, reader, mixed>>, calls' \in Nat, calls <= calls',
         bad \subseteq bad', observed' \in Nat, lost' \in Nat,
         observed <= observed', observed' <= lost',
         call' # None => call'.id \in Nat /\ call'.id <= calls' /\ call'.test \in BOOLEAN,
         TraceInOrder', trace' \in Seq(Starts \cup Stops)
  PROVE  CaptureInv'
<1>1. CaptureTypes'
  BY DEF CaptureInv, CaptureTypes
<1>2. ReadInOrder'
  BY DEF CaptureInv, CaptureTypes, ReadInOrder, Starts
<1>3. Owing => Owing'
  BY DEF CaptureInv, CaptureTypes, Owing, Capture!OwesLoss
<1>4. ASSUME ~mixed', NEW e \in read' PROVE Covered(e)'
  <2>1. Covered(e)
    BY <1>4 DEF CaptureInv
  <2> QED
    BY <1>3, <1>4, <2>1, StaysCovered DEF CaptureInv
<1> QED
  BY <1>1, <1>2, <1>4 DEF CaptureInv

LEMMA EventTraced ==
  ASSUME CaptureTypes, TraceInOrder, NEW ev \in Starts \cup Stops, Capture!Traced(ev),
         calls' \in Nat, calls <= calls', bad \subseteq bad', UNCHANGED <<read, source>>,
         ev.kind = "stop" /\ ev.failed => ev.id \in bad',
         ev.kind = "start" => /\ ev.id <= calls' /\ Later(ev.id)
                              /\ \A i \in 1..Len(trace) :
                                    trace[i].kind = "start" => trace[i].id < ev.id
  PROVE  TraceInOrder' /\ trace' \in Seq(Starts \cup Stops) /\ lost' \in Nat /\ lost <= lost'
<1>1. CASE trace' = Append(trace, ev) /\ lost' = lost
  BY <1>1, TraceGrows DEF CaptureTypes
<1>2. CASE trace' = trace /\ lost' \in {lost, lost + 1}
  BY <1>2, TraceStays DEF CaptureTypes
<1> QED
  BY <1>1, <1>2 DEF Capture!Traced

LEMMA PresentStarts ==
  ASSUME CaptureInv, NEW c \in Chains, NEW test \in BOOLEAN, Capture!PresentStart(c, test)
  PROVE  CaptureInv'
<1> DEFINE ev == [kind |-> "start", id |-> calls + 1, chain |-> c, test |-> test]
<1>1. calls \in Nat /\ ev \in Starts /\ ev.id = calls + 1 /\ ev.kind = "start"
  BY DEF CaptureInv, CaptureTypes, Starts
<1>2. /\ Capture!Traced(ev) /\ calls' = calls + 1 /\ bad' = bad /\ observed' = observed
      /\ call'.id = calls + 1 /\ call'.test = test
      /\ UNCHANGED <<read, source, reader, mixed>>
  BY DEF Capture!PresentStart, Capture!ui
<1> HIDE DEF ev
<1>3. Later(ev.id) /\ \A i \in 1..Len(trace) : trace[i].kind = "start" => trace[i].id < ev.id
  <2>1. \A i \in 1..Len(trace) : trace[i].id \in Nat
    BY ElementOfSeq DEF CaptureInv, CaptureTypes, Starts, Stops
  <2> QED
    BY <1>1, <2>1 DEF CaptureInv, CaptureTypes, ReadInOrder, TraceInOrder, Later, Starts
<1>4. TraceInOrder' /\ trace' \in Seq(Starts \cup Stops) /\ lost' \in Nat /\ lost <= lost'
  BY <1>1, <1>2, <1>3, EventTraced DEF CaptureInv
<1> QED
  BY <1>1, <1>2, <1>4, EnvironmentStep DEF CaptureInv, CaptureTypes

LEMMA PresentStops ==
  ASSUME CaptureInv, NEW fails \in BOOLEAN, Capture!PresentStop(fails)
  PROVE  CaptureInv'
<1> DEFINE ev == [kind |-> "stop", id |-> call.id, failed |-> fails]
<1>1. call # None /\ call.id \in Nat
  BY DEF CaptureInv, CaptureTypes, Capture!PresentStop
<1>2. ev \in Stops /\ ev.id = call.id /\ ev.kind = "stop" /\ ev.failed = fails
  BY <1>1 DEF Stops
<1>3. /\ Capture!Traced(ev) /\ calls' = calls /\ call' = None /\ observed' = observed
      /\ bad \subseteq bad' /\ (fails => call.id \in bad')
      /\ UNCHANGED <<read, source, reader, mixed>>
  BY DEF Capture!PresentStop, Capture!ui
<1> HIDE DEF ev
<1>4. TraceInOrder' /\ trace' \in Seq(Starts \cup Stops) /\ lost' \in Nat /\ lost <= lost'
  BY <1>2, <1>3, EventTraced DEF CaptureInv, CaptureTypes
<1> QED
  BY <1>1, <1>3, <1>4, EnvironmentStep DEF CaptureInv, CaptureTypes

LEMMA Flushes == ASSUME CaptureInv, Capture!Flush PROVE CaptureInv'
<1>1. /\ calls' = calls /\ call' = call /\ bad' = bad /\ lost' = lost /\ trace' = trace
      /\ observed' = lost /\ UNCHANGED <<read, source, reader, mixed>>
  BY DEF Capture!Flush, Capture!capture, Capture!ui
<1> QED
  BY <1>1, TraceStays, EnvironmentStep DEF CaptureInv, CaptureTypes

LEMMA SessionEndsInOrder == ASSUME CaptureInv, Capture!SessionEnds PROVE CaptureInv'
<1>1. /\ calls' = calls /\ call' = call /\ bad' = bad /\ lost' = lost /\ trace' = <<>>
      /\ observed' = observed /\ UNCHANGED <<read, source, reader, mixed>>
  BY DEF Capture!SessionEnds
<1>2. trace' \in Seq(Starts \cup Stops) /\ TraceInOrder'
  BY <1>1, EmptySeq DEF TraceInOrder
<1> QED
  BY <1>1, <1>2, EnvironmentStep DEF CaptureInv, CaptureTypes

(* With empty streams nothing is certified, and nothing is missed.          *)
LEMMA StatisticsStartAnew ==
  ASSUME CaptureInv, source' = Capture!NewSource, UNCHANGED <<read, calls, bad, mixed>>,
         \/ UNCHANGED <<reader, observed, lost, trace, call>>
         \/ /\ reader' = Capture!NewReader /\ trace' = <<>> /\ lost' = 0 /\ observed' = 0
            /\ call' = call
  PROVE  CaptureInv'
<1>1. /\ DOMAIN source' = {"streams", "since", "lossy", "lossAt", "last"}
      /\ source'.lossAt = 0 /\ DOMAIN source'.streams = {}
  BY DEF Capture!NewSource, Capture!NewStreams
<1>2. \A e : Covered(e)'
  BY <1>1 DEF Covered
<1>3. CASE UNCHANGED <<reader, observed, lost, trace, call>>
  <2>1. CaptureTypes'
    BY <1>1, <1>3 DEF CaptureInv, CaptureTypes
  <2>2. ReadInOrder' /\ TraceInOrder'
    BY <1>1, <1>3 DEF CaptureInv, ReadInOrder, TraceInOrder, Later
  <2> QED
    BY <1>2, <2>1, <2>2 DEF CaptureInv
<1>4. CASE /\ reader' = Capture!NewReader /\ trace' = <<>> /\ lost' = 0 /\ observed' = 0
           /\ call' = call
  <2>1. /\ DOMAIN reader' = {"pending", "invalidated", "reported", "owed"}
        /\ reader'.pending = None /\ reader'.invalidated = 0 /\ reader'.reported = 0
        /\ reader'.owed = 0
    BY <1>4 DEF Capture!NewReader
  <2>2. trace' \in Seq(Starts \cup Stops) /\ TraceInOrder'
    BY <1>4, EmptySeq DEF TraceInOrder
  <2>3. CaptureTypes'
    BY <1>1, <1>4, <2>1, <2>2 DEF CaptureInv, CaptureTypes
  <2>4. ReadInOrder'
    BY <2>1 DEF CaptureInv, ReadInOrder
  <2> QED
    BY <1>2, <2>2, <2>3, <2>4 DEF CaptureInv
<1> QED
  BY <1>3, <1>4

(* What the trace thread takes from the buffers.                            *)
LEMMA EventTaken ==
  ASSUME CaptureTypes, TraceInOrder, trace # <<>>, trace' = Tail(trace)
  PROVE  LET ev == Head(trace) IN
         /\ ev \in Starts \cup Stops /\ trace' \in Seq(Starts \cup Stops)
         /\ (ev.kind = "stop" /\ ev.failed) => ev.id \in bad
         /\ ev.kind = "start" => ev.id <= calls /\ Later(ev.id)
         /\ \A i \in 1..Len(trace') :
               /\ (trace'[i].kind = "stop" /\ trace'[i].failed) => trace'[i].id \in bad
               /\ trace'[i].kind = "start" =>
                     /\ trace'[i].id <= calls /\ Later(trace'[i].id)
                     /\ ev.kind = "start" => ev.id < trace'[i].id
                     /\ \A j \in 1..Len(trace') :
                           (i < j /\ trace'[j].kind = "start") => trace'[i].id < trace'[j].id
<1>1. /\ trace \in Seq(Starts \cup Stops) /\ Len(trace) \in Nat /\ Len(trace) >= 1
      /\ Head(trace) = trace[1] /\ trace[1] \in Starts \cup Stops
      /\ trace' \in Seq(Starts \cup Stops) /\ Len(trace') = Len(trace) - 1
      /\ \A i \in 1..Len(trace') : trace'[i] = trace[i + 1] /\ i + 1 \in 1..Len(trace)
  BY HeadTailProperties, EmptySeq, LenProperties, ElementOfSeq DEF CaptureTypes
<1>2. 1 \in 1..Len(trace)
  BY <1>1
<1>3. /\ (trace[1].kind = "stop" /\ trace[1].failed) => trace[1].id \in bad
      /\ trace[1].kind = "start" => trace[1].id <= calls /\ Later(trace[1].id)
  BY <1>2 DEF TraceInOrder
<1>4. ASSUME NEW i \in 1..Len(trace')
      PROVE  /\ (trace'[i].kind = "stop" /\ trace'[i].failed) => trace'[i].id \in bad
             /\ trace'[i].kind = "start" =>
                   /\ trace'[i].id <= calls /\ Later(trace'[i].id)
                   /\ trace[1].kind = "start" => trace[1].id < trace'[i].id
                   /\ \A j \in 1..Len(trace') :
                         (i < j /\ trace'[j].kind = "start") => trace'[i].id < trace'[j].id
  <2>1. /\ i \in Nat /\ i >= 1 /\ trace'[i] = trace[i + 1] /\ i + 1 \in 1..Len(trace)
        /\ 1 < i + 1
    BY <1>1
  <2>2. \A j \in 1..Len(trace') : i < j =>
           trace'[j] = trace[j + 1] /\ j + 1 \in 1..Len(trace) /\ i + 1 < j + 1
    BY <1>1, <2>1
  <2> QED
    BY <1>2, <2>1, <2>2 DEF TraceInOrder
<1> QED
  BY <1>1, <1>3, <1>4

(* The trace thread takes a Start.                                          *)
LEMMA StartIsRead ==
  ASSUME CaptureInv, Capture!PresentAssumption, Capture!ReadEvent, Head(trace).kind = "start",
         Capture!StartRead(Head(trace)), UNCHANGED <<source, mixed>>,
         read' = IF Head(trace).test THEN read ELSE read \cup {Head(trace)}
  PROVE  CaptureInv'
<1> DEFINE ev == Head(trace)
           r == Capture!Tidied(ev.id)
           free == IF r.pending = None THEN r ELSE Capture!GivenUp(r)
<1>1. /\ trace # <<>> /\ trace' = Tail(trace)
      /\ UNCHANGED <<calls, call, bad, lost, observed, source, mixed>>
  BY DEF Capture!ReadEvent
<1>2. /\ ev \in Starts /\ trace' \in Seq(Starts \cup Stops)
      /\ ev.id \in Nat /\ ev.id <= calls /\ Later(ev.id)
      /\ \A i \in 1..Len(trace') :
            /\ (trace'[i].kind = "stop" /\ trace'[i].failed) => trace'[i].id \in bad
            /\ trace'[i].kind = "start" =>
                  /\ trace'[i].id <= calls /\ Later(trace'[i].id) /\ ev.id < trace'[i].id
                  /\ \A j \in 1..Len(trace') :
                        (i < j /\ trace'[j].kind = "start") => trace'[i].id < trace'[j].id
  <2>1. ev \in Starts
    BY <1>1, EventTaken DEF CaptureInv, Starts, Stops
  <2>2. ev.id \in Nat /\ ev.kind = "start"
    BY <2>1 DEF Starts
  <2> HIDE DEF ev
  <2> QED
    BY <1>1, <2>1, <2>2, EventTaken DEF CaptureInv, ev
<1>3. /\ DOMAIN free = {"pending", "invalidated", "reported", "owed"}
      /\ free.reported = reader.reported /\ free.invalidated = observed /\ free.owed \in Nat
      /\ free.pending = None
      /\ reader.pending # None => Capture!OwesLoss(free)
      /\ Owing => Capture!OwesLoss(free)
  <2>1. /\ DOMAIN r = {"pending", "invalidated", "reported", "owed"}
        /\ r.reported = reader.reported /\ r.invalidated = observed /\ r.owed \in Nat
        /\ r.pending \in {reader.pending, None}
        /\ r.pending = None /\ reader.pending # None => Capture!OwesLoss(r)
        /\ Owing => Capture!OwesLoss(r)
    BY TidiedOwes DEF CaptureInv
  <2> HIDE DEF r
  <2>2. CASE r.pending = None
    BY <2>1, <2>2
  <2>3. CASE r.pending # None
    <3>1. free = [r EXCEPT !.pending = None, !.owed = @ + 1]
      BY <2>3 DEF Capture!GivenUp
    <3> HIDE DEF free
    <3>2. /\ DOMAIN free = {"pending", "invalidated", "reported", "owed"}
          /\ free.reported = r.reported /\ free.invalidated = r.invalidated
          /\ free.owed = r.owed + 1 /\ free.pending = None
      BY <2>1, <3>1
    <3> QED
      BY <2>1, <3>2 DEF Capture!OwesLoss
  <2> QED
    BY <2>2, <2>3
<1>4. /\ reader' = IF ev.test THEN free ELSE [free EXCEPT !.pending = ev]
      /\ read' = IF ev.test THEN read ELSE read \cup {ev}
  BY DEF Capture!StartRead
<1> HIDE DEF free
<1>5. /\ DOMAIN reader' = {"pending", "invalidated", "reported", "owed"}
      /\ reader'.reported = reader.reported /\ reader'.invalidated = observed
      /\ reader'.owed \in Nat
      /\ reader.pending # None => Capture!OwesLoss(reader')
      /\ Owing => Capture!OwesLoss(reader')
      /\ \/ reader'.pending = None /\ read' = read
         \/ reader'.pending = ev /\ read' = read \cup {ev}
  BY <1>3, <1>4 DEF Capture!OwesLoss
<1> HIDE DEF ev
<1>6. CaptureTypes'
  BY <1>1, <1>2, <1>5 DEF CaptureInv, CaptureTypes
<1>7. ReadInOrder'
  BY <1>1, <1>2, <1>5 DEF CaptureInv, CaptureTypes, ReadInOrder, Later, Starts
<1>8. TraceInOrder'
  <2>1. \A i \in 1..Len(trace') : trace'[i].kind = "start" =>
           /\ \A e \in read' : e.id < trace'[i].id
           /\ \A c \in DOMAIN source'.streams : \A at \in source'.streams[c] : at < trace'[i].id
    BY <1>1, <1>2, <1>5 DEF Later
  <2> QED
    BY <1>1, <1>2, <2>1 DEF TraceInOrder, Later
<1>9. Owing => Owing'
  BY <1>5 DEF Owing
<1>10. reader.pending # None => Owing'
  BY <1>5 DEF Owing
<1>11. ASSUME ~mixed', NEW e \in read' PROVE Covered(e)'
  <2>1. CASE e \in read
    <3>1. Covered(e)
      BY <1>1, <1>11, <2>1 DEF CaptureInv
    <3> QED
      BY <1>1, <1>9, <1>10, <2>1, <3>1, StaysCovered DEF CaptureInv
  <2>2. CASE e \notin read
    <3>1. e = ev /\ reader'.pending = ev /\ ev # None
      BY <1>2, <1>5, <1>11, <2>2, NoneIsNoStart
    <3> QED
      BY <3>1 DEF Covered
  <2> QED
    BY <2>1, <2>2
<1> QED
  BY <1>6, <1>7, <1>8, <1>11 DEF CaptureInv

(* The trace thread takes a Stop and admits nothing.                        *)
LEMMA NothingAdmitted ==
  ASSUME CaptureInv, trace # <<>>, trace' = Tail(trace),
         UNCHANGED <<calls, call, bad, lost, observed, source, read>>, ~mixed' => ~mixed,
         DOMAIN reader' = {"pending", "invalidated", "reported", "owed"},
         reader'.reported = reader.reported, reader'.invalidated = observed,
         reader'.owed \in Nat, reader'.pending \in {reader.pending, None},
         Owing => Owing',
         ~mixed' /\ reader.pending # None =>
            reader'.pending = reader.pending \/ Owing' \/ reader.pending.id \in bad
  PROVE  CaptureInv'
<1>1. CaptureTypes'
  BY EventTaken DEF CaptureInv, CaptureTypes
<1>2. ReadInOrder'
  BY DEF CaptureInv, ReadInOrder
<1>3. TraceInOrder'
  BY EventTaken DEF CaptureInv, TraceInOrder, Later
<1>4. ASSUME ~mixed', NEW e \in read' PROVE Covered(e)'
  <2>1. Covered(e)
    BY <1>4 DEF CaptureInv
  <2> QED
    BY <1>4, <2>1, StaysCovered DEF CaptureInv
<1> QED
  BY <1>1, <1>2, <1>3, <1>4 DEF CaptureInv

(* A call is admitted: what is owed is recorded first.                      *)
LEMMA CallIsAdmitted ==
  ASSUME CaptureInv, Capture!PresentAssumption, trace # <<>>, trace' = Tail(trace),
         UNCHANGED <<calls, call, bad, lost, observed, read>>, ~mixed' => ~mixed,
         reader.pending # None,
         DOMAIN reader' = {"pending", "invalidated", "reported", "owed"},
         reader'.reported = observed, reader'.invalidated = observed, reader'.owed = 0,
         reader'.pending = None,
         NEW told, SourceOk(told, calls), told.streams = source.streams,
         source.lossy => told.lossy, source.lossAt <= told.lossAt,
         Owing => told.lossy /\ reader.pending.id <= told.lossAt,
         source' = Capture!Ingested(told, reader.pending.chain, reader.pending.id)
  PROVE  CaptureInv'
<1> DEFINE p == reader.pending
           c == p.chain
           at == p.id
<1>1. /\ p \in read /\ p \in Starts /\ calls \in Nat /\ at \in 0..calls
      /\ \A e \in read : e.id <= at /\ e.id \in Nat /\ (e.id = at => e = p)
      /\ \A d \in DOMAIN source.streams : \A x \in source.streams[d] : x < at
  BY DEF CaptureInv, CaptureTypes, ReadInOrder, Starts
<1> HIDE DEF p
<1>2. /\ SourceOk(source', calls) /\ source'.lossy = told.lossy /\ source'.lossAt = told.lossAt
      /\ c \in DOMAIN source'.streams /\ at \in source'.streams[c]
      /\ \A d \in DOMAIN source'.streams :
            /\ d # c => d \in DOMAIN source.streams /\ source'.streams[d] = source.streams[d]
            /\ \A x \in source'.streams[d] : x <= at
      /\ \A x \in source'.streams[c] :
            x # at => c \in DOMAIN source.streams /\ x \in source.streams[c]
      /\ c \in DOMAIN source.streams =>
            \A x \in source.streams[c] \ source'.streams[c] :
                \A y \in source'.streams[c] : y > x
  BY <1>1, CallIsIngested DEF p
<1>3. /\ trace' \in Seq(Starts \cup Stops)
      /\ \A i \in 1..Len(trace') :
            /\ (trace'[i].kind = "stop" /\ trace'[i].failed) => trace'[i].id \in bad
            /\ trace'[i].kind = "start" =>
                  /\ trace'[i].id <= calls /\ Later(trace'[i].id)
                  /\ \A j \in 1..Len(trace') :
                        (i < j /\ trace'[j].kind = "start") => trace'[i].id < trace'[j].id
  BY EventTaken DEF CaptureInv
<1>4. ASSUME NEW d \in DOMAIN source'.streams, d # c
      PROVE  d \in DOMAIN source.streams /\ source'.streams[d] = source.streams[d]
  BY <1>2, <1>4
<1>5. CaptureTypes'
  <2>1. reader'.reported <= reader'.invalidated /\ reader'.invalidated <= observed'
    BY DEF CaptureInv, CaptureTypes
  <2> QED
    BY <1>2, <1>3, <2>1 DEF CaptureInv, CaptureTypes, SourceOk, SourceFields
<1>6. ReadInOrder'
  BY DEF CaptureInv, ReadInOrder
<1>7. TraceInOrder'
  <2>1. \A i \in 1..Len(trace') : trace'[i].kind = "start" => trace'[i].id \in Nat
    BY <1>3, ElementOfSeq DEF Starts, Stops
  <2>2. \A i \in 1..Len(trace') : trace'[i].kind = "start" =>
           /\ trace'[i].id <= calls
           /\ \A e \in read' : e.id < trace'[i].id
           /\ at < trace'[i].id
    BY <1>1, <1>3 DEF Later
  <2>3. \A i \in 1..Len(trace') : trace'[i].kind = "start" =>
           \A d \in DOMAIN source'.streams : \A x \in source'.streams[d] : x < trace'[i].id
    <3>1. ASSUME NEW d \in DOMAIN source'.streams, NEW x \in source'.streams[d]
          PROVE  x <= at /\ x \in Nat
      <4>1. source'.streams[d] \subseteq 0..calls
        BY <1>2 DEF SourceOk
      <4>2. x \in 0..calls /\ calls \in Nat
        BY <1>1, <4>1
      <4>3. x <= at
        BY <1>2
      <4> QED
        BY <4>2, <4>3
    <3>2. at \in Nat
      BY <1>1
    <3> SUFFICES ASSUME NEW i \in 1..Len(trace'), trace'[i].kind = "start",
                        NEW d \in DOMAIN source'.streams, NEW x \in source'.streams[d]
                 PROVE  x < trace'[i].id
      OBVIOUS
    <3>3. x <= at /\ x \in Nat /\ at < trace'[i].id /\ trace'[i].id \in Nat
      BY <2>1, <2>2, <3>1
    <3> QED
      BY <3>2, <3>3
  <2> SUFFICES ASSUME NEW i \in 1..Len(trace')
               PROVE  /\ (trace'[i].kind = "stop" /\ trace'[i].failed) => trace'[i].id \in bad
                      /\ trace'[i].kind = "start" =>
                            /\ trace'[i].id <= calls
                            /\ \A e \in read' : e.id < trace'[i].id
                            /\ \A d \in DOMAIN source'.streams :
                                  \A x \in source'.streams[d] : x < trace'[i].id
                            /\ \A j \in 1..Len(trace') :
                                  (i < j /\ trace'[j].kind = "start") => trace'[i].id < trace'[j].id
    BY DEF TraceInOrder, Later
  <2> QED
    BY <1>3, <2>2, <2>3
<1>8. ASSUME ~mixed', NEW e \in read' PROVE Covered(e)'
  <2>1. Covered(e) /\ e.id <= at /\ e.id \in Nat /\ (e.id = at => e = p)
    BY <1>1, <1>8 DEF CaptureInv
  <2>2. /\ source.lossAt \in Nat /\ told.lossAt \in Nat /\ source'.lossAt \in Nat
        /\ \A d \in DOMAIN source.streams : source.streams[d] \subseteq Nat
        /\ \A d \in DOMAIN source'.streams : source'.streams[d] \subseteq Nat
    BY <1>2 DEF CaptureInv, CaptureTypes, SourceOk
  <2>3. (told.lossy => source'.lossy) /\ source'.lossAt = told.lossAt
    BY <1>2, Zenon
  <2>4. CASE e.id \in bad
    BY <2>4 DEF Covered
  <2>5. CASE e.id = at
    BY <1>2, <2>1, <2>5 DEF Covered
  <2>6. CASE e.chain \in DOMAIN source.streams /\ e.id \in source.streams[e.chain]
    <3>1. CASE e.chain = c
      <4>1. /\ c \in DOMAIN source'.streams
            /\ e.id \notin source'.streams[c] => \A y \in source'.streams[c] : y > e.id
        BY <1>2, <2>6, <3>1
      <4> QED
        BY <3>1, <4>1 DEF Covered
    <3>2. CASE e.chain # c
      <4>1. e.chain \in DOMAIN source'.streams => e.id \in source'.streams[e.chain]
        BY <1>4, <2>6, <3>2
      <4> QED
        BY <4>1 DEF Covered
    <3> QED
      BY <3>1, <3>2
  <2>7. CASE source.lossy /\ e.id <= source.lossAt
    <3>1. told.lossy /\ e.id <= told.lossAt
      BY <2>1, <2>2, <2>7
    <3> QED
      BY <2>3, <3>1 DEF Covered
  <2>8. CASE Owing
    <3>1. told.lossy /\ e.id <= told.lossAt
      BY <1>1, <2>1, <2>2, <2>8 DEF p
    <3> QED
      BY <2>3, <3>1 DEF Covered
  <2>9. CASE /\ e.chain \in DOMAIN source.streams =>
                   \A x \in source.streams[e.chain] : x > e.id
             /\ e.id # at
    <3>1. e.chain \in DOMAIN source'.streams =>
             \A x \in source'.streams[e.chain] : x > e.id
      <4>1. CASE e.chain # c
        BY <1>4, <2>9, <4>1
      <4>2. CASE e.chain = c
        <5>1. \A x \in source'.streams[c] : x # at => x > e.id
          BY <1>2, <2>9, <4>2
        <5>2. at > e.id
          BY <1>1, <2>1, <2>9
        <5> QED
          BY <4>2, <5>1, <5>2
      <4> QED
        BY <4>1, <4>2
    <3> QED
      BY <3>1 DEF Covered
  <2> QED
    BY <2>1, <2>4, <2>5, <2>6, <2>7, <2>8, <2>9 DEF Covered, p
<1> QED
  BY <1>5, <1>6, <1>7, <1>8 DEF CaptureInv

LEMMA StopIsRead ==
  ASSUME CaptureInv, Capture!PresentAssumption, Capture!ReadEvent, Head(trace).kind = "stop",
         Capture!StopRead(Head(trace)), UNCHANGED read
  PROVE  CaptureInv'
<1> DEFINE ev == Head(trace)
           r == Capture!Tidied(ev.id)
           done == [r EXCEPT !.pending = None]
           admitted == [done EXCEPT !.reported = r.invalidated, !.owed = 0]
           told == IF Capture!OwesLoss(r) THEN Capture!LossRecorded(source, r.pending.id)
                   ELSE source
<1>1. trace # <<>> /\ trace' = Tail(trace) /\ UNCHANGED <<calls, call, bad, lost, observed>>
  BY DEF Capture!ReadEvent
<1>2. (ev.kind = "stop" /\ ev.failed) => ev.id \in bad
  BY <1>1, EventTaken DEF CaptureInv
<1>3. /\ DOMAIN r = {"pending", "invalidated", "reported", "owed"}
      /\ r.reported = reader.reported /\ r.invalidated = observed /\ r.owed \in Nat
      /\ r.pending \in {reader.pending, None}
      /\ r.pending = None /\ reader.pending # None => Capture!OwesLoss(r)
      /\ Owing => Capture!OwesLoss(r)
  BY TidiedOwes DEF CaptureInv
<1>4. /\ mixed' = (mixed \/ (r.pending # None /\ r.pending.id # ev.id))
      /\ \/ r.pending = None /\ reader' = r /\ UNCHANGED source
         \/ r.pending # None /\ ev.failed /\ reader' = done /\ UNCHANGED source
         \/ /\ r.pending # None /\ reader' = admitted
            /\ source' = Capture!Ingested(told, r.pending.chain, r.pending.id)
  BY DEF Capture!StopRead
<1>5. ~mixed' => ~mixed /\ (r.pending # None => r.pending.id = ev.id)
  BY <1>4
<1> HIDE DEF r
<1>6. CASE r.pending = None /\ reader' = r /\ UNCHANGED source
  <2>1. /\ Owing => Owing'
        /\ reader.pending # None => Owing'
    BY <1>3, <1>6 DEF Owing
  <2> QED
    BY <1>1, <1>3, <1>5, <1>6, <2>1, NothingAdmitted
<1>7. CASE r.pending # None /\ ev.failed /\ reader' = done /\ UNCHANGED source
  <2>1. /\ DOMAIN reader' = {"pending", "invalidated", "reported", "owed"}
        /\ reader'.reported = reader.reported /\ reader'.invalidated = observed
        /\ reader'.owed = r.owed /\ reader'.pending = None /\ r.pending = reader.pending
    BY <1>3, <1>7
  <2>2. Owing => Owing'
    BY <1>3, <2>1 DEF Owing, Capture!OwesLoss
  <2>3. ~mixed' => reader.pending.id \in bad
    <3>1. ev.id \in bad
      BY <1>2, <1>7
    <3> HIDE DEF ev
    <3> QED
      BY <1>5, <1>7, <2>1, <3>1
  <2> HIDE DEF ev, done
  <2> QED
    BY <1>1, <1>3, <1>5, <1>7, <2>1, <2>2, <2>3, NothingAdmitted
<1>8. CASE /\ r.pending # None /\ reader' = admitted
           /\ source' = Capture!Ingested(told, r.pending.chain, r.pending.id)
  <2>1. /\ DOMAIN reader' = {"pending", "invalidated", "reported", "owed"}
        /\ reader'.reported = observed /\ reader'.invalidated = observed
        /\ reader'.owed = 0 /\ reader'.pending = None /\ r.pending = reader.pending
    BY <1>3, <1>8
  <2>2. SourceOk(source, calls) /\ reader.pending.id \in 0..calls /\ calls \in Nat
    BY <1>8, <2>1 DEF CaptureInv, CaptureTypes, ReadInOrder, SourceOk, SourceFields,
         Starts
  <2>3. /\ SourceOk(told, calls) /\ told.streams = source.streams
        /\ source.lossy => told.lossy
        /\ source.lossAt <= told.lossAt
        /\ Owing => told.lossy /\ reader.pending.id <= told.lossAt
    <3>1. CASE Capture!OwesLoss(r)
      BY <2>1, <2>2, <3>1, LossIsRecorded
    <3>2. CASE ~Capture!OwesLoss(r)
      <4>1. told = source /\ ~Owing
        BY <1>3, <3>2
      <4> QED
        BY <2>2, <4>1 DEF SourceOk
    <3> QED
      BY <3>1, <3>2
  <2>4. source' = Capture!Ingested(told, reader.pending.chain, reader.pending.id)
    BY <1>8, <2>1
  <2> HIDE DEF ev, done, admitted, told
  <2> QED
    BY <1>1, <1>5, <1>8, <2>1, <2>3, <2>4, CallIsAdmitted
<1> QED
  BY <1>4, <1>6, <1>7, <1>8

(* Whatever the game, the session, the trace thread and the UI thread do.   *)
LEMMA CaptureStep ==
  ASSUME Capture!PresentAssumption, CaptureInv, Capture!Next \/ UNCHANGED Capture!vars
  PROVE  CaptureInv'
<1>1. CASE UNCHANGED Capture!vars
  BY <1>1 DEF Capture!vars, Capture!capture, Capture!ui, CaptureInv, CaptureTypes,
       ReadInOrder, TraceInOrder, Later, Covered, Owing, Capture!OwesLoss
<1>2. ASSUME Capture!ReadEvent PROVE CaptureInv'
  BY <1>2, StartIsRead, StopIsRead DEF Capture!ReadEvent
<1>3. ASSUME Capture!ResetStatistics PROVE CaptureInv'
  BY <1>3, StatisticsStartAnew DEF Capture!ResetStatistics, Capture!capture
<1>4. ASSUME NEW starts \in BOOLEAN, Capture!Reconnect(starts) PROVE CaptureInv'
  BY <1>4, StatisticsStartAnew DEF Capture!Reconnect
<1> QED
  BY <1>1, <1>2, <1>3, <1>4, PresentStarts, PresentStops, Flushes, SessionEndsInOrder
     DEF Capture!Next

(***************************************************************************)
(* The statistics of the frame times.                                       *)
(***************************************************************************)

(* A result is computed from the statistics as they are now.                *)
IsCurrent(r, e, b) ==
    /\ DOMAIN r = {"live", "epoch", "history"}
    /\ r.live => r.epoch = e
    /\ \A at \in r.history : b # None /\ at > b

(* The drain that is computed either is void, or what it computed is        *)
(* current: whoever changes the statistics moves the generation on.         *)
DrainInv ==
    /\ gen \in Nat /\ DOMAIN latest = Drain!Kinds /\ DOMAIN asked = Drain!Kinds
    /\ \A k \in Drain!Kinds : asked[k] # None => asked[k] = gen
    /\ active # None =>
          /\ active.gen \in Nat /\ active.gen <= gen
          /\ active.gen = gen /\ active.result # None => IsCurrent(active.result, epoch, boundary)
    /\ \A k \in Drain!Kinds : latest[k] # None => IsCurrent(latest[k], epoch, boundary)

LEMMA DrainCurrent == DrainInv => Drain!PublishedIsCurrent
BY DEF DrainInv, Drain!PublishedIsCurrent, IsCurrent

LEMMA DrainStarts == Drain!Init => DrainInv
BY DEF DrainInv, Drain!Init, Drain!Nothing, Drain!Kinds

LEMMA DrainStep == DrainInv /\ [Drain!Next]_ofDrain => DrainInv'
<1> SUFFICES ASSUME DrainInv, [Drain!Next]_ofDrain PROVE DrainInv'
  OBVIOUS
<1> USE DEF DrainInv, Drain!Kinds
<1>1. CASE UNCHANGED ofDrain
  BY <1>1 DEF ofDrain, IsCurrent
<1>2. CASE Drain!Admit
  BY <1>2 DEF Drain!Admit, Drain!results, IsCurrent
<1>3. CASE Drain!Lose
  BY <1>3 DEF Drain!Lose, Drain!Invalidate, Drain!Nothing
<1>4. CASE Drain!TakeRequest
  BY <1>4 DEF Drain!TakeRequest, IsCurrent
<1>5. CASE Drain!Compute
  <2>1. IsCurrent(Drain!Measured, epoch, boundary)
    BY DEF IsCurrent, Drain!Measured
  <2> QED
    BY <1>5, <2>1 DEF Drain!Compute, Drain!results, IsCurrent
<1>6. CASE Drain!Publish
  BY <1>6 DEF Drain!Publish, Drain!Published, Drain!Publishable, IsCurrent
<1>7. CASE Drain!ComputeFails
  <2>1. IsCurrent(Drain!Unavailable, epoch, boundary)
    BY DEF IsCurrent, Drain!Unavailable
  <2> QED
    BY <1>7, <2>1 DEF Drain!ComputeFails, Drain!Published, IsCurrent
<1>8. CASE Drain!WorkerFails
  <2>1. IsCurrent(Drain!Unavailable, epoch, boundary)
    BY DEF IsCurrent, Drain!Unavailable
  <2>2. \A k \in Drain!Kinds : latest'[k] = Drain!Unavailable
    BY <1>8 DEF Drain!WorkerFails
  <2> QED
    BY <1>8, <2>1, <2>2 DEF Drain!WorkerFails, Drain!Nothing
<1>9. ASSUME NEW k \in Drain!Kinds, Drain!Request(k) PROVE DrainInv'
  <2>1. IsCurrent(Drain!Unavailable, epoch, boundary)
    BY DEF IsCurrent, Drain!Unavailable
  <2> QED
    BY <1>9, <2>1 DEF Drain!Request, IsCurrent
<1>10. ASSUME NEW b \in {None, last}, Drain!SetBoundary(b) PROVE DrainInv'
  <2>1. latest["default"] # None => IsCurrent([latest["default"] EXCEPT !.history = {}], epoch, b)
    BY <1>10 DEF Drain!SetBoundary, IsCurrent
  <2>2. \A k \in Drain!Kinds : latest'[k] # None => IsCurrent(latest'[k], epoch, b)
    BY <1>10, <2>1 DEF Drain!SetBoundary, Drain!Nothing, Drain!Live
  <2> QED
    BY <1>10, <2>2 DEF Drain!SetBoundary, Drain!Nothing
<1>11. CASE Drain!ResetStatistics
  BY <1>11 DEF Drain!ResetStatistics, Drain!Invalidate, Drain!Nothing
<1> QED
  BY <1>1, <1>2, <1>3, <1>4, <1>5, <1>6, <1>7, <1>8, <1>9, <1>10, <1>11 DEF Drain!Next

(***************************************************************************)
(* The event log.                                                           *)
(***************************************************************************)

Writing == eventWorker \in {"write", "written"}

(* Types of what the argument compares *)
Counters ==
    /\ revision \in Nat /\ persisted \in Nat /\ copied \in Nat /\ target \in Nat
    /\ pending \in BOOLEAN /\ ready \in BOOLEAN /\ flushed \in BOOLEAN /\ stop \in BOOLEAN

(* A copy that is being written is not older than what is persisted, and    *)
(* holds the log unless something was logged since it was taken, which is   *)
(* pending then.                                                            *)
CopyIsRecent ==
    Writing => /\ persisted <= copied /\ copied <= revision
               /\ copied = revision => copy = events
               /\ ~pending => copied = revision

(* The file holds what the worker believes it holds *)
FileIsPersisted ==
    /\ eventWorker = "written" => file = copy
    /\ ready /\ persisted = revision => file = events
    /\ persisted <= revision /\ target <= revision
    /\ flushed => persisted >= target

(* Only a failed writer waits for a retry, and the worker ends on request   *)
(* only, with nothing left that could be written.                           *)
EndIsDrained ==
    /\ eventWorker = "retry" => ~ready
    /\ stop => eventOwner \in {"stopping", "joining", "destroyed"}
    /\ eventWorker = "done" => stop /\ (pending => ~ready)
    /\ eventOwner = "destroyed" => eventWorker = "done"

Persistence ==
    /\ Counters /\ CopyIsRecent /\ FileIsPersisted /\ EndIsDrained
    /\ Events!NothingForgotten /\ Events!FlushIsTruthful

-----------------------------------------------------------------------------
(* The constructor leaves a log that is written, or known not to be *)
LEMMA InitPersistence == Events!Init => Persistence
<1> SUFFICES ASSUME Events!Init PROVE Persistence
  OBVIOUS
<1>1. /\ ready \in BOOLEAN /\ pending \in BOOLEAN
      /\ ready <=> file = <<>>
      /\ pending <=> ~ready
  BY Zenon DEF Events!Init
<1>2. /\ events = <<>> /\ revision = 0 /\ persisted = 0 /\ copied = 0 /\ target = 0
      /\ eventWorker = "idle" /\ eventOwner = "running"
      /\ flushed \in BOOLEAN /\ ~flushed /\ stop \in BOOLEAN /\ ~stop
  BY DEF Events!Init
<1>3. Counters /\ EndIsDrained /\ CopyIsRecent
  BY <1>1, <1>2 DEF Counters, EndIsDrained, CopyIsRecent, Writing
<1>4. FileIsPersisted /\ Events!NothingForgotten /\ Events!FlushIsTruthful
  BY <1>1, <1>2 DEF FileIsPersisted, Events!NothingForgotten, Events!FlushIsTruthful
<1> QED
  BY <1>3, <1>4 DEF Persistence

(* schedule_persist_locked: whatever changes the log is pending, and newer  *)
(* than anything persisted, copied or asked for.                            *)
LEMMA ChangePersistence ==
  ASSUME Persistence, Events!Alive, Events!Schedule,
         UNCHANGED <<file, eventWorker, copy, copied, eventOwner, Events!flush, stop, failures>>
  PROVE  Persistence'
<1>1. /\ revision' = revision + 1 /\ pending' = TRUE
      /\ ready' = ready /\ persisted' = persisted
  BY DEF Events!Schedule
<1>2. eventOwner \in {"running", "flushing"}
  BY DEF Events!Alive
<1> QED
  BY <1>1, <1>2 DEF Persistence, Counters, CopyIsRecent, FileIsPersisted, EndIsDrained,
       Events!NothingForgotten, Events!FlushIsTruthful, Writing, Events!flush

(* Steps that only move threads between running, waiting and sleeping *)
LEMMA WaitPersistence ==
  ASSUME Persistence, UNCHANGED <<Events!log, pending, ready, persisted, file, copy, copied>>,
         UNCHANGED <<Events!flush, eventWorker, eventOwner, stop>>
  PROVE  Persistence'
  BY DEF Persistence, Counters, CopyIsRecent, FileIsPersisted, EndIsDrained,
       Events!NothingForgotten, Events!FlushIsTruthful, Writing, Events!log,
       Events!flush

(* Every step of the log, of its worker and of its owner *)
LEMMA NextPersistence == Persistence /\ [Events!Next]_(Events!vars) => Persistence'
<1> SUFFICES ASSUME Persistence, [Events!Next]_(Events!vars) PROVE Persistence'
  OBVIOUS
<1> USE DEF Events!log, Events!duty, Events!flush
<1>1. ASSUME NEW e \in Events!Events, Events!AppendEvent(e) PROVE Persistence'
  BY <1>1, ChangePersistence DEF Events!AppendEvent
<1>2. CASE Events!Clear
  BY <1>2, ChangePersistence DEF Events!Clear
<1>3. ASSUME NEW e \in Events!Events, Events!Refuse(e) PROVE Persistence'
  BY <1>3, WaitPersistence DEF Events!Refuse, Events!vars
<1>4. CASE Events!FlushCall
  <2>1. /\ eventOwner = "running" /\ eventOwner' = "flushing" /\ target' = revision
        /\ flushed' \in BOOLEAN /\ ~flushed'
        /\ UNCHANGED <<Events!log, pending, ready, persisted, file, eventWorker, copy,
                       copied, stop>>
    BY <1>4 DEF Events!FlushCall
  <2> QED
    BY <2>1 DEF Persistence, Counters, CopyIsRecent, FileIsPersisted, EndIsDrained,
         Events!NothingForgotten, Events!FlushIsTruthful, Writing
<1>5. CASE Events!FlushSleeps
  BY <1>5, WaitPersistence DEF Events!FlushSleeps
<1>6. CASE Events!FlushReturns
  BY <1>6 DEF Events!FlushReturns, Events!Covered, Persistence, Counters,
       CopyIsRecent, FileIsPersisted, EndIsDrained, Events!NothingForgotten,
       Events!FlushIsTruthful, Writing
<1>7. CASE Events!RequestStop
  BY <1>7 DEF Events!RequestStop, Persistence, Counters, CopyIsRecent, FileIsPersisted,
       EndIsDrained, Events!NothingForgotten, Events!FlushIsTruthful, Writing
<1>8. CASE Events!NotifyStop \/ Events!Join
  BY <1>8 DEF Events!NotifyStop, Events!Join, Persistence, Counters, CopyIsRecent,
       FileIsPersisted, EndIsDrained, Events!NothingForgotten, Events!FlushIsTruthful,
       Writing
<1>9. ASSUME NEW d \in {"batch", "retry"}, Events!Deadline(d) PROVE Persistence'
  BY <1>9, WaitPersistence DEF Events!Deadline
<1>10. CASE Events!WorkerTests \/ Events!WorkerSleeps
  BY <1>10, WaitPersistence DEF Events!WorkerTests, Events!WorkerSleeps
<1>11. CASE Events!WorkerTurns
  BY <1>11 DEF Events!WorkerTurns, Persistence, Counters, CopyIsRecent, FileIsPersisted,
       EndIsDrained, Events!NothingForgotten, Events!FlushIsTruthful, Writing
<1>12. CASE Events!WorkerStops
  <2>1. /\ stop /\ eventWorker' = "done" /\ eventWorker \in {"idle", "retry"}
        /\ eventWorker = "idle" => ~pending \/ ~ready
    BY <1>12 DEF Events!WorkerStops, Events!MayStop
  <2>2. UNCHANGED <<Events!log, Events!duty, file, copy, copied, eventOwner, Events!flush,
                    sleep, stop, failures>>
    BY <1>12 DEF Events!WorkerStops
  <2> QED
    BY <2>1, <2>2 DEF Persistence, Counters, CopyIsRecent, FileIsPersisted,
       EndIsDrained, Events!NothingForgotten, Events!FlushIsTruthful, Writing
<1>13. CASE Events!TakeCopy
  <2>1. /\ eventWorker \in {"batch", "retry"} /\ eventWorker' = "write"
        /\ copy' = events /\ copied' = revision /\ pending' \in BOOLEAN /\ ~pending'
        /\ UNCHANGED <<Events!log, ready, persisted, file, eventOwner, Events!flush, stop>>
    BY <1>13 DEF Events!TakeCopy, Events!MayCopy
  <2> QED
    BY <2>1 DEF Persistence, Counters, CopyIsRecent, FileIsPersisted,
       EndIsDrained, Events!NothingForgotten, Events!FlushIsTruthful, Writing
<1>14. CASE Events!CopyFails
  BY <1>14 DEF Events!CopyFails, Events!MayCopy, Events!Failed, Persistence, Counters,
       CopyIsRecent, FileIsPersisted, EndIsDrained, Events!NothingForgotten,
       Events!FlushIsTruthful, Writing
<1>15. CASE Events!Write
  BY <1>15 DEF Events!Write, Persistence, Counters, CopyIsRecent, FileIsPersisted,
       EndIsDrained, Events!NothingForgotten, Events!FlushIsTruthful, Writing
<1>16. CASE Events!Recorded
  BY <1>16 DEF Events!Recorded, Events!Report, Persistence, Counters, CopyIsRecent,
       FileIsPersisted, EndIsDrained, Events!NothingForgotten, Events!FlushIsTruthful,
       Writing
<1>17. CASE Events!RecordedFailure
  BY <1>17 DEF Events!RecordedFailure, Events!Failed, Persistence, Counters,
       CopyIsRecent, FileIsPersisted, EndIsDrained, Events!NothingForgotten,
       Events!FlushIsTruthful, Writing
<1>18. CASE Events!Notify
  BY <1>18 DEF Events!Notify, Persistence, Counters, CopyIsRecent, FileIsPersisted,
       EndIsDrained, Events!NothingForgotten, Events!FlushIsTruthful, Writing
<1>19. CASE UNCHANGED Events!vars
  BY <1>19, WaitPersistence DEF Events!vars
<1> QED
  BY <1>1, <1>2, <1>3, <1>4, <1>5, <1>6, <1>7, <1>8, <1>9, <1>10, <1>11, <1>12, <1>13,
     <1>14, <1>15, <1>16, <1>17, <1>18, <1>19
     DEF Events!Next, Events!Client, Events!Destructor, Events!Time, Events!Worker

LEMMA EventsStep == Persistence /\ [Events!Next]_ofEvents => Persistence'
<1>1. UNCHANGED ofEvents => UNCHANGED Events!vars
  BY DEF ofEvents, Events!vars, Events!log, Events!duty, Events!flush
<1> QED
  BY <1>1, NextPersistence

(***************************************************************************)
(* The hand-over of the telemetry worker.                                   *)
(***************************************************************************)

(* f is what the UI has been told after each of the first n chunks.         *)
TellsTo(f, u, sent, n) ==
    f = [i \in 0..n |->
            IF i = 0 THEN [delivered |-> u.delivered, game |-> u.game]
            ELSE IF sent[i].session = u.session
                 THEN HandOff!Consume(f[i - 1], sent[i])
            ELSE f[i - 1]]

(* One chunk more.                                                          *)
ToldBy(told, u, c) == IF c.session = u.session THEN HandOff!Consume(told, c) ELSE told

LEMMA TellingExists ==
  ASSUME NEW u, NEW sent, NEW n \in Nat
  PROVE  \E f : TellsTo(f, u, sent, n)
<1> DEFINE S == {k \in Nat : ~ \E f : TellsTo(f, u, sent, k)}
<1> SUFFICES ASSUME S # {} PROVE FALSE
  OBVIOUS
<1>1. PICK m \in S : \A k \in S : m <= k
  <2>1. S \in SUBSET Nat
    OBVIOUS
  <2> QED
    BY ONLY <2>1, S # {}, LeastExists
<1>2. CASE m = 0
  <2> DEFINE f == [i \in 0..0 |-> [delivered |-> u.delivered, game |-> u.game]]
  <2>1. TellsTo(f, u, sent, 0)
    BY DEF TellsTo
  <2> QED
    BY <2>1, <1>2, <1>1
<1>3. CASE m # 0
  <2>1. m - 1 \in Nat /\ m - 1 \notin S
    BY <1>1, <1>3
  <2>2. PICK f : TellsTo(f, u, sent, m - 1)
    BY <2>1
  <2> DEFINE g == [i \in 0..m |-> IF i < m THEN f[i] ELSE ToldBy(f[m - 1], u, sent[m])]
  <2>3. ASSUME NEW i \in 0..m
        PROVE g[i] = IF i = 0 THEN [delivered |-> u.delivered, game |-> u.game]
                     ELSE IF sent[i].session = u.session
                          THEN HandOff!Consume(g[i - 1], sent[i])
                     ELSE g[i - 1]
    <3>1. CASE i = m
      BY <3>1, <1>3, <2>1 DEF ToldBy
    <3>2. CASE i # m
      <4>1. i \in 0..(m - 1) /\ (i # 0 => i - 1 \in 0..(m - 1))
        BY <3>2
      <4>2. g[i] = f[i] /\ (i # 0 => g[i - 1] = f[i - 1])
        BY <4>1
      <4> QED
        BY <4>1, <4>2, <2>2 DEF TellsTo
    <3> QED
      BY <3>1, <3>2
  <2>4. TellsTo(g, u, sent, m)
    BY <2>3 DEF TellsTo
  <2> QED
    BY <2>4, <1>1
<1> QED
  BY <1>2, <1>3

(* Two tellings agree as far as what is told and the queues do.             *)
LEMMA TellingsAgree ==
  ASSUME NEW f, NEW g, NEW u, NEW v, NEW p, NEW q, NEW n \in Nat, NEW m \in Nat,
         TellsTo(f, u, p, n), TellsTo(g, v, q, m),
         u.session = v.session, u.delivered = v.delivered, u.game = v.game,
         NEW k \in Nat, k <= n, k <= m, \A i \in 1..k : p[i] = q[i]
  PROVE  f[k] = g[k]
<1> DEFINE S == {i \in 0..k : f[i] # g[i]}
<1> SUFFICES ASSUME S # {} PROVE FALSE
  OBVIOUS
<1>1. PICK i \in S : \A j \in S : i <= j
  <2>1. S \in SUBSET Nat
    OBVIOUS
  <2> QED
    BY ONLY <2>1, S # {}, LeastExists
<1>2. i \in 0..n /\ i \in 0..m
  OBVIOUS
<1>3. f[i] = IF i = 0 THEN [delivered |-> u.delivered, game |-> u.game]
             ELSE IF p[i].session = u.session THEN HandOff!Consume(f[i - 1], p[i])
             ELSE f[i - 1]
  BY <1>2 DEF TellsTo
<1>4. g[i] = IF i = 0 THEN [delivered |-> v.delivered, game |-> v.game]
             ELSE IF q[i].session = v.session THEN HandOff!Consume(g[i - 1], q[i])
             ELSE g[i - 1]
  BY <1>2 DEF TellsTo
<1>5. CASE i = 0
  BY <1>3, <1>4, <1>5
<1>6. CASE i # 0
  <2>1. i - 1 \in 0..k /\ i - 1 \notin S /\ i \in 1..k
    BY <1>1, <1>6
  <2>2. f[i - 1] = g[i - 1] /\ p[i] = q[i]
    BY <2>1
  <2> QED
    BY <1>3, <1>4, <1>6, <2>2
<1> QED
  BY <1>5, <1>6

LEMMA ConsumedTells ==
  ASSUME NEW u, NEW sent, Len(sent) \in Nat
  PROVE  \E f : TellsTo(f, u, sent, Len(sent))
                /\ HandOff!Consumed(u, sent) = f[Len(sent)]
<1> DEFINE f == CHOOSE told : TellsTo(told, u, sent, Len(sent))
<1>1. TellsTo(f, u, sent, Len(sent))
  BY TellingExists
<1>2. HandOff!Consumed(u, sent) = f[Len(sent)]
  BY DEF HandOff!Consumed, HandOff!Mine, TellsTo
<1> QED
  BY <1>1, <1>2

(* Nothing is told by an empty queue.                                       *)
LEMMA NothingConsumed ==
  ASSUME NEW u
  PROVE  HandOff!Consumed(u, <<>>) = [delivered |-> u.delivered, game |-> u.game]
<1>1. PICK f : TellsTo(f, u, <<>>, 0) /\ HandOff!Consumed(u, <<>>) = f[0]
  BY ConsumedTells
<1> QED
  BY <1>1 DEF TellsTo

(* One more chunk tells what it says after the others.                      *)
LEMMA ConsumedAppend ==
  ASSUME NEW T, NEW u, NEW sent \in Seq(T), NEW c \in T
  PROVE  HandOff!Consumed(u, Append(sent, c)) = ToldBy(HandOff!Consumed(u, sent), u, c)
<1> DEFINE n == Len(sent)
<1>1. /\ n \in Nat /\ Len(Append(sent, c)) = n + 1 /\ Append(sent, c)[n + 1] = c
      /\ \A i \in 1..n : Append(sent, c)[i] = sent[i]
  OBVIOUS
<1>2. PICK f : TellsTo(f, u, sent, n) /\ HandOff!Consumed(u, sent) = f[n]
  BY <1>1, ConsumedTells
<1>3. PICK g : /\ TellsTo(g, u, Append(sent, c), n + 1)
               /\ HandOff!Consumed(u, Append(sent, c)) = g[n + 1]
  <2>1. Len(Append(sent, c)) \in Nat
    BY <1>1
  <2> QED
    BY <2>1, <1>1, ConsumedTells
<1>4. f[n] = g[n]
  <2>1. n <= n /\ n <= n + 1 /\ n + 1 \in Nat /\ \A i \in 1..n : sent[i] = Append(sent, c)[i]
    BY <1>1
  <2> HIDE DEF n
  <2>2. ASSUME NEW p, TellsTo(g, u, p, n + 1), \A i \in 1..n : sent[i] = p[i]
        PROVE  f[n] = g[n]
    <3>1. n \in Nat /\ n + 1 \in Nat /\ n <= n /\ n <= n + 1 /\ TellsTo(f, u, sent, n)
      BY <1>1, <2>1, <1>2
    <3> QED
      BY ONLY <3>1, <2>2, TellingsAgree
  <2> QED
    BY <2>1, <2>2, <1>3
<1>5. g[n + 1] = ToldBy(g[n], u, Append(sent, c)[n + 1])
  BY <1>1, <1>3 DEF TellsTo, ToldBy
<1> QED
  BY <1>1, <1>2, <1>3, <1>4, <1>5

(* Only what the UI was told before matters.                                *)
LEMMA ConsumedOf ==
  ASSUME NEW u, NEW v, NEW sent, Len(sent) \in Nat,
         u.session = v.session, u.delivered = v.delivered, u.game = v.game
  PROVE  HandOff!Consumed(u, sent) = HandOff!Consumed(v, sent)
<1>1. PICK f : TellsTo(f, u, sent, Len(sent)) /\ HandOff!Consumed(u, sent) = f[Len(sent)]
  BY ConsumedTells
<1>2. PICK g : TellsTo(g, v, sent, Len(sent)) /\ HandOff!Consumed(v, sent) = g[Len(sent)]
  BY ConsumedTells
<1>3. f[Len(sent)] = g[Len(sent)]
  BY <1>1, <1>2, TellingsAgree
<1> QED
  BY <1>1, <1>2, <1>3

Bound == Sessions \cup {"absent"}
Chunks == [session : Sessions, reset : BOOLEAN, catching : BOOLEAN, events : SUBSET Nat,
           selected : SUBSET Nat, game : Nat, began : Nat]
Readers == [session : Bound, bound : BOOLEAN, offset : Nat, catching : BOOLEAN, began : Nat]
Samples == [gen : Nat, process : Nat, gpu : Nat]
Screens == [session : Bound, gen : Nat, delivered : SUBSET Nat, game : Nat, process : Nat,
            gpu : Nat]
Requests == [gen : Nat, binding : HandOff!Bindings \cup {HandOff!Unbound},
             group : HandOff!Groups]

HandTypes ==
    /\ grown \in [Sessions -> Nat] /\ generation \in Nat
    /\ binding \in HandOff!Bindings \cup {HandOff!Unbound}
    /\ resetLog \in BOOLEAN /\ stopped \in BOOLEAN /\ chunkLost \in BOOLEAN
    /\ group \in HandOff!Groups /\ counters \in Samples
    /\ workerPc \in {"wait", "reset", "log", "publish"} /\ request \in Requests
    /\ workerPc \in {"log", "publish"} => request.binding \in HandOff!Bindings
    /\ logReader \in Readers /\ catchUp \in SUBSET Nat
    /\ ui \in Screens
    /\ chunks \in Seq(Chunks)
    /\ chunk = <<>> \/ \E c \in Chunks : chunk = <<c>>
    /\ prewarmed \in [Sessions -> [1..MaxGrowth -> Nat]]

LEMMA InitHandTypes == HandOff!Init => HandTypes
<1> SUFFICES ASSUME HandOff!Init PROVE HandTypes
  OBVIOUS
<1>1. grown \in [Sessions -> Nat] /\ prewarmed \in [Sessions -> [1..MaxGrowth -> Nat]]
  BY DEF HandOff!Init
<1>2. counters \in Samples /\ logReader \in Readers /\ ui \in Screens
  BY DEF HandOff!Init, HandOff!NoSample, HandOff!NoReader, HandOff!Detached,
       HandOff!Absent, Bound, Readers, Samples, Screens
<1>3. request \in Requests /\ group \in HandOff!Groups
  BY DEF HandOff!Init, HandOff!Groups, Requests
<1>4. chunks \in Seq(Chunks) /\ catchUp \in SUBSET Nat
  BY DEF HandOff!Init
<1> QED
  BY <1>1, <1>2, <1>3, <1>4 DEF HandOff!Init, HandTypes

LEMMA HandCardinality == \A S : HandOff!Cardinality(S) = Cardinality(S)
BY DEF HandOff!Cardinality, Cardinality

(* A sequence of chunks that is empty or holds one.                         *)
LEMMA ChunkIsSequence == HandTypes => chunk \in Seq(Chunks) /\ Len(chunk) \in {0, 1}
<1> SUFFICES ASSUME HandTypes PROVE chunk \in Seq(Chunks) /\ Len(chunk) \in {0, 1}
  OBVIOUS
<1>1. CASE chunk = <<>>
  BY <1>1
<1>2. ASSUME NEW c \in Chunks, chunk = <<c>> PROVE chunk \in Seq(Chunks) /\ Len(chunk) \in {0, 1}
  BY <1>2
<1> QED
  BY <1>1, <1>2 DEF HandTypes

LEMMA ConsumedTypes ==
  ASSUME NEW u \in Screens, NEW sent \in Seq(Chunks)
  PROVE  HandOff!Consumed(u, sent) \in [delivered : SUBSET Nat, game : Nat]
<1> DEFINE T == [delivered : SUBSET Nat, game : Nat]
<1>1. PICK f : TellsTo(f, u, sent, Len(sent)) /\ HandOff!Consumed(u, sent) = f[Len(sent)]
  BY ConsumedTells
<1> DEFINE S == {k \in 0..Len(sent) : f[k] \notin T}
<1>2. ASSUME S # {} PROVE FALSE
  <2>1. PICK m \in S : \A k \in S : m <= k
    <3>1. S \in SUBSET Nat
      OBVIOUS
    <3> QED
      BY ONLY <3>1, <1>2, LeastExists
  <2>2. CASE m = 0
    <3>1. f[0] = [delivered |-> u.delivered, game |-> u.game]
      BY <1>1 DEF TellsTo
    <3> QED
      BY <3>1, <2>2 DEF Screens
  <2>3. CASE m # 0
    <3>1. m - 1 \in 0..Len(sent) /\ m - 1 \notin S /\ m \in 1..Len(sent)
      BY <2>1, <2>3
    <3>2. f[m - 1] \in T /\ sent[m] \in Chunks
      BY <3>1
    <3>3. f[m] = ToldBy(f[m - 1], u, sent[m])
      BY <1>1, <2>3 DEF TellsTo, ToldBy
    <3>4. ToldBy(f[m - 1], u, sent[m]) \in T
      BY <3>2 DEF ToldBy, HandOff!Consume, Chunks
    <3> QED
      BY <3>3, <3>4
  <2> QED
    BY <2>2, <2>3
<1> QED
  BY <1>1, <1>2

(* The reader of the requested process, and what it kept back.              *)
LEMMA ReaderTyped ==
  ASSUME HandTypes, workerPc = "log"
  PROVE  /\ request.binding.session \in Sessions
         /\ HandOff!Reader \in Readers /\ HandOff!Kept \in SUBSET Nat
         /\ HandOff!Reader.session = request.binding.session
<1>1. request.binding.session \in Sessions /\ logReader \in Readers /\ catchUp \in SUBSET Nat
  BY DEF HandTypes, HandOff!Bindings
<1> QED
  BY <1>1 DEF HandOff!Reader, HandOff!Kept, Readers, HandOff!NoReader, Bound

LEMMA HandTypesStep ==
  ASSUME HandOff!WorkerAssumption, HandTypes, HandOff!Next PROVE HandTypes'
<1> USE DEF HandOff!world, HandOff!shared, HandOff!worker, HandOff!Absent
<1>1. ASSUME NEW s \in Sessions, HandOff!GameLogs(s) PROVE HandTypes'
  <2>1. grown' = [grown EXCEPT ![s] = @ + 1]
    BY <1>1 DEF HandOff!GameLogs
  <2>2. grown' \in [Sessions -> Nat]
    BY <2>1 DEF HandTypes
  <2> QED
    BY <1>1, <2>2 DEF HandOff!GameLogs, HandTypes
<1>2. ASSUME NEW b \in HandOff!Bindings, HandOff!Bind(b) PROVE HandTypes'
  <2>1. ui' = [[ui EXCEPT !.gen = generation', !.process = 0, !.gpu = 0]
                  EXCEPT !.session = b.session]
    BY <1>2 DEF HandOff!Bind, HandOff!CacheReset
  <2>2. generation' \in Nat /\ group' \in HandOff!Groups /\ counters' \in Samples
    BY <1>2 DEF HandOff!Bind, HandOff!NewGeneration, HandTypes, HandOff!Groups,
         HandOff!NoSample, Samples
  <2>3. b.session \in Bound
    BY DEF HandOff!Bindings, Bound
  <2>4. ui' \in Screens
    BY <2>1, <2>2, <2>3 DEF HandTypes, Screens
  <2>5. chunks' \in Seq(Chunks) /\ resetLog' \in BOOLEAN /\ binding' \in HandOff!Bindings
    <3>1. binding' = b
      BY <1>2 DEF HandOff!Bind
    <3>2. \/ chunks' = chunks /\ resetLog' = resetLog
          \/ chunks' = <<>> /\ resetLog' = TRUE
      BY <1>2 DEF HandOff!Bind
    <3>3. <<>> \in Seq(Chunks)
      OBVIOUS
    <3> QED
      BY <3>1, <3>2, <3>3 DEF HandTypes
  <2> QED
    BY <1>2, <2>2, <2>4, <2>5 DEF HandOff!Bind, HandTypes
<1>3. CASE HandOff!Clear
  <2>1. generation' \in Nat /\ group' \in HandOff!Groups /\ counters' \in Samples
    BY <1>3 DEF HandOff!Clear, HandOff!NewGeneration, HandTypes, HandOff!Groups,
         HandOff!NoSample, Samples
  <2>2. ui' \in Screens
    BY <1>3 DEF HandOff!Clear, HandOff!Detached, Screens, Bound
  <2> QED
    BY <1>3, <2>1, <2>2 DEF HandOff!Clear, HandTypes
<1>4. CASE HandOff!Request
  BY <1>4 DEF HandOff!Request, HandTypes
<1>5. CASE HandOff!Adopt
  <2>1. ui' \in Screens
    BY <1>5 DEF HandOff!Adopt, HandTypes, Screens, Samples
  <2> QED
    BY <1>5, <2>1 DEF HandOff!Adopt, HandTypes
<1>6. CASE HandOff!Stop
  BY <1>6 DEF HandOff!Stop, HandTypes
<1>7. ASSUME NEW mapChanged \in BOOLEAN, HandOff!Take(mapChanged) PROVE HandTypes'
  <2> DEFINE told == HandOff!Consumed(ui, chunks)
             after == [ui EXCEPT !.delivered = told.delivered, !.game = told.game]
  <2>1. told \in [delivered : SUBSET Nat, game : Nat]
    BY ConsumedTypes DEF HandTypes
  <2>2. generation' \in Nat /\ group' \in HandOff!Groups /\ counters' \in Samples
    BY <1>7 DEF HandOff!Take, HandOff!NewGeneration, HandTypes, HandOff!Groups,
         HandOff!NoSample, Samples
  <2>3. after \in Screens
    <3> HIDE DEF told
    <3> QED
      BY <2>1 DEF HandTypes, Screens
  <2>4. ui' \in {after, [after EXCEPT !.gen = generation', !.process = 0, !.gpu = 0]}
    BY <1>7 DEF HandOff!Take, HandOff!CacheReset
  <2>5. ui' \in Screens
    <3> HIDE DEF after
    <3>1. [after EXCEPT !.gen = generation', !.process = 0, !.gpu = 0] \in Screens
      BY <2>2, <2>3 DEF Screens
    <3> QED
      BY <2>3, <2>4, <3>1
  <2>6. prewarmed' \in [Sessions -> [1..MaxGrowth -> Nat]]
    <3>1. ASSUME NEW s \in Sessions, NEW n \in 1..MaxGrowth
          PROVE  HandOff!Selections(chunks, s, n) \in Nat
      <4>1. IsFiniteSet(DOMAIN chunks)
        BY FS_Interval DEF HandTypes
      <4>2. IsFiniteSet({i \in DOMAIN chunks : chunks[i].session = s
                                               /\ n \in chunks[i].selected})
        BY <4>1, FS_Subset
      <4> QED
        BY <4>2, FS_CardinalityType, HandCardinality DEF HandOff!Selections
    <3>2. prewarmed' = [s \in Sessions |-> [n \in 1..MaxGrowth |->
                            IF s # ui.session THEN prewarmed[s][n]
                            ELSE prewarmed[s][n] + HandOff!Selections(chunks, s, n)]]
      BY <1>7 DEF HandOff!Take
    <3> QED
      BY <3>1, <3>2 DEF HandTypes
  <2> QED
    BY <1>7, <2>2, <2>5, <2>6 DEF HandOff!Take, HandTypes
<1>8. CASE HandOff!WakeToReset
  BY <1>8 DEF HandOff!WakeToReset, HandTypes
<1>9. CASE HandOff!CloseLog
  BY <1>9 DEF HandOff!CloseLog, HandTypes, HandOff!NoReader, Readers, Bound
<1>10. CASE HandOff!WakeToSample
  <2>1. request' \in Requests /\ binding \in HandOff!Bindings /\ request'.binding = binding
    BY <1>10 DEF HandOff!WakeToSample, HandTypes, Requests
  <2>2. group' \in HandOff!Groups
    BY <1>10 DEF HandOff!WakeToSample, HandTypes, HandOff!OtherGroup, HandOff!Groups
  <2> QED
    BY <1>10, <2>1, <2>2 DEF HandOff!WakeToSample, HandTypes
<1>11. CASE HandOff!ReadLog
  <2>1. request.binding.session \in Sessions /\ logReader \in Readers /\ catchUp \in SUBSET Nat
    BY <1>11, ReaderTyped DEF HandOff!ReadLog, HandTypes
  <2>2. HandOff!Reader \in Readers /\ HandOff!Kept \in SUBSET Nat
        /\ HandOff!Reader.session \in Sessions
    BY <1>11, ReaderTyped DEF HandOff!ReadLog
  <2>3. /\ logReader' \in Readers /\ catchUp' \in SUBSET Nat /\ chunkLost' \in BOOLEAN
        /\ chunk' = <<>> \/ \E c \in Chunks : chunk' = <<c>>
    <3>1. CASE HandOff!NothingRead
      BY <3>1, <2>2 DEF HandOff!NothingRead, HandTypes
    <3>2. CASE HandOff!Rejected
      BY <3>2, <2>1, <2>2 DEF HandOff!Rejected, HandTypes, HandOff!Chunk, HandOff!NoReader,
           Chunks, Readers, Bound
    <3>3. ASSUME NEW n \in 0..MaxGrowth, NEW gap \in BOOLEAN, HandOff!Reads(n, gap)
          PROVE  /\ logReader' \in Readers /\ catchUp' \in SUBSET Nat
                 /\ chunkLost' \in BOOLEAN
                 /\ chunk' = <<>> \/ \E c \in Chunks : chunk' = <<c>>
      <4> DEFINE r == HandOff!Reader
                 kept == HandOff!Kept
                 end == r.offset + n
                 caught == end = grown[r.session]
                 new == (r.offset + 1)..end
                 historical == HandOff!Historical(r, gap, caught)
                 old == (IF ~r.bound THEN {} ELSE kept) \cup new
                 made(began) ==
                     HandOff!Chunk(~r.bound, n > 0 /\ ~caught,
                                   IF n = 0 \/ ~caught THEN {}
                                   ELSE IF historical THEN old ELSE new,
                                   IF historical THEN {} ELSE new,
                                   IF n > 0 /\ caught THEN end ELSE 0, began)
      <4>1. /\ logReader' = [r EXCEPT !.bound = TRUE, !.offset = end,
                               !.catching = IF n = 0 THEN ~(~r.bound) /\ @ ELSE ~caught,
                               !.began = IF ~r.bound THEN grown[r.session] ELSE @]
            /\ chunk' = <<>> \/ chunk' = <<made(logReader'.began)>>
            /\ catchUp' \in {{}, kept, old}
            /\ chunkLost' \in {FALSE, chunkLost}
        BY <3>3 DEF HandOff!Reads
      <4>2. /\ r \in Readers /\ kept \in SUBSET Nat /\ r.session \in Sessions
            /\ grown[r.session] \in Nat /\ n \in Nat /\ end \in Nat
        BY <2>2 DEF HandTypes, Readers, HandOff!WorkerAssumption
      <4> HIDE DEF r, kept
      <4>3. new \in SUBSET Nat /\ old \in SUBSET Nat
        <5>1. r.offset \in Nat
          BY <4>2 DEF Readers
        <5>2. new \in SUBSET Nat
          BY <5>1
        <5> HIDE DEF new
        <5> QED
          BY <4>2, <5>2
      <4>4. logReader' \in Readers
        <5> DEFINE now1 == IF n = 0 THEN ~(~r.bound) /\ r.catching ELSE ~caught
        <5>1. now1 \in BOOLEAN
          BY <4>2 DEF Readers
        <5>2. logReader' = [r EXCEPT !.bound = TRUE, !.offset = end, !.catching = now1,
                               !.began = IF ~r.bound THEN grown[r.session] ELSE r.began]
          BY <4>1, <4>2 DEF Readers
        <5> HIDE DEF now1, end
        <5> QED
          BY <5>1, <5>2, <4>2 DEF Readers
      <4>5. made(logReader'.began) \in Chunks
        <5>1. request.binding.session \in Sessions /\ logReader'.began \in Nat
          BY <4>4, <2>1 DEF Readers
        <5>2. (~r.bound) \in BOOLEAN /\ (n > 0 /\ ~caught) \in BOOLEAN
          OBVIOUS
        <5> HIDE DEF caught, end, new, old, historical
        <5> QED
          BY <5>1, <5>2, <4>2, <4>3 DEF HandOff!Chunk, Chunks
      <4>6. catchUp' \in SUBSET Nat /\ chunkLost' \in BOOLEAN
        <5> HIDE DEF old
        <5> QED
          BY <4>1, <4>2, <4>3 DEF HandTypes
      <4> QED
        BY <4>1, <4>4, <4>5, <4>6
    <3> QED
      BY <1>11, <3>1, <3>2, <3>3 DEF HandOff!ReadLog
  <2> QED
    BY <1>11, <2>3 DEF HandOff!ReadLog, HandTypes
<1>12. CASE HandOff!Publish
  <2>1. chunks' \in Seq(Chunks)
    <3>1. chunk \in Seq(Chunks)
      BY ChunkIsSequence
    <3> QED
      BY <3>1, <1>12 DEF HandOff!Publish, HandTypes
  <2>2. counters' \in Samples
    <3> DEFINE base == IF counters.gen = request.gen THEN counters
                       ELSE [HandOff!NoSample EXCEPT !.gen = request.gen]
    <3>1. base \in Samples /\ request.gen \in Nat /\ request.group \in {"process", "gpu"}
      BY DEF HandTypes, Samples, Requests, HandOff!NoSample, HandOff!Groups
    <3>2. counters' = counters \/ counters' = [base EXCEPT ![request.group] = request.gen]
      BY <1>12 DEF HandOff!Publish
    <3> HIDE DEF base
    <3>3. [base EXCEPT ![request.group] = request.gen] \in Samples
      <4>1. CASE request.group = "process"
        BY <3>1, <4>1 DEF Samples
      <4>2. CASE request.group = "gpu"
        BY <3>1, <4>2 DEF Samples
      <4> QED
        BY <3>1, <4>1, <4>2
    <3> QED
      BY <3>2, <3>3 DEF HandTypes
  <2> QED
    BY <1>12, <2>1, <2>2 DEF HandOff!Publish, HandTypes
<1>13. CASE HandOff!PublishFails
  BY <1>13 DEF HandOff!PublishFails, HandTypes, HandOff!NoSample, Samples
<1> QED
  BY <1>1, <1>2, <1>3, <1>4, <1>5, <1>6, <1>7, <1>8, <1>9, <1>10, <1>11, <1>12, <1>13
     DEF HandOff!Next, HandOff!Worker

(* What belongs to a binding that went away is void.                        *)
Serving == workerPc \in {"log", "publish"}
Away == resetLog \/ workerPc = "reset" \/ ui.session = "absent" \/ logReader.session # ui.session
Void == ui.delivered = {} /\ ui.game = 0 /\ chunks = <<>>

BindingFollows ==
    /\ binding.session = ui.session
    /\ workerPc # "publish" => chunk = <<>>
    /\ workerPc = "publish" => logReader.session = request.binding.session
    /\ ~stopped /\ Serving /\ request.binding.session # ui.session => resetLog
    /\ ~stopped /\ Away => Void

(* The reader has not read beyond the end, and is behind what was there     *)
(* when it opened the file only while it catches up.                        *)
ReadingOrdered ==
    /\ ~logReader.bound => logReader.offset = 0 /\ logReader.catching = FALSE
    /\ logReader.bound =>
          /\ logReader.session \in Sessions
          /\ logReader.began <= grown[logReader.session]
          /\ logReader.offset <= grown[logReader.session]
          /\ logReader.catching = FALSE => logReader.began <= logReader.offset

LEMMA InitBinding == HandOff!Init => BindingFollows /\ ReadingOrdered
BY DEF HandOff!Init, HandOff!Unbound, HandOff!Detached, HandOff!NoReader, HandOff!Absent,
     BindingFollows, ReadingOrdered, Serving, Away, Void

LEMMA BindingStep ==
  ASSUME HandOff!WorkerAssumption, HandTypes, BindingFollows, HandOff!Next
  PROVE  BindingFollows'
<1> USE DEF HandOff!world, HandOff!shared, HandOff!worker, HandOff!Absent, Serving
<1>1. ASSUME NEW s \in Sessions, HandOff!GameLogs(s) PROVE BindingFollows'
  BY <1>1 DEF HandOff!GameLogs, BindingFollows, Away, Void
<1>2. ASSUME NEW b \in HandOff!Bindings, HandOff!Bind(b) PROVE BindingFollows'
  <2>1. /\ ui'.session = b.session /\ ui'.delivered = ui.delivered /\ ui'.game = ui.game
        /\ binding' = b /\ b.session \in Sessions /\ "absent" \notin Sessions
        /\ UNCHANGED <<stopped, workerPc, request, logReader, chunk>>
        /\ ~stopped /\ (ui.session = b.session \/ ui.session = "absent")
    BY <1>2 DEF HandOff!Bind, HandOff!CacheReset, HandTypes, Screens, HandOff!Bindings,
         HandOff!WorkerAssumption
  <2>2. CASE binding # HandOff!Unbound /\ HandOff!SameSession(binding, b)
    <3>1. UNCHANGED <<chunks, resetLog>> /\ ui.session = b.session
      BY <1>2, <2>2 DEF HandOff!Bind, HandOff!SameSession, BindingFollows
    <3> QED
      BY <2>1, <3>1 DEF BindingFollows, Away, Void
  <2>3. CASE ~(binding # HandOff!Unbound /\ HandOff!SameSession(binding, b))
    <3>1. chunks' = <<>> /\ resetLog' = TRUE
      BY <1>2, <2>3 DEF HandOff!Bind
    <3>2. ui.session = "absent"
      BY <2>1, <2>3 DEF HandTypes, HandOff!SameSession, HandOff!Unbound, BindingFollows
    <3> QED
      BY <2>1, <3>1, <3>2 DEF BindingFollows, Away, Void
  <2> QED
    BY <2>2, <2>3
<1>3. CASE HandOff!Clear
  BY <1>3 DEF HandOff!Clear, HandOff!Detached, HandOff!Unbound, BindingFollows, Away, Void
<1>4. CASE HandOff!Request
  BY <1>4 DEF HandOff!Request, BindingFollows, Away, Void
<1>5. CASE HandOff!Adopt
  BY <1>5 DEF HandOff!Adopt, HandTypes, Screens, BindingFollows, Away, Void
<1>6. CASE HandOff!Stop
  BY <1>6 DEF HandOff!Stop, BindingFollows
<1>7. ASSUME NEW mapChanged \in BOOLEAN, HandOff!Take(mapChanged) PROVE BindingFollows'
  <2>1. /\ ui'.session = ui.session /\ chunks # <<>> /\ ~stopped
        /\ UNCHANGED <<binding, resetLog, stopped, workerPc, request, logReader, chunk>>
    BY <1>7 DEF HandOff!Take, HandOff!CacheReset, HandTypes, Screens
  <2> QED
    BY <2>1 DEF BindingFollows, Away, Void
<1>8. CASE HandOff!WakeToReset
  BY <1>8 DEF HandOff!WakeToReset, BindingFollows, Away, Void
<1>9. CASE HandOff!CloseLog
  BY <1>9 DEF HandOff!CloseLog, HandOff!NoReader, BindingFollows, Away, Void
<1>10. CASE HandOff!WakeToSample
  BY <1>10 DEF HandOff!WakeToSample, BindingFollows, Away, Void
<1>11. CASE HandOff!ReadLog
  <2>1. logReader'.session = request.binding.session
    <3>1. HandOff!Reader.session = request.binding.session /\ HandOff!Reader \in Readers
      BY <1>11, ReaderTyped DEF HandOff!ReadLog
    <3> QED
      BY <1>11, <3>1 DEF HandOff!ReadLog, HandOff!NothingRead, HandOff!Rejected,
           HandOff!Reads, HandOff!NoReader, Readers
  <2>2. /\ workerPc = "log" /\ workerPc' = "publish"
        /\ UNCHANGED <<binding, resetLog, stopped, chunks, request, ui>>
    BY <1>11 DEF HandOff!ReadLog
  <2> QED
    BY <2>1, <2>2 DEF BindingFollows, Away, Void
<1>12. CASE HandOff!Publish
  <2>1. /\ workerPc = "publish" /\ workerPc' = "wait" /\ chunk' = <<>>
        /\ UNCHANGED <<binding, resetLog, stopped, request, logReader, ui>>
        /\ HandOff!ChunkWanted \/ chunks' = chunks
    BY <1>12 DEF HandOff!Publish
  <2>2. ASSUME HandOff!ChunkWanted PROVE ~Away'
    <3>1. binding \in HandOff!Bindings /\ ~resetLog /\ binding.session = request.binding.session
      BY <2>2 DEF HandOff!ChunkWanted, HandOff!SameSession, HandTypes
    <3>2. binding.session # "absent"
      BY <3>1 DEF HandOff!Bindings, HandOff!WorkerAssumption
    <3> QED
      BY <2>1, <3>1, <3>2 DEF BindingFollows, Away
  <2> QED
    BY <2>1, <2>2 DEF BindingFollows, Away, Void
<1>13. CASE HandOff!PublishFails
  BY <1>13 DEF HandOff!PublishFails, BindingFollows, Away, Void
<1> QED
  BY <1>1, <1>2, <1>3, <1>4, <1>5, <1>6, <1>7, <1>8, <1>9, <1>10, <1>11, <1>12, <1>13
     DEF HandOff!Next, HandOff!Worker

LEMMA ReadingOrderedStep ==
  ASSUME HandOff!WorkerAssumption, HandTypes, ReadingOrdered, HandOff!Next
  PROVE  ReadingOrdered'
<1> USE DEF HandOff!world, HandOff!shared, HandOff!worker, HandOff!Absent
<1>1. ASSUME NEW s \in Sessions, HandOff!GameLogs(s) PROVE ReadingOrdered'
  <2>1. UNCHANGED logReader /\ \A t \in Sessions : grown[t] \in Nat /\ grown'[t] >= grown[t]
    BY <1>1 DEF HandOff!GameLogs, HandTypes
  <2>2. logReader.began \in Nat /\ logReader.offset \in Nat
    BY DEF HandTypes, Readers
  <2>3. grown' \in [Sessions -> Nat]
    BY HandTypesStep DEF HandTypes
  <2> QED
    BY <2>1, <2>2, <2>3 DEF ReadingOrdered
<1>2. CASE UNCHANGED <<logReader, grown>>
  BY <1>2 DEF ReadingOrdered
<1>3. CASE HandOff!CloseLog
  BY <1>3 DEF HandOff!CloseLog, HandOff!NoReader, ReadingOrdered
<1>4. CASE HandOff!ReadLog
  <2>1. /\ request.binding.session \in Sessions /\ grown' = grown
        /\ grown[request.binding.session] \in Nat
    BY <1>4 DEF HandOff!ReadLog, HandTypes, HandOff!Bindings
  <2> DEFINE r == HandOff!Reader
  <2>2. /\ r \in Readers /\ r.session = request.binding.session
        /\ ~r.bound => r.offset = 0 /\ r.catching = FALSE
        /\ r.bound => /\ r.began <= grown[r.session]
                      /\ r.offset <= grown[r.session]
                      /\ r.catching = FALSE => r.began <= r.offset
    BY <2>1 DEF HandOff!Reader, HandOff!NoReader, HandTypes, Readers, Bound, ReadingOrdered
  <2> HIDE DEF r
  <2>3. CASE HandOff!NothingRead
    <3>1. logReader' = r
      BY <2>3 DEF HandOff!NothingRead, r
    <3> QED
      BY <2>1, <2>2, <3>1 DEF ReadingOrdered
  <2>4. CASE HandOff!Rejected
    BY <2>4 DEF HandOff!Rejected, HandOff!NoReader, ReadingOrdered
  <2>5. ASSUME NEW n \in 0..MaxGrowth, NEW gap \in BOOLEAN, HandOff!Reads(n, gap)
        PROVE  ReadingOrdered'
    <3> DEFINE end == r.offset + n
               caught == end = grown[r.session]
               nowCatching == IF n = 0 THEN ~(~r.bound) /\ r.catching ELSE ~caught
    <3>1. /\ logReader' = [r EXCEPT !.bound = TRUE, !.offset = end, !.catching = nowCatching,
                              !.began = IF ~r.bound THEN grown[r.session] ELSE r.began]
          /\ end <= grown[r.session] /\ (n = 0 => caught)
      BY <2>5, <2>2 DEF HandOff!Reads, r, Readers
    <3>2. n \in Nat /\ r.offset \in Nat /\ r.began \in Nat /\ grown[r.session] \in Nat
      BY <2>1, <2>2 DEF HandOff!WorkerAssumption, Readers
    <3>6. nowCatching \in BOOLEAN
      BY <2>2 DEF Readers
    <3> HIDE DEF nowCatching
    <3>3. /\ logReader'.bound = TRUE /\ logReader'.session = r.session
          /\ logReader'.offset = end /\ (logReader'.catching <=> nowCatching)
          /\ logReader'.began = IF ~r.bound THEN grown[r.session] ELSE r.began
      BY <3>1, <3>6, <2>2 DEF Readers
    <3>4. ~nowCatching => logReader'.began <= logReader'.offset
      BY <3>1, <3>2, <3>3, <2>2 DEF nowCatching
    <3>5. logReader'.began <= grown[r.session] /\ logReader'.offset <= grown[r.session]
      BY <3>1, <3>2, <3>3, <2>2
    <3> QED
      BY <3>3, <3>4, <3>5, <2>1, <2>2 DEF ReadingOrdered
  <2> QED
    BY <1>4, <2>3, <2>4, <2>5 DEF HandOff!ReadLog
<1>5. ASSUME NEW b \in HandOff!Bindings, HandOff!Bind(b) PROVE UNCHANGED <<logReader, grown>>
  BY <1>5 DEF HandOff!Bind
<1>6. ASSUME NEW mapChanged \in BOOLEAN, HandOff!Take(mapChanged)
      PROVE  UNCHANGED <<logReader, grown>>
  BY <1>6 DEF HandOff!Take
<1>7. ASSUME HandOff!Clear \/ HandOff!Request \/ HandOff!Adopt \/ HandOff!Stop
             \/ HandOff!WakeToReset \/ HandOff!WakeToSample \/ HandOff!Publish
             \/ HandOff!PublishFails
      PROVE  UNCHANGED <<logReader, grown>>
  BY <1>7 DEF HandOff!Clear, HandOff!Request, HandOff!Adopt, HandOff!Stop,
       HandOff!WakeToReset, HandOff!WakeToSample, HandOff!Publish, HandOff!PublishFails
<1> QED
  BY <1>1, <1>2, <1>3, <1>4, <1>5, <1>6, <1>7 DEF HandOff!Next, HandOff!Worker

LEMMA InitSamples == HandOff!Init => HandOff!SamplesAreCurrent
BY DEF HandOff!Init, HandOff!SamplesAreCurrent, HandOff!NoSample, HandOff!Detached

LEMMA SamplesStep ==
  ASSUME HandOff!WorkerAssumption, HandTypes, BindingFollows, HandOff!SamplesAreCurrent,
         HandOff!Next
  PROVE  HandOff!SamplesAreCurrent'
<1> USE DEF HandOff!world, HandOff!shared, HandOff!worker, HandOff!SamplesAreCurrent,
            HandOff!Absent
<1>1. CASE UNCHANGED <<generation, counters, ui>>
  BY <1>1
<1>2. ASSUME NEW b \in HandOff!Bindings, HandOff!Bind(b) PROVE HandOff!SamplesAreCurrent'
  BY <1>2 DEF HandOff!Bind, HandOff!NewGeneration, HandOff!CacheReset, HandOff!NoSample,
       HandTypes, Screens
<1>3. CASE HandOff!Clear
  BY <1>3 DEF HandOff!Clear, HandOff!NewGeneration, HandOff!NoSample, HandOff!Detached
<1>4. CASE HandOff!Adopt
  BY <1>4 DEF HandOff!Adopt, HandTypes, Screens, Samples
<1>5. ASSUME NEW mapChanged \in BOOLEAN, HandOff!Take(mapChanged)
      PROVE  HandOff!SamplesAreCurrent'
  <2> DEFINE told == HandOff!Consumed(ui, chunks)
             after == [ui EXCEPT !.delivered = told.delivered, !.game = told.game]
  <2>1. /\ after.session = ui.session /\ after.gen = ui.gen
        /\ after.process = ui.process /\ after.gpu = ui.gpu
    BY DEF HandTypes, Screens
  <2>2. DOMAIN after = {"session", "gen", "delivered", "game", "process", "gpu"}
    BY DEF HandTypes, Screens
  <2>3. CASE mapChanged
    <3>1. /\ ui' = [after EXCEPT !.gen = generation', !.process = 0, !.gpu = 0]
          /\ HandOff!NewGeneration
      BY <1>5, <2>3 DEF HandOff!Take, HandOff!CacheReset
    <3> HIDE DEF after
    <3> QED
      BY <3>1, <2>1, <2>2 DEF HandOff!NewGeneration, HandOff!NoSample
  <2>4. CASE ~mapChanged
    <3>1. ui' = after /\ UNCHANGED <<generation, counters>>
      BY <1>5, <2>4 DEF HandOff!Take
    <3> HIDE DEF after
    <3> QED
      BY <3>1, <2>1
  <2> QED
    BY <2>3, <2>4
<1>6. CASE HandOff!Publish
  <2> DEFINE base == IF counters.gen = request.gen THEN counters
                     ELSE [HandOff!NoSample EXCEPT !.gen = request.gen]
  <2>1. UNCHANGED <<generation, ui>>
    BY <1>6 DEF HandOff!Publish
  <2>2. CASE ~HandOff!SampleWanted
    BY <1>6, <2>1, <2>2 DEF HandOff!Publish
  <2>3. CASE HandOff!SampleWanted
    <3>1. /\ counters' = [base EXCEPT ![request.group] = request.gen]
          /\ request.gen = generation
      BY <1>6, <2>3 DEF HandOff!Publish, HandOff!SampleWanted
    <3>2. /\ base \in Samples /\ request.group \in {"process", "gpu"}
          /\ base.gen = request.gen /\ {base.process, base.gpu} \subseteq {0, request.gen}
      BY DEF HandTypes, Samples, Requests, HandOff!NoSample, HandOff!Groups
    <3> HIDE DEF base
    <3>3. /\ counters'.gen = generation
          /\ {counters'.process, counters'.gpu} \subseteq {0, generation}
      <4>1. CASE request.group = "process"
        BY <3>1, <3>2, <4>1 DEF Samples
      <4>2. CASE request.group = "gpu"
        BY <3>1, <3>2, <4>2 DEF Samples
      <4> QED
        BY <3>2, <4>1, <4>2
    <3> QED
      BY <2>1, <3>3
  <2> QED
    BY <2>2, <2>3
<1>7. CASE HandOff!PublishFails
  BY <1>7 DEF HandOff!PublishFails, HandOff!NoSample
<1>8. ASSUME NEW s \in Sessions, HandOff!GameLogs(s) PROVE UNCHANGED <<generation, counters, ui>>
  BY <1>8 DEF HandOff!GameLogs
<1>9. ASSUME HandOff!Request \/ HandOff!Stop \/ HandOff!WakeToReset \/ HandOff!CloseLog
             \/ HandOff!WakeToSample \/ HandOff!ReadLog
      PROVE  UNCHANGED <<generation, counters, ui>>
  BY <1>9 DEF HandOff!Request, HandOff!Stop, HandOff!WakeToReset, HandOff!CloseLog,
       HandOff!WakeToSample, HandOff!ReadLog
<1> QED
  BY <1>1, <1>2, <1>3, <1>4, <1>5, <1>6, <1>7, <1>8, <1>9 DEF HandOff!Next, HandOff!Worker

(* What is queued, with what is being handed over.                          *)
Offered == chunks \o chunk

LEMMA OfferedIs ==
  ASSUME HandTypes
  PROVE  /\ Offered \in Seq(Chunks)
         /\ chunk = <<>> => Offered = chunks
         /\ \A c \in Chunks : chunk = <<c>> => Offered = Append(chunks, c)
<1>1. chunks \in Seq(Chunks) /\ chunk \in Seq(Chunks)
  BY ChunkIsSequence DEF HandTypes
<1>2. chunk = <<>> => Offered = chunks
  BY <1>1 DEF Offered
<1>3. ASSUME NEW c \in Chunks, chunk = <<c>> PROVE Offered = Append(chunks, c)
  BY <1>1, <1>3 DEF Offered
<1> QED
  BY <1>1, <1>2, <1>3 DEF Offered

(* The UI, once it has taken everything, is where the reader is.            *)
Abreast(end, r, back) ==
    /\ end.delivered \cup back = 1..r.offset
    /\ end.delivered \cap back = {}
    /\ end.game = IF r.catching THEN 0 ELSE r.offset


(* A step that hands nothing over.                                          *)
LEMMA FollowingKept ==
  ASSUME HandTypes, HandOff!UiFollowsReader, HandOff!Following' => HandOff!Following,
         Offered' = Offered, UNCHANGED <<logReader, catchUp>>,
         ui'.session = ui.session, ui'.delivered = ui.delivered, ui'.game = ui.game
  PROVE  HandOff!UiFollowsReader'
<1>1. HandOff!Consumed(ui', Offered) = HandOff!Consumed(ui, Offered)
  <2>1. Len(Offered) \in Nat
    BY OfferedIs
  <2> QED
    BY <2>1, ConsumedOf
<1> QED
  BY <1>1 DEF HandOff!UiFollowsReader, Offered

LEMMA InitFollows == HandOff!Init => HandOff!UiFollowsReader
BY DEF HandOff!Init, HandOff!UiFollowsReader, HandOff!Following, HandOff!Detached

(* What one chunk tells.                                                    *)
LEMMA ChunkTells ==
  ASSUME NEW told, NEW c
  PROVE  /\ HandOff!Consume(told, c).delivered =
              IF c.catching THEN (IF c.reset THEN {} ELSE told.delivered)
              ELSE (IF c.reset THEN {} ELSE told.delivered) \cup c.events
         /\ HandOff!Consume(told, c).game =
              IF c.catching THEN 0
              ELSE IF c.game # 0 THEN c.game ELSE IF c.reset THEN 0 ELSE told.game
BY DEF HandOff!Consume

(* A piece of the log moves the reader and what is handed over together.    *)
LEMMA ReadsFollow ==
  ASSUME HandOff!WorkerAssumption, HandTypes, BindingFollows, ReadingOrdered,
         HandOff!UiFollowsReader, workerPc = "log", UNCHANGED <<chunks, ui, stopped, resetLog>>,
         HandTypes',
         NEW n \in 0..MaxGrowth, NEW gap \in BOOLEAN, HandOff!Reads(n, gap),
         HandOff!Following'
  PROVE  Abreast(HandOff!Consumed(ui, Offered'), logReader', catchUp')
<1> DEFINE r == HandOff!Reader
           kept == HandOff!Kept
           end == r.offset + n
           caught == end = grown[r.session]
           new == (r.offset + 1)..end
           historical == HandOff!Historical(r, gap, caught)
           old == (IF ~r.bound THEN {} ELSE kept) \cup new
           queued == HandOff!Consumed(ui, chunks)
<1>1. /\ r.session = request.binding.session /\ r \in Readers /\ kept \in SUBSET Nat
      /\ n \in Nat /\ r.offset \in Nat /\ r.session \in Sessions
  BY ReaderTyped DEF HandOff!WorkerAssumption, Readers
<1>2. chunk = <<>> /\ Offered = chunks
  BY OfferedIs DEF BindingFollows

<1>3. /\ logReader' = [r EXCEPT !.bound = TRUE, !.offset = end,
                         !.catching = IF n = 0 THEN ~(~r.bound) /\ r.catching ELSE ~caught,
                         !.began = IF ~r.bound THEN grown[r.session] ELSE r.began]
      /\ n = 0 => caught
      /\ chunk' = IF n = 0 /\ r.bound THEN <<>>
                  ELSE <<HandOff!Chunk(~r.bound, n > 0 /\ ~caught,
                              IF n = 0 \/ ~caught THEN {}
                              ELSE IF historical THEN old ELSE new,
                              IF historical THEN {} ELSE new,
                              IF n > 0 /\ caught THEN end ELSE 0,
                              logReader'.began)>>
      /\ catchUp' = IF n = 0 THEN (IF ~r.bound THEN {} ELSE kept)
                    ELSE IF historical THEN (IF caught THEN {} ELSE old)
                    ELSE kept
      /\ chunkLost' = IF ~r.bound THEN FALSE ELSE chunkLost
  BY <1>1 DEF HandOff!Reads, Readers
<1>4. /\ logReader'.session = r.session /\ logReader'.offset = end
      /\ logReader'.catching <=> (IF n = 0 THEN r.bound /\ r.catching ELSE ~caught)
  <2> DEFINE still == IF n = 0 THEN ~(~r.bound) /\ r.catching ELSE ~caught
  <2>1. still \in BOOLEAN
    BY <1>1 DEF Readers
  <2>2. /\ logReader' = [r EXCEPT !.bound = TRUE, !.offset = end, !.catching = still,
                            !.began = IF ~r.bound THEN grown[r.session] ELSE r.began]
    BY <1>3
  <2>3. still <=> (IF n = 0 THEN r.bound /\ r.catching ELSE ~caught)
    BY <1>1 DEF Readers
  <2> HIDE DEF r, end, still
  <2>4. logReader'.session = r.session /\ logReader'.offset = end /\ (logReader'.catching <=> still)
    BY <2>1, <2>2, <1>1 DEF Readers
  <2> QED
    BY <2>3, <2>4
<1>5. ui.session = request.binding.session
  BY <1>1, <1>4 DEF HandOff!Following
<1>6. ASSUME r.bound PROVE Abreast(queued, r, kept)
  <2>1. r = logReader /\ kept = catchUp /\ logReader.session = request.binding.session
    BY <1>6, <1>1 DEF HandOff!Reader, HandOff!Kept, HandOff!NoReader
  <2>2. HandOff!Following
    BY <2>1, <1>3, <1>5, <1>6 DEF HandOff!Following
  <2> QED
    BY <2>1, <2>2, <1>2 DEF HandOff!UiFollowsReader, Abreast, Offered
<1>7. ~r.bound => r.offset = 0
  BY <1>1 DEF HandOff!Reader, HandOff!NoReader, ReadingOrdered
<1>8. historical <=> (~r.bound \/ r.catching \/ gap \/ ~caught)
  BY DEF HandOff!Historical
<1>9. CASE n = 0 /\ r.bound
  <2>1. Offered' = chunks
    BY <1>3, <1>9, <1>2 DEF Offered
  <2>2. catchUp' = kept
    BY <1>3, <1>9
  <2>3. logReader'.offset = r.offset /\ (logReader'.catching <=> r.catching)
    BY <1>1, <1>4, <1>9
  <2> HIDE DEF r, kept
  <2> QED
    BY <2>1, <2>2, <2>3, <1>6, <1>9 DEF Abreast
<1>10. CASE ~(n = 0 /\ r.bound)
  <2> DEFINE c == HandOff!Chunk(~r.bound, n > 0 /\ ~caught,
                              IF n = 0 \/ ~caught THEN {}
                              ELSE IF historical THEN old ELSE new,
                              IF historical THEN {} ELSE new,
                              IF n > 0 /\ caught THEN end ELSE 0,
                              logReader'.began)
             told == HandOff!Consumed(ui, Offered')
  <2>1. chunk' = <<c>>
    BY <1>3, <1>10
  <2>2. /\ c.session = ui.session /\ (c.reset <=> ~r.bound)
        /\ (c.catching <=> (n > 0 /\ ~caught))
        /\ c.events = IF n = 0 \/ ~caught THEN {} ELSE IF historical THEN old ELSE new
        /\ c.game = IF n > 0 /\ caught THEN end ELSE 0
    BY <1>5 DEF HandOff!Chunk
  <2>3. c \in Chunks
    <3>1. PICK d \in Chunks : chunk' = <<d>>
      BY <2>1 DEF HandTypes
    <3> HIDE DEF c
    <3> QED
      BY <2>1, <3>1
  <2> HIDE DEF c
  <2>4. told = HandOff!Consume(queued, c)
    <3>1. Offered' = Append(chunks, c) /\ chunks \in Seq(Chunks)
      BY <2>1, <2>3, <1>2 DEF Offered, HandTypes
    <3> QED
      BY <3>1, <2>2, <2>3, ConsumedAppend DEF ToldBy
  <2>5. /\ told.delivered = IF c.catching THEN (IF c.reset THEN {} ELSE queued.delivered)
                            ELSE (IF c.reset THEN {} ELSE queued.delivered) \cup c.events
        /\ told.game = IF c.catching THEN 0
                       ELSE IF c.game # 0 THEN c.game ELSE IF c.reset THEN 0 ELSE queued.game
    BY <2>4, ChunkTells
  <2> HIDE DEF told, queued, r, kept
  <2>6. CASE ~r.bound
    <3>1. old = 1..end /\ new = 1..end /\ historical
      BY <1>7, <1>8, <2>6
    <3>2. CASE n = 0
      <4>1. told.delivered = {} /\ told.game = 0 /\ catchUp' = {} /\ end = 0
        BY <1>1, <1>3, <1>7, <2>2, <2>5, <2>6, <3>2
      <4>2. logReader'.offset = 0 /\ ~logReader'.catching
        BY <4>1, <1>4, <2>6, <3>2
      <4> QED
        BY <4>1, <4>2 DEF Abreast, told
    <3>3. CASE n > 0 /\ caught
      <4>3. n # 0 /\ end # 0
        BY <1>1, <3>3
      <4>4. c.events = 1..end /\ ~c.catching /\ c.game = end /\ c.reset /\ catchUp' = {}
        BY <1>3, <2>2, <2>6, <3>1, <3>3, <4>3
      <4>1. told.delivered = 1..end /\ told.game = end /\ catchUp' = {} /\ end # 0
        BY <2>5, <4>3, <4>4
      <4>2. logReader'.offset = end /\ ~logReader'.catching
        BY <1>4, <1>1, <3>3
      <4> QED
        BY <4>1, <4>2 DEF Abreast, told
    <3>4. CASE n > 0 /\ ~caught
      <4>1. told.delivered = {} /\ told.game = 0 /\ catchUp' = 1..end
        BY <1>1, <1>3, <2>2, <2>5, <2>6, <3>1, <3>4
      <4>2. logReader'.offset = end /\ logReader'.catching
        BY <1>4, <1>1, <3>4
      <4> QED
        BY <4>1, <4>2 DEF Abreast, told
    <3> QED
      BY <1>1, <3>2, <3>3, <3>4
  <2>7. CASE r.bound
    <3>1. n > 0 /\ n # 0
      BY <1>1, <1>10, <2>7
    <3>2. /\ queued.delivered \cup kept = 1..r.offset
          /\ queued.delivered \cap kept = {}
      BY <1>6, <2>7 DEF Abreast
    <3>3. /\ queued.delivered \cup (kept \cup new) = 1..end
          /\ queued.delivered \cap new = {} /\ kept \cap new = {}
          /\ old = kept \cup new
      <4>1. (1..r.offset) \cup new = 1..end /\ (1..r.offset) \cap new = {}
        BY <1>1
      <4>2. old = kept \cup new
        BY <2>7
      <4> HIDE DEF new, end, old
      <4> QED
        BY <4>1, <4>2, <3>2
    <3>4. CASE ~caught
      <4>1. /\ told.delivered = queued.delivered /\ told.game = 0 /\ catchUp' = old
        BY <1>3, <1>8, <2>2, <2>5, <2>7, <3>1, <3>4
      <4>2. logReader'.offset = end /\ logReader'.catching
        BY <1>4, <3>1, <3>4
      <4> HIDE DEF new, end, old
      <4> QED
        BY <4>1, <4>2, <3>2, <3>3 DEF Abreast, told
    <3>5. CASE caught /\ historical
      <4>1. /\ told.delivered = queued.delivered \cup old /\ told.game = end
            /\ catchUp' = {} /\ end # 0
        BY <1>1, <1>3, <2>2, <2>5, <2>7, <3>1, <3>5
      <4>2. logReader'.offset = end /\ ~logReader'.catching
        BY <1>4, <3>1, <3>5
      <4> HIDE DEF new, end, old
      <4> QED
        BY <4>1, <4>2, <3>2, <3>3 DEF Abreast, told
    <3>6. CASE caught /\ ~historical
      <4>1. /\ told.delivered = queued.delivered \cup new /\ told.game = end
            /\ catchUp' = kept /\ end # 0
        BY <1>1, <1>3, <2>2, <2>5, <2>7, <3>1, <3>6
      <4>2. logReader'.offset = end /\ ~logReader'.catching
        BY <1>4, <3>1, <3>6
      <4> HIDE DEF new, end, old
      <4> QED
        BY <4>1, <4>2, <3>2, <3>3 DEF Abreast, told
    <3> QED
      BY <3>4, <3>5, <3>6
  <2> QED
    BY <2>6, <2>7
<1> QED
  BY <1>9, <1>10

LEMMA FollowsStep ==
  ASSUME HandOff!WorkerAssumption, HandTypes, BindingFollows, ReadingOrdered,
         HandOff!UiFollowsReader, HandOff!Next
  PROVE  HandOff!UiFollowsReader'
<1> USE DEF HandOff!world, HandOff!shared, HandOff!worker, HandOff!Absent
<1>1. ASSUME NEW s \in Sessions, HandOff!GameLogs(s) PROVE HandOff!UiFollowsReader'
  BY <1>1, FollowingKept DEF HandOff!GameLogs, HandOff!Following, Offered
<1>2. ASSUME NEW b \in HandOff!Bindings, HandOff!Bind(b) PROVE HandOff!UiFollowsReader'
  <2>1. /\ ui'.session = b.session /\ ui'.delivered = ui.delivered /\ ui'.game = ui.game
        /\ UNCHANGED <<stopped, workerPc, logReader, chunk, catchUp, chunkLost>>
    BY <1>2 DEF HandOff!Bind, HandOff!CacheReset, HandTypes, Screens
  <2>2. CASE binding # HandOff!Unbound /\ HandOff!SameSession(binding, b)
    <3>1. UNCHANGED <<chunks, resetLog>> /\ ui.session = b.session
      BY <1>2, <2>2 DEF HandOff!Bind, HandOff!SameSession, BindingFollows
    <3> QED
      BY <2>1, <3>1, FollowingKept DEF HandOff!Following, Offered
  <2>3. CASE ~(binding # HandOff!Unbound /\ HandOff!SameSession(binding, b))
    BY <1>2, <2>3 DEF HandOff!Bind, HandOff!UiFollowsReader, HandOff!Following
  <2> QED
    BY <2>2, <2>3
<1>3. CASE HandOff!Clear
  BY <1>3 DEF HandOff!Clear, HandOff!Detached, HandOff!UiFollowsReader, HandOff!Following
<1>4. CASE HandOff!Request
  BY <1>4, FollowingKept DEF HandOff!Request, HandOff!Following, Offered
<1>5. CASE HandOff!Adopt
  <2>1. /\ ui'.session = ui.session /\ ui'.delivered = ui.delivered /\ ui'.game = ui.game
    BY <1>5 DEF HandOff!Adopt, HandTypes, Screens
  <2> QED
    BY <1>5, <2>1, FollowingKept DEF HandOff!Adopt, HandOff!Following, Offered
<1>6. CASE HandOff!Stop
  BY <1>6 DEF HandOff!Stop, HandOff!UiFollowsReader, HandOff!Following
<1>7. ASSUME NEW mapChanged \in BOOLEAN, HandOff!Take(mapChanged), HandOff!Following'
      PROVE  Abreast(HandOff!Consumed(ui', Offered'), logReader', catchUp')
  <2> DEFINE told == HandOff!Consumed(ui, chunks)
             after == [ui EXCEPT !.delivered = told.delivered, !.game = told.game]
  <2>1. told \in [delivered : SUBSET Nat, game : Nat]
    BY ConsumedTypes DEF HandTypes
  <2>2. /\ ui' \in {after, [after EXCEPT !.gen = generation', !.process = 0, !.gpu = 0]}
        /\ chunks' = <<>>
        /\ UNCHANGED <<resetLog, stopped, workerPc, logReader, catchUp, chunk, chunkLost>>
    BY <1>7 DEF HandOff!Take, HandOff!CacheReset
  <2>3. /\ ui'.session = ui.session /\ ui'.delivered = told.delivered
        /\ ui'.game = told.game
    <3> HIDE DEF told
    <3> QED
      BY <2>1, <2>2 DEF HandTypes, Screens
  <2>4. [delivered |-> ui'.delivered, game |-> ui'.game] = told
    <3> HIDE DEF told
    <3> QED
      BY <2>1, <2>3
  <2>5. HandOff!Following
    BY <1>7, <2>2, <2>3 DEF HandOff!Following
  <2>6. Abreast(HandOff!Consumed(ui, Offered), logReader, catchUp)
    BY <2>5 DEF HandOff!UiFollowsReader, Abreast, Offered
  <2> HIDE DEF told
  <2>7. HandOff!Consumed(ui', Offered') = HandOff!Consumed(ui, Offered)
    <3>1. CASE chunk = <<>>
      <4>1. Offered' = <<>> /\ Offered = chunks
        BY <2>2, <3>1, OfferedIs DEF Offered
      <4> QED
        BY <4>1, <2>4, NothingConsumed DEF told
    <3>2. ASSUME NEW c \in Chunks, chunk = <<c>>
          PROVE HandOff!Consumed(ui', Offered') = HandOff!Consumed(ui, Offered)
      <4>1. /\ Offered' = Append(<<>>, c) /\ <<>> \in Seq(Chunks)
            /\ Offered = Append(chunks, c) /\ chunks \in Seq(Chunks)
        BY <2>2, <3>2, OfferedIs DEF Offered, HandTypes
      <4>2. HandOff!Consumed(ui', Offered') = ToldBy(told, ui', c)
        <5>1. HandOff!Consumed(ui', <<>>) = told
          BY <2>4, NothingConsumed
        <5>2. HandOff!Consumed(ui', Append(<<>>, c))
                = ToldBy(HandOff!Consumed(ui', <<>>), ui', c)
          <6>1. \A q \in Seq(Chunks) :
                  HandOff!Consumed(ui', Append(q, c)) = ToldBy(HandOff!Consumed(ui', q), ui', c)
            BY <3>2, ConsumedAppend
          <6> QED
            BY <4>1, <6>1
        <5> QED
          BY <4>1, <5>1, <5>2
      <4>3. HandOff!Consumed(ui, Offered) = ToldBy(told, ui, c)
        BY <4>1, ConsumedAppend DEF told
      <4> QED
        BY <4>2, <4>3, <2>3 DEF ToldBy
    <3> QED
      BY <3>1, <3>2 DEF HandTypes
  <2> QED
    BY <2>2, <2>6, <2>7
<1>8. CASE HandOff!WakeToReset
  BY <1>8 DEF HandOff!WakeToReset, HandOff!UiFollowsReader, HandOff!Following
<1>9. CASE HandOff!CloseLog
  BY <1>9 DEF HandOff!CloseLog, HandOff!NoReader, HandOff!UiFollowsReader,
       HandOff!Following
<1>10. CASE HandOff!WakeToSample
  BY <1>10, FollowingKept DEF HandOff!WakeToSample, HandOff!Following, Offered
<1>11. ASSUME HandOff!ReadLog, HandOff!Following'
       PROVE  Abreast(HandOff!Consumed(ui', Offered'), logReader', catchUp')
  <2>1. /\ workerPc = "log" /\ UNCHANGED <<chunks, ui, stopped, resetLog, binding, request>>
        /\ HandTypes' /\ chunk = <<>> /\ Offered = chunks
    BY <1>11, HandTypesStep, OfferedIs DEF HandOff!ReadLog, BindingFollows
  <2>2. /\ HandOff!Reader.session = request.binding.session /\ HandOff!Reader \in Readers
        /\ request.binding.session \in Sessions
    BY <2>1, ReaderTyped
  <2>3. ASSUME chunk' = <<>>, catchUp' = HandOff!Kept, chunkLost' = chunkLost,
               logReader'.session = request.binding.session,
               logReader'.offset = HandOff!Reader.offset,
               logReader'.catching <=> HandOff!Reader.catching
        PROVE  Abreast(HandOff!Consumed(ui, Offered'), logReader', catchUp')
    <3>1. Offered' = chunks
      BY <2>1, <2>3 DEF Offered, HandTypes
    <3>2. CASE logReader.session = request.binding.session
      <4>1. HandOff!Reader = logReader /\ HandOff!Kept = catchUp
        BY <3>2 DEF HandOff!Reader, HandOff!Kept
      <4>2. HandOff!Following
        BY <1>11, <2>1, <2>3, <3>2 DEF HandOff!Following
      <4> QED
        BY <2>1, <2>3, <3>1, <4>1, <4>2 DEF HandOff!UiFollowsReader, Abreast, Offered
    <3>3. CASE logReader.session # request.binding.session
      <4>1. Void
        BY <1>11, <2>1, <2>3, <3>3 DEF HandOff!Following, BindingFollows, Away
      <4>2. HandOff!Consumed(ui, Offered') = [delivered |-> {}, game |-> 0]
        BY <3>1, <4>1, NothingConsumed DEF Void
      <4>3. HandOff!Reader.offset = 0 /\ ~HandOff!Reader.catching /\ HandOff!Kept = {}
        BY <3>3 DEF HandOff!Reader, HandOff!Kept, HandOff!NoReader
      <4> QED
        BY <2>3, <4>2, <4>3 DEF Abreast
    <3> QED
      BY <3>2, <3>3
  <2>4. CASE HandOff!NothingRead
    BY <2>1, <2>2, <2>3, <2>4 DEF HandOff!NothingRead
  <2>5. CASE HandOff!Rejected
    <3>1. /\ logReader'.session = request.binding.session /\ logReader'.offset = 0
          /\ logReader'.catching = FALSE
      BY <2>5 DEF HandOff!Rejected, HandOff!NoReader
    <3>2. CASE HandOff!Reader.bound
      <4> DEFINE c == HandOff!Chunk(TRUE, TRUE, {}, {}, 0, 0)
      <4>1. chunk' = <<c>> /\ catchUp' = {}
        BY <2>5, <3>2 DEF HandOff!Rejected
      <4>2. /\ c.session = ui.session /\ c.reset /\ c.catching /\ c \in Chunks
        BY <1>11, <2>1, <2>2, <3>1 DEF HandOff!Following, HandOff!Chunk, Chunks
      <4> HIDE DEF c
      <4>3. Offered' = Append(chunks, c) /\ chunks \in Seq(Chunks)
        BY <2>1, <4>1, <4>2 DEF Offered, HandTypes
      <4>4. HandOff!Consumed(ui, Offered') = HandOff!Consume(HandOff!Consumed(ui, chunks), c)
        BY <4>2, <4>3, ConsumedAppend DEF ToldBy
      <4>5. /\ HandOff!Consumed(ui, Offered').delivered = {}
            /\ HandOff!Consumed(ui, Offered').game = 0
        <5> DEFINE queued == HandOff!Consumed(ui, chunks)
        <5> HIDE DEF queued
        <5>1. HandOff!Consumed(ui, Offered') = HandOff!Consume(queued, c)
          BY <4>4 DEF queued
        <5>2. HandOff!Consume(queued, c).delivered = {} /\ HandOff!Consume(queued, c).game = 0
          BY <4>2, ChunkTells
        <5> QED
          BY <5>1, <5>2
      <4> QED
        <5>1. 1..logReader'.offset = {}
          BY <3>1
        <5> QED
          BY <2>1, <3>1, <4>1, <4>5, <5>1 DEF Abreast
    <3>3. CASE ~HandOff!Reader.bound
      <4>1. HandOff!Reader.offset = 0 /\ HandOff!Reader.catching = FALSE
        BY <3>3 DEF HandOff!Reader, HandOff!NoReader, ReadingOrdered
      <4>2. chunk' = <<>> /\ catchUp' = HandOff!Kept /\ chunkLost' = chunkLost
        BY <2>5, <3>3 DEF HandOff!Rejected
      <4> QED
        BY <2>1, <2>3, <3>1, <4>1, <4>2
    <3> QED
      BY <2>1, <3>2, <3>3
  <2>6. ASSUME NEW n \in 0..MaxGrowth, NEW gap \in BOOLEAN, HandOff!Reads(n, gap)
        PROVE  Abreast(HandOff!Consumed(ui', Offered'), logReader', catchUp')
    BY <1>11, <2>1, <2>6, ReadsFollow
  <2> QED
    BY <1>11, <2>1, <2>4, <2>5, <2>6 DEF HandOff!ReadLog
<1>12. CASE HandOff!Publish
  <2>1. /\ workerPc = "publish" /\ chunk' = <<>>
        /\ UNCHANGED <<binding, resetLog, stopped, request, logReader, catchUp, ui, chunkLost>>
        /\ chunks' = IF HandOff!ChunkWanted THEN Offered ELSE chunks
    BY <1>12 DEF HandOff!Publish, Offered
  <2>2. CASE HandOff!ChunkWanted
    <3>1. Offered' = Offered
      BY <2>1, <2>2, OfferedIs DEF Offered
    <3> QED
      BY <2>1, <3>1, FollowingKept DEF HandOff!Following
  <2>3. CASE ~HandOff!ChunkWanted
    <3>1. ~HandOff!Following'
      BY <2>1, <2>3 DEF HandOff!Following, HandOff!ChunkWanted, HandOff!SameSession,
         BindingFollows, HandOff!Unbound
    <3> QED
      BY <3>1 DEF HandOff!UiFollowsReader
  <2> QED
    BY <2>2, <2>3
<1>13. CASE HandOff!PublishFails
  <2>1. /\ chunk' = <<>> /\ chunkLost' = (chunkLost \/ chunk # <<>>)
        /\ UNCHANGED <<resetLog, stopped, logReader, catchUp, ui, chunks>>
        /\ workerPc = "publish"
    BY <1>13 DEF HandOff!PublishFails
  <2>2. CASE chunk = <<>>
    BY <2>1, <2>2, FollowingKept DEF HandOff!Following, Offered
  <2>3. CASE chunk # <<>>
    BY <2>1, <2>3 DEF HandOff!Following, HandOff!UiFollowsReader
  <2> QED
    BY <2>2, <2>3
<1>14. ASSUME HandOff!Following' => Abreast(HandOff!Consumed(ui', Offered'), logReader', catchUp')
       PROVE  HandOff!UiFollowsReader'
  BY <1>14 DEF HandOff!UiFollowsReader, Abreast, Offered
<1> QED
  BY <1>1, <1>2, <1>3, <1>4, <1>5, <1>6, <1>7, <1>8, <1>9, <1>10, <1>11, <1>12, <1>13, <1>14
     DEF HandOff!Next, HandOff!Worker

(* A map selection of line n of the log of s.                               *)
Picks(c, s, n) == c.session = s /\ n \in c.selected

(* The line has started a pre-warm, or will.                                *)
Begun(s, n) == prewarmed[s][n] # 0 \/ \E i \in DOMAIN Offered : Picks(Offered[i], s, n)

(* A line that starts a pre-warm is behind the reader, or was there before  *)
(* the reader opened the file: it is not selected again.                    *)
Behind(s, n) ==
    /\ n <= grown[s]
    /\ logReader.bound /\ logReader.session = s =>
          n <= logReader.offset \/ n <= logReader.began

StartsOnce(s, n) ==
    /\ prewarmed[s][n] \in {0, 1}
    /\ \A i \in DOMAIN Offered :
          Picks(Offered[i], s, n) =>
              /\ prewarmed[s][n] = 0
              /\ \A j \in DOMAIN Offered : Picks(Offered[j], s, n) => i = j
    /\ Begun(s, n) => Behind(s, n)

PrewarmOrdered ==
    /\ \A s \in Sessions, n \in 1..MaxGrowth : StartsOnce(s, n)
    /\ \A i \in DOMAIN Offered : \A n \in Offered[i].selected : n > Offered[i].began

LEMMA InitPrewarm == HandOff!WorkerAssumption /\ HandOff!Init => PrewarmOrdered
<1> SUFFICES ASSUME HandOff!WorkerAssumption, HandOff!Init PROVE PrewarmOrdered
  OBVIOUS
<1>1. DOMAIN Offered = {}
  BY DEF HandOff!Init, Offered
<1>2. ASSUME NEW s \in Sessions, NEW n \in 1..MaxGrowth PROVE prewarmed[s][n] = 0
  BY DEF HandOff!Init
<1> QED
  BY <1>1, <1>2 DEF PrewarmOrdered, StartsOnce, Begun

LEMMA PrewarmNew ==
  HandTypes /\ PrewarmOrdered => HandOff!PrewarmIsNew
<1> SUFFICES ASSUME HandTypes, PrewarmOrdered PROVE HandOff!PrewarmIsNew
  OBVIOUS
<1>1. ASSUME NEW s \in Sessions, NEW n \in 1..MaxGrowth PROVE prewarmed[s][n] <= 1
  BY DEF PrewarmOrdered, StartsOnce
<1>2. ASSUME NEW i \in DOMAIN chunks PROVE i \in DOMAIN Offered /\ Offered[i] = chunks[i]
  BY ChunkIsSequence DEF HandTypes, Offered
<1> QED
  BY <1>1, <1>2 DEF PrewarmOrdered, HandOff!PrewarmIsNew

(* A step that offers nothing new, and moves the reader nowhere but away.   *)
LEMMA PrewarmKept ==
  ASSUME HandTypes, PrewarmOrdered, prewarmed' = prewarmed, NEW k \in Nat,
         \A i \in DOMAIN Offered' : i + k \in DOMAIN Offered /\ Offered'[i] = Offered[i + k],
         DOMAIN Offered' \subseteq Nat,
         \A s \in Sessions : grown[s] <= grown'[s] /\ grown'[s] \in Nat,
         logReader' = logReader \/ ~logReader'.bound
  PROVE  PrewarmOrdered'
<1>1. ASSUME NEW s \in Sessions, NEW n \in 1..MaxGrowth PROVE StartsOnce(s, n)'
  <2>1. StartsOnce(s, n)
    BY DEF PrewarmOrdered
  <2>2. ASSUME NEW i \in DOMAIN Offered', Picks(Offered'[i], s, n)
        PROVE  /\ i + k \in DOMAIN Offered /\ Picks(Offered[i + k], s, n) /\ i \in Nat
    BY <2>2
  <2>3. Begun(s, n)' => Begun(s, n)
    BY <2>2 DEF Begun
  <2>4. Behind(s, n) => Behind(s, n)'
    <3>1. grown[s] \in Nat
      BY DEF HandTypes
    <3> QED
      BY <3>1 DEF Behind
  <2>5. ASSUME NEW i \in DOMAIN Offered', Picks(Offered'[i], s, n)
        PROVE  /\ prewarmed'[s][n] = 0
               /\ \A j \in DOMAIN Offered' : Picks(Offered'[j], s, n) => i = j
    <3>1. prewarmed[s][n] = 0
      BY <2>1, <2>2, <2>5 DEF StartsOnce
    <3>2. ASSUME NEW j \in DOMAIN Offered', Picks(Offered'[j], s, n) PROVE i = j
      <4>1. i + k = j + k /\ i \in Nat /\ j \in Nat
        BY <2>1, <2>2, <2>5, <3>2 DEF StartsOnce
      <4> QED
        BY <4>1
    <3> QED
      BY <3>1, <3>2
  <2> QED
    BY <2>1, <2>3, <2>4, <2>5 DEF StartsOnce
<1>2. ASSUME NEW i \in DOMAIN Offered', NEW n \in Offered'[i].selected
      PROVE  n > Offered'[i].began
  BY <1>2 DEF PrewarmOrdered
<1> QED
  BY <1>1, <1>2 DEF PrewarmOrdered

(* What is left once the queue is taken or dropped, or the chunk is.        *)
LEMMA OfferedParts ==
  ASSUME HandTypes
  PROVE  /\ DOMAIN Offered \subseteq Nat /\ DOMAIN chunk \subseteq Nat
         /\ DOMAIN chunks \subseteq Nat
         /\ \A i \in DOMAIN Offered : i + 0 \in DOMAIN Offered /\ Offered[i] = Offered[i + 0]
         /\ \A i \in DOMAIN chunks : i + 0 \in DOMAIN Offered /\ chunks[i] = Offered[i + 0]
         /\ \A i \in DOMAIN chunk :
               i + Len(chunks) \in DOMAIN Offered /\ chunk[i] = Offered[i + Len(chunks)]
         /\ <<>> \o chunk = chunk /\ chunks \o <<>> = chunks /\ Len(chunks) \in Nat
<1>1. chunks \in Seq(Chunks) /\ chunk \in Seq(Chunks)
  BY ChunkIsSequence DEF HandTypes
<1>2. /\ Offered \in Seq(Chunks) /\ Len(Offered) = Len(chunks) + Len(chunk)
      /\ \A i \in 1..Len(Offered) :
            Offered[i] = IF i <= Len(chunks) THEN chunks[i] ELSE chunk[i - Len(chunks)]
  BY <1>1 DEF Offered
<1>3. DOMAIN Offered = 1..Len(Offered) /\ DOMAIN chunks = 1..Len(chunks)
      /\ DOMAIN chunk = 1..Len(chunk) /\ Len(chunks) \in Nat /\ Len(chunk) \in Nat
  BY <1>1, <1>2
<1>4. ASSUME NEW i \in DOMAIN chunks PROVE i + 0 \in DOMAIN Offered /\ chunks[i] = Offered[i + 0]
  BY <1>2, <1>3
<1>5. ASSUME NEW i \in DOMAIN chunk
      PROVE  i + Len(chunks) \in DOMAIN Offered /\ chunk[i] = Offered[i + Len(chunks)]
  <2>1. i + Len(chunks) \in 1..Len(Offered) /\ ~(i + Len(chunks) <= Len(chunks))
        /\ i + Len(chunks) - Len(chunks) = i
    BY <1>2, <1>3
  <2> QED
    BY <2>1, <1>2, <1>3
<1>6. ASSUME NEW i \in DOMAIN Offered PROVE i + 0 = i
  BY <1>3
<1>7. <<>> \o chunk = chunk /\ chunks \o <<>> = chunks
  BY <1>1
<1>8. DOMAIN Offered \subseteq Nat /\ DOMAIN chunk \subseteq Nat /\ DOMAIN chunks \subseteq Nat
  BY <1>3
<1> QED
  BY <1>3, <1>4, <1>5, <1>6, <1>7, <1>8

(* Taking the queue counts each selection in it once.                       *)
LEMMA TakePrewarms ==
  ASSUME HandTypes, PrewarmOrdered, NEW mapChanged \in BOOLEAN, HandOff!Take(mapChanged)
  PROVE  PrewarmOrdered'
<1> USE DEF HandOff!world, HandOff!shared, HandOff!worker
<1>1. /\ Offered' = chunk /\ UNCHANGED <<grown, logReader>>
      /\ prewarmed' = [s \in Sessions |-> [n \in 1..MaxGrowth |->
                            IF s # ui.session THEN prewarmed[s][n]
                            ELSE prewarmed[s][n] + HandOff!Selections(chunks, s, n)]]
  BY OfferedParts DEF HandOff!Take, Offered
<1>2. ASSUME NEW s \in Sessions, NEW n \in 1..MaxGrowth PROVE StartsOnce(s, n)'
  <2> DEFINE S == {i \in DOMAIN chunks : chunks[i].session = s /\ n \in chunks[i].selected}
  <2>1. StartsOnce(s, n)
    BY DEF PrewarmOrdered
  <2>2. HandOff!Selections(chunks, s, n) = Cardinality(S)
    BY HandCardinality DEF HandOff!Selections
  <2>3. ASSUME NEW i \in S
        PROVE  /\ i \in DOMAIN Offered /\ Picks(Offered[i], s, n) /\ i \in DOMAIN chunks
    <3>1. i \in Nat /\ i + 0 = i
      BY OfferedParts
    <3>2. i + 0 \in DOMAIN Offered /\ chunks[i] = Offered[i + 0]
      BY OfferedParts
    <3> QED
      BY <3>1, <3>2 DEF Picks
  <2>4. ASSUME NEW j \in DOMAIN chunk, Picks(chunk[j], s, n)
        PROVE  /\ j + Len(chunks) \in DOMAIN Offered /\ Picks(Offered[j + Len(chunks)], s, n)
               /\ j \in Nat /\ Len(chunks) \in Nat
    BY <2>4, OfferedParts
  <2>5. S = {} \/ \E i \in S : S = {i}
    BY <2>1, <2>3 DEF StartsOnce
  <2>6. /\ S = {} => Cardinality(S) = 0
        /\ S # {} => Cardinality(S) = 1 /\ prewarmed[s][n] = 0
    <3>1. S = {} => Cardinality(S) = 0
      BY FS_EmptySet
    <3>2. S # {} => Cardinality(S) = 1
      BY <2>5, FS_Singleton
    <3>3. S # {} => prewarmed[s][n] = 0
      BY <2>1, <2>3 DEF StartsOnce
    <3> QED
      BY <3>1, <3>2, <3>3
  <2>7. \/ prewarmed'[s][n] = prewarmed[s][n]
        \/ S # {} /\ prewarmed'[s][n] = 1
    <3> DEFINE z == Cardinality(S)
    <3>1. prewarmed[s][n] \in Nat
      BY DEF HandTypes
    <3>2. prewarmed'[s][n] = IF s # ui.session THEN prewarmed[s][n]
                             ELSE prewarmed[s][n] + Cardinality(S)
      BY <1>1, <2>2
    <3>3. (S = {} => z = 0) /\ (S # {} => z = 1 /\ prewarmed[s][n] = 0)
      BY <2>6
    <3> HIDE DEF S, z
    <3>4. CASE S = {}
      BY <3>1, <3>2, <3>3, <3>4 DEF z
    <3>5. CASE S # {}
      BY <3>1, <3>2, <3>3, <3>5 DEF z
    <3> QED
      BY <3>4, <3>5
  <2>8. ASSUME NEW j \in DOMAIN chunk, Picks(chunk[j], s, n)
        PROVE  /\ prewarmed'[s][n] = 0
               /\ \A i \in DOMAIN chunk : Picks(chunk[i], s, n) => j = i
    <3>1. prewarmed[s][n] = 0
      BY <2>1, <2>4, <2>8 DEF StartsOnce
    <3>2. S = {}
      <4>1. ASSUME NEW i \in S PROVE FALSE
        <5>1. i = j + Len(chunks)
          BY <2>1, <2>3, <2>4, <2>8 DEF StartsOnce
        <5>2. i <= Len(chunks) /\ j >= 1 /\ j \in Nat /\ Len(chunks) \in Nat
          <6>1. chunks \in Seq(Chunks) /\ chunk \in Seq(Chunks) /\ i \in DOMAIN chunks
            BY ChunkIsSequence DEF HandTypes
          <6> QED
            BY <6>1
        <5> QED
          BY <5>1, <5>2
      <4> QED
        BY <4>1
    <3>3. ASSUME NEW i \in DOMAIN chunk, Picks(chunk[i], s, n) PROVE j = i
      <4>1. j + Len(chunks) = i + Len(chunks) /\ i \in Nat /\ j \in Nat /\ Len(chunks) \in Nat
        BY <2>1, <2>4, <2>8, <3>3 DEF StartsOnce
      <4> QED
        BY <4>1
    <3> QED
      BY <2>7, <3>1, <3>2, <3>3
  <2>9. Begun(s, n)' => Begun(s, n)
    <3>1. ASSUME prewarmed'[s][n] # 0 PROVE Begun(s, n)
      <4>1. prewarmed[s][n] # 0 \/ S # {}
        BY <2>7, <3>1
      <4> HIDE DEF S
      <4> QED
        BY <4>1, <2>3 DEF Begun
    <3>2. ASSUME NEW j \in DOMAIN chunk, Picks(chunk[j], s, n) PROVE Begun(s, n)
      BY <2>4, <3>2 DEF Begun
    <3> QED
      BY <1>1, <3>1, <3>2 DEF Begun
  <2>10. Behind(s, n)' <=> Behind(s, n)
    BY <1>1 DEF Behind
  <2>11. prewarmed'[s][n] \in {0, 1}
    BY <2>1, <2>7 DEF StartsOnce
  <2> HIDE DEF S
  <2> QED
    BY <1>1, <2>1, <2>8, <2>9, <2>10, <2>11 DEF StartsOnce
<1>3. ASSUME NEW i \in DOMAIN chunk, NEW n \in chunk[i].selected PROVE n > chunk[i].began
  BY <1>3, OfferedParts DEF PrewarmOrdered
<1> QED
  BY <1>1, <1>2, <1>3 DEF PrewarmOrdered

(* A piece of the log offers lines that are new to the reader.              *)
LEMMA ReadsPrewarm ==
  ASSUME HandOff!WorkerAssumption, HandTypes, BindingFollows, ReadingOrdered, PrewarmOrdered,
         workerPc = "log", UNCHANGED <<chunks, grown, prewarmed>>, HandTypes',
         NEW n \in 0..MaxGrowth, NEW gap \in BOOLEAN, HandOff!Reads(n, gap)
  PROVE  PrewarmOrdered'
<1> DEFINE r == HandOff!Reader
           end == r.offset + n
           caught == end = grown[r.session]
           new == (r.offset + 1)..end
           historical == HandOff!Historical(r, gap, caught)
<1>1. /\ r.session = request.binding.session /\ r \in Readers
      /\ n \in Nat /\ r.offset \in Nat /\ r.began \in Nat /\ r.session \in Sessions
      /\ grown[r.session] \in Nat
  BY ReaderTyped DEF HandOff!WorkerAssumption, Readers, HandTypes
<1>2. chunk = <<>> /\ Offered = chunks /\ chunks \in Seq(Chunks)
  BY OfferedIs DEF BindingFollows, HandTypes
<1>3. /\ end <= grown[r.session]
      /\ logReader'.session = r.session /\ logReader'.offset = end /\ logReader'.bound
      /\ logReader'.began = IF ~r.bound THEN grown[r.session] ELSE r.began
  <2> DEFINE still == IF n = 0 THEN ~(~r.bound) /\ r.catching ELSE ~caught
  <2>1. /\ logReader' = [r EXCEPT !.bound = TRUE, !.offset = end, !.catching = still,
                            !.began = IF ~r.bound THEN grown[r.session] ELSE r.began]
        /\ end <= grown[r.session]
    BY <1>1 DEF HandOff!Reads, Readers
  <2> HIDE DEF r, end, still
  <2> QED
    BY <2>1, <1>1 DEF Readers
<1>4. r.bound => r = logReader
  BY DEF HandOff!Reader, HandOff!NoReader
<1>5. historical <=> (~r.bound \/ r.catching \/ gap \/ ~caught)
  BY DEF HandOff!Historical
<1>6. \/ chunk' = <<>>
      \/ \E c \in Chunks :
            /\ chunk' = <<c>> /\ c.session = r.session /\ c.began = logReader'.began
            /\ c.selected = IF historical THEN {} ELSE new
  <2> DEFINE made == HandOff!Chunk(~r.bound, n > 0 /\ ~caught,
                              IF n = 0 \/ ~caught THEN {}
                              ELSE IF historical
                                   THEN (IF ~r.bound THEN {} ELSE HandOff!Kept) \cup new
                                   ELSE new,
                              IF historical THEN {} ELSE new,
                              IF n > 0 /\ caught THEN end ELSE 0,
                              logReader'.began)
  <2>1. chunk' = <<>> \/ chunk' = <<made>>
    BY DEF HandOff!Reads
  <2>2. /\ made.session = r.session /\ made.began = logReader'.began
        /\ made.selected = IF historical THEN {} ELSE new
    BY <1>1 DEF HandOff!Chunk
  <2> HIDE DEF made
  <2>3. ASSUME chunk' = <<made>> PROVE made \in Chunks
    <3>1. PICK c \in Chunks : chunk' = <<c>>
      BY <2>3 DEF HandTypes
    <3> QED
      BY <3>1, <2>3
  <2> QED
    BY <2>1, <2>2, <2>3
<1> HIDE DEF r, end, caught, historical
(* A line begun before stays behind the reader.                             *)
<1>7. ASSUME NEW s \in Sessions, NEW m \in 1..MaxGrowth, Behind(s, m) PROVE Behind(s, m)'
  <2>1. CASE s # r.session
    BY <1>3, <1>7, <2>1 DEF Behind
  <2>2. CASE s = r.session /\ ~r.bound
    BY <1>3, <1>7, <2>2 DEF Behind
  <2>3. CASE s = r.session /\ r.bound
    <3>1. m <= grown[s] /\ (m <= r.offset \/ m <= r.began)
      BY <1>4, <1>7, <2>3 DEF Behind
    <3>2. r.offset <= end
      BY <1>1 DEF end
    <3>3. end \in Nat
      BY <1>1 DEF end
    <3> QED
      BY <1>1, <1>3, <2>3, <3>1, <3>2, <3>3 DEF Behind
  <2> QED
    BY <2>1, <2>2, <2>3
<1>8. CASE chunk' = <<>>
  <2>1. Offered' = Offered
    BY <1>2, <1>8 DEF Offered
  <2> QED
    BY <1>7, <2>1 DEF PrewarmOrdered, StartsOnce, Begun
<1>9. ASSUME NEW c \in Chunks, chunk' = <<c>>, c.session = r.session,
             c.began = logReader'.began, c.selected = IF historical THEN {} ELSE new
      PROVE  PrewarmOrdered'
  <2> DEFINE k == Len(chunks)
  <2>1. /\ Offered' = Append(Offered, c) /\ k \in Nat
        /\ DOMAIN Offered = 1..k /\ DOMAIN Offered' = 1..(k + 1)
        /\ Offered'[k + 1] = c /\ \A i \in 1..k : Offered'[i] = Offered[i]
    BY <1>2, <1>9 DEF Offered
  <2> HIDE DEF k
  <2>2. ASSUME NEW m \in c.selected
        PROVE  /\ r.bound /\ ~historical /\ m \in Nat /\ m > r.offset /\ m <= end
               /\ r.began <= r.offset /\ r = logReader
    <3>1. ~historical /\ m \in new
      BY <1>9, <2>2
    <3>2. r.bound /\ r.catching = FALSE
      BY <1>1, <1>5, <3>1 DEF Readers
    <3>3. r.began <= r.offset
      BY <1>4, <3>2 DEF ReadingOrdered
    <3> QED
      BY <1>1, <1>4, <3>1, <3>2, <3>3 DEF new, end
  <2>3. ASSUME NEW s \in Sessions, NEW m \in 1..MaxGrowth, Picks(c, s, m)
        PROVE  ~Begun(s, m) /\ Behind(s, m)'
    <3>1. m \in c.selected /\ s = r.session
      BY <1>9, <2>3 DEF Picks
    <3>2. /\ r.bound /\ m \in Nat /\ m > r.offset /\ m <= end
          /\ r.began <= r.offset /\ r = logReader
      BY <2>2, <3>1
    <3>3. ~Behind(s, m)
      BY <1>1, <3>1, <3>2 DEF Behind
    <3>4. ~Begun(s, m)
      BY <3>3 DEF PrewarmOrdered, StartsOnce
    <3>5. end \in Nat
      BY <1>1 DEF end
    <3> QED
      BY <1>1, <1>3, <3>1, <3>2, <3>4, <3>5 DEF Behind
  <2>4. ASSUME NEW s \in Sessions, NEW m \in 1..MaxGrowth PROVE StartsOnce(s, m)'
    <3>1. StartsOnce(s, m)
      BY DEF PrewarmOrdered
    <3>2. CASE Picks(c, s, m)
      <4>1. ~Begun(s, m) /\ Behind(s, m)'
        BY <2>3, <3>2
      <4>2. prewarmed[s][m] = 0 /\ \A i \in 1..k : ~Picks(Offered'[i], s, m)
        BY <4>1, <2>1 DEF Begun
      <4>3. \A i \in 1..(k + 1) : Picks(Offered'[i], s, m) => i = k + 1
        BY <2>1, <4>2
      <4> QED
        BY <2>1, <4>1, <4>2, <4>3 DEF StartsOnce
    <3>3. CASE ~Picks(c, s, m)
      <4>1. \A i \in 1..(k + 1) :
               Picks(Offered'[i], s, m) => i \in 1..k /\ Picks(Offered[i], s, m)
        BY <2>1, <3>3
      <4>2. Begun(s, m)' => Begun(s, m)
        BY <2>1, <4>1 DEF Begun
      <4>3. Begun(s, m)' => Behind(s, m)'
        BY <4>2, <3>1, <1>7 DEF StartsOnce
      <4> QED
        BY <2>1, <3>1, <4>1, <4>3 DEF StartsOnce
    <3> QED
      BY <3>2, <3>3
  <2>5. ASSUME NEW i \in 1..(k + 1), NEW m \in Offered'[i].selected
        PROVE  m > Offered'[i].began
    <3>1. CASE i = k + 1
      <4>1. m \in c.selected /\ Offered'[i] = c
        BY <2>1, <2>5, <3>1
      <4>2. /\ r.bound /\ m \in Nat /\ m > r.offset /\ r.began <= r.offset
        BY <2>2, <4>1
      <4> QED
        BY <1>1, <1>3, <1>9, <4>1, <4>2
    <3>2. CASE i # k + 1
      BY <2>1, <2>5, <3>2 DEF PrewarmOrdered
    <3> QED
      BY <3>1, <3>2
  <2> QED
    BY <2>1, <2>4, <2>5 DEF PrewarmOrdered
<1> QED
  BY <1>6, <1>8, <1>9

LEMMA PrewarmStep ==
  ASSUME HandOff!WorkerAssumption, HandTypes, BindingFollows, ReadingOrdered, PrewarmOrdered,
         HandOff!Next
  PROVE  PrewarmOrdered'
<1> USE DEF HandOff!world, HandOff!shared, HandOff!worker
<1>1. \A s \in Sessions : grown[s] \in Nat
  BY DEF HandTypes
(* The queue as it was, without what was queued, or without the chunk.      *)
<1>2. ASSUME UNCHANGED prewarmed,
             Offered' = Offered \/ Offered' = chunk \/ Offered' = chunks,
             \A s \in Sessions : grown[s] <= grown'[s] /\ grown'[s] \in Nat,
             logReader' = logReader \/ ~logReader'.bound
      PROVE  PrewarmOrdered'
  <2>1. CASE Offered' = chunk
    BY <1>2, <2>1, OfferedParts, PrewarmKept
  <2>2. CASE Offered' = Offered \/ Offered' = chunks
    BY <1>2, <2>2, OfferedParts, PrewarmKept
  <2> QED
    BY <1>2, <2>1, <2>2
<1>3. UNCHANGED grown => \A s \in Sessions : grown[s] <= grown'[s] /\ grown'[s] \in Nat
  BY <1>1
<1>4. ASSUME NEW s \in Sessions, HandOff!GameLogs(s) PROVE PrewarmOrdered'
  <2>1. grown' = [grown EXCEPT ![s] = @ + 1] /\ UNCHANGED <<prewarmed, logReader, chunks, chunk>>
    BY <1>4 DEF HandOff!GameLogs
  <2>2. \A t \in Sessions : grown[t] <= grown'[t] /\ grown'[t] \in Nat
    BY <1>1, <2>1 DEF HandTypes
  <2> QED
    BY <1>2, <2>1, <2>2 DEF Offered
<1>5. ASSUME NEW b \in HandOff!Bindings, HandOff!Bind(b) PROVE PrewarmOrdered'
  <2>1. /\ UNCHANGED <<prewarmed, logReader, grown, chunk>>
        /\ chunks' = chunks \/ chunks' = <<>>
    BY <1>5 DEF HandOff!Bind
  <2>2. Offered' = Offered \/ Offered' = chunk
    BY <2>1, OfferedParts DEF Offered
  <2> QED
    BY <1>2, <1>3, <2>1, <2>2
<1>6. CASE HandOff!Clear
  <2>1. UNCHANGED <<prewarmed, logReader, grown, chunk>> /\ chunks' = <<>>
    BY <1>6 DEF HandOff!Clear
  <2>2. Offered' = chunk
    BY <2>1, OfferedParts DEF Offered
  <2> QED
    BY <1>2, <1>3, <2>1, <2>2
<1>7. ASSUME HandOff!Request \/ HandOff!Adopt \/ HandOff!Stop \/ HandOff!WakeToReset
             \/ HandOff!WakeToSample
      PROVE  PrewarmOrdered'
  <2>1. UNCHANGED <<prewarmed, logReader, grown, chunk, chunks>>
    BY <1>7 DEF HandOff!Request, HandOff!Adopt, HandOff!Stop, HandOff!WakeToReset,
         HandOff!WakeToSample
  <2> QED
    BY <1>2, <1>3, <2>1 DEF Offered
<1>8. CASE HandOff!CloseLog
  <2>1. UNCHANGED <<prewarmed, grown, chunk, chunks>> /\ ~logReader'.bound
    BY <1>8 DEF HandOff!CloseLog, HandOff!NoReader
  <2> QED
    BY <1>2, <1>3, <2>1 DEF Offered
<1>9. CASE HandOff!ReadLog
  <2>1. /\ workerPc = "log" /\ UNCHANGED <<chunks, grown, prewarmed>> /\ HandTypes'
        /\ chunk = <<>>
    BY <1>9, HandTypesStep DEF HandOff!ReadLog, BindingFollows
  <2>2. HandOff!Reader = logReader \/ ~HandOff!Reader.bound
    BY DEF HandOff!Reader, HandOff!NoReader
  <2>3. CASE HandOff!NothingRead
    <3>1. logReader' = HandOff!Reader /\ chunk' = <<>>
      BY <2>3 DEF HandOff!NothingRead
    <3> QED
      BY <1>2, <1>3, <2>1, <2>2, <3>1 DEF Offered
  <2>4. CASE HandOff!Rejected
    <3>1. logReader'.bound = FALSE
      BY <2>4 DEF HandOff!Rejected, HandOff!NoReader
    <3>2. CASE ~HandOff!Reader.bound
      <4>1. chunk' = <<>>
        BY <2>4, <3>2 DEF HandOff!Rejected
      <4> QED
        BY <1>2, <1>3, <2>1, <3>1, <4>1 DEF Offered
    <3>3. CASE HandOff!Reader.bound
      <4> DEFINE c == HandOff!Chunk(TRUE, TRUE, {}, {}, 0, 0)
      <4>1. chunk' = <<c>> /\ c.selected = {}
        BY <2>4, <3>3 DEF HandOff!Rejected, HandOff!Chunk
      <4>2. c \in Chunks
        <5>1. PICK d \in Chunks : chunk' = <<d>>
          BY <2>1, <4>1 DEF HandTypes
        <5> HIDE DEF c
        <5> QED
          BY <4>1, <5>1
      <4> HIDE DEF c
      <4> DEFINE k == Len(chunks)
      <4>3. /\ Offered = chunks /\ k \in Nat /\ DOMAIN Offered = 1..k
            /\ DOMAIN Offered' = 1..(k + 1) /\ Offered'[k + 1] = c
            /\ \A i \in 1..k : Offered'[i] = Offered[i]
        BY <2>1, <4>1, <4>2, OfferedIs DEF Offered, HandTypes
      <4> HIDE DEF k
      <4>4. ASSUME NEW s \in Sessions, NEW m \in 1..MaxGrowth PROVE StartsOnce(s, m)'
        <5>1. StartsOnce(s, m)
          BY DEF PrewarmOrdered
        <5>2. \A i \in 1..(k + 1) :
                 Picks(Offered'[i], s, m) => i \in 1..k /\ Picks(Offered[i], s, m)
          BY <4>1, <4>3 DEF Picks
        <5>3. Begun(s, m)' => Begun(s, m)
          BY <2>1, <4>3, <5>2 DEF Begun
        <5>4. Behind(s, m) => Behind(s, m)'
          BY <2>1, <3>1 DEF Behind
        <5> QED
          BY <2>1, <4>3, <5>1, <5>2, <5>3, <5>4 DEF StartsOnce
      <4>5. ASSUME NEW i \in 1..(k + 1), NEW m \in Offered'[i].selected
            PROVE  m > Offered'[i].began
        BY <4>1, <4>3, <4>5 DEF PrewarmOrdered
      <4> QED
        BY <4>3, <4>4, <4>5 DEF PrewarmOrdered
    <3> QED
      BY <3>2, <3>3
  <2>5. ASSUME NEW n \in 0..MaxGrowth, NEW gap \in BOOLEAN, HandOff!Reads(n, gap)
        PROVE  PrewarmOrdered'
    BY <2>1, <2>5, ReadsPrewarm
  <2> QED
    BY <1>9, <2>3, <2>4, <2>5 DEF HandOff!ReadLog
<1>10. ASSUME HandOff!Publish \/ HandOff!PublishFails PROVE PrewarmOrdered'
  <2>1. /\ UNCHANGED <<prewarmed, logReader, grown>> /\ chunk' = <<>>
        /\ chunks' = Offered \/ chunks' = chunks
    BY <1>10 DEF HandOff!Publish, HandOff!PublishFails, Offered
  <2>2. Offered' = Offered \/ Offered' = chunks
    <3>1. Offered \o <<>> = Offered /\ chunks \o <<>> = chunks
      BY OfferedIs DEF HandTypes
    <3> QED
      BY <2>1, <3>1 DEF Offered
  <2> QED
    BY <1>2, <1>3, <2>1, <2>2
<1>11. ASSUME NEW mapChanged \in BOOLEAN, HandOff!Take(mapChanged) PROVE PrewarmOrdered'
  BY <1>11, TakePrewarms
<1> QED
  BY <1>4, <1>5, <1>6, <1>7, <1>8, <1>9, <1>10, <1>11 DEF HandOff!Next, HandOff!Worker

HandInv ==
    /\ HandTypes /\ BindingFollows /\ ReadingOrdered
    /\ HandOff!UiFollowsReader /\ PrewarmOrdered /\ HandOff!SamplesAreCurrent

LEMMA InitHand == HandOff!WorkerAssumption /\ HandOff!Init => HandInv
BY InitHandTypes, InitBinding, InitFollows, InitPrewarm, InitSamples DEF HandInv

LEMMA HandStep ==
  HandOff!WorkerAssumption /\ HandInv /\ [HandOff!Next]_ofHandOff => HandInv'
<1>1. HandOff!WorkerAssumption /\ HandInv /\ HandOff!Next => HandInv'
  BY HandTypesStep, BindingStep, ReadingOrderedStep, FollowsStep, PrewarmStep, SamplesStep
     DEF HandInv
<1>2. HandInv /\ UNCHANGED ofHandOff => HandInv'
  BY DEF ofHandOff, HandInv, HandTypes, BindingFollows, ReadingOrdered, Serving, Away, Void,
       HandOff!UiFollowsReader, HandOff!Following, PrewarmOrdered, StartsOnce, Begun, Behind,
       Offered, HandOff!SamplesAreCurrent
<1> QED
  BY <1>1, <1>2

LEMMA HandIsExact == HandInv => HandOff!HandOffIsExact
BY PrewarmNew DEF HandInv, HandOff!HandOffIsExact

(***************************************************************************)
(* All parts together.                                                      *)
(***************************************************************************)

WatchInv ==
    /\ TrackingInv /\ MemoryInv /\ ReadingInv
    /\ LogInv
    /\ CaptureInv
    /\ DrainInv
    /\ Persistence
    /\ HandInv

LEMMA InitWatch == WatchInit => WatchInv
BY WatchAssumption, TrackingStarts, MemoryStarts, LogStarts, CaptureStarts,
     DrainStarts, InitPersistence, InitHand DEF WatchInit, WatchInv

(* A step is one of the part that the behaviour is about.                   *)
LEMMA StepOfOnePart ==
  [WatchNext]_watchVars =>
      /\ [Observation!Next]_ofObservation /\ [Log!Next]_ofLog
      /\ [Capture!Next]_ofCapture /\ [Drain!Next]_ofDrain /\ [Events!Next]_ofEvents
      /\ [HandOff!Next]_ofHandOff
BY DEF WatchNext, watchVars

LEMMA NextWatch == WatchInv /\ [WatchNext]_watchVars => WatchInv'
<1> SUFFICES ASSUME WatchInv, [WatchNext]_watchVars PROVE WatchInv'
  OBVIOUS
<1>1. LockIsOneThreads
  BY DEF WatchInv, TrackingInv, ObservationTypes, LockIsOneThreads
<1>2. TrackingInv'
  BY StepOfOnePart, WatchAssumption, TrackingStep DEF WatchInv
<1>3. MemoryInv'
  BY <1>1, StepOfOnePart, WatchAssumption, MemoryStep DEF WatchInv
<1>4. ReadingInv'
  BY <1>1, <1>3, StepOfOnePart, WatchAssumption, ReadingStep DEF WatchInv
<1>5. LogInv'
  BY StepOfOnePart, WatchAssumption, LogStep DEF WatchInv
<1>6. CaptureInv'
  <2>1. UNCHANGED ofCapture => UNCHANGED Capture!vars
    BY DEF ofCapture, Capture!vars, Capture!capture, Capture!ui
  <2> QED
    BY <2>1, StepOfOnePart, WatchAssumption, CaptureStep DEF WatchInv
<1>7. DrainInv'
  BY StepOfOnePart, DrainStep DEF WatchInv
<1>8. Persistence'
  BY StepOfOnePart, EventsStep DEF WatchInv
<1>9. HandInv'
  BY StepOfOnePart, WatchAssumption, HandStep DEF WatchInv
<1> QED
  BY <1>2, <1>3, <1>4, <1>5, <1>6, <1>7, <1>8, <1>9 DEF WatchInv

(* As long as no quarantine is announced the slots are the solvers of the   *)
(* game, with the capacity each was created for, whatever threads create,   *)
(* count and destroy (register_solver, record_active_count, retire_solver). *)
THEOREM TrackingStaysExact == WatchSpec => []TrackingIsExact
<1>1. WatchInv => TrackingIsExact
  BY TrackingExact DEF WatchInv, TrackingIsExact
<1> QED
  BY <1>1, InitWatch, NextWatch, PTL DEF WatchSpec

(* The counts, the wave, the sample and the control port of the session are *)
(* of one world, the sample of one line, the statistics of one scene, and   *)
(* the frame rate is computed from the statistics as they are now, after    *)
(* every reset, reconnect and change of the boundary                        *)
(* (GameLogSessionParser, drain_present_stage, PresentSource::drain).  The  *)
(* phase of an ended match is not included.                                 *)
THEOREM ShownStaysTogether == WatchSpec => []ShownBelongsTogether
<1>1. WatchInv => ShownBelongsTogether
  BY WatchAssumption, LogIsOneWorld, DrainCurrent DEF WatchInv, ShownBelongsTogether
<1> QED
  BY <1>1, InitWatch, NextWatch, PTL DEF WatchSpec

(* A window that is certified holds every call of its swap chain whose      *)
(* Start was read, unless a Start was paired with the Stop of another call: *)
(* lost, replaced, expired and cleared calls are behind a recorded loss     *)
(* (DxgiFrameTimingSession, PresentSource::measure_window).                 *)
THEOREM CertifiedAlwaysMissesNothing == WatchSpec => []CertifiedMissesNothing
<1>1. WatchInv => CertifiedMissesNothing
  BY CaptureCertified DEF WatchInv, CertifiedMissesNothing
<1> QED
  BY <1>1, InitWatch, NextWatch, PTL DEF WatchSpec

(* What the reader in the other process accepts is the last publication as  *)
(* it was completed, for any number of writers, of words it saw torn and of *)
(* attempts (ObservationReader::read, publish_solver_snapshot).             *)
THEOREM AcceptedWasPublished == WatchSpec => AcceptedIsPublished
<1> DEFINE Taken ==
      observationReading.accepted = <<>> /\ observationReading'.accepted # <<>> =>
          /\ \A w \in Observation!WordsSet \ {"countsValid"} :
                Observation!Accepted(w)' = published[w]
          /\ Observation!Accepted("countsValid")' <= published["countsValid"]
<1>1. WatchInv /\ [WatchNext]_watchVars => [Taken]_Observation!vars
  <2> SUFFICES ASSUME WatchInv, [WatchNext]_watchVars PROVE Taken
    OBVIOUS
  <2>1. LockIsOneThreads
    BY DEF WatchInv, TrackingInv, ObservationTypes, LockIsOneThreads
  <2> QED
    BY <2>1, StepOfOnePart, AcceptedStep DEF WatchInv
<1> QED
  BY <1>1, InitWatch, NextWatch, PTL DEF WatchSpec, AcceptedIsPublished,
       Observation!AcceptedIsPublished

(* The worker forgets nothing that was appended or cleared while it wrote   *)
(* or failed to write (persistence_pending_).                               *)
THEOREM NothingIsForgotten == WatchSpec => []NothingForgotten
<1>1. WatchInv => NothingForgotten
  BY DEF WatchInv, Persistence, NothingForgotten
<1> QED
  BY <1>1, InitWatch, NextWatch, PTL DEF WatchSpec

(* A flush that returns true has everything logged before it in the file    *)
(* (EventLog::flush).                                                       *)
THEOREM FlushTellsTheTruth == WatchSpec => []FlushIsTruthful
<1>1. WatchInv => FlushIsTruthful
  BY DEF WatchInv, Persistence, FlushIsTruthful
<1> QED
  BY <1>1, InitWatch, NextWatch, PTL DEF WatchSpec

(* The destruction of a healthy log leaves the whole log in the file        *)
(* (~EventLog, persist_worker).                                             *)
THEOREM HealthyExitIsDrained == WatchSpec => []HealthyExitDrains
<1>1. WatchInv => HealthyExitDrains
  BY DEF WatchInv, Persistence, Counters, EndIsDrained, Events!NothingForgotten,
       HealthyExitDrains, Events!HealthyExitDrains
<1> QED
  BY <1>1, InitWatch, NextWatch, PTL DEF WatchSpec

(* Every line that is read reaches the UI once and in order, a map         *)
(* selection starts at most one pre-warm and only if it was written after   *)
(* the log was opened, and no counter outlives its binding or its map,      *)
(* however the UI binds, clears and takes while the worker resets, reads,   *)
(* catches up, is refused the file or fails to publish (run_loop,           *)
(* NativeGameLogSampler::sample, update_overlay_scene_gate).                *)
THEOREM HandOffStaysExact == WatchSpec => []HandOffIsExact
<1>1. WatchInv => HandOffIsExact
  BY HandIsExact DEF WatchInv, HandOffIsExact
<1> QED
  BY <1>1, InitWatch, NextWatch, PTL DEF WatchSpec

(***************************************************************************)
(* The background writer.                                                   *)
(***************************************************************************)

(* The ticket has been written, with its bytes or newer ones.               *)
Saved(t) == t \in DOMAIN owner /\ files[owner[t]] >= t

(* A task answers tickets of its own target, all older than its bytes.      *)
Covers(t, o) ==
    /\ t.bytes <= Len(o)
    /\ \A k \in 1..Len(t.tickets) :
          /\ t.tickets[k] \in 1..Len(o) /\ o[t.tickets[k]] = t.target
          /\ t.tickets[k] <= t.bytes

GoodTasks == {t \in TaskRecords : Covers(t, owner)}
GoodOutcomes == {o \in Nat \X BOOLEAN : o[2] = TRUE => Saved(o[1])}

Types ==
    /\ owner \in Seq(Targets) /\ files \in [Targets -> Nat] /\ faults \in Nat
    /\ \A f \in Targets : files[f] <= Len(owner)
    /\ queue \in Seq(GoodTasks)
    /\ task # None => task \in [of : GoodTasks, result : BOOLEAN \cup {None}]
    /\ outcomes \in Seq(GoodOutcomes)

(* Every write to come is newer than what its target holds, and there is one *)
(* queued task for a target, newer than the one being written.              *)
Newer ==
    /\ \A i \in 1..Len(queue) : files[queue[i].target] <= queue[i].bytes
    /\ \A i, j \in 1..Len(queue) : queue[i].target = queue[j].target => i = j
    /\ task # None =>
          /\ task.result = None => files[task.of.target] <= task.of.bytes
          /\ task.result = TRUE => files[task.of.target] >= task.of.bytes
          /\ \A i \in 1..Len(queue) :
                queue[i].target = task.of.target => task.of.bytes <= queue[i].bytes

Answered == said # None /\ said[2] = TRUE => Saved(said[1])

(* As long as nothing failed, what is not written is queued or being written. *)
Waits(t) ==
    \/ \E i \in 1..Len(queue) : queue[i].target = owner[t] /\ t <= queue[i].bytes
    \/ task # None /\ task.result = None /\ task.of.target = owner[t] /\ t <= task.of.bytes

NothingLost == faults = 0 => \A t \in 1..Len(owner) : Saved(t) \/ Waits(t)

EndIsEmpty == worker = "ended" => stopping = TRUE /\ queue = <<>> /\ task = None

WriterInv == Types /\ Newer /\ Answered /\ NothingLost /\ EndIsEmpty

-----------------------------------------------------------------------------
LEMMA InitWriter == Init => WriterInv
<1> SUFFICES ASSUME Init PROVE WriterInv
  OBVIOUS
<1>1. Len(owner) = 0 /\ Len(queue) = 0
  BY DEF Init
<1>2. Types
  BY EmptySeq DEF Init, Types
<1> QED
  BY <1>1, <1>2 DEF Init, WriterInv, Newer, Answered, NothingLost, EndIsEmpty

(* When tickets keep their targets and files only move on, tasks and        *)
(* outcomes stay good.                                                      *)
LEMMA GoodStaysGood ==
  ASSUME owner \in Seq(Targets), owner' \in Seq(Targets), Len(owner) <= Len(owner'),
         \A t \in 1..Len(owner) : owner'[t] = owner[t],
         files \in [Targets -> Nat], files' \in [Targets -> Nat],
         \A f \in Targets : files[f] <= files'[f]
  PROVE  /\ \A t : Saved(t) => Saved(t)'
         /\ GoodTasks \subseteq GoodTasks'
         /\ GoodOutcomes \subseteq GoodOutcomes'
<1>1. \A t : Saved(t) => Saved(t)'
  <2> SUFFICES ASSUME NEW t, Saved(t) PROVE Saved(t)'
    OBVIOUS
  <2>1. t \in 1..Len(owner) /\ t \in 1..Len(owner') /\ files[owner[t]] >= t
    <3>1. t \in DOMAIN owner /\ files[owner[t]] >= t
      BY DEF Saved
    <3>2. DOMAIN owner = 1..Len(owner) /\ Len(owner) \in Nat /\ Len(owner') \in Nat
      BY LenProperties
    <3> QED
      BY <3>1, <3>2
  <2>2. owner'[t] = owner[t] /\ owner[t] \in Targets
    BY <2>1, ElementOfSeq
  <2> QED
    BY <2>1, <2>2, LenProperties DEF Saved
<1>2. GoodTasks \subseteq GoodTasks'
  <2> SUFFICES ASSUME NEW t \in GoodTasks PROVE t \in GoodTasks'
    OBVIOUS
  <2>1. Covers(t, owner) /\ t \in TaskRecords /\ t.bytes \in Nat
    BY DEF GoodTasks, TaskRecords
  <2>2. Covers(t, owner')
    <3>1. Len(owner) \in Nat /\ Len(owner') \in Nat
      BY LenProperties
    <3>2. t.bytes <= Len(owner')
      BY <2>1, <3>1 DEF Covers
    <3>4. 1..Len(owner) \subseteq 1..Len(owner')
      <4> DEFINE m == Len(owner)
                 n == Len(owner')
      <4>1. m \in Nat /\ n \in Nat /\ m <= n
        BY <3>1
      <4> HIDE DEF m, n
      <4>2. 1..m \subseteq 1..n
        BY <4>1
      <4> QED
        BY <4>2 DEF m, n
    <3>3. ASSUME NEW k \in 1..Len(t.tickets)
          PROVE  /\ t.tickets[k] \in 1..Len(owner') /\ owner'[t.tickets[k]] = t.target
                 /\ t.tickets[k] <= t.bytes
      <4>1. t.tickets[k] \in 1..Len(owner) /\ owner[t.tickets[k]] = t.target
            /\ t.tickets[k] <= t.bytes
        BY <2>1 DEF Covers
      <4> DEFINE ticket == t.tickets[k]
      <4>2. ticket \in 1..Len(owner) /\ owner[ticket] = t.target /\ ticket <= t.bytes
        BY <4>1
      <4> HIDE DEF ticket
      <4>3. ticket \in 1..Len(owner')
        BY <4>2, <3>4, Zenon
      <4>4. owner'[ticket] = t.target
        BY <4>2, Zenon
      <4> QED
        BY <4>2, <4>3, <4>4, Zenon DEF ticket
    <3> QED
      BY <3>2, <3>3 DEF Covers
  <2> QED
    BY <2>1, <2>2 DEF GoodTasks
<1>3. GoodOutcomes \subseteq GoodOutcomes'
  BY <1>1 DEF GoodOutcomes
<1> QED
  BY <1>1, <1>2, <1>3

(* Steps that touch neither the tickets nor the files nor the work.         *)
LEMMA CallerKeeps ==
  ASSUME WriterInv, UNCHANGED <<queue, task, outcomes, owner, files, worker, faults>>,
         stopping' = stopping \/ stopping' = TRUE, Answered'
  PROVE  WriterInv'
<1>1. Types' /\ Newer' /\ NothingLost'
  BY DEF WriterInv, Types, Newer, NothingLost, Saved, Waits, GoodTasks, GoodOutcomes,
       Covers
<1>2. EndIsEmpty'
  BY DEF WriterInv, EndIsEmpty
<1> QED
  BY <1>1, <1>2 DEF WriterInv

(* A renewed task is a task for the same target.                            *)
LEMMA RenewedIs ==
  ASSUME NEW t \in TaskRecords, NEW k \in Nat
  PROVE  /\ Renewed(t, k) \in TaskRecords
         /\ Renewed(t, k).target = t.target /\ Renewed(t, k).bytes = k
         /\ Renewed(t, k).tickets = Append(t.tickets, k)
<1>1. t.tickets \in Seq(Nat) /\ Append(t.tickets, k) \in Seq(Nat)
  BY DEF TaskRecords
<1> DEFINE longer == Append(t.tickets, k)
<1>2. longer \in Seq(Nat) /\ Renewed(t, k) = [t EXCEPT !.tickets = longer, !.bytes = k]
  BY <1>1 DEF Renewed
<1> HIDE DEF longer
<1>3. /\ Renewed(t, k) \in TaskRecords
      /\ Renewed(t, k).target = t.target /\ Renewed(t, k).bytes = k
      /\ Renewed(t, k).tickets = longer
  BY <1>2 DEF TaskRecords
<1> QED
  BY <1>3 DEF longer

LEMMA SubmitKeeps ==
  ASSUME WriterInv, NEW f \in Targets, Submit(f)
  PROVE  WriterInv'
<1> DEFINE n == Len(owner) + 1
           same == {i \in DOMAIN queue : queue[i].target = f}
           one == [tickets |-> <<n>>, target |-> f, bytes |-> n]
<1>1. /\ owner' = Append(owner, f) /\ stopping # TRUE
      /\ queue' = IF same = {} THEN Append(queue, one)
                  ELSE [i \in DOMAIN queue |->
                          IF i \in same THEN Renewed(queue[i], n) ELSE queue[i]]
      /\ UNCHANGED <<task, outcomes, files, said, worker, stopping, faults>>
  BY DEF Submit
<1>2. /\ owner \in Seq(Targets) /\ files \in [Targets -> Nat] /\ queue \in Seq(GoodTasks)
      /\ \A g \in Targets : files[g] <= Len(owner)
  BY DEF WriterInv, Types
<1>3. /\ owner' \in Seq(Targets) /\ Len(owner') = n /\ Len(owner) \in Nat /\ n \in Nat
      /\ owner'[n] = f /\ \A t \in 1..Len(owner) : owner'[t] = owner[t]
  BY <1>1, <1>2, LenProperties
<1>4. /\ \A t : Saved(t) => Saved(t)'
      /\ GoodTasks \subseteq GoodTasks' /\ GoodOutcomes \subseteq GoodOutcomes'
  BY <1>1, <1>2, <1>3, GoodStaysGood
<1>5. DOMAIN queue = 1..Len(queue) /\ Len(queue) \in Nat
      /\ \A i \in 1..Len(queue) : queue[i] \in GoodTasks
  BY <1>2, LenProperties, ElementOfSeq
<1>6. one \in GoodTasks'
  BY <1>3 DEF GoodTasks, Covers, TaskRecords
<1>7. ASSUME NEW i \in 1..Len(queue), queue[i].target = f
      PROVE  /\ Renewed(queue[i], n) \in GoodTasks'
             /\ Renewed(queue[i], n).target = f /\ Renewed(queue[i], n).bytes = n
  <2>1. queue[i] \in TaskRecords /\ Covers(queue[i], owner')
    <3>1. queue[i] \in GoodTasks'
      BY <1>4, <1>5
    <3> QED
      BY <3>1 DEF GoodTasks
  <2> DEFINE r == Renewed(queue[i], n)
  <2>2. /\ r \in TaskRecords /\ r.target = f /\ r.bytes = n
        /\ r.tickets = Append(queue[i].tickets, n)
    BY <2>1, <1>3, <1>7, RenewedIs
  <2>3. queue[i].tickets \in Seq(Nat) /\ Len(queue[i].tickets) \in Nat
    BY <2>1, LenProperties DEF TaskRecords
  <2>4. ASSUME NEW k \in 1..Len(r.tickets)
        PROVE  r.tickets[k] \in 1..n /\ owner'[r.tickets[k]] = f /\ r.tickets[k] <= n
    <3>1. CASE k \in 1..Len(queue[i].tickets)
      <4>1. r.tickets[k] = queue[i].tickets[k]
        BY <2>2, <2>3, <3>1
      <4> QED
        BY <4>1, <2>1, <3>1, <1>3, <1>7 DEF Covers
    <3>2. CASE k = Len(queue[i].tickets) + 1
      <4>1. r.tickets[k] = n
        BY <2>2, <2>3, <3>2
      <4> QED
        BY <4>1, <1>3
    <3> QED
      BY <2>2, <2>3, <3>1, <3>2
  <2>5. Covers(r, owner')
    <3>1. r.bytes = n /\ r.target = f
      BY <2>2
    <3> HIDE DEF r
    <3> QED
      BY <2>4, <3>1, <1>3 DEF Covers
  <2> QED
    BY <2>2, <2>5 DEF GoodTasks
<1>8. /\ queue' \in Seq(GoodTasks')
      /\ \A i \in 1..Len(queue') :
            \/ i \in 1..Len(queue) /\ queue[i].target # f /\ queue'[i] = queue[i]
            \/ i \in 1..Len(queue) /\ queue[i].target = f
               /\ queue'[i].target = f /\ queue'[i].bytes = n
            \/ same = {} /\ i = Len(queue) + 1 /\ queue'[i] = one
      /\ Len(queue) <= Len(queue')
      /\ \E i \in 1..Len(queue') : queue'[i].target = f /\ queue'[i].bytes = n
  <2>1. CASE same = {}
    <3>1. queue \in Seq(GoodTasks')
      BY <1>2, <1>4, SeqMonotonic
    <3>2. /\ queue' = Append(queue, one) /\ Len(queue') = Len(queue) + 1
          /\ queue'[Len(queue) + 1] = one
          /\ \A i \in 1..Len(queue) : queue'[i] = queue[i] /\ queue[i].target # f
      <4>1. \A i \in 1..Len(queue) : queue[i].target # f
        BY <1>5, <2>1
      <4>2. queue' = Append(queue, one)
        BY <1>1, <2>1
      <4> HIDE DEF one, same
      <4> QED
        BY <4>1, <4>2, <1>5, <1>6, <3>1
    <3>3. queue' \in Seq(GoodTasks')
      BY <3>1, <3>2, <1>6
    <3> HIDE DEF same
    <3> QED
      BY <3>2, <3>3, <2>1, <1>5
  <2>2. CASE same # {}
    <3>1. /\ DOMAIN queue' = 1..Len(queue)
          /\ \A i \in 1..Len(queue) :
                queue'[i] = IF queue[i].target = f THEN Renewed(queue[i], n) ELSE queue[i]
      BY <1>1, <1>5, <2>2
    <3>2. \A i \in 1..Len(queue) : queue'[i] \in GoodTasks'
      BY <3>1, <1>4, <1>5, <1>7
    <3>3. queue' \in [1..Len(queue) -> GoodTasks']
      <4>1. queue' = [i \in 1..Len(queue) |-> queue'[i]]
        BY <1>1, <1>5, <2>2
      <4> QED
        BY <4>1, <3>2
    <3>4. queue' \in Seq(GoodTasks') /\ Len(queue') = Len(queue)
      BY <3>3, <1>5, SeqDef, LenProperties
    <3> QED
      BY <3>1, <3>4, <1>5, <1>7, <2>2
  <2> QED
    BY <2>1, <2>2
<1> HIDE DEF same, one
<1>9. Types'
  <2>1. outcomes' \in Seq(GoodOutcomes')
    BY <1>1, <1>4, SeqMonotonic DEF WriterInv, Types
  <2>2. \A g \in Targets : files'[g] <= Len(owner')
    BY <1>1, <1>2, <1>3
  <2> QED
    BY <1>1, <1>2, <1>3, <1>4, <1>8, <2>1, <2>2 DEF WriterInv, Types
<1>10. Newer'
  <2>1. \A i \in 1..Len(queue') : queue'[i].target \in Targets /\ queue'[i].bytes \in Nat
    BY <1>8, ElementOfSeq DEF GoodTasks, TaskRecords
  <2>2. \A i \in 1..Len(queue') : files'[queue'[i].target] <= queue'[i].bytes
    <3> SUFFICES ASSUME NEW i \in 1..Len(queue')
                 PROVE  files[queue'[i].target] <= queue'[i].bytes
      BY <1>1
    <3>1. CASE i \in 1..Len(queue) /\ queue'[i] = queue[i]
      BY <3>1 DEF WriterInv, Newer
    <3>2. CASE queue'[i].target = f /\ queue'[i].bytes = n
      <4>1. files[f] <= Len(owner) /\ files[f] \in Nat
        BY <1>2
      <4> QED
        BY <3>2, <4>1, <1>3
    <3> QED
      BY <1>8, <3>1, <3>2 DEF one
  <2>3. \A i, j \in 1..Len(queue') : queue'[i].target = queue'[j].target => i = j
    BY <1>5, <1>8 DEF WriterInv, Newer, one, same
  <2>4. task # None => task.of \in TaskRecords /\ task.of.bytes <= Len(owner)
    BY DEF WriterInv, Types, GoodTasks, Covers
  <2>5. ASSUME task # None, NEW i \in 1..Len(queue'), queue'[i].target = task.of.target
        PROVE  task.of.bytes <= queue'[i].bytes
    <3>1. /\ task.of.bytes \in Nat /\ task.of.bytes <= Len(owner)
          /\ \A j \in 1..Len(queue) :
                queue[j].target = task.of.target => task.of.bytes <= queue[j].bytes
      BY <2>4, <2>5 DEF WriterInv, Newer, TaskRecords
    <3>2. task.of.bytes <= n
      BY <3>1, <1>3
    <3>3. CASE i \in 1..Len(queue) /\ queue'[i] = queue[i]
      BY <3>1, <3>3, <2>5
    <3>4. CASE queue'[i].bytes = n
      BY <3>2, <3>4
    <3>5. CASE queue'[i] = one
      BY <3>2, <3>5 DEF one
    <3>6. \/ i \in 1..Len(queue) /\ queue'[i] = queue[i]
          \/ queue'[i].bytes = n
          \/ queue'[i] = one
      BY <1>8, Zenon
    <3> QED
      BY <3>3, <3>4, <3>5, <3>6, Zenon
  <2>6. /\ task' # None /\ task'.result = None => files'[task'.of.target] <= task'.of.bytes
        /\ task' # None /\ task'.result = TRUE => files'[task'.of.target] >= task'.of.bytes
    BY <1>1, Zenon DEF WriterInv, Newer
  <2>7. task' # None => \A i \in 1..Len(queue') :
                          queue'[i].target = task'.of.target => task'.of.bytes <= queue'[i].bytes
    BY <1>1, <2>5, Zenon
  <2> QED
    BY <2>2, <2>3, <2>6, <2>7, Zenon DEF Newer
<1>11. NothingLost'
  <2> SUFFICES ASSUME faults' = 0, NEW t \in 1..Len(owner') PROVE Saved(t)' \/ Waits(t)'
    BY DEF NothingLost
  <2>1. CASE t = n
    BY <2>1, <1>3, <1>8 DEF Waits
  <2>2. CASE t \in 1..Len(owner)
    <3>1. Saved(t) \/ Waits(t)
      BY <1>1, <2>2 DEF WriterInv, NothingLost
    <3>2. CASE Waits(t)
      <4>1. CASE \E i \in 1..Len(queue) : queue[i].target = owner[t] /\ t <= queue[i].bytes
        <5>1. PICK i \in 1..Len(queue) : queue[i].target = owner[t] /\ t <= queue[i].bytes
          BY <4>1
        <5>2. i \in 1..Len(queue') /\ queue'[i].target = owner[t] /\ t <= queue'[i].bytes
          BY <5>1, <1>3, <1>5, <1>8, <2>2, LenProperties
        <5> QED
          BY <5>2, <1>3, <2>2 DEF Waits
      <4> QED
        BY <3>2, <4>1, <1>1, <1>3, <2>2 DEF Waits
    <3> QED
      BY <3>1, <3>2, <1>4
  <2> QED
    BY <2>1, <2>2, <1>3
<1>12. Answered' /\ EndIsEmpty'
  BY <1>1, <1>4 DEF WriterInv, Answered, EndIsEmpty
<1> QED
  BY <1>9, <1>10, <1>11, <1>12 DEF WriterInv

(* The worker takes the first task of the queue.                            *)
LEMMA TakeKeeps == ASSUME WriterAssumption, WriterInv, Take PROVE WriterInv'
<1>1. /\ queue # <<>> /\ task = None /\ worker = "runs"
      /\ task' = [of |-> Head(queue), result |-> None] /\ queue' = Tail(queue)
      /\ UNCHANGED <<owner, said, stopping, outcomes, files, worker, faults>>
  BY DEF Take, caller
<1>2. /\ queue \in Seq(GoodTasks) /\ queue' \in Seq(GoodTasks)
      /\ Head(queue) \in GoodTasks /\ Head(queue) = queue[1]
      /\ Len(queue) \in Nat \ {0} /\ Len(queue') = Len(queue) - 1
      /\ \A i \in 1..Len(queue') : i + 1 \in 1..Len(queue) /\ queue'[i] = queue[i + 1]
  <2>1. queue \in Seq(GoodTasks)
    BY DEF WriterInv, Types
  <2> QED
    BY <1>1, <2>1, HeadTailProperties, EmptySeq
<1>3. GoodTasks' = GoodTasks /\ GoodOutcomes' = GoodOutcomes
  BY <1>1 DEF GoodTasks, GoodOutcomes, Saved
<1>4. task' # None /\ task'.of = queue[1] /\ task'.result = None
  <2>1. Head(queue) \in TaskRecords
    BY <1>2 DEF GoodTasks
  <2>2. task' \in [of : TaskRecords, result : BOOLEAN \cup {None}]
    BY <1>1, <2>1
  <2> QED
    BY <1>1, <1>2, <2>2 DEF WriterAssumption
<1>5. Types'
  BY <1>1, <1>2, <1>3 DEF WriterInv, Types
<1>6. Newer'
  <2>1. \A i, j \in 1..Len(queue') : queue'[i].target = queue'[j].target => i = j
    BY <1>2 DEF WriterInv, Newer
  <2>2. \A i \in 1..Len(queue') : files[queue'[i].target] <= queue'[i].bytes
                                 /\ queue'[i].target # queue[1].target
    BY <1>2 DEF WriterInv, Newer
  <2>3. files[queue[1].target] <= queue[1].bytes
    BY <1>2 DEF WriterInv, Newer
  <2>4. task'.result # TRUE
    BY <1>4 DEF WriterAssumption
  <2> QED
    BY <1>1, <1>4, <2>1, <2>2, <2>3, <2>4 DEF Newer
<1>7. NothingLost'
  <2> SUFFICES ASSUME faults = 0, NEW t \in 1..Len(owner) PROVE Saved(t)' \/ Waits(t)'
    BY <1>1 DEF NothingLost
  <2>1. CASE Saved(t)
    BY <2>1, <1>1 DEF Saved
  <2>2. CASE Waits(t)
    <3>1. PICK i \in 1..Len(queue) : queue[i].target = owner[t] /\ t <= queue[i].bytes
      BY <2>2, <1>1 DEF Waits
    <3>2. CASE i = 1
      BY <3>1, <3>2, <1>1, <1>4 DEF Waits
    <3>3. CASE i # 1
      <4>1. i - 1 \in 1..Len(queue') /\ queue'[i - 1] = queue[i]
        BY <3>3, <1>2
      <4> QED
        BY <3>1, <4>1, <1>1 DEF Waits
    <3> QED
      BY <3>2, <3>3
  <2> QED
    BY <2>1, <2>2 DEF WriterInv, NothingLost
<1>8. Answered' /\ EndIsEmpty'
  BY <1>1 DEF WriterInv, Answered, EndIsEmpty, Saved
<1> QED
  BY <1>5, <1>6, <1>7, <1>8 DEF WriterInv

(* The worker replaces the file, or fails and may have replaced it.         *)
LEMMA WriteKeeps == ASSUME WriterAssumption, WriterInv, Write PROVE WriterInv'
<1> DEFINE g == task.of.target
           b == task.of.bytes
<1>1. /\ task # None /\ task.result = None
      /\ UNCHANGED <<owner, said, stopping, queue, outcomes, worker>>
      /\ files' = files \/ files' = [files EXCEPT ![g] = b]
      /\ \/ task' = [task EXCEPT !.result = TRUE] /\ files' = [files EXCEPT ![g] = b]
            /\ faults' = faults
         \/ task' = [task EXCEPT !.result = FALSE] /\ faults' = faults + 1
  BY DEF Write, caller, Fault
<1>2. /\ task.of \in GoodTasks /\ g \in Targets /\ b \in Nat /\ b <= Len(owner)
      /\ task \in [of : GoodTasks, result : BOOLEAN \cup {None}]
      /\ owner \in Seq(Targets) /\ files \in [Targets -> Nat] /\ faults \in Nat
      /\ Len(owner) \in Nat
  <2>1. task \in [of : GoodTasks, result : BOOLEAN \cup {None}]
    BY <1>1 DEF WriterInv, Types
  <2>2. task.of \in TaskRecords /\ Covers(task.of, owner)
    BY <2>1 DEF GoodTasks
  <2> QED
    BY <2>1, <2>2, LenProperties DEF WriterInv, Types, TaskRecords, Covers
<1> HIDE DEF g, b
<1>3. files[g] <= b
  BY <1>1 DEF WriterInv, Newer, g, b
<1>4. /\ files' \in [Targets -> Nat] /\ \A f \in Targets : files[f] <= files'[f]
      /\ \A f \in Targets : f # g => files'[f] = files[f]
      /\ files'[g] <= b
      /\ \A f \in Targets : files'[f] <= Len(owner)
  <2>1. \A f \in Targets : files[f] <= Len(owner) /\ files[f] \in Nat
    BY <1>2 DEF WriterInv, Types
  <2>2. CASE files' = files
    BY <2>1, <2>2, <1>2, <1>3
  <2>3. CASE files' = [files EXCEPT ![g] = b]
    BY <2>1, <2>3, <1>2, <1>3
  <2> QED
    BY <1>1, <2>2, <2>3
<1>5. /\ \A t : Saved(t) => Saved(t)'
      /\ GoodTasks \subseteq GoodTasks' /\ GoodOutcomes \subseteq GoodOutcomes'
  BY <1>1, <1>2, <1>4, GoodStaysGood
<1>6. /\ task' \in [of : GoodTasks', result : BOOLEAN \cup {None}]
      /\ task'.of = task.of /\ task'.result \in BOOLEAN
      /\ task'.result = TRUE => files'[g] = b
      /\ (files'[g] = b /\ faults' = faults) \/ faults' = faults + 1
  <2>1. CASE task' = [task EXCEPT !.result = TRUE] /\ files' = [files EXCEPT ![g] = b]
             /\ faults' = faults
    BY <1>2, <1>5, <2>1
  <2>2. CASE task' = [task EXCEPT !.result = FALSE] /\ faults' = faults + 1
    BY <1>2, <1>5, <2>2
  <2> QED
    BY <1>1, <2>1, <2>2
<1>7. queue \in Seq(GoodTasks) /\ queue \in Seq(GoodTasks') /\ outcomes \in Seq(GoodOutcomes')
  BY <1>5, SeqMonotonic DEF WriterInv, Types
<1>8. Types'
  BY <1>1, <1>2, <1>4, <1>6, <1>7 DEF Types
<1>9. Newer'
  <2>1. \A i \in 1..Len(queue) : queue[i].target \in Targets /\ queue[i].bytes \in Nat
    BY <1>7, ElementOfSeq DEF GoodTasks, TaskRecords
  <2>2. \A i \in 1..Len(queue) : queue[i].target = g => b <= queue[i].bytes
    BY <1>1 DEF WriterInv, Newer, g, b
  <2>3. \A i \in 1..Len(queue) : files'[queue[i].target] <= queue[i].bytes
    <3> SUFFICES ASSUME NEW i \in 1..Len(queue) PROVE files'[queue[i].target] <= queue[i].bytes
      OBVIOUS
    <3>1. CASE queue[i].target = g
      BY <2>1, <2>2, <3>1, <1>2, <1>4
    <3>2. CASE queue[i].target # g
      BY <2>1, <3>2, <1>4 DEF WriterInv, Newer
    <3> QED
      BY <3>1, <3>2
  <2>4. \A i, j \in 1..Len(queue) : queue[i].target = queue[j].target => i = j
    BY DEF WriterInv, Newer
  <2>5. task'.result # None
    BY <1>6 DEF WriterAssumption
  <2> QED
    BY <1>1, <1>2, <1>6, <2>2, <2>3, <2>4, <2>5 DEF Newer, g, b
<1>10. NothingLost'
  <2> SUFFICES ASSUME faults' = 0, NEW t \in 1..Len(owner) PROVE Saved(t)' \/ Waits(t)'
    BY <1>1 DEF NothingLost
  <2>1. faults = 0 /\ files'[g] = b
    BY <1>2, <1>6
  <2>2. CASE Saved(t)
    BY <2>2, <1>5
  <2>3. CASE \E i \in 1..Len(queue) : queue[i].target = owner[t] /\ t <= queue[i].bytes
    BY <2>3, <1>1 DEF Waits
  <2>4. CASE owner[t] = g /\ t <= b
    BY <2>1, <2>4, <1>1, <1>2, LenProperties DEF Saved
  <2> QED
    BY <2>1, <2>2, <2>3, <2>4 DEF WriterInv, NothingLost, Waits, g, b
<1>11. Answered' /\ EndIsEmpty'
  BY <1>1, <1>5 DEF WriterInv, Answered, EndIsEmpty
<1> QED
  BY <1>8, <1>9, <1>10, <1>11 DEF WriterInv

(* The outcomes of a task are good once its file is written.                *)
LEMMA ResultsAreGood ==
  ASSUME WriterAssumption, WriterInv, task # None, task.result # None
  PROVE  Results \in Seq(GoodOutcomes) /\ Len(Results) = Len(task.of.tickets)
<1> DEFINE ts == task.of.tickets
<1>1. /\ task.of \in GoodTasks /\ task.result \in BOOLEAN
      /\ task.result = TRUE => files[task.of.target] >= task.of.bytes
  BY DEF WriterInv, Types, Newer
<1>2. /\ ts \in Seq(Nat) /\ task.of.bytes \in Nat /\ task.of.target \in Targets
      /\ Covers(task.of, owner)
  BY <1>1 DEF GoodTasks, TaskRecords
<1>3. /\ DOMAIN ts = 1..Len(ts) /\ Len(ts) \in Nat /\ \A k \in 1..Len(ts) : ts[k] \in Nat
      /\ DOMAIN owner = 1..Len(owner) /\ files \in [Targets -> Nat]
  BY <1>2, LenProperties, ElementOfSeq DEF WriterInv, Types
<1>4. ASSUME NEW k \in 1..Len(ts) PROVE <<ts[k], task.result>> \in GoodOutcomes
  <2>1. ts[k] \in 1..Len(owner) /\ owner[ts[k]] = task.of.target /\ ts[k] <= task.of.bytes
    BY <1>2 DEF Covers
  <2> HIDE DEF ts
  <2>2. task.result = TRUE => Saved(ts[k])
    BY <1>1, <1>2, <1>3, <2>1 DEF Saved
  <2> QED
    BY <1>1, <1>3, <2>2 DEF GoodOutcomes
<1>5. Results = [k \in 1..Len(ts) |-> <<ts[k], task.result>>]
  BY <1>3 DEF Results
<1> HIDE DEF ts
<1>6. Results \in [1..Len(ts) -> GoodOutcomes]
  BY <1>4, <1>5
<1> QED
  BY <1>3, <1>6, SeqDef, LenProperties DEF ts

(* The outcomes are added, some of them or the oldest ones dropped.         *)
LEMMA PublishKeeps == ASSUME WriterAssumption, WriterInv, Publish PROVE WriterInv'
<1>1. /\ task # None /\ task.result # None /\ task' = None
      /\ UNCHANGED <<owner, said, stopping, queue, files, worker>>
      /\ faults' = faults \/ faults' = faults + 1
  BY DEF Publish, caller, Fault
<1>2. /\ outcomes \in Seq(GoodOutcomes) /\ Results \in Seq(GoodOutcomes)
      /\ Len(outcomes) \in Nat /\ Len(Results) \in Nat
  BY <1>1, ResultsAreGood, LenProperties DEF WriterInv, Types
<1>3. outcomes' \in Seq(GoodOutcomes)
  <2>1. ASSUME NEW n \in Int, n <= Len(Results) PROVE SubSeq(Results, 1, n) \in Seq(GoodOutcomes)
    <3>1. \A i \in 1..n : Results[i] \in GoodOutcomes
      BY <1>2, <2>1, ElementOfSeq
    <3> QED
      BY <3>1, <2>1, SubSeqProperties
  <2> DEFINE all == outcomes \o Results
  <2>2. all \in Seq(GoodOutcomes) /\ Len(all) \in Nat
    BY <1>2, ConcatProperties, LenProperties
  <2>3. ASSUME NEW d \in Nat PROVE SubSeq(all, d + 1, Len(all)) \in Seq(GoodOutcomes)
    <3>1. \A i \in d + 1..Len(all) : all[i] \in GoodOutcomes
      BY <2>2, ElementOfSeq
    <3> HIDE DEF all
    <3> QED
      BY <3>1, <2>2, SubSeqProperties
  <2>4. CASE outcomes' = SubSeq(all, (IF Len(all) > Retained THEN Len(all) - Retained ELSE 0) + 1,
                               Len(all))
    <3> DEFINE d == IF Len(all) > Retained THEN Len(all) - Retained ELSE 0
    <3>1. d \in Nat
      BY <2>2 DEF WriterAssumption
    <3> HIDE DEF d, all
    <3>2. SubSeq(all, d + 1, Len(all)) \in Seq(GoodOutcomes)
      BY <2>3, <3>1
    <3> QED
      BY <2>4, <3>2 DEF d
  <2>5. CASE \E n \in 0..Len(Results) - 1 : outcomes' = outcomes \o SubSeq(Results, 1, n)
    BY <2>1, <2>5, <1>2, ConcatProperties
  <2> QED
    BY <2>4, <2>5 DEF Publish
<1>4. GoodTasks' = GoodTasks /\ GoodOutcomes' = GoodOutcomes /\ \A t : Saved(t)' <=> Saved(t)
  BY <1>1 DEF GoodTasks, GoodOutcomes, Saved
<1>5. Types' /\ Newer' /\ Answered' /\ EndIsEmpty'
  BY <1>1, <1>3, <1>4 DEF WriterInv, Types, Newer, Answered, EndIsEmpty, Saved
<1>6. NothingLost'
  <2> SUFFICES ASSUME faults' = 0, NEW t \in 1..Len(owner) PROVE Saved(t)' \/ Waits(t)'
    BY <1>1 DEF NothingLost
  <2>1. faults = 0
    BY <1>1 DEF WriterInv, Types
  <2>2. Waits(t) => Waits(t)'
    BY <1>1 DEF Waits
  <2> QED
    BY <1>4, <2>1, <2>2 DEF WriterInv, NothingLost
<1> QED
  BY <1>5, <1>6 DEF WriterInv

LEMMA NextWriter == ASSUME WriterAssumption PROVE WriterInv /\ [Next]_vars => WriterInv'
<1> SUFFICES ASSUME WriterInv, [Next]_vars PROVE WriterInv'
  OBVIOUS
<1>1. ASSUME NEW f \in Targets, Submit(f) PROVE WriterInv'
  BY <1>1, SubmitKeeps
<1>2. ASSUME NEW t \in Tickets, Wait(t) PROVE WriterInv'
  <2>1. Answered'
    BY <1>2 DEF Wait, WriterInv, Answered, Saved
  <2> QED
    BY <1>2, <2>1, CallerKeeps DEF Wait
<1>3. CASE Answer
  <2>1. <<waiting, TRUE>> \in Outcomes(waiting) => Saved(waiting)
    <3> SUFFICES ASSUME <<waiting, TRUE>> \in Range(outcomes) PROVE Saved(waiting)
      BY DEF Outcomes
    <3>1. PICK i \in 1..Len(outcomes) : outcomes[i] = <<waiting, TRUE>>
      BY LenProperties DEF Range, WriterInv, Types
    <3>2. <<waiting, TRUE>> \in GoodOutcomes
      <4>1. outcomes \in Seq(GoodOutcomes)
        BY DEF WriterInv, Types
      <4>2. outcomes[i] \in GoodOutcomes
        BY <3>1, <4>1, ElementOfSeq
      <4> QED
        BY <3>1, <4>2
    <3> QED
      BY <3>2 DEF GoodOutcomes
  <2>2. UNCHANGED <<queue, task, outcomes, owner, files, worker, stopping, faults>>
    BY <1>3 DEF Answer
  <2>3. Answered'
    <3>1. CASE said' = <<waiting, <<waiting, TRUE>> \in Outcomes(waiting)>>
      <4>1. said'[1] = waiting /\ (said'[2] = TRUE => <<waiting, TRUE>> \in Outcomes(waiting))
        BY <3>1
      <4> QED
        BY <4>1, <2>1, <2>2 DEF Answered, Saved
    <3>2. CASE said' = <<waiting, FALSE>>
      BY <3>2 DEF Answered
    <3> QED
      BY <1>3, <3>1, <3>2 DEF Answer
  <2> QED
    BY <2>2, <2>3, CallerKeeps
<1>4. CASE Destroy
  <2>1. Answered'
    BY <1>4 DEF Destroy, WriterInv, Answered, Saved
  <2> QED
    BY <1>4, <2>1, CallerKeeps DEF Destroy
<1>5. CASE Take
  BY <1>5, TakeKeeps
<1>6. CASE End
  <2>1. /\ task = None /\ queue = <<>> /\ stopping
        /\ UNCHANGED <<owner, said, stopping, queue, task, outcomes, files, faults>>
    BY <1>6 DEF End, caller
  <2>2. Types' /\ Newer' /\ NothingLost' /\ Answered'
    BY <2>1 DEF WriterInv, Types, Newer, NothingLost, Answered, Saved, Waits, GoodTasks,
       GoodOutcomes
  <2>3. EndIsEmpty'
    BY <2>1 DEF EndIsEmpty
  <2> QED
    BY <2>2, <2>3 DEF WriterInv
<1>7. CASE Write
  BY <1>7, WriteKeeps
<1>8. CASE Publish
  BY <1>8, PublishKeeps
<1>9. CASE Fail
  <2>1. /\ worker' = "failed" /\ queue' = <<>> /\ faults' = faults + 1
        /\ UNCHANGED <<owner, said, stopping, task, outcomes, files>>
    BY <1>9 DEF Fail, caller, Fault
  <2>2. Types' /\ Answered' /\ EndIsEmpty'
    BY <2>1, EmptySeq DEF WriterInv, Types, Answered, Saved, GoodTasks, GoodOutcomes,
         EndIsEmpty
  <2>3. Newer' /\ NothingLost'
    <3>1. Len(queue') = 0 /\ faults' # 0
      BY <2>1 DEF WriterInv, Types
    <3> QED
      BY <2>1, <3>1 DEF WriterInv, Newer, NothingLost
  <2> QED
    BY <2>2, <2>3 DEF WriterInv
<1>10. CASE UNCHANGED vars
  <2>1. Answered'
    BY <1>10 DEF vars, WriterInv, Answered, Saved
  <2> QED
    BY <1>10, <2>1, CallerKeeps DEF vars
<1> QED
  BY <1>1, <1>2, <1>3, <1>4, <1>5, <1>6, <1>7, <1>8, <1>9, <1>10 DEF Next

(* A ticket that is told as saved is on disk and stays there, and when the  *)
(* destructor has returned and nothing failed, so is every ticket           *)
(* (AsyncFileWriter::wait, save_flex_report).                               *)
THEOREM SavedStaysOnDisk == ASSUME WriterAssumption PROVE Spec => []SavedIsOnDisk
<1>1. WriterInv => SavedIsOnDisk
  <2> SUFFICES ASSUME WriterInv PROVE SavedIsOnDisk
    OBVIOUS
  <2>1. said # None /\ said[2] => files[owner[said[1]]] >= said[1]
    BY DEF WriterInv, Answered, Saved
  <2>2. ASSUME worker = "ended", faults = 0, NEW t \in Tickets PROVE files[owner[t]] >= t
    <3>1. t \in 1..Len(owner)
      BY LenProperties DEF Tickets, WriterInv, Types
    <3>2. Len(queue) = 0 /\ task = None
      BY <2>2 DEF WriterInv, EndIsEmpty
    <3>3. Saved(t)
      BY <2>2, <3>1, <3>2 DEF WriterInv, NothingLost, Waits
    <3> QED
      BY <3>3 DEF Saved
  <2> QED
    BY <2>1, <2>2 DEF SavedIsOnDisk
<1> QED
  BY InitWriter, NextWriter, <1>1, PTL DEF Spec
================================================================================
