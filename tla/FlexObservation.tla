---------------------------- MODULE FlexObservation ----------------------------
(***************************************************************************)
(* The observation of the FleX solvers of a running KF2.  Inside the game   *)
(* the forwarder (src/flex/forwarder_stub.cpp) relays every call to the     *)
(* original library, keeps a slot for each live solver under a lock and     *)
(* publishes their sums in shared memory, one word at a time between two    *)
(* steps of a sequence number.  The optimizer (src/flex/flex_observation    *)
(* .cpp) reads the words without a lock and keeps what it read only if the  *)
(* sequence number was even and did not move.                               *)
(*                                                                         *)
(* The game calls the library correctly: it uses a solver only between its  *)
(* creation and its destruction, and the library may give the address of a  *)
(* destroyed solver to the next one.                                        *)
(***************************************************************************)
EXTENDS Integers, Sequences, FiniteSets, FiniteSetsExt, TLC

CONSTANTS
    Threads,    \* threads of the game that call the library
    Addresses,  \* addresses a solver may have
    Capacities, \* particles a solver may be created for
    Slots,      \* solver_slots: how many solvers are tracked
    Attempts,   \* attempts of one reading
    MaxSequence \* bound of this model on the sequence number

Nobody == "nobody"

ObservationAssumption ==
    /\ Slots \in Nat \ {0} /\ Attempts \in Nat \ {0} /\ MaxSequence \in Nat
    /\ Capacities \subseteq Nat \ {0} /\ Nobody \notin Threads

VARIABLES
    alive,      \* the library: capacity of each existing solver, 0 = none
    held,       \* the game: solvers it may use
    slots,      \* solver_slots: capacity and count of the tracked solvers,
                \* Unseen = no count yet
    quarantine, \* solver_quarantine: a solver could not be tracked
    lock,       \* the thread that holds solver_lock
    pc, arg,    \* what each thread does, and the solver it does it to
    shared,     \* words of the shared memory
    sequence,   \* aggregate_snapshot_sequence
    written,    \* words written of the publication in progress
    published,  \* the last publication completed, for the properties
    reading     \* the reader: its attempt, the sequence before, what it has
                \* read since, and the words it has accepted

library == <<alive, held>>
tracking == <<slots, quarantine>>
memory == <<shared, sequence, written, published>>
vars == <<library, tracking, lock, pc, arg, memory, reading>>

Free == "free"
Unseen == -1

\* The words, in the order in which both sides go through them.
Words == <<"live", "max", "capacity", "active", "capacityValid", "countsValid">>

(***************************************************************************)
(* The sums over the slots, as publish_solver_snapshot computes them.       *)
(***************************************************************************)

Tracked == DOMAIN slots
SumOf(s, field) == MapThenSumSet(LAMBDA a : s[a][field], DOMAIN s)
Sum(field) == SumOf(slots, field)
CapacityValid == Tracked # {}
CountsValid == CapacityValid /\ \A a \in Tracked : slots[a].count # Unseen

Word(w) ==
    CASE w = "live" -> Cardinality(Tracked)
      [] w = "max" -> Max({shared["max"], Cardinality(Tracked)})
      [] w = "capacity" -> Sum("capacity")
      [] w = "active" -> IF CountsValid THEN Sum("count") ELSE 0
      [] w = "capacityValid" -> IF CapacityValid THEN 1 ELSE 0
      [] w = "countsValid" -> IF CountsValid THEN 1 ELSE 0

WordsSet == {Words[i] : i \in DOMAIN Words}

TypeOK ==
    /\ alive \in [Addresses -> Capacities \cup {0}]
    /\ held \subseteq Addresses
    /\ Tracked \subseteq Addresses /\ Cardinality(Tracked) <= Slots
    /\ quarantine \in BOOLEAN
    /\ lock \in Threads \cup {Nobody}
    /\ pc \in [Threads -> {Free, "register", "count", "retire", "destroy"}]
    /\ shared \in [WordsSet -> Nat] /\ sequence \in Nat

Init ==
    /\ alive = [a \in Addresses |-> 0] /\ held = {}
    /\ slots = <<>> /\ quarantine = FALSE
    /\ lock = Nobody
    /\ pc = [t \in Threads |-> Free]
    /\ arg \in [Threads -> {CHOOSE a \in Addresses : TRUE}]
    /\ shared = [w \in WordsSet |-> 0]
    /\ sequence = 0 /\ written = 0
    /\ published = shared
    /\ reading = [attempt |-> 0, before |-> 0, got |-> <<>>, accepted |-> <<>>]

(***************************************************************************)
(* The lock and the publication.                                            *)
(***************************************************************************)

\* The slots are changed under the lock; the publication that follows makes
\* the sequence number odd, writes the words and makes it even again.
Lock(t) ==
    /\ lock = Nobody /\ lock' = t
    /\ sequence < MaxSequence /\ sequence' = sequence + 1
    /\ written' = 0
    /\ UNCHANGED <<library, pc, arg, shared, published, reading>>

PublishWord(t) ==
    /\ lock = t /\ written < Len(Words)
    /\ LET w == Words[written + 1] IN shared' = [shared EXCEPT ![w] = Word(w)]
    /\ written' = written + 1
    /\ UNCHANGED <<library, tracking, lock, pc, arg, sequence, published, reading>>

\* The creation and the count return to the game, a retired solver goes on to
\* the original library.
PublishEnd(t) ==
    /\ lock = t /\ written = Len(Words) /\ lock' = Nobody
    /\ sequence' = sequence + 1
    /\ published' = [w \in WordsSet |-> Word(w)]
    /\ pc' = [pc EXCEPT ![t] = IF @ = "retire" THEN "destroy" ELSE Free]
    /\ held' = IF pc[t] = "register" THEN held \cup {arg[t]} ELSE held
    /\ UNCHANGED <<alive, tracking, arg, shared, written, reading>>

(***************************************************************************)
(* The calls of the game.                                                   *)
(***************************************************************************)

Call(t, do, a) ==
    /\ pc[t] = Free
    /\ pc' = [pc EXCEPT ![t] = do] /\ arg' = [arg EXCEPT ![t] = a]
    /\ UNCHANGED <<tracking, lock, memory, reading>>

\* flexCreateSolver: the original library first.
Create(t) ==
    \E a \in Addresses, c \in Capacities :
        /\ alive[a] = 0 /\ alive' = [alive EXCEPT ![a] = c]
        /\ Call(t, "register", a) /\ UNCHANGED held

\* register_solver: a solver with no slot left is dropped for good.
Register(t) ==
    /\ pc[t] = "register" /\ Lock(t)
    /\ IF arg[t] \in Tracked \/ Cardinality(Tracked) < Slots
       THEN /\ slots' = [a \in Tracked \cup {arg[t]} |->
                           IF a = arg[t] THEN [capacity |-> alive[a], count |-> Unseen]
                           ELSE slots[a]]
            /\ UNCHANGED quarantine
       ELSE quarantine' = TRUE /\ UNCHANGED slots

\* flexGetActiveCount: the original library first, the count it returned is
\* recorded afterwards.
Count(t) ==
    \E a \in held : Call(t, "count", a) /\ UNCHANGED library

\* record_active_count for a tracked solver.
RecordCount(t) ==
    /\ pc[t] = "count" /\ arg[t] \in Tracked /\ Lock(t)
    /\ \E n \in 0..alive[arg[t]] : slots' = [slots EXCEPT ![arg[t]].count = n]
    /\ UNCHANGED quarantine

\* For a solver without a slot the published counts are withdrawn, outside any
\* publication.
CountUntracked(t) ==
    /\ pc[t] = "count" /\ arg[t] \notin Tracked /\ lock = Nobody
    /\ quarantine' = TRUE
    /\ shared' = [shared EXCEPT !["countsValid"] = 0]
    /\ pc' = [pc EXCEPT ![t] = Free]
    /\ UNCHANGED <<library, slots, lock, arg, sequence, written, published, reading>>

\* Mutant: the original library destroys the solver before it is retired.
DestroyAtOnce(t) ==
    \E a \in held :
        /\ \A u \in Threads : pc[u] # Free => arg[u] # a
        /\ alive' = [alive EXCEPT ![a] = 0]
        /\ held' = held \ {a} /\ Call(t, "retire", a)

\* flexDestroySolver; nobody else uses the solver any more.
Destroy(t) ==
    \E a \in held :
        /\ \A u \in Threads : pc[u] # Free => arg[u] # a
        /\ held' = held \ {a} /\ Call(t, "retire", a) /\ UNCHANGED alive

\* retire_solver: one that is not tracked raises the quarantine.
Retire(t) ==
    /\ pc[t] = "retire" /\ Lock(t)
    /\ slots' = [a \in Tracked \ {arg[t]} |-> slots[a]]
    /\ quarantine' = (quarantine \/ arg[t] \notin Tracked)

\* The original library destroys it last: from here on its address is free.
DestroyOriginal(t) ==
    /\ pc[t] = "destroy"
    /\ alive' = [alive EXCEPT ![arg[t]] = 0]
    /\ pc' = [pc EXCEPT ![t] = Free]
    /\ UNCHANGED <<held, tracking, lock, arg, memory, reading>>

(***************************************************************************)
(* The reader in the optimizer, ObservationReader::read.                    *)
(***************************************************************************)

NewReading ==
    /\ reading' = [attempt |-> 1, before |-> -1, got |-> <<>>, accepted |-> <<>>]
    /\ UNCHANGED <<library, tracking, lock, pc, arg, memory>>

Trying == reading.accepted = <<>> /\ reading.attempt \in 1..Attempts
Again == [reading EXCEPT !.attempt = @ + 1, !.before = -1, !.got = <<>>]

\* Mutant: a publication that is under way is read as well.
ReadBefore_Anytime ==
    /\ Trying /\ reading.before = -1
    /\ reading' = [reading EXCEPT !.before = sequence]
    /\ UNCHANGED <<library, tracking, lock, pc, arg, memory>>

ReadBefore ==
    /\ Trying /\ reading.before = -1
    /\ reading' = IF sequence % 2 = 1 THEN Again
                  ELSE [reading EXCEPT !.before = sequence]
    /\ UNCHANGED <<library, tracking, lock, pc, arg, memory>>

ReadWord ==
    /\ Trying /\ reading.before # -1 /\ Len(reading.got) < Len(Words)
    /\ reading' = [reading EXCEPT !.got = Append(@, shared[Words[Len(@) + 1]])]
    /\ UNCHANGED <<library, tracking, lock, pc, arg, memory>>

\* The sequence number has not moved while the words were read.
Undisturbed == reading.before = sequence

ReadAfter ==
    /\ Trying /\ Len(reading.got) = Len(Words)
    /\ reading' = IF Undisturbed
                  THEN [reading EXCEPT !.accepted = reading.got, !.got = <<>>]
                  ELSE Again
    /\ UNCHANGED <<library, tracking, lock, pc, arg, memory>>

Game(t) ==
    \/ Create(t) \/ Register(t) \/ Count(t) \/ RecordCount(t) \/ CountUntracked(t)
    \/ Destroy(t) \/ Retire(t) \/ DestroyOriginal(t)
    \/ PublishWord(t) \/ PublishEnd(t)

Reader == NewReading \/ ReadBefore \/ ReadWord \/ ReadAfter

Next == (\E t \in Threads : Game(t)) \/ Reader

Spec == Init /\ [][Next]_vars

(***************************************************************************)
(* Properties.                                                              *)
(***************************************************************************)

\* As long as no quarantine is announced the slots are exactly the solvers of
\* the game: each one it holds has a slot with the capacity it was created
\* for, and no slot survives its solver, whatever threads create and destroy
\* at the same address (flexDestroySolver retires before it destroys).
TrackingIsExact ==
    ~quarantine =>
        /\ held \subseteq Tracked
        /\ \A a \in Tracked : slots[a].capacity = alive[a]

Accepted(w) == reading.accepted[CHOOSE i \in DOMAIN Words : Words[i] = w]

\* What the reader accepts is the last publication as it was completed, never
\* a mixture of two; only its counts may have been withdrawn since
\* (record_active_count without a slot).
AcceptedIsPublished ==
    [][reading.accepted = <<>> /\ reading'.accepted # <<>> =>
        /\ \A w \in WordsSet \ {"countsValid"} : Accepted(w)' = published[w]
        /\ Accepted("countsValid")' <= published["countsValid"]]_vars

================================================================================
