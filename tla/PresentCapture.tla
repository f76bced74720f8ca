------------------------------ MODULE PresentCapture ------------------------------
(***************************************************************************)
(* Frame timing: from the Present calls of the game to timestamps.          *)
(*                                                                         *)
(*  - ETW brackets every call with a Start and a Stop, and may lose either; *)
(*    the flush thread learns later how many it lost.  The trace thread     *)
(*    pairs them (src/platform/windows/dxgi_frame_timing_session.cpp).      *)
(*  - PresentSource (src/telemetry/present_source.cpp) keeps the timestamps *)
(*    of each swap chain, and up to when something was lost.  The module    *)
(*    PresentDrain has what it computes from them.                          *)
(*  - The UI thread resets the timestamps and replaces a silent session.    *)
(*                                                                         *)
(* The game presents from one thread.  The number of a call is its time.    *)
(***************************************************************************)
EXTENDS Naturals, Sequences, FiniteSets, FiniteSetsExt, TLC

CONSTANTS
    Chains,       \* swap chains
    MaxStreams,   \* kMaximumStreams
    Capacity,     \* the timestamps a stream keeps
    Lifetime,     \* after which a Start without a Stop is given up
    MaxRestarts,  \* kMaximumPresentRestarts
    None,
    MaxCalls,     \* bounds of this model: calls, events in the buffers,
    MaxTrace,     \* ends and resets
    MaxChanges

PresentAssumption ==
    /\ MaxStreams \in Nat \ {0, 1} /\ Capacity \in Nat \ {0, 1}
    /\ {Lifetime, MaxRestarts, MaxCalls, MaxTrace, MaxChanges} \subseteq Nat
    /\ None \notin [kind : {"start"}, id : Nat, chain : Chains, test : BOOLEAN]

VARIABLES
    calls,      \* the calls so far
    call,       \* the call that is running
    trace,      \* events in the buffers of the session
    session,    \* the trace session is running
    lost,       \* events it lost
    observed,   \* observed_capture_loss, as of the last flush
    reader,     \* the trace thread: pending call and the loss it accounts for
    read,       \* the calls whose Start it was given
    bad,        \* the calls that failed
    mixed,      \* a Start was paired with the Stop of another call
    source,     \* streams, loss and generation of the PresentSource
    restarts,   \* present_session_restart_count
    changes     \* ends and resets so far

capture == <<calls, call, bad, session, trace, lost>>
ui == <<restarts, changes>>
vars == <<capture, observed, reader, read, mixed, source, ui>>

NewReader == [pending |-> None, invalidated |-> 0, reported |-> 0, owed |-> 0]
NewStreams == [c \in {} |-> {}]
NewSource == [streams |-> NewStreams, since |-> NewStreams,
                  lossy |-> FALSE, lossAt |-> 0, last |-> None]

TypeOK ==
    /\ call = None \/ call.id = calls
    /\ observed <= lost /\ reader.reported <= reader.invalidated
    /\ DOMAIN source.streams \subseteq Chains
    /\ DOMAIN source.since = DOMAIN source.streams
    /\ \A c \in DOMAIN source.streams : source.streams[c] \subseteq 1..calls

Init ==
    /\ calls = 0 /\ call = None /\ bad = {}
    /\ session = TRUE /\ trace = <<>> /\ lost = 0 /\ observed = 0
    /\ reader = NewReader /\ read = {} /\ mixed = FALSE
    /\ source = NewSource
    /\ restarts = 0 /\ changes = 0

(***************************************************************************)
(* The game and the event session.                                          *)
(***************************************************************************)

\* An event reaches the buffers or is lost.
Traced(event) ==
    \/ /\ session /\ Len(trace) < MaxTrace
       /\ trace' = Append(trace, event) /\ UNCHANGED lost
    \/ session /\ lost' = lost + 1 /\ UNCHANGED trace
    \/ ~session /\ UNCHANGED <<trace, lost>>

\* DXGI_PRESENT_TEST only asks; its call is bracketed like any other.
PresentStart(c, test) ==
    /\ call = None /\ calls < MaxCalls
    /\ calls' = calls + 1
    /\ call' = [id |-> calls + 1, chain |-> c, test |-> test]
    /\ Traced([kind |-> "start", id |-> calls + 1, chain |-> c, test |-> test])
    /\ UNCHANGED <<bad, session, observed, reader, read, mixed, source, ui>>

PresentStop(failed) ==
    /\ call # None /\ call' = None
    /\ bad' = IF failed \/ call.test THEN bad \cup {call.id} ELSE bad
    /\ Traced([kind |-> "stop", id |-> call.id, failed |-> failed])
    /\ UNCHANGED <<calls, session, observed, reader, read, mixed, source, ui>>

\* flush_once of the flush thread.
Flush ==
    /\ observed # lost /\ observed' = lost
    /\ session
    /\ UNCHANGED <<capture, reader, read, mixed, source, ui>>

(***************************************************************************)
(* PresentSource, under its lock.                                           *)
(***************************************************************************)

Newest(s, c) == Max(s.streams[c] \cup {0})

\* record_loss_locked: a loss covers everything that was admitted before it.
LossRecorded(s, at) ==
    [s EXCEPT !.lossy = TRUE,
              !.lossAt = Max({@, at} \cup {Newest(s, c) : c \in DOMAIN s.streams})]

\* When there are too many streams the oldest that is not the last one goes.
Evictable(s) ==
    {c \in DOMAIN s.streams \ {s.last} :
        \A d \in DOMAIN s.streams \ {s.last} : Newest(s, c) <= Newest(s, d)}

WithStream(s, c, at) ==
    LET gone == IF Cardinality(DOMAIN s.streams) < MaxStreams THEN {}
                ELSE {CHOOSE d \in Evictable(s) : TRUE}
        kept == DOMAIN s.streams \ gone
    IN  IF c \in DOMAIN s.streams THEN s
        ELSE [s EXCEPT
                !.streams = [d \in kept \cup {c} |->
                               IF d = c THEN {} ELSE s.streams[d]],
                !.since = [d \in kept \cup {c} |->
                             IF d # c THEN s.since[d]
                             ELSE IF s.last = None THEN 0 ELSE at]]

\* ingest: a stream keeps its newest timestamps.
Ingested(s, c, at) ==
    LET t == WithStream(s, c, at)
        all == t.streams[c] \cup {at}
    IN  [t EXCEPT !.last = c,
                  !.streams[c] = IF Cardinality(all) <= Capacity THEN all
                                 ELSE all \ {Min(all)}]

(***************************************************************************)
(* The trace thread.                                                        *)
(***************************************************************************)

\* Once a loss is observed a Start may have lost its Stop.
Cleared(r) ==
    IF observed # r.invalidated
    THEN [r EXCEPT !.pending = None, !.invalidated = observed] ELSE r

Expired(r, at) == r.pending # None /\ at - r.pending.id >= Lifetime

GivenUp(r) == [r EXCEPT !.pending = None, !.owed = @ + 1]

\* What the thread finds when it takes an event of the time `at'.
Tidied(at) ==
    LET r == Cleared(reader) IN IF Expired(r, at) THEN GivenUp(r) ELSE r

\* Mutant: a Start that replaces another one is not counted as a loss.
StartRead_Forgets(event) ==
    LET r == Tidied(event.id) IN
        reader' = IF event.test THEN [r EXCEPT !.pending = None]
                  ELSE [r EXCEPT !.pending = event]

\* A Start that finds another one pending: the Stop of that one is missing.
StartRead(event) ==
    LET r == Tidied(event.id)
        free == IF r.pending = None THEN r ELSE GivenUp(r)
    IN  reader' = IF event.test THEN free ELSE [free EXCEPT !.pending = event]

OwesLoss(r) == r.invalidated # r.reported \/ r.owed # 0

\* A Stop completes the pending call.  What was lost is reported before the
\* call is admitted.  The source runs as long as there is a session, so that it
\* refuses neither.
StopRead(event) ==
    LET r == Tidied(event.id)
        done == [r EXCEPT !.pending = None]
        at == r.pending.id
        admitted == [done EXCEPT !.reported = r.invalidated, !.owed = 0]
        told == IF OwesLoss(r) THEN LossRecorded(source, at) ELSE source
    IN  /\ mixed' = (mixed \/ (r.pending # None /\ at # event.id))
        /\ IF r.pending = None
           THEN reader' = r /\ UNCHANGED source
           ELSE IF event.failed
           THEN reader' = done /\ UNCHANGED source
           ELSE /\ reader' = admitted
                /\ source' = Ingested(told, r.pending.chain, at)

ReadEvent ==
    /\ session /\ trace # <<>> /\ trace' = Tail(trace)
    /\ LET event == Head(trace) IN
         \/ /\ event.kind = "start" /\ StartRead(event)
            /\ read' = IF event.test THEN read ELSE read \cup {event}
            /\ UNCHANGED <<source, mixed>>
         \/ event.kind = "stop" /\ StopRead(event) /\ UNCHANGED read
    /\ UNCHANGED <<calls, call, bad, session, lost, observed, ui>>

\* ProcessTrace returns: another program stopped the session.
SessionEnds ==
    /\ session /\ changes < MaxChanges /\ changes' = changes + 1
    /\ session' = FALSE /\ trace' = <<>>
    /\ UNCHANGED <<calls, call, bad, lost, observed, reader, read, mixed, source,
                   restarts>>

\* measure_window: from one present of a stream to another, both included.
\* Only a window after the last loss is certified, and only one that does not
\* hold the beginning of a swap chain.
Certified(c, begin, end) ==
    /\ (source.lossy => begin > source.lossAt)
    /\ c \in DOMAIN source.streams /\ begin < end
    /\ {begin, end} \subseteq source.streams[c]
    /\ source.since[c] \notin begin..end

ResetStatistics ==
    /\ changes < MaxChanges /\ changes' = changes + 1
    /\ source' = NewSource
    /\ UNCHANGED <<capture, observed, reader, read, mixed, restarts>>

\* should_reconnect_silent_present: nothing was measured, or the session ended.
Silent == session => \A c \in DOMAIN source.streams : Cardinality(source.streams[c]) < 2

\* The session is replaced: the old one is joined, the statistics start anew.
Reconnect(starts) ==
    /\ Silent /\ restarts < MaxRestarts
    /\ restarts' = restarts + 1
    /\ session' = starts /\ trace' = <<>> /\ lost' = 0 /\ observed' = 0
    /\ reader' = NewReader
    /\ source' = NewSource
    /\ UNCHANGED <<calls, call, bad, read, mixed, changes>>

Next ==
    \/ \E c \in Chains, test \in BOOLEAN : PresentStart(c, test)
    \/ \E failed \in BOOLEAN : PresentStop(failed)
    \/ Flush \/ ReadEvent \/ SessionEnds
    \/ ResetStatistics
    \/ \E starts \in BOOLEAN : Reconnect(starts)

Spec == Init /\ [][Next]_vars

\* The swap chains are alike.
Symmetry == Permutations(Chains)

--------------------------------------------------------------------------------
(***************************************************************************)
(* Properties.                                                              *)
(***************************************************************************)

\* As long as no Start was paired with the Stop of another call, a window that
\* is certified holds every call of its swap chain whose Start was read: a call
\* that could not be paired is covered by a recorded loss, whatever replaced,
\* expired or cleared it, and also if the statistics were reset meanwhile.
CertifiedMissesNothing ==
    ~mixed =>
        \A c \in Chains, begin, end \in 1..calls :
            Certified(c, begin, end) =>
                \A e \in read :
                    e.chain = c /\ e.id \in begin..end /\ e.id \notin bad =>
                        e.id \in source.streams[c]

\* What a comment of the trace thread says: "A lost Stop must never match a
\* reused thread's later Stop."
LostStopNeverMatches == ~mixed
================================================================================
