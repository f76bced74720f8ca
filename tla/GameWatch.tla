------------------------------ MODULE GameWatch -------------------------------
(***************************************************************************)
(* The parts that watch the running KF2: its FleX solvers, its log and its  *)
(* presents, and those that write down what they saw: the event log and the *)
(* writer of the reports; and the worker that tails the log and samples the *)
(* counters.  They share no state, so a behaviour is about one *)
(* of them and the others stay at their initial state.  AsyncWriter is      *)
(* extended, the others are instantiated.                                   *)
(***************************************************************************)
EXTENDS AsyncWriter

CONSTANTS
    Threads, Addresses, Capacities, Slots, Attempts, MaxSequence,   \* FlexObservation
    Maps, MaxWorlds, MaxLines, EntityMax, Freshness,                \* GameLog
    Chains, MaxStreams, Capacity, Lifetime, MaxRestarts, MaxCalls,  \* PresentCapture
    MaxTrace, CaptureChanges,
    MaxPresents, DrainChanges,                                      \* PresentDrain
    EventCapacity, Ordinary, Audit, NoLog, EventChanges, EventFailures, \* EventLog
    Sessions, Adapters, QueueLimit, MaxGrowth, MaxGeneration, WorkerFaults  \* TelemetryWorker

VARIABLES
    part,           \* the part this behaviour is about
    alive, held, slots, quarantine, lock, pc, arg, shared, sequence, written, published,
    observationReading,
    world, lines, now, logReading, logSession, logSaid, scenes, seen, blind, window,
    calls, call, trace, captureSession, lost, observed, reader, read, bad, mixed, source,
    restarts, captureChanges,
    presents, last, asked, active, latest, gen, failed, boundary, epoch, drainChanges,
    events, pending, ready, due, revision, persisted, file, eventWorker, copy, copied,
    eventOwner, target, flushed, sleep, stop, failures,
    grown, workerFaults, binding, generation, asking, resetLog, stopped, group, counters,
    chunks, workerPc, request, logReader, catchUp, chunk, ui, prewarmed, chunkLost

Observation == INSTANCE FlexObservation WITH reading <- observationReading

Log == INSTANCE GameLog WITH
    reading <- logReading, session <- logSession, said <- logSaid

Capture == INSTANCE PresentCapture WITH
    session <- captureSession, changes <- captureChanges, MaxChanges <- CaptureChanges

Drain == INSTANCE PresentDrain WITH
    changes <- drainChanges, MaxChanges <- DrainChanges

Events == INSTANCE EventLog WITH
    worker <- eventWorker, owner <- eventOwner, Capacity <- EventCapacity,
    MaxChanges <- EventChanges, MaxFailures <- EventFailures

HandOff == INSTANCE TelemetryWorker WITH
    written <- grown, faults <- workerFaults, pending <- asking, published <- counters,
    pc <- workerPc, reader <- logReader, lost <- chunkLost,
    MaxLines <- MaxGrowth, MaxFaults <- WorkerFaults

(* A part that is not looked at starts from one state, and stays there.     *)
WatchInit ==
    /\ part \in {"Observation", "Log", "Capture", "Drain", "Events", "HandOff",
                "Writer"}
    /\ Observation!Init
    /\ Log!Init
    /\ Capture!Init
    /\ Drain!Init
    /\ Events!Init /\ (part # "Events" => ready)
    /\ HandOff!Init
    /\ Init

ofObservation == <<alive, held, slots, quarantine, lock, pc, arg, shared, sequence,
    written, published, observationReading>>
ofLog == <<world, lines, now, logReading, logSession, logSaid, scenes, seen, blind,
    window>>
ofCapture == <<calls, call, trace, captureSession, lost, observed, reader, read, bad,
    mixed, source, restarts, captureChanges>>
ofDrain == <<presents, last, asked, active, latest, gen, failed, boundary, epoch,
    drainChanges>>
ofEvents == <<events, pending, ready, due, revision, persisted, file, eventWorker, copy,
    copied, eventOwner, target, flushed, sleep, stop, failures>>
ofHandOff == <<grown, workerFaults, binding, generation, asking, resetLog, stopped, group,
    counters, chunks, workerPc, request, logReader, catchUp, chunk, ui, prewarmed,
    chunkLost>>
watchVars == <<part, ofObservation, ofLog, ofCapture, ofDrain, ofEvents, ofHandOff, vars>>

WatchNext ==
    \/ /\ part = "Observation" /\ Observation!Next
       /\ UNCHANGED <<part, ofLog, ofCapture, ofDrain, ofEvents, ofHandOff, vars>>
    \/ /\ part = "Log" /\ Log!Next
       /\ UNCHANGED <<part, ofObservation, ofCapture, ofDrain, ofEvents, ofHandOff, vars>>
    \/ /\ part = "Capture" /\ Capture!Next
       /\ UNCHANGED <<part, ofObservation, ofLog, ofDrain, ofEvents, ofHandOff, vars>>
    \/ /\ part = "Drain" /\ Drain!Next
       /\ UNCHANGED <<part, ofObservation, ofLog, ofCapture, ofEvents, ofHandOff, vars>>
    \/ /\ part = "Events" /\ Events!Next
       /\ UNCHANGED <<part, ofObservation, ofLog, ofCapture, ofDrain, ofHandOff, vars>>
    \/ /\ part = "HandOff" /\ HandOff!Next
       /\ UNCHANGED <<part, ofObservation, ofLog, ofCapture, ofDrain, ofEvents, vars>>
    \/ /\ part = "Writer" /\ Next
       /\ UNCHANGED <<part, ofObservation, ofLog, ofCapture, ofDrain, ofEvents, ofHandOff>>

WatchSpec == WatchInit /\ [][WatchNext]_watchVars

ASSUME WatchAssumption ==
    /\ Observation!ObservationAssumption /\ Log!LogAssumption
    /\ Capture!PresentAssumption /\ Drain!DrainAssumption /\ Events!EventLogAssumption
    /\ HandOff!WorkerAssumption /\ WriterAssumption

(* What is shown together belongs together: the counts, the wave, the       *)
(* sample and the control port of the session to one world, the sample to   *)
(* one line, the statistics to one scene; and the frame rate to the         *)
(* statistics as they are now, after the last reset or reconnect, and to no *)
(* present before the boundary.  The ended phase of a match is not claimed: *)
(* a receipt for the same map leaves it (GameLog, NewWorldIsNew).           *)
ShownBelongsTogether == Log!SessionIsOneWorld /\ Drain!PublishedIsCurrent

\* As long as no quarantine is announced the slots are exactly the solvers of
\* the game: each one it holds has a slot with the capacity it was created
\* for, and no slot survives its solver, whatever threads create and destroy
\* at the same address (flexDestroySolver retires before it destroys).
TrackingIsExact == Observation!TrackingIsExact

\* What the reader accepts is the last publication as it was completed, never
\* a mixture of two; only its counts may have been withdrawn since
\* (record_active_count without a slot).
AcceptedIsPublished == Observation!AcceptedIsPublished

\* As long as no Start was paired with the Stop of another call, a window that
\* is certified holds every call of its swap chain whose Start was read: a call
\* that could not be paired is covered by a recorded loss, whatever replaced,
\* expired or cleared it, and also if the statistics were reset meanwhile.
CertifiedMissesNothing == Capture!CertifiedMissesNothing

\* Nothing that was logged is forgotten by the worker of the event log: unless
\* a write is pending or on its way to being recorded, the file holds the log
\* as it is, whatever was appended or failed meanwhile (persistence_pending_).
NothingForgotten == Events!NothingForgotten

\* A flush that reports success has covered everything logged before it was
\* called (EventLog::flush).
FlushIsTruthful == Events!FlushIsTruthful

\* The destruction of a healthy log writes what is pending (persist_worker).
HealthyExitDrains == Events!HealthyExitDrains

\* What the telemetry worker hands over is exact: the lines of the log, the
\* map selections that start a pre-warm and the counters reach the UI once, in
\* order and under the binding they belong to, whatever is bound, reset, read
\* again or lost meanwhile (ResourceTelemetryWorker).
HandOffIsExact == HandOff!HandOffIsExact
=============================================================================
