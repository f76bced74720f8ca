------------------------------ MODULE EventLog ------------------------------
(***************************************************************************)
(* The bounded event log of KF2 Optimizer Next and the worker thread that   *)
(* keeps it in a file (src/diagnostics/event_log.cpp).  Any thread appends; *)
(* the owner of the log clears it, flushes it and destroys it.  One mutex   *)
(* guards the log, one condition variable serves the worker and a flush.    *)
(*                                                                         *)
(* A step of the worker is what it does between taking and releasing the    *)
(* mutex, except for a wait: between the evaluation of its predicate and    *)
(* the moment it sleeps the worker holds the mutex, and only what needs no  *)
(* mutex may happen there.  Truncation, sequence numbers, statistics and    *)
(* the saturation of counters at 2^64 - 1 are left out, and so is a log     *)
(* without a file or whose worker could not be started, which is memory     *)
(* only.  A deadline may pass at any moment, but does pass.                  *)
(***************************************************************************)
EXTENDS Naturals, SequencesExt

CONSTANTS
    Capacity,       \* capacity of the log
    Ordinary,       \* events that may be evicted
    Audit,          \* is_retained_audit_event
    NoLog,          \* no log was written to the file
    MaxChanges,     \* bound on appends and clears
    MaxFailures     \* bound on failing writes and copies

ASSUME EventLogAssumption ==
    /\ Capacity \in Nat \ {0}
    /\ Ordinary \cap Audit = {}
    /\ NoLog \notin Seq([event : Ordinary \cup Audit, repeats : Nat])
    /\ MaxChanges \in Nat /\ MaxFailures \in Nat

Events == Ordinary \cup Audit
Logs == Seq([event : Events, repeats : Nat])

VARIABLES
    \* guarded by mutex_
    events,         \* events_
    pending,        \* persistence_pending_
    ready,          \* persistence_ready_
    due,            \* which of persistence_batch_due_ and
                    \* persistence_retry_at_ lie in the past
    revision,       \* persistence_revision_
    persisted,      \* persisted_revision_
    \* the file
    file,
    \* the worker thread
    worker,         \* what it waits for or does
    copy,           \* its copy of the log
    copied,         \* and the revision of that copy
    \* the owner
    owner, target, flushed,
    \* both
    sleep,          \* [thread -> its state in a wait]
    stop,           \* stop requested
    failures

log == <<events, revision>>
duty == <<pending, ready, due, persisted>>
flush == <<target, flushed>>
vars == <<log, duty, file, worker, copy, copied, owner, flush, sleep, stop, failures>>

Sleepers == {"worker", "owner"}
Waits == {"idle", "batch", "retry"}

TypeOK ==
    /\ events \in Logs /\ Len(events) <= Capacity
    /\ pending \in BOOLEAN /\ ready \in BOOLEAN /\ due \subseteq {"batch", "retry"}
    /\ revision \in Nat /\ persisted \in 0 .. revision
    /\ file \in Logs \cup {NoLog}
    /\ worker \in Waits \cup {"write", "written", "unwritten", "notify", "done"}
    /\ copy \in Logs /\ copied \in 0 .. revision
    /\ owner \in {"running", "flushing", "stopping", "joining", "destroyed"}
    /\ target \in 0 .. revision /\ flushed \in BOOLEAN
    /\ sleep \in [Sleepers -> {"no", "falling", "asleep"}]
    /\ stop \in BOOLEAN /\ failures \in 0 .. MaxFailures

(* The constructor writes an empty log and starts the worker, which retries *)
(* a failed write.                                                          *)
Init ==
    /\ events = <<>> /\ revision = 0 /\ persisted = 0
    /\ worker = "idle" /\ file \in {<<>>, NoLog}
    /\ ready = (file = <<>>) /\ pending = ~ready
    /\ due = IF ready THEN {"batch", "retry"} ELSE {"batch"}
    /\ copy = <<>> /\ copied = 0
    /\ owner = "running" /\ target = 0 /\ flushed = FALSE
    /\ sleep = [t \in Sleepers |-> "no"] /\ stop = FALSE /\ failures = 0

-----------------------------------------------------------------------------
(* Mutex and condition variable *)

MutexFree == sleep["worker"] # "falling"

Asleep == {t \in Sleepers : sleep[t] = "asleep"}
NotifyAll == sleep' = [t \in Sleepers |-> IF t \in Asleep THEN "no" ELSE sleep[t]]
NotifyOne_Lost == UNCHANGED sleep    \* mutant: nobody is woken
NotifyOne ==
    IF Asleep = {} THEN UNCHANGED sleep
    ELSE \E t \in Asleep : sleep' = [sleep EXCEPT ![t] = "no"]

-----------------------------------------------------------------------------
(* append, clear *)

(* schedule_persist_locked *)
Schedule ==
    /\ revision < MaxChanges /\ revision' = revision + 1
    /\ pending' = TRUE
    /\ IF pending THEN UNCHANGED <<due, sleep>> ELSE due' = due \ {"batch"} /\ NotifyOne
    /\ UNCHANGED <<ready, persisted>>

Alive == MutexFree /\ owner \in {"running", "flushing"}

IsOrdinary(entry) == entry.event \in Ordinary
Repeats(e) == events # <<>> /\ Last(events).event = e
Full == Len(events) = Capacity
OldestOrdinary == SelectInSeq(events, IsOrdinary)     \* 0 if there is none

(* A full log evicts its oldest ordinary event, or its oldest event if all  *)
(* are audit events.                                                        *)
Kept == IF ~Full THEN events
        ELSE RemoveAt(events, IF OldestOrdinary # 0 THEN OldestOrdinary ELSE 1)

(* An ordinary event is not taken into a full log of audit events *)
Refuse(e) ==
    /\ Alive /\ ~Repeats(e) /\ Full /\ OldestOrdinary = 0 /\ e \in Ordinary
    /\ UNCHANGED vars

(* A repetition of the last event is only counted *)
AppendEvent(e) ==
    /\ Alive
    /\ \/ /\ Repeats(e)
          /\ events' = [events EXCEPT ![Len(events)].repeats = @ + 1]
       \/ /\ ~Repeats(e)
          /\ Full /\ OldestOrdinary = 0 => e \in Audit
          /\ events' = Append(Kept, [event |-> e, repeats |-> 1])
    /\ Schedule
    /\ UNCHANGED <<file, worker, copy, copied, owner, flush, stop, failures>>

Clear ==
    /\ Alive /\ owner = "running"
    /\ events' = <<>>
    /\ Schedule
    /\ UNCHANGED <<file, worker, copy, copied, owner, flush, stop, failures>>

-----------------------------------------------------------------------------
(* flush *)

Covered == ready /\ persisted >= target

FlushCall ==
    /\ MutexFree /\ owner = "running"
    /\ owner' = "flushing" /\ target' = revision /\ flushed' = FALSE
    /\ due' = IF pending THEN due \cup {"batch"} ELSE due
    /\ NotifyAll
    /\ UNCHANGED <<log, pending, ready, persisted, file, worker, copy, copied, stop, failures>>

FlushSleeps ==
    /\ MutexFree /\ owner = "flushing" /\ sleep["owner"] = "no" /\ ~Covered
    /\ sleep' = [sleep EXCEPT !["owner"] = "asleep"]
    /\ UNCHANGED <<log, duty, file, worker, copy, copied, owner, flush, stop, failures>>

(* The predicate holds, or the time is over *)
FlushReturns ==
    /\ MutexFree /\ owner = "flushing"
    /\ owner' = "running" /\ flushed' = Covered
    /\ sleep' = [sleep EXCEPT !["owner"] = "no"]
    /\ UNCHANGED <<log, duty, file, worker, copy, copied, target, stop, failures>>

-----------------------------------------------------------------------------
(* ~EventLog: none of its steps takes the mutex *)

RequestStop ==
    /\ owner = "running"
    /\ stop' = TRUE /\ owner' = "stopping"
    /\ UNCHANGED <<log, duty, file, worker, copy, copied, flush, sleep, failures>>

NotifyStop ==
    /\ owner = "stopping"
    /\ owner' = "joining" /\ NotifyAll
    /\ UNCHANGED <<log, duty, file, worker, copy, copied, flush, stop, failures>>

Join ==
    /\ owner = "joining" /\ worker = "done"
    /\ owner' = "destroyed"
    /\ UNCHANGED <<log, duty, file, worker, copy, copied, flush, sleep, stop, failures>>

-----------------------------------------------------------------------------
(* persist_worker *)

Awake == sleep["worker"] = "no"

(* A deadline passes and ends the wait for it *)
Deadline(d) ==
    /\ d \notin due
    /\ due' = due \cup {d}
    /\ sleep' = IF worker = d /\ "worker" \in Asleep
                THEN [sleep EXCEPT !["worker"] = "no"] ELSE sleep
    /\ UNCHANGED <<log, pending, ready, persisted, file, worker, copy, copied, owner, flush, stop, failures>>

(* The predicates of the three waits, or their deadline *)
Awaited ==
    \/ stop
    \/ (worker = "idle" /\ pending)
    \/ worker \in due

WorkerTests ==
    /\ worker \in Waits /\ Awake /\ ~Awaited
    /\ sleep' = [sleep EXCEPT !["worker"] = "falling"]
    /\ UNCHANGED <<log, duty, file, worker, copy, copied, owner, flush, stop, failures>>

WorkerSleeps ==
    /\ sleep["worker"] = "falling"
    /\ sleep' = [sleep EXCEPT !["worker"] = IF worker \in due THEN "no" ELSE "asleep"]
    /\ UNCHANGED <<log, duty, file, worker, copy, copied, owner, flush, stop, failures>>

(* Something is pending: a known failed writer waits for its next attempt,  *)
(* a healthy one for the end of the batch.  The worker keeps the mutex, but *)
(* what a client does next it might as well have done before.               *)
WorkerTurns ==
    /\ worker = "idle" /\ Awake /\ pending /\ (stop => ready)
    /\ worker' = IF ready THEN "batch" ELSE "retry"
    /\ UNCHANGED <<log, duty, file, copy, copied, owner, flush, sleep, stop, failures>>

(* Mutant: a stop is taken before what is pending                           *)
MayStop_Undrained == stop /\ worker \in {"idle", "retry"}
MayStop == stop /\ (worker = "retry" \/ (worker = "idle" /\ ~(pending /\ ready)))

WorkerStops ==
    /\ Awake /\ MayStop
    /\ worker' = "done"
    /\ UNCHANGED <<log, duty, file, copy, copied, owner, flush, sleep, stop, failures>>

(* The batch or the delay of the retry is over *)
MayCopy ==
    /\ worker \in {"batch", "retry"} /\ Awake /\ Awaited
    /\ worker = "retry" => ~stop

TakeCopy ==
    /\ MayCopy
    /\ copy' = events /\ copied' = revision /\ pending' = FALSE
    /\ worker' = "write"
    /\ UNCHANGED <<log, ready, due, persisted, file, owner, flush, sleep, stop, failures>>

(* record_persistence_failure_locked *)
Failed ==
    /\ failures < MaxFailures /\ failures' = failures + 1
    /\ ready' = FALSE /\ pending' = TRUE /\ due' = due \ {"retry"}
    /\ UNCHANGED persisted

CopyFails ==
    /\ MayCopy
    /\ Failed
    /\ worker' = "idle" /\ NotifyAll
    /\ UNCHANGED <<log, file, copy, copied, owner, flush, stop>>

(* The write is made without the mutex, what it reports is recorded under   *)
(* it.  A failing write leaves the old log or the new one.                  *)
Write ==
    /\ worker = "write"
    /\ \/ file' = copy /\ worker' = "written"
       \/ failures < MaxFailures /\ file' \in {file, copy} /\ worker' = "unwritten"
    /\ UNCHANGED <<log, duty, copy, copied, owner, flush, sleep, stop, failures>>

(* Mutants: the revision is read after the write; what was logged during    *)
(* the write is taken for written                                           *)
Report_Late == persisted' = revision /\ UNCHANGED pending
Report_Clears == persisted' = copied /\ pending' = FALSE
Report == persisted' = copied /\ UNCHANGED pending

Recorded ==
    /\ worker = "written"
    /\ Report
    /\ ready' = TRUE /\ due' = due \cup {"retry"}
    /\ worker' = "notify"
    /\ UNCHANGED <<log, file, copy, copied, owner, flush, sleep, stop, failures>>

RecordedFailure ==
    /\ worker = "unwritten"
    /\ Failed
    /\ worker' = "notify"
    /\ UNCHANGED <<log, file, copy, copied, owner, flush, sleep, stop>>

Notify ==
    /\ worker = "notify"
    /\ worker' = "idle" /\ NotifyAll
    /\ copy' = <<>> /\ copied' = 0
    /\ UNCHANGED <<log, duty, file, owner, flush, stop, failures>>

-----------------------------------------------------------------------------
Worker ==
    \/ WorkerTests \/ WorkerSleeps \/ WorkerTurns \/ WorkerStops \/ TakeCopy
    \/ CopyFails \/ Write \/ Recorded \/ RecordedFailure \/ Notify
Destructor == RequestStop \/ NotifyStop \/ Join
Client ==
    \/ \E e \in Events : AppendEvent(e) \/ Refuse(e)
    \/ Clear \/ FlushCall \/ FlushSleeps \/ FlushReturns

Time == \E d \in {"batch", "retry"} : Deadline(d)

Next == Worker \/ Client \/ Destructor \/ Time

(* The worker is scheduled, the destructor once it runs, and time passes *)
Spec == /\ Init /\ [][Next]_vars
        /\ WF_vars(Worker) /\ WF_vars(NotifyStop \/ Join) /\ WF_vars(Time)

-----------------------------------------------------------------------------
(* Properties *)

(* Nothing is forgotten: unless a write is pending, or on its way to being  *)
(* recorded, the file holds the log as it is, whatever was appended or      *)
(* failed while the worker was writing (persistence_pending_).              *)
NothingForgotten ==
    ~pending /\ worker \notin {"write", "written", "unwritten"} => file = events

(* A flush that reports success has covered everything logged before it was *)
(* called: if nothing was logged since, the file holds the log.             *)
FlushIsTruthful == flushed /\ revision = target => file = events

(* Destruction of a healthy log writes what is pending (persist_worker).    *)
HealthyExitDrains == owner = "destroyed" /\ ready => file = events

(* Whatever fails for a while and however appends, flushes and writes       *)
(* interleave, the worker is woken and the log reaches the file.            *)
LogReachesDisk == []<>((file = events) \/ stop)

(* Destruction of a log with something left to write ends.                  *)
DrainEnds == stop /\ pending ~> owner = "destroyed"

(* The worker writes whatever there is to write, and then lets go.          *)
WorkIsDone == LogReachesDisk /\ DrainEnds

(* Destruction of the log ends.                                             *)
StopEnds == stop ~> owner = "destroyed"
=============================================================================
