---------------------------- MODULE TelemetryWorker ----------------------------
(***************************************************************************)
(* The telemetry worker (src/telemetry/resource_telemetry_worker.cpp) and   *)
(* the UI thread that uses it (src/features/telemetry).  The worker samples *)
(* the bound KF2 process, one group of counters per request, and tails the  *)
(* log of that process; the UI binds a process and an adapter, asks for a   *)
(* sample on every tick, takes the log chunks that are ready and adopts the *)
(* last published sample.  The game appends to its log all the while.       *)
(*                                                                         *)
(* A log is a number of lines; every line carries one event that latches    *)
(* (a map load, the start menu, a settings restart) and one that does not   *)
(* (a map selection, which starts a speculative pre-warm), and changes the  *)
(* session the parser reports.  A sample is the generation it was requested *)
(* under.                                                                   *)
(***************************************************************************)
EXTENDS Integers, Sequences, FiniteSets, Functions

CONSTANTS
    Sessions,       \* identities of KF2 processes, with their log directory
    Adapters,       \* graphics adapters
    QueueLimit,     \* chunks above which the worker does not read the log
    MaxLines,       \* bound of this model on the lines of all logs
    MaxGeneration,  \* bound of this model on the generation
    MaxFaults       \* bound of this model on failing system calls

ASSUME WorkerAssumption ==
    /\ "absent" \notin Sessions
    /\ QueueLimit \in Nat \ {0}
    /\ MaxLines \in Nat /\ MaxGeneration \in Nat /\ MaxFaults \in Nat

VARIABLES
    written,    \* lines in the log of each session
    faults,     \* failing calls so far
    binding,    \* binding_
    generation, \* generation_
    pending,    \* pending_
    resetLog,   \* reset_log_
    stopped,    \* stopped_
    group,      \* next_group_
    published,  \* published_: its generation and the sample of each group
    chunks,     \* log_chunks_
    pc,         \* where the worker is
    request,    \* the request it works on
    reader,     \* log_sampler with its log_binding: what it has read
    catchUp,    \* catch_up_boundaries: events read but not handed over
    chunk,      \* log_chunk: what it has made of the log for this request
    ui,         \* the UI: bound process, generation, events and session it
                \* has been told of, samples it shows
    prewarmed,  \* how often a line has started a pre-warm
    lost        \* a chunk was lost since the log was read from its start

world == <<written, faults>>
shared == <<binding, generation, pending, resetLog, stopped, group,
            published, chunks>>
worker == <<pc, request, reader, catchUp, chunk>>
vars == <<world, shared, worker, ui, prewarmed, lost>>

Absent == "absent"
Groups == {"process", "gpu"}
OtherGroup(g) == CHOOSE h \in Groups : h # g
NoSample == [gen |-> 0, process |-> 0, gpu |-> 0]
NoReader == [session |-> Absent, bound |-> FALSE, offset |-> 0,
             catching |-> FALSE, began |-> 0]
Detached == [session |-> Absent, gen |-> 0, delivered |-> {}, game |-> 0,
             process |-> 0, gpu |-> 0]

\* same_session: the adapter does not belong to the identity of a session.
SameSession(b, c) == b.session = c.session
Bindings == [session : Sessions, adapter : Adapters \cup {Absent}]
Unbound == [session |-> Absent, adapter |-> Absent]

Init ==
    /\ written = [s \in Sessions |-> 0] /\ faults = 0
    /\ binding = Unbound /\ generation = 0
    /\ pending = FALSE /\ resetLog = FALSE /\ stopped = FALSE
    /\ group = "process" /\ published = NoSample /\ chunks = <<>>
    /\ pc = "wait" /\ request = [gen |-> 0, binding |-> Unbound,
                                 group |-> "process"]
    /\ reader = NoReader /\ catchUp = {} /\ chunk = <<>>
    /\ ui = Detached
    /\ prewarmed = [s \in Sessions |-> [n \in 1..MaxLines |-> 0]]
    /\ lost = FALSE

Fault == faults < MaxFaults /\ faults' = faults + 1

(***************************************************************************)
(* The game.                                                                *)
(***************************************************************************)

GameLogs(s) ==
    /\ SumFunction(written) < MaxLines
    /\ written' = [written EXCEPT ![s] = @ + 1]
    /\ UNCHANGED <<faults, shared, worker, ui, prewarmed, lost>>

(***************************************************************************)
(* The UI thread.                                                           *)
(***************************************************************************)

\* A new generation: what was asked for or published before it is void.
NewGeneration ==
    /\ generation < MaxGeneration
    /\ generation' = generation + 1
    /\ pending' = FALSE /\ group' = "process" /\ published' = NoSample

\* reset_resource_telemetry_cache
CacheReset(u, gen) == [u EXCEPT !.gen = gen, !.process = 0, !.gpu = 0]

\* bind_resource_telemetry: attaching to a process, whose adapter is not known
\* yet, or binding another adapter of it.
Bind(b) ==
    /\ ~stopped
    /\ ui.session = b.session \/ (ui.session = Absent /\ b.adapter = Absent)
    /\ binding # b
    /\ NewGeneration
    /\ binding' = b
    /\ IF binding # Unbound /\ SameSession(binding, b)
       THEN UNCHANGED <<chunks, resetLog>>
       ELSE chunks' = <<>> /\ resetLog' = TRUE
    /\ ui' = [CacheReset(ui, generation') EXCEPT !.session = b.session]
    /\ UNCHANGED <<world, stopped, worker, prewarmed, lost>>

\* detach_telemetry
Clear ==
    /\ ~stopped /\ ui.session # Absent
    /\ NewGeneration
    /\ binding' = Unbound
    /\ chunks' = <<>> /\ resetLog' = TRUE
    /\ ui' = Detached
    /\ UNCHANGED <<world, stopped, worker, prewarmed, lost>>

Request ==
    /\ ui.session # Absent /\ ~stopped
    /\ pending' = TRUE
    /\ UNCHANGED <<world, binding, generation, resetLog, stopped, group,
                   published, chunks, worker, ui, prewarmed, lost>>

\* What update_overlay_scene_gate does with one chunk: told is what the UI
\* has been told, its events and its session.
Consume(told, c) ==
    LET fresh == IF c.reset THEN [delivered |-> {}, game |-> 0] ELSE told
    IN  IF c.catching THEN [fresh EXCEPT !.game = 0]
        ELSE [delivered |-> fresh.delivered \cup c.events,
              game |-> IF c.game # 0 THEN c.game ELSE fresh.game]

\* take_game_log_chunks leaves out those of other sessions.
Mine(u, c) == c.session = u.session

\* What it does with all of them.
Consumed(u, queue) ==
    LET told[i \in 0..Len(queue)] ==
            IF i = 0 THEN [delivered |-> u.delivered, game |-> u.game]
            ELSE IF Mine(u, queue[i]) THEN Consume(told[i - 1], queue[i])
            ELSE told[i - 1]
    IN  told[Len(queue)]

Selections(queue, s, n) ==
    Cardinality({i \in DOMAIN queue :
                     queue[i].session = s /\ n \in queue[i].selected})

\* The chunks of the bound process are consumed; a map change among them
\* makes a new generation and drops the cached samples with it.
Take(mapChanged) ==
    /\ ~stopped /\ ui.session # Absent /\ chunks # <<>>
    /\ LET told == Consumed(ui, chunks)
           after == [ui EXCEPT !.delivered = told.delivered, !.game = told.game]
       IN
       /\ IF mapChanged
          THEN /\ ui.game # 0 /\ after.game \notin {0, ui.game}
               /\ NewGeneration
               /\ ui' = CacheReset(after, generation')
          ELSE /\ ui' = after
               /\ UNCHANGED <<generation, pending, group, published>>
    /\ prewarmed' = [s \in Sessions |-> [n \in 1..MaxLines |->
                        IF s # ui.session THEN prewarmed[s][n]
                        ELSE prewarmed[s][n] + Selections(chunks, s, n)]]
    /\ chunks' = <<>>
    /\ UNCHANGED <<world, binding, resetLog, stopped, worker, lost>>

\* capture_telemetry_frame: a published sample is shown if its generation is
\* the one the UI knows.  A counter of another adapter binds that adapter.
Adopt ==
    /\ ui.session # Absent /\ published.gen # 0 /\ published.gen = ui.gen
    /\ ui' = [ui EXCEPT !.process = published.process, !.gpu = published.gpu]
    /\ UNCHANGED <<world, shared, worker, prewarmed, lost>>

Stop ==
    /\ ~stopped
    /\ stopped' = TRUE /\ pending' = FALSE /\ resetLog' = FALSE
    /\ UNCHANGED <<world, binding, generation, group, published, chunks,
                   worker, ui, prewarmed, lost>>

(***************************************************************************)
(* The worker.                                                              *)
(***************************************************************************)

\* reset_log_ comes before a request.
WakeToReset ==
    /\ pc = "wait" /\ ~stopped /\ resetLog
    /\ resetLog' = FALSE /\ pc' = "reset"
    /\ UNCHANGED <<world, binding, generation, pending, stopped, group,
                   published, chunks, request, reader, catchUp, chunk, ui,
                   prewarmed, lost>>

\* The retained file and every parser are dropped outside the lock.
CloseLog ==
    /\ pc = "reset"
    /\ reader' = NoReader /\ catchUp' = {} /\ lost' = FALSE
    /\ pc' = "wait"
    /\ UNCHANGED <<world, shared, request, chunk, ui, prewarmed>>

WakeToSample ==
    /\ pc = "wait" /\ ~stopped /\ ~resetLog /\ pending
    /\ binding # Unbound
    /\ request' = [gen |-> generation, binding |-> binding, group |-> group]
    /\ pending' = FALSE /\ group' = OtherGroup(group)
    /\ pc' = "log"
    /\ UNCHANGED <<world, binding, generation, resetLog, stopped, published,
                   chunks, reader, catchUp, chunk, ui, prewarmed, lost>>

\* The reader of the requested process: a new one for another process.
Reader ==
    IF reader.session = request.binding.session THEN reader
    ELSE [NoReader EXCEPT !.session = request.binding.session]

\* Mutant: what was held back while catching up is forgotten at each request.
KeptNothing == {}

\* catch_up_boundaries survive from one piece of the backlog to the next.
Kept == IF reader.session = request.binding.session THEN catchUp ELSE {}

Chunk(reset, catching, events, selected, game, began) ==
    [session |-> request.binding.session, reset |-> reset,
     catching |-> catching, events |-> events, selected |-> selected,
     game |-> game, began |-> began]

NothingRead ==
    /\ reader' = Reader /\ catchUp' = Kept
    /\ chunk' = <<>>
    /\ UNCHANGED <<faults, lost>>

\* reject_binding: the file is closed and will be read again from its start.
Rejected ==
    /\ Fault
    /\ reader' = [NoReader EXCEPT !.session = request.binding.session]
    /\ IF Reader.bound
       THEN /\ chunk' = <<Chunk(TRUE, TRUE, {}, {}, 0, 0)>>
            /\ catchUp' = {} /\ lost' = FALSE
       ELSE chunk' = <<>> /\ catchUp' = Kept /\ UNCHANGED lost

\* Mutant: what was there when the log was opened is taken for live.
OpenedLive(r, gap, caught) == r.catching \/ gap \/ ~caught

\* Lines are live when the reader stood at the end of the log a moment ago:
\* not after opening it, not while catching up, not after a gap.
Historical(r, gap, caught) == ~r.bound \/ r.catching \/ gap \/ ~caught

\* NativeGameLogSampler::sample, with what the worker makes of the bytes: a
\* bounded piece of the log, and whether it reached the end of it.
Reads(n, gap) ==
    LET r == Reader
        opened == ~r.bound
        end == r.offset + n
        caught == end = written[r.session]
        new == (r.offset + 1)..end
        historical == Historical(r, gap, caught)
        held == (IF opened THEN {} ELSE Kept) \cup new
    IN  /\ end <= written[r.session]
        /\ n = 0 => caught
        /\ reader' = [r EXCEPT !.bound = TRUE, !.offset = end,
                               !.catching = IF n = 0 THEN ~opened /\ @
                                            ELSE ~caught,
                               !.began = IF opened THEN written[r.session]
                                         ELSE @]
        /\ chunk' = IF n = 0 /\ ~opened THEN <<>>
                    ELSE <<Chunk(opened, n > 0 /\ ~caught,
                                 IF n = 0 \/ ~caught THEN {}
                                 ELSE IF historical THEN held ELSE new,
                                 IF historical THEN {} ELSE new,
                                 IF n > 0 /\ caught THEN end ELSE 0,
                                 reader'.began)>>
        /\ catchUp' = IF n = 0 THEN (IF opened THEN {} ELSE Kept)
                      ELSE IF historical
                           THEN (IF caught THEN {} ELSE held)
                           ELSE Kept
        /\ lost' = IF opened THEN FALSE ELSE lost
        /\ UNCHANGED faults

\* The log is read only while the UI keeps up, the counters always.
ReadLog ==
    /\ pc = "log"
    /\ IF Len(chunks) < QueueLimit
       THEN \/ Rejected
            \/ \E n \in 0..MaxLines, gap \in BOOLEAN : Reads(n, gap)
       ELSE NothingRead
    /\ pc' = "publish"
    /\ UNCHANGED <<written, shared, request, ui, prewarmed>>

\* Whether the chunk still belongs to what is bound.
ChunkWanted ==
    binding # Unbound /\ ~resetLog /\ SameSession(binding, request.binding)

\* Whether the sample does: not after another bind, even back to the same.
SampleWanted ==
    ~stopped /\ generation = request.gen /\ binding = request.binding

Publish ==
    /\ pc = "publish"
    /\ chunks' = IF ChunkWanted THEN chunks \o chunk ELSE chunks
    /\ published' =
         IF ~SampleWanted THEN published
         ELSE LET base == IF published.gen = request.gen THEN published
                          ELSE [NoSample EXCEPT !.gen = request.gen]
              IN  [base EXCEPT ![request.group] = request.gen]
    /\ chunk' = <<>> /\ pc' = "wait"
    /\ UNCHANGED <<world, binding, generation, pending, resetLog, stopped,
                   group, request, reader, catchUp, ui, prewarmed, lost>>

\* Memory runs out before the chunk is queued: it is gone, and so are the
\* published counters.
PublishFails ==
    /\ pc = "publish" /\ Fault
    /\ published' = NoSample
    /\ lost' = (lost \/ chunk # <<>>)
    /\ chunk' = <<>> /\ pc' = "wait"
    /\ UNCHANGED <<written, binding, generation, pending, resetLog, stopped,
                   group, chunks, request, reader, catchUp, ui, prewarmed>>

Worker == WakeToReset \/ CloseLog \/ WakeToSample \/ ReadLog \/ Publish
              \/ PublishFails

Next ==
    \/ \E s \in Sessions : GameLogs(s)
    \/ \E b \in Bindings : Bind(b)
    \/ Clear \/ Request \/ Adopt \/ Stop
    \/ \E mapChanged \in BOOLEAN : Take(mapChanged)
    \/ Worker

\* The worker runs whenever it is woken, the timer of the UI keeps ticking.
Fairness ==
    /\ WF_vars(Worker)
    /\ WF_vars(Request)
    /\ WF_vars(\E mapChanged \in BOOLEAN : Take(mapChanged))

Spec == Init /\ [][Next]_vars /\ Fairness

--------------------------------------------------------------------------------
(***************************************************************************)
(* Properties.                                                              *)
(***************************************************************************)

\* The reader works for the process the UI is attached to.
Following ==
    /\ ui.session # Absent /\ reader.session = ui.session
    /\ ~resetLog /\ ~stopped /\ pc # "reset" /\ ~lost

\* What is queued or being handed over brings the UI exactly to where the
\* reader is: every event of the lines read from the file, none twice kept
\* back, none from a file that is no longer read; and the game session only
\* while the reader is not behind the log.
UiFollowsReader ==
    Following =>
        LET end == Consumed(ui, chunks \o chunk) IN
        /\ end.delivered \cup catchUp = 1..reader.offset
        /\ end.delivered \cap catchUp = {}
        /\ end.game = IF reader.catching THEN 0 ELSE reader.offset

\* A map selection starts a pre-warm only if its line was written after the
\* log was opened, and a line does so at most once however often the log is
\* opened and read again.
PrewarmIsNew ==
    /\ \A s \in Sessions, n \in 1..MaxLines : prewarmed[s][n] <= 1
    /\ \A i \in DOMAIN chunks : \A n \in chunks[i].selected :
           n > chunks[i].began

\* The published counters, and those the UI shows, were requested under the
\* binding in force and the map being played: an answer that comes after the
\* binding went away and came back is not taken for one of the new binding.
SamplesAreCurrent ==
    /\ published.gen \in {0, generation}
    /\ {published.process, published.gpu} \subseteq {0, published.gen}
    /\ {ui.process, ui.gpu} \subseteq {0, generation}
    /\ ui.session # Absent => ui.gen = generation

\* What the worker hands over is exact: lines, map selections and counters
\* reach the UI once, in order and under the binding they belong to.
HandOffIsExact == UiFollowsReader /\ PrewarmIsNew /\ SamplesAreCurrent

\* What the game writes reaches the UI, unless the UI leaves the process or
\* a hand-over failed.
LinesArrive ==
    \A s \in Sessions, n \in 1..MaxLines :
        (ui.session = s /\ written[s] >= n) ~>
            (n \in ui.delivered \/ ui.session # s \/ stopped \/ lost)
================================================================================
