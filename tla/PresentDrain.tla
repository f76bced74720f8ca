------------------------------- MODULE PresentDrain -------------------------------
(***************************************************************************)
(* The statistics of the frame times: PresentSource computes them on a      *)
(* worker thread of its own (src/telemetry/present_source.cpp), while the   *)
(* trace thread admits presents and losses (module PresentCapture) and the  *)
(* UI thread asks for them, moves their beginning, resets them or starts    *)
(* the source anew (drain_present_stage).                                   *)
(*                                                                         *)
(* A present is its time; the stream that is shown is one set of them.      *)
(***************************************************************************)
EXTENDS Naturals, FiniteSets

CONSTANTS
    None,
    MaxPresents,  \* bounds of this model: presents, and what the UI and the
    MaxChanges    \* trace thread do besides

DrainAssumption == MaxPresents \in Nat /\ MaxChanges \in Nat

VARIABLES
    presents,   \* the presents of the stream, oldest first by their time
    last,       \* the time of the last one
    asked,      \* the requests that wait, each with its generation
    active,     \* the drain that is computed
    latest,     \* the results that can be read
    gen,        \* drain_generation_
    failed,     \* drain_worker_failed_
    boundary,   \* statistics_not_before_ns_; None hides the history
    epoch,      \* starts and resets of the statistics so far
    changes     \* changes so far

results == <<asked, latest, gen>>
vars == <<presents, last, results, active, failed, boundary, epoch, changes>>

Kinds == {"default", "bounded"}
Nothing == [k \in Kinds |-> None]

TypeOK ==
    /\ presents \subseteq 1..last /\ epoch \in Nat
    /\ \A k \in Kinds : asked[k] = None \/ asked[k] = gen
    /\ active = None \/ active.gen <= gen
    /\ failed => active = None /\ asked = Nothing
    /\ boundary = None \/ boundary \in 0..last

Init ==
    /\ presents = {} /\ last = 0
    /\ asked = Nothing /\ active = None /\ latest = Nothing /\ gen = 0
    /\ failed = FALSE /\ boundary = None /\ epoch = 0 /\ changes = 0

Changed == changes < MaxChanges /\ changes' = changes + 1

\* invalidate_drain_locked: what was asked and what was computed is void.
Invalidate ==
    gen' = gen + 1 /\ asked' = Nothing /\ latest' = Nothing

(***************************************************************************)
(* The trace thread.                                                        *)
(***************************************************************************)

Admit ==
    /\ last < MaxPresents /\ last' = last + 1
    /\ presents' = presents \cup {last + 1}
    /\ UNCHANGED <<results, active, failed, boundary, epoch, changes>>

\* record_loss: presents stay, but nothing that was computed from them.
Lose ==
    /\ Changed /\ Invalidate
    /\ UNCHANGED <<presents, last, active, failed, boundary, epoch>>

(***************************************************************************)
(* The worker.                                                              *)
(***************************************************************************)

\* drain: live timing needs two presents; the history starts at the boundary.
Measured ==
    [live |-> Cardinality(presents) >= 2, epoch |-> epoch,
     history |-> IF boundary = None THEN {} ELSE {at \in presents : at > boundary}]

Unavailable == [live |-> FALSE, history |-> {}, epoch |-> epoch]

\* The worker takes the bounded request first.
TakeRequest ==
    /\ active = None /\ ~failed
    /\ \E k \in Kinds :
         /\ asked[k] # None
         /\ k = "default" => asked["bounded"] = None
         /\ asked' = [asked EXCEPT ![k] = None]
         /\ active' = [kind |-> k, gen |-> asked[k], result |-> None]
    /\ UNCHANGED <<presents, last, latest, gen, failed, boundary, epoch, changes>>

\* It copies what it needs under the lock and computes without it.
Compute ==
    /\ active # None /\ active.result = None
    /\ active' = [active EXCEPT !.result = Measured]
    /\ UNCHANGED <<presents, last, results, failed, boundary, epoch, changes>>

\* Mutant: a result is published although it was made void meanwhile.
Publishable_Always == TRUE

\* A result counts unless it was made void meanwhile.
Publishable == active.gen = gen

Published(result) ==
    /\ active' = None
    /\ latest' = IF Publishable THEN [latest EXCEPT ![active.kind] = result]
                 ELSE latest
    /\ UNCHANGED <<presents, last, asked, gen, failed, boundary, epoch>>

Publish ==
    /\ active # None /\ active.result # None
    /\ Published(active.result) /\ UNCHANGED changes

\* The computation throws.
ComputeFails == active # None /\ Changed /\ Published(Unavailable)

\* The worker itself ends; later requests are answered without it.
WorkerFails ==
    /\ ~failed /\ Changed
    /\ failed' = TRUE /\ active' = None /\ asked' = Nothing
    /\ latest' = [k \in Kinds |-> Unavailable]
    /\ UNCHANGED <<presents, last, gen, boundary, epoch>>

(***************************************************************************)
(* The UI thread.                                                           *)
(***************************************************************************)

\* request_drain: a new request of a kind replaces the one that waits.
Request(k) ==
    /\ IF failed
       THEN latest' = [latest EXCEPT ![k] = Unavailable] /\ UNCHANGED asked
       ELSE asked' = [asked EXCEPT ![k] = gen] /\ UNCHANGED latest
    /\ UNCHANGED <<presents, last, gen, active, failed, boundary, epoch, changes>>

\* Live timing outlives a new boundary, the history does not.
Live(result) ==
    IF result = None THEN None ELSE [result EXCEPT !.history = {}]

\* set_statistics_boundary, which does nothing if the boundary is the same.
SetBoundary(b) ==
    /\ boundary # b /\ boundary' = b /\ Changed
    /\ gen' = gen + 1 /\ asked' = Nothing
    /\ latest' = [Nothing EXCEPT !["default"] = Live(latest["default"])]
    /\ UNCHANGED <<presents, last, active, failed, epoch>>

\* reset_statistics; a silent or ended session is replaced with stop and start,
\* which do the same.
ResetStatistics ==
    /\ Changed /\ Invalidate
    /\ presents' = {} /\ epoch' = epoch + 1
    /\ UNCHANGED <<last, active, failed, boundary>>

Next ==
    \/ Admit \/ Lose
    \/ TakeRequest \/ Compute \/ Publish \/ ComputeFails \/ WorkerFails
    \/ \E k \in Kinds : Request(k)
    \/ \E b \in {None, last} : SetBoundary(b)
    \/ ResetStatistics

Spec == Init /\ [][Next]_vars

--------------------------------------------------------------------------------
(***************************************************************************)
(* Properties.                                                              *)
(***************************************************************************)

\* What the UI can read was computed from the statistics as they are now: after
\* the last reset or reconnect, and from no present before the boundary.
PublishedIsCurrent ==
    \A k \in Kinds : latest[k] # None =>
        /\ latest[k].live => latest[k].epoch = epoch
        /\ \A at \in latest[k].history : boundary # None /\ at > boundary
================================================================================
