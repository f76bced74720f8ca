------------------------------ MODULE AsyncWriter ------------------------------
(***************************************************************************)
(* The background writer of small files (src/platform/windows/async_file_   *)
(* writer.cpp), with which the FleX session report is saved.  A caller      *)
(* submits bytes for a target and gets a ticket; one worker replaces the    *)
(* files in order.  A submission for a target that is still queued replaces *)
(* its bytes, so that one write answers several tickets.  Only the last     *)
(* outcomes are kept.  The bytes of a submission are named by its ticket.   *)
(***************************************************************************)
EXTENDS Integers, Sequences, FiniteSets, SequencesExt

CONSTANTS
    None,
    Targets,        \* files written
    Retained,       \* outcomes that are kept (256)
    MaxTickets,     \* bound: submissions
    MaxFaults       \* bound: calls that fail

TaskRecords == [tickets : Seq(Nat), target : Targets, bytes : Nat]

WriterAssumption ==
    /\ Retained \in Nat \ {0} /\ MaxTickets \in Nat /\ MaxFaults \in Nat
    /\ None \notin BOOLEAN /\ None \notin [of : TaskRecords, result : BOOLEAN \cup {None}]

VARIABLES
    queue,      \* tasks: the tickets, the target, the bytes
    task,       \* the task of the worker, with its result once it is written
    outcomes,   \* <<ticket, succeeded>>, the oldest first
    owner,      \* the target of each ticket
    files,      \* the bytes each target holds; 0 = what was there before
    waiting,    \* the ticket the caller waits for
    said,       \* the last answer of wait: the ticket, and whether it is saved
    worker,     \* "runs", "failed" or "ended"
    stopping,   \* the destructor has asked for the end
    faults

vars == <<queue, task, outcomes, owner, files, waiting, said, worker, stopping, faults>>
caller == <<owner, waiting, said, stopping>>

Tickets == DOMAIN owner
TypeOK ==
    /\ queue \in Seq(TaskRecords) /\ owner \in Seq(Targets)
    /\ outcomes \in Seq((1..MaxTickets) \X BOOLEAN)
    /\ files \in [Targets -> 0..MaxTickets]
    /\ waiting \in Tickets \cup {None} /\ said \in (Tickets \X BOOLEAN) \cup {None}
    /\ worker \in {"runs", "failed", "ended"} /\ stopping \in BOOLEAN

Init ==
    /\ queue = <<>> /\ task = None /\ outcomes = <<>> /\ owner = <<>>
    /\ files = [f \in Targets |-> 0] /\ waiting = None /\ said = None
    /\ worker = "runs" /\ stopping = FALSE /\ faults = 0

Fault == faults < MaxFaults /\ faults' = faults + 1

(* Mutant: a queued task keeps the bytes it was submitted with.             *)
Renewed_Kept(t, ticket) == [t EXCEPT !.tickets = Append(@, ticket)]

(* A queued task takes the newest bytes and answers one more ticket.        *)
Renewed(t, ticket) == [t EXCEPT !.tickets = Append(@, ticket), !.bytes = ticket]

(* A failed worker takes nothing: the ticket is 0.                          *)
Submit(f) ==
    /\ waiting = None /\ ~stopping /\ worker # "failed" /\ Len(owner) < MaxTickets
    /\ owner' = Append(owner, f)
    /\ LET ticket == Len(owner) + 1
           pending == {i \in DOMAIN queue : queue[i].target = f}
       IN queue' = IF pending = {}
                   THEN Append(queue, [tickets |-> <<ticket>>, target |-> f, bytes |-> ticket])
                   ELSE [i \in DOMAIN queue |->
                            IF i \in pending THEN Renewed(queue[i], ticket) ELSE queue[i]]
    /\ UNCHANGED <<task, outcomes, files, waiting, said, worker, stopping, faults>>

Wait(ticket) ==
    /\ waiting = None /\ ~stopping /\ waiting' = ticket
    /\ UNCHANGED <<queue, task, outcomes, owner, files, said, worker, stopping, faults>>

Outcomes(ticket) == {o \in Range(outcomes) : o[1] = ticket}

(* The wait is over: the outcome is there, or nothing that could bring it.  *)
Completed(ticket) ==
    \/ Outcomes(ticket) # {} \/ worker = "failed"
    \/ task = None /\ \A i \in DOMAIN queue : ticket \notin Range(queue[i].tickets)

(* A missing outcome is told as a failure, and so is a timeout.             *)
Answer ==
    /\ waiting # None /\ waiting' = None
    /\ \/ Completed(waiting) /\ said' = <<waiting, <<waiting, TRUE>> \in Outcomes(waiting)>>
       \/ said' = <<waiting, FALSE>>
    /\ UNCHANGED <<queue, task, outcomes, owner, files, worker, stopping, faults>>

(* The destructor asks for the end under the mutex, then joins the worker.  *)
Destroy ==
    /\ waiting = None /\ ~stopping /\ stopping' = TRUE
    /\ UNCHANGED <<queue, task, outcomes, owner, files, waiting, said, worker, faults>>

(* The worker empties the queue before it looks at the request to stop.     *)
Take ==
    /\ worker = "runs" /\ task = None /\ queue # <<>>
    /\ task' = [of |-> Head(queue), result |-> None] /\ queue' = Tail(queue)
    /\ UNCHANGED <<caller, outcomes, files, worker, faults>>

End ==
    /\ worker = "runs" /\ task = None /\ queue = <<>> /\ stopping /\ worker' = "ended"
    /\ UNCHANGED <<caller, queue, task, outcomes, files, faults>>

(* atomic_replace_utf8: one that fails may have replaced the file.          *)
Write ==
    /\ task # None /\ task.result = None
    /\ LET written == [files EXCEPT ![task.of.target] = task.of.bytes] IN
       \/ task' = [task EXCEPT !.result = TRUE] /\ files' = written /\ UNCHANGED faults
       \/ task' = [task EXCEPT !.result = FALSE] /\ files' \in {files, written} /\ Fault
    /\ UNCHANGED <<caller, queue, outcomes, worker>>

Results == [i \in DOMAIN task.of.tickets |-> <<task.of.tickets[i], task.result>>]

(* The outcomes of all its tickets are added and the oldest dropped.  When  *)
(* memory runs out some of them are missing and nothing is dropped.         *)
Publish ==
    /\ task # None /\ task.result # None /\ task' = None
    /\ \/ LET all == outcomes \o Results
              drop == IF Len(all) > Retained THEN Len(all) - Retained ELSE 0
          IN outcomes' = SubSeq(all, drop + 1, Len(all)) /\ UNCHANGED faults
       \/ /\ Fault
          /\ \E n \in 0..Len(Results) - 1 : outcomes' = outcomes \o SubSeq(Results, 1, n)
    /\ UNCHANGED <<caller, queue, files, worker>>

(* An exception between two tasks ends the worker: nothing is written any   *)
(* more, and whoever waits is told so.                                      *)
Fail ==
    /\ worker = "runs" /\ task = None /\ Fault
    /\ worker' = "failed" /\ queue' = <<>>
    /\ UNCHANGED <<caller, task, outcomes, files>>

Next ==
    \/ \E f \in Targets : Submit(f)
    \/ \E ticket \in Tickets : Wait(ticket)
    \/ Answer \/ Destroy \/ Take \/ End \/ Write \/ Publish \/ Fail

Spec == Init /\ [][Next]_vars

(***************************************************************************)
(* Properties                                                               *)
(***************************************************************************)

(* A ticket that is told as saved is on disk, with its own bytes or with    *)
(* newer ones of the same target, and stays there: whatever was coalesced,  *)
(* evicted or failed meanwhile.  And when the destructor returns, the       *)
(* newest bytes of every target have been written, unless a call failed     *)
(* (save_flex_report reports what wait returned).                           *)
SavedIsOnDisk ==
    /\ said # None /\ said[2] => files[owner[said[1]]] >= said[1]
    /\ worker = "ended" /\ faults = 0 => \A t \in Tickets : files[owner[t]] >= t
================================================================================
