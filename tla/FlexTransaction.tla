---------------------------- MODULE FlexTransaction ----------------------------
(***************************************************************************)
(* The protected transaction that puts the optimized FleX runtime into the  *)
(* game directory and takes it out again (src/flex/flex_lab.cpp), as the    *)
(* optimizer calls it: at its start, before a session, after a session and  *)
(* from the diagnostics page.                                               *)
(*                                                                         *)
(* The optimizer is one thread; it may die between any two file             *)
(* operations, every operation may fail, also after it replaced its target, *)
(* KF2 may be started and closed at any moment and Steam may change its     *)
(* files whenever the game does not run.                                    *)
(***************************************************************************)
EXTENDS Naturals, Sequences

Parts == {"core", "relay", "ext", "helper"}   \* files of the game directory
Saved == {"savedCore", "savedExt", "savedHelper"}        \* recovery copies
Contents == {"none", "stock", "optimized", "forwarder", "own", "foreign"}
    \* "own" is a helper that was there before, "foreign" what Steam brings

VARIABLES
    files,      \* content of every part and recovery copy
    marker,     \* flex-lab-transaction.marker: its state, and the helper that
                \* was there before ("none" = absent)
    inUse,      \* parts a running KF2 has loaded, {} = it does not run
    up,         \* does the optimizer run?
    op,         \* what the optimizer is doing to the runtime
    plan,       \* file operations it has still to do, <<>> = not begun
    ready,      \* was the optimized runtime prepared for the next start?
    told,       \* recovery_required, or the error of the diagnostics page
    changed     \* has Steam changed a part since an operation checked them?

vars == <<files, marker, inUse, up, op, plan, ready, told, changed>>
game == <<inUse, changed>>

NoMarker == [state |-> "absent", helper |-> "none"]
Operations == {"none", "boot", "renew", "install", "undo", "return", "user"}

TypeOK ==
    /\ files \in [Parts \cup Saved -> Contents]
    /\ marker \in [state : {"absent", "legacy", "installing", "installed"},
                   helper : {"none", "own"}]
    /\ inUse \subseteq Parts
    /\ up \in BOOLEAN /\ ready \in BOOLEAN /\ told \in BOOLEAN
    /\ changed \in BOOLEAN
    /\ op \in Operations

Exists(f) == files[f] # "none"
Marked == marker # NoMarker
Running == inUse # {}

\* Is there a transaction to undo?  The relay alone counts.
Transaction == Marked \/ Exists("relay")

(***************************************************************************)
(* What the files must be for an operation to begin.                        *)
(***************************************************************************)

\* The pair the recipes were made for.
StockPair == files["core"] = "stock" /\ files["ext"] = "stock"

\* The recovery copies are the files they were made of.
Recoverable ==
    /\ files["savedCore"] = "stock" /\ files["savedExt"] = "stock"
    /\ marker.helper # "none" => files["savedHelper"] = marker.helper

\* Nothing but this transaction has written the parts.
Known ==
    /\ files["core"] \in {"stock", "forwarder"}
    /\ files["ext"] \in {"stock", "optimized"}
    /\ files["helper"] \in {marker.helper, "optimized"}
    /\ files["relay"] \in {"none", "optimized"}

KnownLegacy ==
    /\ files["core"] \in {"none", "stock", "forwarder"}
    /\ \A f \in {"savedCore", "relay"} : files[f] \in {"none", "stock"}
    /\ \E f \in {"savedCore", "relay"} : files[f] = "stock"

CanRestore ==
    CASE marker.state = "absent" -> FALSE
      [] marker.state = "legacy" -> KnownLegacy
      [] OTHER -> Recoverable /\ Known

\* The installed runtime is all there and can be undone.
Current ==
    /\ marker.state = "installed"
    /\ files["core"] = "forwarder"
    /\ \A f \in Parts \ {"core"} : files[f] = "optimized"
    /\ Recoverable

(***************************************************************************)
(* The file operations, in the order of the code.  "from" is the file a     *)
(* verified copy is made of; the optimizer's own packages are not modelled  *)
(* as files, their hash is checked in the same way.                         *)
(***************************************************************************)

Copy(from, to, hash) == [from |-> from, to |-> to, put |-> hash]
Put(to, hash) == Copy("package", to, hash)
Remove(to) == Put(to, "none")
Mark(state) == [from |-> "package", to |-> "marker", put |-> state]

\* Mutant: a helper that was there before gets no recovery copy.
PlanWithoutHelper ==
    <<Copy("core", "savedCore", "stock"), Copy("ext", "savedExt", "stock"),
      Mark("installing"), Put("relay", "optimized"), Put("ext", "optimized"),
      Put("helper", "optimized"), Put("core", "forwarder"), Mark("installed")>>

InstallPlan ==
    <<Copy("core", "savedCore", "stock"), Copy("ext", "savedExt", "stock")>>
    \o (IF Exists("helper")
        THEN <<Copy("helper", "savedHelper", files["helper"])>> ELSE <<>>)
    \o <<Mark("installing"), Put("relay", "optimized"), Put("ext", "optimized"),
         Put("helper", "optimized"), Put("core", "forwarder"), Mark("installed")>>

LegacyPlan ==
    LET source == IF files["savedCore"] = "stock" THEN "savedCore" ELSE "relay"
    IN  <<Copy(source, "core", "stock"), Remove("relay"), Mark("absent")>>

CurrentPlan ==
    <<Copy("savedCore", "core", "stock"), Copy("savedExt", "ext", "stock"),
      IF marker.helper = "none" THEN Remove("helper")
      ELSE Copy("savedHelper", "helper", marker.helper),
      Remove("relay"), Mark("absent")>>

RestorePlan == IF marker.state = "legacy" THEN LegacyPlan ELSE CurrentPlan

(***************************************************************************)
(* How an operation begins and ends.                                        *)
(***************************************************************************)

Idle == up /\ op = "none"
Enter(o) == op' = o /\ plan' = <<>>

\* A failed operation: a start, the end of a session and the diagnostics page
\* tell the user; a failed preparation is rolled back, by the installation
\* itself once the marker is written and then by the caller.
Failed(o) ==
    /\ Enter(CASE o \in {"boot", "return", "user"} -> "none"
               [] o = "install" /\ Marked -> "undo"
               [] OTHER -> "return")
    /\ told' = (told \/ o \in {"boot", "return", "user"})
    /\ UNCHANGED ready

Succeeded(o) ==
    /\ Enter(CASE o = "renew" -> "install"
               [] o = "undo" -> "return"
               [] OTHER -> "none")
    /\ ready' = (o = "install" \/ (ready /\ o # "return"))
    /\ UNCHANGED told

\* restore_optimized_runtime_transaction: every check it makes before it
\* touches a file may also fail to read what it checks.
Restore(o, running) ==
    /\ UNCHANGED <<files, marker, inUse>>
    /\ \/ /\ ~running /\ CanRestore
          /\ op' = o /\ plan' = RestorePlan
          /\ changed' = FALSE
          /\ UNCHANGED <<ready, told>>
       \/ Failed(o) /\ UNCHANGED changed

\* recover_optimized_runtime_transaction, done = what a caller does when there
\* is nothing to recover.
Recover(o, running, done) ==
    \/ (~Transaction \/ Current) /\ done
    \/ ~Current /\ Restore(o, running)

(***************************************************************************)
(* The callers.                                                             *)
(***************************************************************************)

Init ==
    /\ \/ \E h \in {"none", "own"} :
            /\ files = [f \in Parts \cup Saved |->
                          CASE f \in {"core", "ext"} -> "stock"
                            [] f = "helper" -> h
                            [] OTHER -> "none"]
            /\ marker = NoMarker
       \/ \E s \in {"none", "stock"} :
            /\ files = [f \in Parts \cup Saved |->
                          CASE f = "core" -> "forwarder"
                            [] f \in {"ext", "relay"} -> "stock"
                            [] f = "savedCore" -> s
                            [] OTHER -> "none"]
            /\ marker = [state |-> "legacy", helper |-> "none"]
    /\ inUse = {} /\ up = FALSE /\ op = "none" /\ plan = <<>>
    /\ ready = FALSE /\ told = FALSE /\ changed = FALSE

\* A start of the optimizer repairs what the last run left.
Boot ==
    /\ ~up /\ up' = TRUE
    /\ LET quiet == Enter("none") /\ UNCHANGED <<files, marker, game, ready, told>>
       IN IF ~Running /\ Transaction THEN Restore("boot", FALSE)
          ELSE Recover("boot", Running, quiet)

\* Before a session with FleX enabled; the caller has seen that KF2 does not
\* run, here and everywhere below it is taken for stopped.
Ensure ==
    /\ Idle /\ ~ready /\ ~Running
    /\ UNCHANGED up
    /\ IF ~Transaction
       THEN Enter("install") /\ UNCHANGED <<files, marker, game, ready, told>>
       ELSE Recover("renew", FALSE,
                    /\ Enter("none") /\ ready' = TRUE
                    /\ UNCHANGED <<files, marker, game, told>>)

\* The identity of both files is checked before anything is copied.
BeginInstall ==
    /\ op = "install" /\ plan = <<>>
    /\ UNCHANGED <<files, marker, inUse, up>>
    /\ \/ /\ ~Transaction /\ StockPair
          /\ op' = "install" /\ plan' = InstallPlan
          /\ changed' = FALSE
          /\ UNCHANGED <<ready, told>>
       \/ Failed("install") /\ UNCHANGED changed

\* The installation undoes itself and takes KF2 for stopped.
BeginUndo ==
    /\ op = "undo" /\ plan = <<>>
    /\ Restore("undo", FALSE) /\ UNCHANGED up

\* The end of a session, of the optimizer, or of a preparation that failed.
Return ==
    /\ Idle /\ ready
    /\ Enter("return")
    /\ UNCHANGED <<files, marker, game, up, ready, told>>

BeginReturn ==
    /\ op = "return" /\ plan = <<>> /\ UNCHANGED up
    /\ \/ Transaction /\ Restore("return", Running)
       \/ ~Transaction /\ Succeeded("return") /\ UNCHANGED <<files, marker, game>>

UserRestore ==
    /\ Idle /\ Restore("user", Running) /\ UNCHANGED up

(***************************************************************************)
(* One file operation of the plan.                                          *)
(***************************************************************************)

Written(s) ==
    IF s.to = "marker"
    THEN /\ marker' = [state |-> s.put,
                       helper |-> CASE s.put = "absent" -> "none"
                                    [] s.put = "installing" -> files["helper"]
                                    [] OTHER -> marker.helper]
         /\ UNCHANGED files
    ELSE /\ files' = [files EXCEPT ![s.to] = s.put]
         /\ UNCHANGED marker

\* The staged copy has the hash the operation expects and the target can be
\* replaced, which a loaded library cannot.
Possible(s) ==
    /\ s.from # "package" => files[s.from] = s.put
    /\ s.put = "none" => files[s.to] \in {"none", "stock", "optimized"}
    /\ s.to \notin inUse

StepDone ==
    /\ plan # <<>> /\ Possible(Head(plan))
    /\ Written(Head(plan))
    /\ IF Len(plan) > 1
       THEN plan' = Tail(plan) /\ UNCHANGED <<op, ready, told>>
       ELSE Succeeded(op)
    /\ UNCHANGED <<game, up>>

\* The target may have been replaced although the operation reports a failure.
StepFailed ==
    /\ plan # <<>>
    /\ \/ UNCHANGED <<files, marker>>
       \/ Possible(Head(plan)) /\ Written(Head(plan))
    /\ Failed(op)
    /\ UNCHANGED <<game, up>>

(***************************************************************************)
(* The world.                                                               *)
(***************************************************************************)

Crash ==
    /\ up /\ up' = FALSE
    /\ Enter("none") /\ ready' = FALSE /\ told' = FALSE
    /\ UNCHANGED <<files, marker, game>>

GameStart ==
    /\ ~Running
    /\ inUse' = {"core", "ext"} \cup {p \in {"relay", "helper"} :
                    files["core"] = "forwarder" /\ Exists(p)}
    /\ UNCHANGED <<files, marker, up, op, plan, ready, told, changed>>

GameExit ==
    /\ Running /\ inUse' = {}
    /\ UNCHANGED <<files, marker, up, op, plan, ready, told, changed>>

\* An update brings another file, a verification of the game the stock one.
Steam ==
    /\ ~Running
    /\ \E p \in {"core", "ext"}, c \in {"stock", "foreign"} :
         files[p] # c /\ files' = [files EXCEPT ![p] = c]
    /\ changed' = TRUE
    /\ UNCHANGED <<marker, inUse, up, op, plan, ready, told>>

Next ==
    \/ Boot \/ Ensure \/ BeginInstall \/ BeginUndo \/ Return \/ BeginReturn
    \/ UserRestore \/ StepDone \/ StepFailed
    \/ Crash \/ GameStart \/ GameExit \/ Steam

Spec == Init /\ [][Next]_vars

(***************************************************************************)
(* Properties.                                                              *)
(***************************************************************************)

\* Whatever fails and whenever the optimizer dies, every file of the player
\* that the transaction has taken out of the game directory is in a recovery
\* copy, and the marker that leads a later start to it is on disk
\* (install_optimized_runtime_transaction, its order of writes).
StockRecoverable ==
    /\ (\E p \in Parts : files[p] \in {"optimized", "forwarder"}) => Marked
    /\ files["core"] = "forwarder" =>
          "stock" \in {files["savedCore"],
                       IF marker.state = "legacy" THEN files["relay"] ELSE "none"}
    /\ files["ext"] = "optimized" => files["savedExt"] = "stock"
    /\ files["helper"] = "optimized" /\ marker.helper # "none" =>
          files["savedHelper"] = marker.helper

\* The forwarder is never alone: a KF2 started at any moment finds the library
\* it forwards to (the forwarder goes in last and comes out first).
ForwarderHasRelay == files["core"] = "forwarder" => Exists("relay")

Stocked ==
    /\ {files["core"], files["ext"]} \subseteq {"stock", "foreign"}
    /\ ~Exists("relay") /\ files["helper"] # "optimized"

\* When the optimizer has finished what it does, the game directory holds the
\* whole optimized runtime or none of it, or the user has been told that a
\* recovery is required: no failure of a rollback is lost on its way up.
MixedIsTold == Idle /\ ~changed => Stocked \/ Current \/ told

\* The runtime of the game can always be used, returned, or its state is known
\* to the user.
RuntimeIsWhole == StockRecoverable /\ ForwarderHasRelay /\ MixedIsTold

\* A file that Steam brought before an operation looked at the parts is never
\* overwritten by it (require_known_current; the recipes' identity).
ForeignKept ==
    [][(\E p \in Parts : files[p] = "foreign" /\ files'[p] # "foreign")
         => changed \/ changed']_vars
================================================================================
