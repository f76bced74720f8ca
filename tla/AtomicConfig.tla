----------------------------- MODULE AtomicConfig -----------------------------
(***************************************************************************)
(* What the protected configuration transaction promises: the INI files    *)
(* that no other program touches while a change is being made, crashes and *)
(* recovery included, go from their old contents to the requested ones all *)
(* together, or not at all.                                                *)
(***************************************************************************)
CONSTANTS Files, Bytes

VARIABLES
    contents,   \* what each file holds once recovery has settled everything
    target,     \* the contents requested by the change at hand
    touched     \* files edited by other programs since it was requested

avars == <<contents, target, touched>>

Init ==
    /\ contents \in [Files -> Bytes]
    /\ target \in [Files -> Bytes]
    /\ touched = {}

(* A change is requested *)
Request ==
    /\ target' \in [Files -> Bytes]
    /\ touched' = {}
    /\ UNCHANGED contents

(* A change is requested although an earlier one is not settled yet: from   *)
(* then on nothing is promised of either                                    *)
Overlap ==
    /\ target' \in [Files -> Bytes]
    /\ touched' = Files
    /\ UNCHANGED contents

(* After a restart, an earlier change is taken up again *)
Resume ==
    /\ target' \in [Files -> Bytes]
    /\ UNCHANGED <<contents, touched>>

(* The change takes effect, for all the files at once *)
Commit ==
    /\ \E settled \in [Files -> Bytes] :
          /\ \A f \in Files \ touched : settled[f] = target[f]
          /\ contents' = settled
    /\ UNCHANGED <<target, touched>>

(* Another program edits a file; it competes with the change from then on *)
Edit(f) ==
    /\ \E bytes \in Bytes : contents' = [contents EXCEPT ![f] = bytes]
    /\ touched' = touched \cup {f}
    /\ UNCHANGED target

(* The files others touched are on their own: the change may take them up   *)
(* or give them back, any of them at once                                    *)
Compete ==
    /\ \E settled \in [Files -> Bytes] :
          /\ \A f \in Files \ touched : settled[f] = contents[f]
          /\ contents' = settled
    /\ UNCHANGED <<target, touched>>

Next == Request \/ Overlap \/ Resume \/ Commit \/ Compete \/ \E f \in Files : Edit(f)

Spec == Init /\ [][Next]_avars
=============================================================================
