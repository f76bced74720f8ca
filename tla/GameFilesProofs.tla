---------------------------- MODULE GameFilesProofs ---------------------------
(***************************************************************************)
(* What the program changes of KF2, proved for any faults, crashes and      *)
(* writes of others: the libraries of the game are whole, returned or known *)
(* to be mixed; staging of the provider can be taken back; the page shows   *)
(* what the files hold; what others wrote is kept; and saved graphics read  *)
(* back as what was asked for.  Each part has an invariant of its own, and  *)
(* a step is of one part.                                                   *)
(***************************************************************************)
EXTENDS GameFiles, SequenceTheorems, TLAPS

(***************************************************************************)
(* The frame-rate cap: a half-written cap is always owed, an idle program   *)
(* without a notice shows what the files hold, and no edit of somebody else *)
(* is overwritten.                                                          *)
(***************************************************************************)

CapIs(t) == \A f \in Files : disk[f].cap = t

(* Steps at which what was read is used.                                    *)
Holding == pc \in {"arm", "check record", "write console", "write game", "verify"}

(* Steps between the writing of the record and its end.                     *)
Armed == pc \in {"check record", "write console", "write game",
                 "restore console", "restore game", "retire"}

(* A change under way knows the target to return to, and has saved its own. *)
ChangeIsKnown ==
    /\ pc \notin {"idle", "down"} /\ caller = "set" => previous \in Targets /\ saved = target
    /\ pc # "down" /\ told = "nothing" => saved = target
    /\ Holding => seen \in [Files -> Contents]

(* A record holds originals that agree, and differs from what is applied in *)
(* the caps only.                                                           *)
RecordIsWhole ==
    Ours(record) => /\ Whole(record.was)
                    /\ \A f \in Files : record.applied[f].edits = record.was[f].edits

(* Nothing has failed that leaves the record behind.                        *)
Harmless == severe # TRUE

(* What each step promises about the record and the files.                  *)
Progress ==
    /\ pc = "read" => ~Ours(record)
    /\ pc = "arm" => Whole(seen)
    /\ Armed => Ours(record)
    /\ pc = "restore game" /\ Harmless => disk["console"].cap = record.was["console"].cap
    /\ pc = "retire" /\ Harmless => \A f \in Files : disk[f].cap = record.was[f].cap
    /\ pc \in {"finish", "done"} => CapIs(target)
    /\ pc = "done" => record = None

(* Types of what the argument compares.                                     *)
Types ==
    /\ disk \in [Files -> Contents]
    /\ record \in {None, Foreign} \cup Records
    /\ saved \in Targets /\ target \in Targets /\ previous \in Targets \cup {None}
    /\ caller \in {"boot", "set", "return", "sync"}
    /\ asked \in {"boot", "persist", "rollback"}
    /\ told \in {"nothing", "failure", "recovery"}

CapInv ==
    /\ Types /\ ChangeIsKnown /\ RecordIsWhole /\ Progress
    /\ HalfIsOwed /\ ShownIsCapped

-----------------------------------------------------------------------------
(* Two files: what holds of both.                                           *)
LEMMA TwoFiles == Files = {"console", "game"} /\ "console" # "game"
  BY DEF Files

(* Replacing the cap keeps a content a content, and its edits.              *)
LEMMA CappedIsContent ==
  ASSUME NEW c \in Contents, target \in Targets
  PROVE  Capped(c) \in Contents /\ Capped(c).cap = target /\ Capped(c).edits = c.edits
  BY DEF Capped, Contents

(* The record of what was read is one, and is neither of the two marks.     *)
LEMMA RecordIsOurs ==
  ASSUME CapAssumption, NEW d \in [Files -> Contents], target \in Targets
  PROVE  /\ RecordOf(d) \in Records /\ Ours(RecordOf(d))
         /\ RecordOf(d).was = d
         /\ \A f \in Files : RecordOf(d).applied[f].edits = d[f].edits
<1>1. \A f \in Files : Capped(d[f]) \in Contents /\ Capped(d[f]).edits = d[f].edits
  BY CappedIsContent
<1> QED
  BY <1>1 DEF RecordOf, Records, Ours, CapAssumption

(* What the program starts from.                                            *)
LEMMA InitCap == ASSUME CapAssumption PROVE Init => CapInv
<1> SUFFICES ASSUME Init PROVE CapInv
  OBVIOUS
<1>1. disk \in [Files -> Contents]
  <2>1. [cap : {Stock, Missing, Doubled}, edits : {0}] \subseteq Contents
    BY DEF Contents, CapAssumption
  <2> QED
    BY <2>1 DEF Init
<1>2. Types
  BY <1>1 DEF Init, Types
<1>3. ~Ours(record) /\ pc = "down"
  BY DEF Init, Ours
<1>4. ChangeIsKnown /\ RecordIsWhole /\ Progress /\ ShownIsCapped
  BY <1>3 DEF ChangeIsKnown, RecordIsWhole, Progress, ShownIsCapped, Holding, Armed
<1>5. \A f \in Files : disk[f].cap \notin Targets
  BY DEF Init, CapAssumption, Missing, Doubled, Stock
<1> QED
  BY <1>2, <1>4, <1>5 DEF CapInv, HalfIsOwed, Whole

(* The starting and closing of KF2, and stuttering, touch nothing of it.    *)
LEMMA KeptCap ==
  ASSUME CapInv, UNCHANGED <<disk, record, choice, pc, asked, seen, severe>>
  PROVE  CapInv'
<1>1. /\ disk' = disk /\ record' = record /\ saved' = saved /\ target' = target
      /\ previous' = previous /\ pc' = pc /\ caller' = caller /\ asked' = asked
      /\ seen' = seen /\ severe' = severe /\ told' = told /\ staged' = staged
  BY DEF choice
<1>2. Types' /\ RecordIsWhole' /\ HalfIsOwed'
  BY <1>1 DEF CapInv, Types, RecordIsWhole, HalfIsOwed, Whole, Ours
<1>3. ChangeIsKnown' /\ ShownIsCapped'
  BY <1>1, Zenon DEF CapInv, ChangeIsKnown, ShownIsCapped, Holding
<1>4. Progress'
  <2>1. /\ pc' \in {"finish", "done"} => CapIs(target)'
        /\ pc' = "arm" => Whole(seen)'
    BY <1>1 DEF CapInv, Progress, CapIs, Whole
  <2>2. /\ pc' = "restore game" /\ Harmless' => disk'["console"].cap = record'.was["console"].cap
        /\ pc' = "retire" /\ Harmless' => \A f \in Files : disk'[f].cap = record'.was[f].cap
    BY <1>1 DEF CapInv, Progress, Harmless
  <2>3. /\ pc' = "read" => ~Ours(record')
        /\ Armed' => Ours(record')
        /\ pc' = "done" => record' = None
    BY <1>1 DEF CapInv, Progress, Armed, Ours
  <2> QED
    BY <2>1, <2>2, <2>3 DEF Progress
<1> QED
  BY <1>2, <1>3, <1>4 DEF CapInv

(* Every step of the program, of KF2 and of the player.                     *)
LEMMA NextCap == ASSUME CapAssumption PROVE CapInv /\ [Next]_vars => CapInv'
<1> SUFFICES ASSUME CapInv, [Next]_vars PROVE CapInv'
  OBVIOUS
<1>A. Types /\ ChangeIsKnown /\ RecordIsWhole /\ Progress /\ HalfIsOwed /\ ShownIsCapped
  BY DEF CapInv
<1>T. Types
  BY DEF CapInv
<1>P. Progress
  BY DEF CapInv
<1> USE DEF choice, Fine, Fault
<1>1. CASE Start
  <2>1. Types' /\ ChangeIsKnown' /\ RecordIsWhole'
    BY <1>1, <1>A DEF Start, Types, ChangeIsKnown, RecordIsWhole, Holding, Whole, Ours
  <2>2. Progress'
    BY <1>1, <1>A DEF Start, Types, ChangeIsKnown, Progress, Armed, CapIs
  <2>3. HalfIsOwed' /\ ShownIsCapped'
    BY <1>1, <1>A DEF Start, Types, HalfIsOwed, ShownIsCapped, Progress, CapIs, Whole,
         Ours
  <2> QED
    BY <2>1, <2>2, <2>3 DEF CapInv
<1>2. CASE Booted
  <2>1. /\ UNCHANGED <<disk, record, saved, target, previous, severe, told>>
        /\ \/ pc' = "idle" /\ staged' = TRUE /\ UNCHANGED <<caller, asked, seen>>
           \/ pc' = "recover" /\ caller' = "boot" /\ asked' = "persist"
        /\ pc = "booted"
    BY <1>2 DEF Booted, Persist
  <2>2. Types' /\ ChangeIsKnown' /\ RecordIsWhole' /\ Progress'
    BY <2>1, <1>A DEF Types, ChangeIsKnown, RecordIsWhole, Progress, Holding, Armed,
         Whole, Ours
  <2>3. HalfIsOwed' /\ ShownIsCapped'
    BY <2>1, <1>A DEF HalfIsOwed, ShownIsCapped, Whole, Ours
  <2> QED
    BY <2>2, <2>3 DEF CapInv
<1>3. CASE Recover
  <2>1. /\ UNCHANGED <<disk, record, saved, target, previous, caller, asked, seen, told, staged>>
        /\ \/ pc' = "read" /\ record = None
           \/ pc' = "restore console" /\ Ours(record)
           \/ pc' \in {"booted", "failed"}
        /\ pc = "recover"
    BY <1>3 DEF Recover
  <2>2. Types' /\ ChangeIsKnown' /\ RecordIsWhole' /\ Progress'
    <3>1. Types'
      BY <2>1, <1>T DEF Types
    <3>2. ChangeIsKnown'
      BY <2>1, <1>A DEF ChangeIsKnown, Holding
    <3>3. RecordIsWhole'
      BY <2>1, <1>A DEF RecordIsWhole, Holding, Whole
    <3>4. Progress'
      BY <2>1, <1>P DEF Progress, Armed, Whole, Ours
    <3> QED
      BY <3>1, <3>2, <3>3, <3>4
  <2>3. HalfIsOwed' /\ ShownIsCapped'
    BY <2>1, <1>A DEF HalfIsOwed, ShownIsCapped, Whole, Ours
  <2> QED
    BY <2>2, <2>3 DEF CapInv
<1>4. ASSUME NEW f \in Files, RestoreFile(f) PROVE CapInv'
  <2>1. /\ UNCHANGED <<record, saved, target, previous, caller, asked, seen, told, staged>>
        /\ pc = IF f = "console" THEN "restore console" ELSE "restore game"
        /\ pc' = IF f = "console" THEN "restore game" ELSE "retire"
        /\ disk' = disk \/ disk' = [disk EXCEPT ![f] = record.was[f]]
        /\ Harmless' => Harmless /\ disk'[f] = record.was[f]
    BY <1>4, <1>A, TwoFiles DEF RestoreFile, Restored, Types, Harmless
  <2>2. Ours(record) /\ record \in Records
    BY <2>1, <1>A DEF Progress, Armed, Types, Ours
  <2>3. disk' \in [Files -> Contents]
    BY <2>1, <2>2, <1>A DEF Types, Records
  <2>4. Types' /\ ChangeIsKnown' /\ RecordIsWhole'
    BY <2>1, <2>3, <1>A DEF Types, ChangeIsKnown, RecordIsWhole, Holding, Whole, Ours
  <2>5. Progress'
    <3>1. \A g \in Files : g # f => disk'[g] = disk[g]
      BY <2>1, <1>A DEF Types
    <3>2. CASE f = "console"
      <4>1. pc' = "restore game" /\ (Harmless' => disk'["console"].cap = record'.was["console"].cap)
        BY <2>1, <3>2
      <4> QED
        BY <4>1, <2>1, <2>2 DEF Progress, Armed
    <3>3. CASE f = "game"
      <4>1. pc = "restore game" /\ pc' = "retire" /\ (Harmless' => Harmless)
        BY <2>1, <3>3, TwoFiles
      <4>2. Harmless' => disk'["console"] = disk["console"] /\ disk'["game"] = record.was["game"]
        BY <2>1, <3>1, <3>3, TwoFiles
      <4>3. Harmless' => \A g \in Files : disk'[g].cap = record'.was[g].cap
        BY <4>1, <4>2, <2>1, <1>A, TwoFiles DEF Progress
      <4> QED
        BY <4>1, <4>3, <2>1, <2>2 DEF Progress, Armed
    <3> QED
      BY <3>2, <3>3, TwoFiles
  <2>6. HalfIsOwed' /\ ShownIsCapped'
    BY <2>1, <2>2, <1>A DEF HalfIsOwed, RecordIsWhole, ShownIsCapped, Whole, Ours
  <2> QED
    BY <2>4, <2>5, <2>6 DEF CapInv
<1>5. CASE Retire
  <2>1. /\ UNCHANGED <<disk, saved, target, previous, caller, asked, seen, told, staged>>
        /\ pc = "retire" /\ pc' \in {"read", "booted", "failed"}
        /\ record' \in {record, None}
        /\ pc' = "read" => record' = None
        /\ record' = None => Harmless \/ record = None
    BY <1>5, <1>A DEF Retire, Types, Harmless
  <2>2. Ours(record) /\ record \in Records
    BY <2>1, <1>A DEF Progress, Armed, Types, Ours
  <2>3. Harmless => Whole(disk)
    <3>1. Harmless => \A f \in Files : disk[f].cap = record.was[f].cap
      BY <2>1, <1>A DEF Progress
    <3> QED
      BY <3>1, <2>2, <1>A DEF RecordIsWhole, Whole
  <2>4. HalfIsOwed' /\ ShownIsCapped'
    BY <2>1, <2>2, <2>3, <1>A DEF HalfIsOwed, ShownIsCapped, Whole, Ours
  <2>5. Types' /\ ChangeIsKnown' /\ RecordIsWhole' /\ Progress'
    <3>1. Types'
      BY <2>1, <2>2, <1>A DEF Types
    <3>2. ChangeIsKnown'
      BY <2>1, <2>2, <1>A DEF ChangeIsKnown, Holding
    <3>3. RecordIsWhole'
      BY <2>1, <2>2, <1>A DEF RecordIsWhole, Whole, Ours
    <3>4. Progress'
      BY <2>1, <2>2, <1>A DEF Progress, Armed, Whole, Ours
    <3> QED
      BY <3>1, <3>2, <3>3, <3>4
  <2> QED
    BY <2>4, <2>5 DEF CapInv
<1>6. CASE Read
  <2>1. /\ UNCHANGED <<disk, record, saved, target, previous, caller, asked, told, staged>>
        /\ pc = "read"
        /\ \/ seen' = disk /\ pc' = "arm"
           \/ seen' = disk /\ pc' = "verify"
           \/ seen' = seen /\ pc' = "failed"
    BY <1>6 DEF Read, Reads
  <2>2. ~Ours(record) /\ Whole(disk)
    BY <2>1, <1>A DEF Progress, HalfIsOwed
  <2>3. pc' = "arm" => Whole(seen)'
    BY <2>1, <2>2 DEF Whole
  <2>4. HalfIsOwed' /\ ShownIsCapped'
    BY <2>1, <2>2 DEF HalfIsOwed, ShownIsCapped, Whole, Ours
  <2>5. Types' /\ ChangeIsKnown' /\ RecordIsWhole'
    BY <2>1, <2>2, <1>A DEF Types, ChangeIsKnown, RecordIsWhole, Holding, Whole, Ours
  <2>6. Progress'
    BY <2>1, <2>3 DEF Progress, Armed
  <2> QED
    BY <2>4, <2>5, <2>6 DEF CapInv
<1>7. CASE Arm
  <2>1. /\ UNCHANGED <<disk, saved, target, previous, caller, asked, seen, told, staged>>
        /\ pc = "arm"
        /\ \/ record' = RecordOf(seen) /\ pc' \in {"check record", "failed"}
           \/ record' = record /\ pc' = "failed"
    BY <1>7 DEF Arm
  <2>2. seen \in [Files -> Contents] /\ Whole(seen) /\ target \in Targets
    BY <2>1, <1>A DEF ChangeIsKnown, Holding, Progress, Types
  <2>3. CASE record' = RecordOf(seen)
    <3>1. /\ record' \in Records /\ Ours(record') /\ record'.was = seen
          /\ \A f \in Files : record'.applied[f].edits = record'.was[f].edits
      BY <2>2, <2>3, RecordIsOurs
    <3>2. Types' /\ ChangeIsKnown' /\ RecordIsWhole'
      BY <2>1, <2>2, <3>1, <1>A DEF Types, ChangeIsKnown, RecordIsWhole, Holding,
           Whole, Ours
    <3>3. Progress' /\ HalfIsOwed' /\ ShownIsCapped'
      BY <2>1, <2>2, <3>1, <1>A DEF Progress, HalfIsOwed, ShownIsCapped, Armed, Whole,
           Ours
    <3> QED
      BY <3>2, <3>3 DEF CapInv
  <2>4. CASE record' = record /\ pc' = "failed"
    BY <2>1, <2>4, <1>A DEF CapInv, Types, ChangeIsKnown, RecordIsWhole, Progress,
         HalfIsOwed, ShownIsCapped, Holding, Armed, Whole, Ours
  <2> QED
    BY <2>1, <2>3, <2>4
<1>8. CASE CheckRecord
  <2>1. Types' /\ ChangeIsKnown' /\ RecordIsWhole'
    BY <1>8, <1>A DEF CheckRecord, Types, ChangeIsKnown, RecordIsWhole, Holding,
         Whole, Ours
  <2>2. Progress'
    BY <1>8, <1>A DEF CheckRecord, Types, ChangeIsKnown, Progress, Armed, CapIs
  <2>3. HalfIsOwed' /\ ShownIsCapped'
    BY <1>8, <1>A DEF CheckRecord, Types, HalfIsOwed, ShownIsCapped, Progress, CapIs,
         Whole, Ours
  <2> QED
    BY <2>1, <2>2, <2>3 DEF CapInv
<1>9. ASSUME NEW f \in Files, Write(f) PROVE CapInv'
  <2>1. /\ UNCHANGED <<record, saved, target, previous, caller, seen, told, staged>>
        /\ pc \in {"write console", "write game"}
        /\ asked' \in {asked, "rollback"}
        /\ pc' \in {"write game", "verify", "recover"}
        /\ disk' = disk \/ disk' = [disk EXCEPT ![f] = Proposed[f]]
    BY <1>9, <1>A, TwoFiles DEF Write, Rollback, Types
  <2>2. Ours(record) /\ seen \in [Files -> Contents] /\ target \in Targets
    BY <2>1, <1>A DEF Progress, Armed, ChangeIsKnown, Holding, Types
  <2>3. Proposed[f] \in Contents
    BY <2>2, CappedIsContent DEF Proposed
  <2>4. Types'
    BY <2>1, <2>3, <1>A DEF Types
  <2>5. ChangeIsKnown' /\ RecordIsWhole'
    BY <2>1, <2>2, <1>A DEF ChangeIsKnown, RecordIsWhole, Holding, Whole, Ours
  <2>6. Progress' /\ HalfIsOwed' /\ ShownIsCapped'
    BY <2>1, <2>2, <1>A DEF Progress, HalfIsOwed, ShownIsCapped, Armed, RecordIsWhole,
         Whole, Ours
  <2> QED
    BY <2>4, <2>5, <2>6 DEF CapInv
<1>10. CASE Verify
  <2>1. /\ UNCHANGED <<disk, record, saved, target, previous, caller, seen, told, staged>>
        /\ pc = "verify" /\ asked' \in {asked, "rollback"}
        /\ \/ pc' = "finish" /\ disk = Proposed
           \/ pc' \in {"recover", "failed"}
    BY <1>10 DEF Verify, Rollback, Reads
  <2>2. seen \in [Files -> Contents] /\ target \in Targets
    BY <2>1, <1>A DEF ChangeIsKnown, Holding, Types
  <2>3. pc' = "finish" => CapIs(target)'
    <3>1. \A f \in Files : seen[f] \in Contents
      BY <2>2
    <3>2. \A f \in Files : Proposed[f].cap = target
      BY <2>2, <3>1, CappedIsContent DEF Proposed
    <3> QED
      BY <2>1, <3>2 DEF CapIs
  <2>4. Types' /\ ChangeIsKnown' /\ RecordIsWhole'
    <3>1. Types'
      BY <2>1, <1>T DEF Types
    <3>2. ChangeIsKnown' /\ RecordIsWhole'
      BY <2>1, <2>2, <1>A DEF ChangeIsKnown, RecordIsWhole, Holding, Whole, Ours
    <3> QED
      BY <3>1, <3>2
  <2>5. Progress' /\ HalfIsOwed' /\ ShownIsCapped'
    <3>1. Progress'
      BY <2>1, <2>3, <1>P DEF Progress, Armed, Whole, Ours
    <3>2. HalfIsOwed'
      BY <2>1, <2>3, <1>A DEF HalfIsOwed, Whole, Ours
    <3>3. ShownIsCapped'
      BY <2>1, <2>3, <1>A DEF ShownIsCapped
    <3> QED
      BY <3>1, <3>2, <3>3
  <2> QED
    BY <2>4, <2>5 DEF CapInv
<1>11. CASE Finish
  <2>1. /\ UNCHANGED <<disk, saved, target, previous, caller, asked, seen, told, staged>>
        /\ pc = "finish" /\ record' \in {record, None}
        /\ \/ pc' = "done" /\ record' = None
           \/ pc' = "failed"
    BY <1>11 DEF Finish
  <2>2. CapIs(target) /\ Whole(disk)
    BY <2>1, <1>A DEF Progress, CapIs, Whole, Types
  <2>3. Types' /\ ChangeIsKnown' /\ RecordIsWhole'
    BY <2>1, <1>A DEF Types, ChangeIsKnown, RecordIsWhole, Holding, Whole, Ours
  <2>4. Progress'
    BY <2>1, <2>2 DEF Progress, Armed, CapIs
  <2>5. HalfIsOwed' /\ ShownIsCapped'
    BY <2>1, <2>2 DEF HalfIsOwed, ShownIsCapped, Whole
  <2> QED
    BY <2>3, <2>4, <2>5 DEF CapInv
<1>12. ASSUME NEW t \in Targets, SetTarget(t) PROVE CapInv'
  <2>1. Types' /\ ChangeIsKnown' /\ RecordIsWhole'
    BY <1>12, <1>A DEF SetTarget, Persist, Types, ChangeIsKnown, RecordIsWhole,
         Holding, Whole, Ours
  <2>2. Progress'
    BY <1>12, <1>A DEF SetTarget, Persist, Types, ChangeIsKnown, Progress, Armed, CapIs
  <2>3. HalfIsOwed' /\ ShownIsCapped'
    BY <1>12, <1>A DEF SetTarget, Persist, Types, HalfIsOwed, ShownIsCapped, Progress,
         CapIs, Whole, Ours
  <2> QED
    BY <2>1, <2>2, <2>3 DEF CapInv
<1>13. CASE Synchronize
  <2>1. Types' /\ ChangeIsKnown' /\ RecordIsWhole'
    BY <1>13, <1>A DEF Synchronize, Persist, Types, ChangeIsKnown, RecordIsWhole,
         Holding, Whole, Ours
  <2>2. Progress'
    BY <1>13, <1>A DEF Synchronize, Persist, Types, ChangeIsKnown, Progress, Armed,
         CapIs
  <2>3. HalfIsOwed' /\ ShownIsCapped'
    BY <1>13, <1>A DEF Synchronize, Persist, Types, HalfIsOwed, ShownIsCapped,
         Progress, CapIs, Whole, Ours
  <2> QED
    BY <2>1, <2>2, <2>3 DEF CapInv
<1>14. CASE Done
  <2>1. /\ UNCHANGED <<disk, record, saved, target>> /\ record = None
        /\ pc = "done" /\ pc' = "idle" /\ CapIs(target)
    BY <1>14, <1>A DEF Done, Progress
  <2>2. Types' /\ ChangeIsKnown' /\ RecordIsWhole'
    BY <1>14, <1>A DEF Done, Types, ChangeIsKnown, RecordIsWhole, Holding, Whole, Ours
  <2>3. Progress'
    BY <2>1 DEF Progress, Armed
  <2>4. HalfIsOwed'
    BY <2>1, <1>A DEF HalfIsOwed, Whole, Ours
  <2>5. ShownIsCapped'
    BY <2>1, <2>2 DEF ShownIsCapped, ChangeIsKnown, CapIs
  <2> QED
    BY <2>2, <2>3, <2>4, <2>5 DEF CapInv
<1>15. CASE ReturnTarget
  <2>1. Types' /\ ChangeIsKnown' /\ RecordIsWhole'
    BY <1>15, <1>A DEF ReturnTarget, Persist, Types, ChangeIsKnown, RecordIsWhole,
         Holding, Whole, Ours
  <2>2. Progress'
    BY <1>15, <1>A DEF ReturnTarget, Persist, Types, ChangeIsKnown, Progress, Armed,
         CapIs
  <2>3. HalfIsOwed' /\ ShownIsCapped'
    BY <1>15, <1>A DEF ReturnTarget, Persist, Types, HalfIsOwed, ShownIsCapped,
         Progress, CapIs, Whole, Ours
  <2> QED
    BY <2>1, <2>2, <2>3 DEF CapInv
<1>16. CASE Failed
  <2>1. Types' /\ ChangeIsKnown' /\ RecordIsWhole'
    BY <1>16, <1>A DEF Failed, Types, ChangeIsKnown, RecordIsWhole, Holding, Whole, Ours
  <2>2. Progress'
    BY <1>16, <1>A DEF Failed, Types, ChangeIsKnown, Progress, Armed, CapIs
  <2>3. HalfIsOwed' /\ ShownIsCapped'
    BY <1>16, <1>A DEF Failed, Types, HalfIsOwed, ShownIsCapped, Progress, CapIs,
         Whole, Ours
  <2> QED
    BY <2>1, <2>2, <2>3 DEF CapInv
<1>17. CASE Crash
  <2>1. Types' /\ ChangeIsKnown' /\ RecordIsWhole'
    BY <1>17, <1>A DEF Crash, Types, ChangeIsKnown, RecordIsWhole, Holding, Whole, Ours
  <2>2. Progress'
    BY <1>17, <1>A DEF Crash, Types, ChangeIsKnown, Progress, Armed, CapIs
  <2>3. HalfIsOwed' /\ ShownIsCapped'
    BY <1>17, <1>A DEF Crash, Types, HalfIsOwed, ShownIsCapped, Progress, CapIs,
         Whole, Ours
  <2> QED
    BY <2>1, <2>2, <2>3 DEF CapInv
<1>18. ASSUME NEW f \in Files, Edit(f) PROVE CapInv'
  <2>1. /\ UNCHANGED <<record, saved, target, previous, pc, caller, asked, seen, severe, told, staged>>
        /\ disk' = [disk EXCEPT ![f].edits = @ + 1] /\ disk[f].edits < MaxEdits
    BY <1>18 DEF Edit
  <2>2. disk' \in [Files -> Contents] /\ \A g \in Files : disk'[g].cap = disk[g].cap
    BY <2>1, <1>A DEF Types, Contents, CapAssumption
  <2>3. Types' /\ ChangeIsKnown' /\ RecordIsWhole'
    <3>1. Types'
      BY <2>1, <2>2, <1>T DEF Types
    <3>2. ChangeIsKnown'
      BY <2>1, <2>2, <1>A DEF ChangeIsKnown, Holding
    <3>3. RecordIsWhole'
      BY <2>1, <2>2, <1>A DEF RecordIsWhole, Whole, Ours
    <3> QED
      BY <3>1, <3>2, <3>3
  <2>4. HalfIsOwed' /\ ShownIsCapped'
    <3>1. HalfIsOwed'
      BY <2>1, <2>2, <1>A DEF HalfIsOwed, Whole, Ours
    <3>2. ShownIsCapped'
      BY <2>1, <2>2, <1>A DEF ShownIsCapped
    <3> QED
      BY <3>1, <3>2
  <2>5. Progress'
    <3>1. \A f1 \in Files : disk'[f1].cap = disk[f1].cap
      BY <2>2
    <3>2. disk'["console"].cap = disk["console"].cap
      BY <3>1, TwoFiles
    <3> QED
      BY <2>1, <3>1, <3>2, <1>P DEF Progress, CapIs, Armed, Whole, Ours, Harmless
  <2> QED
    BY <2>3, <2>4, <2>5 DEF CapInv
<1>19. CASE Toggle
  BY <1>19, KeptCap DEF Toggle
<1>20. CASE UNCHANGED vars
  BY <1>20, KeptCap DEF vars
<1> QED
  BY <1>1, <1>2, <1>3, <1>4, <1>5, <1>6, <1>7, <1>8, <1>9, <1>10, <1>11, <1>12, <1>13,
       <1>14, <1>15, <1>16, <1>17, <1>18, <1>19, <1>20 DEF Next

(* A half-written cap is always owed: whenever the two files disagree about *)
(* the cap, a recovery record on disk holds the originals of both, for any  *)
(* number of failures, edits and kills (persist_frame_rate_cap,             *)
(* recover_frame_rate_cap).                                                 *)
THEOREM HalfAlwaysOwed == ASSUME CapAssumption PROVE Spec => []HalfIsOwed
<1>1. Init => CapInv
  BY InitCap
<1>2. CapInv /\ [Next]_vars => CapInv'
  BY NextCap
<1>3. CapInv => HalfIsOwed
  BY DEF CapInv
<1> QED
  BY <1>1, <1>2, <1>3, PTL DEF Spec

(* What the window shows as the target without a notice is what both files  *)
(* hold, and nothing waits to undo it (set_slider_value).                   *)
THEOREM ShownAlwaysCapped == ASSUME CapAssumption PROVE Spec => []ShownIsCapped
<1>1. Init => CapInv
  BY InitCap
<1>2. CapInv /\ [Next]_vars => CapInv'
  BY NextCap
<1>3. CapInv => ShownIsCapped
  BY DEF CapInv
<1> QED
  BY <1>1, <1>2, <1>3, PTL DEF Spec

(* No step takes back an edit of KF2 or the player.                         *)
LEMMA StepKeepsEdits ==
  ASSUME CapAssumption, CapInv, [Next]_vars
  PROVE  \A f \in Files : disk'[f].edits >= disk[f].edits
<1> USE DEF choice
<1>1. /\ disk \in [Files -> Contents] /\ target \in Targets
      /\ \A f \in Files : disk[f] \in Contents /\ disk[f].edits \in Nat
  BY DEF CapInv, Types, Contents, CapAssumption
<1>2. CASE disk' = disk
  BY <1>1, <1>2
<1>3. ASSUME NEW f \in Files, RestoreFile(f) PROVE disk' # disk => disk'[f].edits = disk[f].edits
                                            /\ \A g \in Files : g # f => disk'[g] = disk[g]
  <2>1. /\ pc \in {"restore console", "restore game"}
        /\ disk' # disk => /\ disk[f] = record.applied[f]
                           /\ disk' = [disk EXCEPT ![f] = record.was[f]]
    BY <1>3 DEF RestoreFile, Restored
  <2>2. Ours(record)
    BY <2>1 DEF CapInv, Progress, Armed
  <2> QED
    BY <1>1, <2>1, <2>2 DEF CapInv, RecordIsWhole
<1>4. ASSUME NEW f \in Files, Write(f) PROVE disk' # disk => disk'[f].edits = disk[f].edits
                                      /\ \A g \in Files : g # f => disk'[g] = disk[g]
  <2>1. disk' # disk => disk[f] = seen[f] /\ disk' = [disk EXCEPT ![f] = Capped(seen[f])]
    BY <1>4 DEF Write, Proposed
  <2>2. Capped(disk[f]).edits = disk[f].edits
    BY <1>1, CappedIsContent
  <2> QED
    BY <1>1, <2>1, <2>2
<1>5. ASSUME NEW f \in Files, Edit(f) PROVE \A g \in Files : disk'[g].edits >= disk[g].edits
  BY <1>1, <1>5 DEF Edit, Contents
<1>6. \/ disk' = disk \/ \E f \in Files : RestoreFile(f) \/ Write(f) \/ Edit(f)
  BY DEF Next, vars, Start, Booted, Recover, Retire, Read, Arm, CheckRecord, Verify,
       Finish, SetTarget, Synchronize, Done, ReturnTarget, Failed, Crash, Toggle
<1> QED
  BY <1>1, <1>2, <1>3, <1>4, <1>5, <1>6

(* What KF2 or the player wrote into either file is never overwritten with  *)
(* older bytes, by the write, the rollback or a recovery at a later start.  *)
THEOREM EditsAlwaysKept == ASSUME CapAssumption PROVE Spec => EditsKept
<1>1. Init => CapInv
  BY InitCap
<1>2. CapInv /\ [Next]_vars => CapInv'
  BY NextCap
<1>3. CapInv /\ [Next]_vars => [\A f \in Files : disk'[f].edits >= disk[f].edits]_disk
  BY StepKeepsEdits
<1> QED
  BY <1>1, <1>2, <1>3, PTL DEF Spec, EditsKept

(***************************************************************************)
(* The telemetry provider.                                                  *)
(***************************************************************************)

Settled == {"ours", "legacy"}

StagingTypes ==
    /\ DOMAIN engine = {"view", "section", "baseline"}
    /\ game \in [Settings -> Staging!Values] /\ user \in [Settings -> Staging!Values]
    /\ engine.baseline = Staging!NoBaseline \/ engine.baseline \in [Settings -> Staging!Values]
    /\ module \in {Staging!Absent, "ours", "legacy", "foreign"}
    /\ DOMAIN job = {"created", "policy", "strict", "then", "otherwise", "final"}
    /\ late \in BOOLEAN

(* What the optimizer may have changed, and how it is taken back: a setting *)
(* the player made True was True when the baseline was taken.               *)
LoggingInv ==
    /\ Staging!LoggingIsOwed
    /\ engine.section = FALSE => engine.baseline = Staging!NoBaseline
    /\ engine.baseline # Staging!NoBaseline =>
          \A s \in Settings : user[s] = "True" => engine.baseline[s] = "True"
    /\ stagingPc = "log" =>
          \A s \in Settings : game[s] \in {"True", engine.baseline[s]}
    /\ stagingPc \in {"engine", "cleaned"} => game = user

(* How far a removal has come.                                              *)
RemovalInv ==
    /\ stagingHeld => stagingPc = "delete" /\ module # "foreign"
    /\ stagingPc \in {"remove", "delete"} =>
          /\ job.otherwise = "refused"
          /\ job.then \in {"occupied", "undo", "restored", "done", "clear"}
          /\ job.then = "restored" =>
                stagingMarker = Staging!NoMarker /\ job.policy = "pinned_or_legacy"
          /\ job.then = "clear" => job.strict = TRUE /\ job.final \in {"done", "restored"}
    /\ stagingPc \in {"clear", "unmark"} =>
          module \notin Settled /\ job.final \in {"done", "restored"}
    /\ stagingPc \in {"restored", "cleanup", "engine", "cleaned"} =>
          module \notin Settled /\ stagingMarker = Staging!NoMarker
    /\ stagingPc \in {"mark", "copy"} => module = Staging!Absent \/ late

HealthInv ==
    /\ health = "clean" => stagingPc = "idle"
    /\ Staging!CleanIsClean

StagingInv == StagingTypes /\ LoggingInv /\ RemovalInv /\ HealthInv

LEMMA StagingReversible == StagingInv => Staging!StagingIsReversible
BY DEF StagingInv, LoggingInv, HealthInv, Staging!StagingIsReversible

LEMMA StagingStarts == Staging!Init => StagingInv
BY DEF Staging!Init, StagingInv, StagingTypes, LoggingInv, RemovalInv, HealthInv,
       Staging!LoggingIsOwed, Staging!CleanIsClean, Staging!NoBaseline, Staging!NoJob,
       Staging!Absent, Staging!NoMarker

(* With no baseline nothing is owed.                                        *)
LEMMA NothingOwed ==
  ASSUME StagingTypes, Staging!LoggingIsOwed, engine.baseline = Staging!NoBaseline
  PROVE  game = user
BY DEF StagingTypes, Staging!LoggingIsOwed

LEMMA LoggingStays ==
  ASSUME LoggingInv, UNCHANGED <<engine, game, user>>,
         stagingPc' \notin {"log", "engine", "cleaned"} \/ stagingPc' = stagingPc
  PROVE  LoggingInv'
BY DEF LoggingInv, Staging!LoggingIsOwed

(* The removal of the package, and the files around it.                     *)
LEMMA FilesStep ==
  ASSUME StagingInv, Staging!Removal \/ Staging!Install \/ Staging!Restore
  PROVE  StagingInv'
<1> USE DEF StagingInv, StagingTypes, RemovalInv, HealthInv, Staging!CleanIsClean, Settled,
            Staging!Goto, Staging!Blocked, Staging!NoJob, Staging!NoMarker, Staging!Absent,
            Staging!disk, Staging!inis
<1>1. ASSUME Staging!Authenticate PROVE StagingInv'
  BY <1>1, LoggingStays DEF Staging!Authenticate, Staging!Owned
<1>2. ASSUME Staging!DeleteModule PROVE StagingInv'
  BY <1>2, LoggingStays DEF Staging!DeleteModule, Staging!Deleted
<1>3. ASSUME Staging!RemoveFails PROVE StagingInv'
  BY <1>3, LoggingStays DEF Staging!RemoveFails
<1>4. ASSUME Staging!BeginStage PROVE StagingInv'
  BY <1>4, LoggingStays DEF Staging!BeginStage, Staging!Remove
<1>5. ASSUME Staging!MakeDirectories PROVE StagingInv'
  BY <1>5, LoggingStays DEF Staging!MakeDirectories, Staging!Occupied
<1>6. ASSUME Staging!WriteMarker PROVE StagingInv'
  BY <1>6, LoggingStays DEF Staging!WriteMarker, Staging!Mark
<1>7. ASSUME Staging!CopyModule PROVE StagingInv'
  BY <1>7, LoggingStays DEF Staging!CopyModule
<1>8. ASSUME Staging!CommitModule PROVE StagingInv'
  BY <1>8, LoggingStays DEF Staging!CommitModule, Staging!Mark, Staging!Remove
<1>9. ASSUME Staging!UndoInstall PROVE StagingInv'
  BY <1>9, LoggingStays DEF Staging!UndoInstall
<1>10. ASSUME Staging!Refuse PROVE StagingInv'
  BY <1>10, LoggingStays DEF Staging!Refuse
<1>11. ASSUME Staging!BeginRestore PROVE StagingInv'
  <2>1. /\ stagingPc = "idle" /\ stagingPc' = "remove" /\ health' = "unknown"
        /\ UNCHANGED <<module, stagingMarker, engine, game, user, stagingHeld, late>>
    BY <1>11 DEF Staging!BeginRestore, Staging!Restoring, Staging!Remove
  <2>2. LoggingInv'
    BY <2>1, LoggingStays
  <2>3. \/ /\ stagingMarker = Staging!NoMarker
           /\ job' = [job EXCEPT !.policy = "pinned_or_legacy", !.strict = FALSE, !.then = "done",
                                 !.otherwise = "refused", !.final = "done"]
        \/ job' = [job EXCEPT !.policy = "exact_hash_and_signature", !.strict = TRUE, !.then = "clear",
                              !.otherwise = "refused", !.final = "done"]
    BY <1>11 DEF Staging!BeginRestore, Staging!Restoring, Staging!Remove
  <2>4. /\ job'.otherwise = "refused" /\ job'.then \in {"done", "clear"}
        /\ job'.then = "clear" => (job'.strict = TRUE /\ job'.final = "done")
        /\ DOMAIN job' = DOMAIN job
    BY <2>3
  <2> QED
    BY <2>1, <2>2, <2>4
<1>12. ASSUME Staging!ClearMarked PROVE StagingInv'
  BY <1>12, LoggingStays DEF Staging!ClearMarked
<1>13. ASSUME Staging!Unmark PROVE StagingInv'
  BY <1>13, LoggingStays DEF Staging!Unmark
<1>14. ASSUME Staging!Done PROVE StagingInv'
  BY <1>14, LoggingStays DEF Staging!Done
<1> QED
  BY <1>1, <1>2, <1>3, <1>4, <1>5, <1>6, <1>7, <1>8, <1>9, <1>10, <1>11, <1>12, <1>13,
       <1>14 DEF Staging!Removal, Staging!Install, Staging!Restore

(* The settings that load the package and make KF2 log.                     *)
LEMMA SettingsStep ==
  ASSUME StagingInv, Staging!Enable \/ Staging!Recover
  PROVE  StagingInv'
<1> USE DEF StagingInv, StagingTypes, RemovalInv, HealthInv, Staging!CleanIsClean, Settled,
            Staging!Goto, Staging!Blocked, Staging!NoJob, Staging!NoMarker, Staging!Absent,
            Staging!disk, Staging!inis, Staging!Values
<1>1. ASSUME Staging!Restage PROVE StagingInv'
  BY <1>1, LoggingStays DEF Staging!Restage
<1>2. ASSUME Staging!WriteEngine PROVE StagingInv'
  <2>1. CASE Staging!Blocked /\ UNCHANGED engine
    BY <1>2, <2>1, LoggingStays DEF Staging!WriteEngine
  <2>2. CASE Staging!Explained /\ engine' = Staging!Staged
    <3>1. /\ engine'.section = TRUE /\ engine'.baseline = Staging!Baseline
          /\ DOMAIN engine' = {"view", "section", "baseline"} /\ game' = game /\ user' = user
      BY <1>2, <2>2 DEF Staging!WriteEngine, Staging!Staged
    <3>2. Staging!Baseline \in [Settings -> Staging!Values]
      BY DEF Staging!Baseline
    <3>3. LoggingInv'
      <4>1. CASE engine.baseline = Staging!NoBaseline
        BY <1>2, <2>2, <3>1, <4>1, NothingOwed
           DEF LoggingInv, Staging!LoggingIsOwed, Staging!Baseline, Staging!Explained,
               Staging!WriteEngine
      <4>2. CASE engine.baseline # Staging!NoBaseline
        BY <1>2, <2>2, <3>1, <4>2
           DEF LoggingInv, Staging!LoggingIsOwed, Staging!Baseline, Staging!Explained,
               Staging!WriteEngine
      <4> QED
        BY <4>1, <4>2
    <3> QED
      BY <1>2, <2>2, <3>1, <3>2, <3>3 DEF Staging!WriteEngine
  <2> QED
    BY <1>2, <2>1, <2>2 DEF Staging!WriteEngine
<1>3. ASSUME Staging!WriteLogging PROVE StagingInv'
  <2>1. CASE Staging!Blocked /\ UNCHANGED game
    BY <1>3, <2>1, LoggingStays DEF Staging!WriteLogging
  <2>2. CASE /\ engine.baseline # Staging!NoBaseline /\ game' = [s \in Settings |-> "True"]
             /\ stagingPc' = "verify" /\ UNCHANGED <<job, stagingHeld, health>>
    <3>1. engine' = engine /\ user' = user /\ stagingPc = "log" /\ stagingPc' = "verify"
      BY <1>3, <2>2 DEF Staging!WriteLogging
    <3>2. LoggingInv'
      BY <2>2, <3>1 DEF LoggingInv, Staging!LoggingIsOwed
    <3> QED
      BY <1>3, <2>2, <3>1, <3>2 DEF Staging!WriteLogging
  <2> QED
    BY <1>3, <2>1, <2>2 DEF Staging!WriteLogging
<1>4. ASSUME Staging!VerifyStaged PROVE StagingInv'
  BY <1>4, LoggingStays DEF Staging!VerifyStaged
<1>5. ASSUME Staging!Boot PROVE StagingInv'
  <2>1. /\ stagingPc = "boot" /\ stagingPc' \in {"idle", "remove"} /\ health # "clean"
        /\ UNCHANGED <<engine, game, user, module, stagingMarker, late>>
        /\ health' \in {health, "blocked"}
    BY <1>5 DEF Staging!Boot, Staging!Restoring, Staging!Remove
  <2>2. CASE stagingPc' = "idle"
    BY <1>5, <2>1, <2>2, LoggingStays DEF Staging!Boot, Staging!Restoring,
         Staging!Remove
  <2>3. CASE stagingPc' = "remove"
    <3>1. Staging!Restoring("restored") /\ stagingHeld' = stagingHeld
      BY <1>5, <2>3 DEF Staging!Boot
    <3>2. /\ DOMAIN job' = {"created", "policy", "strict", "then", "otherwise", "final"}
          /\ job'.otherwise = "refused" /\ job'.final = "restored"
          /\ \/ /\ stagingMarker = Staging!NoMarker /\ job'.then = "restored"
                /\ job'.policy = "pinned_or_legacy"
             \/ job'.then = "clear" /\ job'.strict = TRUE
      <4>1. CASE stagingMarker = Staging!NoMarker
        <5>1. job' = [job EXCEPT !.policy = "pinned_or_legacy", !.strict = FALSE,
                                 !.then = "restored", !.otherwise = "refused",
                                 !.final = "restored"]
          BY <3>1, <4>1 DEF Staging!Restoring, Staging!Remove
        <5> QED
          BY <4>1, <5>1
      <4>2. CASE stagingMarker # Staging!NoMarker
        <5>1. job' = [job EXCEPT !.policy = "exact_hash_and_signature", !.strict = TRUE,
                                 !.then = "clear", !.otherwise = "refused",
                                 !.final = "restored"]
          BY <3>1, <4>2 DEF Staging!Restoring, Staging!Remove
        <5> QED
          BY <4>2, <5>1
      <4> QED
        BY <4>1, <4>2
    <3>3. LoggingInv' /\ ~stagingHeld'
      BY <2>1, <2>3, <3>1, LoggingStays
    <3> QED
      BY <2>1, <2>3, <3>2, <3>3
  <2> QED
    BY <2>1, <2>2, <2>3
<1>6. ASSUME Staging!Restored PROVE StagingInv'
  BY <1>6, LoggingStays DEF Staging!Restored
<1>7. ASSUME Staging!RestoreGame, Staging!Cleanup PROVE StagingInv'
  <2>1. CASE Staging!Blocked /\ UNCHANGED game
    BY <1>7, <2>1, LoggingStays DEF Staging!RestoreGame, Staging!Cleanup
  <2>2. CASE /\ Staging!Restorable /\ game' = engine.baseline /\ stagingPc' = "engine"
             /\ UNCHANGED <<job, stagingHeld, health>>
    <3>1. engine' = engine /\ user' = user
      BY <1>7 DEF Staging!Cleanup
    <3>2. game' = user
      BY <2>2 DEF Staging!Restorable, LoggingInv, Staging!LoggingIsOwed
    <3>3. LoggingInv'
      BY <2>2, <3>1, <3>2 DEF LoggingInv, Staging!LoggingIsOwed
    <3> QED
      BY <1>7, <2>2, <3>1, <3>2, <3>3 DEF Staging!RestoreGame, Staging!Cleanup
  <2> QED
    BY <1>7, <2>1, <2>2 DEF Staging!RestoreGame, Staging!Cleanup
<1>8. ASSUME Staging!Cleanup, stagingPc = "cleanup", ~Staging!Stale,
             stagingPc' = "idle", UNCHANGED <<game, stagingFaults>>, health' = "clean",
             stagingHeld' = FALSE, job' = Staging!NoJob
      PROVE  StagingInv'
  <2>1. game = user /\ engine.view # "ours" /\ engine.section = FALSE
    BY <1>8, NothingOwed DEF Staging!Stale, LoggingInv
  <2> QED
    BY <1>8, <2>1, LoggingStays DEF Staging!Cleanup
<1>9. ASSUME Staging!CleanEngine PROVE StagingInv'
  <2>1. CASE Staging!Blocked /\ UNCHANGED engine
    BY <1>9, <2>1, LoggingStays DEF Staging!CleanEngine
  <2>2. CASE engine' = Staging!Cleaned /\ stagingPc' = "cleaned"
    <3>1. /\ engine'.section = FALSE /\ engine'.baseline = Staging!NoBaseline
          /\ DOMAIN engine' = {"view", "section", "baseline"} /\ game' = game /\ user' = user
          /\ game = user
      BY <1>9, <2>2 DEF Staging!CleanEngine, Staging!Cleaned, LoggingInv
    <3>2. LoggingInv'
      BY <2>2, <3>1 DEF LoggingInv, Staging!LoggingIsOwed
    <3> QED
      BY <1>9, <2>2, <3>1, <3>2 DEF Staging!CleanEngine
  <2> QED
    BY <1>9, <2>1, <2>2 DEF Staging!CleanEngine
<1>10. ASSUME Staging!VerifyClean PROVE StagingInv'
  <2>1. engine = Staging!Cleaned => engine.view # "ours" /\ ~engine.section
    BY DEF Staging!Cleaned
  <2>2. stagingPc = "cleaned" /\ game = user
    BY <1>10 DEF Staging!VerifyClean, LoggingInv
  <2> QED
    BY <1>10, <2>1, <2>2, LoggingStays DEF Staging!VerifyClean
<1> QED
  BY <1>1, <1>2, <1>3, <1>4, <1>5, <1>6, <1>7, <1>8, <1>9, <1>10
     DEF Staging!Enable, Staging!Recover, Staging!Cleanup

(* The player, KF2, and the end of the optimizer.                           *)
LEMMA OthersStep ==
  ASSUME StagingInv, Staging!Player \/ Staging!Crash \/ Staging!GameStarts \/ Staging!GameEnds
  PROVE  StagingInv'
<1> USE DEF StagingInv, StagingTypes, RemovalInv, HealthInv, Staging!CleanIsClean, Settled,
            Staging!Goto, Staging!NoJob, Staging!NoMarker, Staging!Absent,
            Staging!disk, Staging!inis, Staging!control, Staging!Values
<1>1. ASSUME Staging!EditView PROVE StagingInv'
  <2>1. /\ engine' = [engine EXCEPT !.view = "foreign"] /\ game' = game /\ user' = user
        /\ stagingPc' = stagingPc
    BY <1>1 DEF Staging!EditView
  <2>2. LoggingInv'
    BY <2>1 DEF LoggingInv, Staging!LoggingIsOwed
  <2> QED
    BY <1>1, <2>1, <2>2 DEF Staging!EditView
<1>2. ASSUME Staging!PutFile PROVE StagingInv'
  <2>1. LoggingInv' /\ UNCHANGED <<stagingPc, job, stagingMarker, engine, game, user, health>>
    BY <1>2, LoggingStays DEF Staging!PutFile
  <2>2. CASE module' = "foreign" /\ stagingHeld' = FALSE /\ late' = TRUE
    BY <2>1, <2>2
  <2>3. CASE UNCHANGED <<module, stagingHeld, late>>
    BY <2>1, <2>3
  <2> QED
    BY <1>2, <2>2, <2>3 DEF Staging!PutFile
<1>3. ASSUME NEW s \in Settings, NEW v \in Staging!Values, Staging!EditLogging(s, v)
      PROVE  StagingInv'
  <2>1. /\ v = "True" => engine.baseline = Staging!NoBaseline
        /\ game' = [game EXCEPT ![s] = v] /\ user' = [user EXCEPT ![s] = v]
        /\ engine' = engine /\ stagingPc' = stagingPc /\ stagingPc \in {"idle", "boot"}
    BY <1>3 DEF Staging!EditLogging
  <2>2. LoggingInv'
    BY <2>1 DEF LoggingInv, Staging!LoggingIsOwed
  <2>3. game = user => game' = user'
    BY <2>1
  <2> QED
    BY <1>3, <2>1, <2>2, <2>3 DEF Staging!EditLogging
<1>4. ASSUME Staging!Crash PROVE StagingInv'
  BY <1>4, LoggingStays DEF Staging!Crash
<1>5. ASSUME Staging!GameStarts \/ Staging!GameEnds PROVE StagingInv'
  BY <1>5, LoggingStays DEF Staging!GameStarts, Staging!GameEnds
<1> QED
  <2>1. CASE \E s \in Settings, v \in Staging!Values : Staging!EditLogging(s, v)
    <3>1. PICK s \in Settings, v \in Staging!Values : Staging!EditLogging(s, v)
      BY <2>1
    <3> QED
      BY <1>3, <3>1
  <2> QED
    BY <1>1, <1>2, <1>4, <1>5, <2>1 DEF Staging!Player

LEMMA StagingStep == StagingInv /\ [Staging!Next]_ofStaging => StagingInv'
<1>1. ASSUME StagingInv, UNCHANGED ofStaging PROVE StagingInv'
  BY <1>1, LoggingStays DEF ofStaging, StagingInv, StagingTypes, RemovalInv, HealthInv,
        Staging!CleanIsClean
<1> QED
  BY <1>1, FilesStep, SettingsStep, OthersStep DEF Staging!Next

(* A file of the player is never what a removal deletes, and only one that  *)
(* came late is what a staging overwrites.                                  *)
LEMMA RemovalSpares ==
  StagingInv /\ [Staging!Next]_ofStaging =>
      (module = "foreign" /\ module' # "foreign" => stagingPc = "copy" /\ late)
<1> SUFFICES ASSUME StagingInv, [Staging!Next]_ofStaging, module = "foreign",
                    ~(stagingPc = "copy" /\ late)
             PROVE  module' = "foreign"
  OBVIOUS
<1>1. ~stagingHeld /\ stagingPc # "copy"
  BY DEF StagingInv, RemovalInv, Staging!Absent
<1> QED
  BY <1>1 DEF Staging!Next, ofStaging, Staging!Removal, Staging!Install,
       Staging!Restore, Staging!Enable, Staging!Recover, Staging!Player,
       Staging!Authenticate, Staging!DeleteModule, Staging!Deleted,
       Staging!RemoveFails, Staging!BeginStage, Staging!MakeDirectories,
       Staging!WriteMarker, Staging!CopyModule, Staging!CommitModule,
       Staging!UndoInstall, Staging!Refuse, Staging!BeginRestore, Staging!ClearMarked,
       Staging!Unmark, Staging!Done, Staging!Restage, Staging!WriteEngine,
       Staging!WriteLogging, Staging!VerifyStaged, Staging!Boot, Staging!Restored,
       Staging!Cleanup, Staging!CleanEngine, Staging!VerifyClean, Staging!EditView,
       Staging!PutFile, Staging!EditLogging, Staging!Crash, Staging!GameStarts,
       Staging!GameEnds, Staging!disk

(***************************************************************************)
(* The graphics settings.                                                   *)
(***************************************************************************)

Times == [Video!Files -> Nat]
NotAfter(s, t) == \A f \in Video!Files : s[f] <= t[f]
IsDocument(d) == d = [k \in Video!Keys |-> d[k]]

(* What was read before write times that did not move since is what the     *)
(* files hold.                                                              *)
VideoInv ==
    /\ stamp \in Times /\ before \in Times /\ NotAfter(before, stamp)
    /\ IsDocument(doc)
    /\ writing \in Video!Files \cup {None}
    /\ videoPc = "apply" => IsDocument(videoPlan)
    /\ videoPc = "after" /\ before = stamp => snap = doc
    /\ times # None => times \in Times /\ NotAfter(times, stamp)
    /\ videoSaved # None /\ times = stamp => Video!Legible(doc) /\ videoSaved = Video!Read(doc)

LEMMA VideoCurrent == VideoInv => Video!ShownIsCurrent
BY DEF VideoInv, Video!ShownIsCurrent

LEMMA VideoStarts == Video!VideoAssumption /\ Video!Init => VideoInv
BY DEF Video!VideoAssumption, Video!Init, VideoInv, Times, NotAfter, IsDocument,
     Video!Medium, Video!Written

(* The write times move on whenever the documents change.                   *)
LEMMA TimesMove ==
  ASSUME VideoInv, stamp' \in Times, NotAfter(stamp, stamp'), stamp' = stamp => doc' = doc
  PROVE  /\ NotAfter(before, stamp')
         /\ before = stamp' => before = stamp /\ doc' = doc
         /\ times # None => NotAfter(times, stamp') /\ (times = stamp' => times = stamp /\ doc' = doc)
<1> USE DEF VideoInv
<1>1. ASSUME NEW s \in Times, NotAfter(s, stamp)
      PROVE  NotAfter(s, stamp') /\ (s = stamp' => s = stamp)
  <2>1. NotAfter(s, stamp')
    BY <1>1 DEF NotAfter, Times
  <2>2. ASSUME s = stamp' PROVE s = stamp
    <3>1. \A f \in Video!Files : s[f] = stamp[f]
      BY <1>1, <2>2 DEF NotAfter, Times
    <3> QED
      BY <1>1, <3>1 DEF Times
  <2> QED
    BY <2>1, <2>2
<1> QED
  BY <1>1

(* A step that neither ends a reading nor begins one.                       *)
LEMMA VideoStays ==
  ASSUME Video!VideoAssumption, VideoInv, stamp' \in Times, NotAfter(stamp, stamp'),
         stamp' = stamp => doc' = doc,
         IsDocument(doc'), writing' \in Video!Files \cup {None},
         UNCHANGED <<before, snap, times, videoSaved>>,
         videoPc' = "after" => videoPc = "after",
         videoPc' = "apply" => videoPc = "apply" /\ videoPlan' = videoPlan
  PROVE  VideoInv'
<1>1. /\ NotAfter(before, stamp')
      /\ before = stamp' => before = stamp /\ doc' = doc
      /\ times # None => NotAfter(times, stamp') /\ (times = stamp' => times = stamp /\ doc' = doc)
  BY TimesMove
<1>2. times = stamp' => times # None
  BY DEF Video!VideoAssumption, Times
<1>3. /\ NotAfter(before, stamp)' /\ (times # None => NotAfter(times, stamp)')
      /\ IsDocument(doc)'
      /\ (IsDocument(videoPlan) /\ videoPlan' = videoPlan => IsDocument(videoPlan)')
  BY <1>1 DEF NotAfter, IsDocument
<1>4. doc' = doc => (Video!Legible(doc)' <=> Video!Legible(doc)) /\ Video!Read(doc)' = Video!Read(doc)
  BY DEF Video!Legible, Video!Read, Video!Chosen
<1> QED
  BY <1>1, <1>2, <1>3, <1>4 DEF VideoInv

(* A step that leaves the files and their write times alone.                *)
LEMMA VideoRereads ==
  ASSUME VideoInv, UNCHANGED <<doc, stamp, writing>>,
         before' = before \/ before' = stamp,
         videoPc' = "apply" => IsDocument(videoPlan)',
         videoPc' = "after" => before' = before /\ (snap' = doc \/ (snap' = snap /\ videoPc = "after")),
         \/ times' = times /\ (videoSaved' = videoSaved \/ videoSaved' = None)
         \/ times' = None /\ times' # stamp
         \/ times' = stamp /\ Video!Legible(doc) /\ videoSaved' = Video!Read(doc)
  PROVE  VideoInv'
<1>1. stamp \in Times /\ NotAfter(stamp, stamp)
  BY DEF VideoInv, NotAfter, Times
<1>2. /\ Video!Legible(doc)' <=> Video!Legible(doc)
      /\ Video!Read(doc)' = Video!Read(doc)
      /\ IsDocument(doc)' <=> IsDocument(doc)
  BY DEF Video!Legible, Video!Read, Video!Chosen, IsDocument
<1>3. /\ before' \in Times /\ NotAfter(before, stamp)'
  BY <1>1 DEF VideoInv, NotAfter
<1>4. times' # None => times' \in Times /\ NotAfter(times, stamp)'
  BY <1>1 DEF VideoInv, NotAfter
<1>5. videoSaved' # None /\ times' = stamp' => Video!Legible(doc)' /\ videoSaved' = Video!Read(doc)'
  BY <1>2 DEF VideoInv
<1> QED
  BY <1>2, <1>3, <1>4, <1>5 DEF VideoInv

LEMMA VideoStartReading ==
  ASSUME VideoInv, NEW p, Video!StartReading(p) PROVE VideoInv'
<1> USE DEF Video!StartReading, Video!disk
<1>1. UNCHANGED <<doc, stamp, writing, times, videoSaved>> /\ before' = stamp /\ videoPc' = "open"
  OBVIOUS
<1> HIDE DEF Video!StartReading, Video!disk
<1> QED
  BY <1>1, VideoRereads

LEMMA VideoUnread ==
  ASSUME VideoInv, Video!Unread PROVE VideoInv'
<1>1. /\ UNCHANGED <<doc, stamp, writing, times, before>> /\ videoPc' = "idle"
      /\ videoSaved' = videoSaved \/ videoSaved' = None
  BY DEF Video!Unread, Video!disk
<1> QED
  BY <1>1, VideoRereads

LEMMA VideoOpen ==
  ASSUME VideoInv, Video!Open PROVE VideoInv'
<1>1. CASE Video!Unread
  BY <1>1, VideoUnread
<1>2. CASE ~Video!Unread
  <2>1. /\ UNCHANGED <<doc, stamp, writing, times, before, videoSaved>>
        /\ videoPc' \in {"read", "open"}
    BY <1>2 DEF Video!Open, Video!disk
  <2> QED
    BY <2>1, VideoRereads
<1> QED
  BY <1>1, <1>2

LEMMA VideoReadAll ==
  ASSUME VideoInv, Video!ReadAll PROVE VideoInv'
<1>1. /\ UNCHANGED <<doc, stamp, writing, times, before, videoSaved>>
      /\ videoPc' = "after" /\ snap' = doc
  BY DEF Video!ReadAll, Video!disk
<1> QED
  BY <1>1, VideoRereads

LEMMA VideoReloaded ==
  ASSUME Video!VideoAssumption, VideoInv, Video!Reloaded PROVE VideoInv'
<1>1. CASE Video!Legible(snap)
  <2>1. /\ UNCHANGED <<doc, stamp, writing, before>> /\ videoPc' = "idle" /\ videoPc = "after"
        /\ videoSaved' = Video!Read(snap) /\ times' = IF stamp = before THEN stamp ELSE None
    BY <1>1 DEF Video!Reloaded, Video!disk
  <2>2. stamp # None
    BY DEF Video!VideoAssumption, VideoInv, Times
  <2>3. stamp = before => snap = doc
    BY <2>1 DEF VideoInv
  <2> QED
    BY <1>1, <2>1, <2>2, <2>3, VideoRereads
<1>2. CASE ~Video!Legible(snap)
  <2>1. Video!Unread
    BY <1>2 DEF Video!Reloaded
  <2> QED
    BY <2>1, VideoUnread
<1> QED
  BY <1>1, <1>2

LEMMA VideoSynchronized ==
  ASSUME VideoInv, Video!Synchronized PROVE VideoInv'
<1>1. CASE Video!Legible(snap) /\ stamp = before
  <2>1. /\ UNCHANGED <<doc, stamp, writing, before>> /\ videoPc' \in {"check", "idle"}
        /\ videoPc = "after"
        /\ videoSaved' = Video!Read(snap) /\ times' = stamp
    BY <1>1 DEF Video!Synchronized, Video!disk
  <2>2. snap = doc
    BY <1>1, <2>1 DEF VideoInv
  <2> QED
    BY <1>1, <2>1, <2>2, VideoRereads
<1>2. CASE ~(Video!Legible(snap) /\ stamp = before)
  <2>1. Video!Unread
    BY <1>2 DEF Video!Synchronized
  <2> QED
    BY <2>1, VideoUnread
<1> QED
  BY <1>1, <1>2

LEMMA VideoBuilt ==
  ASSUME VideoInv, Video!Built PROVE VideoInv'
<1>1. CASE Video!Editable(snap, pending, videoSaved)
  <2>1. /\ UNCHANGED <<doc, stamp, writing, before, times, videoSaved>> /\ videoPc' = "apply"
        /\ videoPlan' = Video!Edited(snap, pending, videoSaved)
    BY <1>1 DEF Video!Built, Video!disk
  <2>2. IsDocument(videoPlan)'
    BY <2>1 DEF IsDocument, Video!Edited, Video!Written
  <2> QED
    BY <2>1, <2>2, VideoRereads
<1>2. CASE ~Video!Editable(snap, pending, videoSaved)
  <2>1. Video!Unread
    BY <1>2 DEF Video!Built
  <2> QED
    BY <2>1, VideoUnread
<1> QED
  BY <1>1, <1>2

LEMMA VideoSave ==
  ASSUME VideoInv, Video!Save PROVE VideoInv'
<1>1. CASE times = stamp
  <2>1. UNCHANGED <<doc, stamp, writing, before, times, videoSaved>> /\ videoPc' = "check"
    BY <1>1 DEF Video!Save, Video!disk
  <2> QED
    BY <2>1, VideoRereads
<1>2. CASE times # stamp
  <2>1. Video!StartReading("save")
    BY <1>2 DEF Video!Save
  <2> QED
    BY <2>1, VideoStartReading
<1> QED
  BY <1>1, <1>2

LEMMA VideoCheck ==
  ASSUME VideoInv, Video!Check PROVE VideoInv'
<1>1. /\ UNCHANGED <<doc, stamp, writing, times, videoSaved>>
      /\ before' = before \/ before' = stamp
      /\ videoPc' \in {"reload", "open"}
  BY DEF Video!Check, Video!disk
<1> QED
  BY <1>1, VideoRereads

LEMMA VideoChoose ==
  ASSUME VideoInv, Video!ChooseUnread \/ (\E o \in menu : Video!Choose(o)) PROVE VideoInv'
<1>1. CASE Video!ChooseUnread
  <2>1. UNCHANGED <<doc, stamp, writing, before, times, videoSaved>> /\ videoPc' = "reload"
    BY <1>1 DEF Video!ChooseUnread, Video!disk
  <2> QED
    BY <2>1, VideoRereads
<1>2. ASSUME NEW o \in menu, Video!Choose(o) PROVE VideoInv'
  <2>1. UNCHANGED <<doc, stamp, writing, before, times, videoSaved>> /\ videoPc' = "save"
    BY <1>2 DEF Video!Choose, Video!disk
  <2> QED
    BY <2>1, VideoRereads
<1> QED
  BY <1>1, <1>2

(* A file that is written has a new write time.                             *)
LEMMA VideoApply ==
  ASSUME Video!VideoAssumption, VideoInv, Video!Apply PROVE VideoInv'
<1>1. /\ UNCHANGED <<writing, before, snap, times, videoSaved>>
      /\ videoPc = "apply" /\ videoPc' \in {"reload", "idle"}
  BY DEF Video!Apply
<1>2. CASE UNCHANGED <<doc, stamp>>
  BY <1>1, <1>2, VideoRereads
<1>3. CASE ~UNCHANGED <<doc, stamp>>
  <2>1. /\ doc' = videoPlan
        /\ stamp' = [f \in Video!Files |->
                       IF \E k \in Video!Keys : Video!FileOf(k) = f /\ videoPlan[k] # doc[k]
                       THEN stamp[f] + 1 ELSE stamp[f]]
    BY <1>3 DEF Video!Apply
  <2>2. stamp \in Times /\ IsDocument(doc) /\ IsDocument(videoPlan)
    BY <1>1 DEF VideoInv
  <2>3. IsDocument(doc')
    BY <2>1, <2>2
  <2>4. stamp' \in Times /\ NotAfter(stamp, stamp')
    BY <2>1, <2>2 DEF Times, NotAfter
  <2>5. ASSUME stamp' = stamp PROVE doc' = doc
    <3>1. ASSUME NEW k \in Video!Keys PROVE videoPlan[k] = doc[k]
      <4>1. Video!FileOf(k) \in Video!Files
        BY DEF Video!FileOf, Video!Files
      <4>2. stamp[Video!FileOf(k)] + 1 # stamp[Video!FileOf(k)]
        BY <2>2, <4>1 DEF Times
      <4>3. stamp'[Video!FileOf(k)] = stamp[Video!FileOf(k)]
        BY <2>5
      <4> QED
        BY <2>1, <4>1, <4>2, <4>3
    <3>2. [k \in Video!Keys |-> videoPlan[k]] = [k \in Video!Keys |-> doc[k]]
      BY <3>1
    <3> QED
      BY <2>1, <2>2, <3>2 DEF IsDocument
  <2>6. writing' \in Video!Files \cup {None}
    BY <1>1 DEF VideoInv
  <2> QED
    BY <1>1, <2>3, <2>4, <2>5, <2>6, VideoStays
<1> QED
  BY <1>2, <1>3

LEMMA VideoBeginWrite ==
  ASSUME Video!VideoAssumption, VideoInv, NEW f \in Video!Files, Video!BeginWrite(f) PROVE VideoInv'
<1>1. /\ UNCHANGED <<doc, stamp, before, snap, times, videoSaved, videoPc, videoPlan>>
      /\ writing' = f
  BY DEF Video!BeginWrite, Video!Program
<1>2. /\ stamp' \in Times /\ NotAfter(stamp, stamp') /\ IsDocument(doc')
  BY <1>1 DEF VideoInv, Times, NotAfter, IsDocument
<1> QED
  BY <1>1, <1>2, VideoStays

LEMMA VideoEndWrite ==
  ASSUME Video!VideoAssumption, VideoInv, NEW o, Video!EndWrite(o) PROVE VideoInv'
<1>1. /\ UNCHANGED <<before, snap, times, videoSaved, videoPc, videoPlan>>
      /\ writing # None /\ writing' = None
      /\ stamp' = [stamp EXCEPT ![writing] = @ + 1]
  BY DEF Video!EndWrite, Video!Program
<1>2. stamp \in Times /\ writing \in Video!Files /\ IsDocument(doc)
  BY <1>1 DEF VideoInv
<1>3. stamp' \in Times /\ NotAfter(stamp, stamp') /\ stamp' # stamp
  BY <1>1, <1>2 DEF Times, NotAfter
<1>4. IsDocument(doc')
  <2> DEFINE here == {k \in Video!KeysOf(o) : Video!FileOf(k) = writing}
  <2>1. \/ \E w : doc' = [k \in Video!Keys |-> IF k \in here THEN w[k] ELSE doc[k]]
        \/ \E k \in here : doc' \in {[doc EXCEPT ![k] = <<Odd>>], [doc EXCEPT ![k] = @ \o @]}
        \/ \E k \in here \ Video!Groups : doc' = [doc EXCEPT ![k] = <<>>]
    BY DEF Video!EndWrite
  <2> HIDE DEF here
  <2>2. ASSUME NEW k, NEW w, doc' = [doc EXCEPT ![k] = w] PROVE IsDocument(doc')
    BY <1>2, <2>2 DEF IsDocument
  <2>3. CASE \E w : doc' = [k \in Video!Keys |-> IF k \in here THEN w[k] ELSE doc[k]]
    BY <2>3 DEF IsDocument
  <2>4. CASE \E k \in here : doc' \in {[doc EXCEPT ![k] = <<Odd>>], [doc EXCEPT ![k] = @ \o @]}
    BY <2>2, <2>4
  <2>5. CASE \E k \in here \ Video!Groups : doc' = [doc EXCEPT ![k] = <<>>]
    BY <2>2, <2>5
  <2> QED
    BY <2>1, <2>3, <2>4, <2>5
<1> QED
  BY <1>1, <1>3, <1>4, VideoStays

(* Every step of the graphics settings keeps the invariant.                 *)
LEMMA VideoStep ==
  ASSUME Video!VideoAssumption, VideoInv, [Video!Next]_ofVideo PROVE VideoInv'
<1>1. CASE Video!Reload \/ Video!Poll
  BY <1>1, VideoStartReading DEF Video!Reload, Video!Poll
<1>2. CASE Video!Toggle
  <2>1. UNCHANGED <<doc, stamp, writing, before, snap, times, videoSaved, videoPc, videoPlan>>
    BY <1>2 DEF Video!Toggle
  <2>2. IsDocument(videoPlan)' <=> IsDocument(videoPlan)
    BY <2>1 DEF IsDocument
  <2> QED
    BY <2>1, <2>2, VideoRereads DEF VideoInv
<1>3. CASE UNCHANGED ofVideo
  <2>1. UNCHANGED <<doc, stamp, writing, before, snap, times, videoSaved, videoPc, videoPlan>>
    BY <1>3 DEF ofVideo
  <2>2. IsDocument(videoPlan)' <=> IsDocument(videoPlan)
    BY <2>1 DEF IsDocument
  <2> QED
    BY <2>1, <2>2, VideoRereads DEF VideoInv
<1>4. CASE Video!Next
  BY <1>1, <1>2, <1>4, VideoOpen, VideoReadAll, VideoReloaded, VideoSynchronized,
       VideoBuilt, VideoChoose, VideoSave, VideoCheck, VideoApply, VideoBeginWrite,
       VideoEndWrite DEF Video!Next
<1> QED
  BY <1>3, <1>4

(***************************************************************************)
(* What a save may write.                                                   *)
(***************************************************************************)

IsWish(w) == w = [o \in Video!Options |-> w[o]]
AlwaysOff == {"vsync", "variable_rate"}

(* A texture group always has a line.                                       *)
GroupsThere(d) == \A g \in Video!Groups : \E n \in Nat \ {0} : d[g] = [i \in 1..n |-> d[g][i]]

Reading == videoPc \in {"open", "read", "after"}

(* What the player asked for is a choice of the menu, and is still wanted.  *)
AskedIsWanted(a, w, s) ==
    \A o \in DOMAIN a : o \in Video!Options /\ a[o] = w[o] /\ w[o] # s[o] /\ a[o] \in Video!ValuesOf(o)

(* The choices that differ from what was read last are the player's, unless *)
(* the files are about to be read anew.                                     *)
WishInv ==
    /\ GroupsThere(doc)
    /\ pending # None \/ videoSaved # None => IsWish(pending)
    /\ videoPc \in {"save", "check", "apply"} => IsWish(pending)
    /\ Reading /\ purpose \in {"save", "poll", "build"} => IsWish(pending)
    /\ videoPc = "apply" => /\ videoPlan = Video!Edited(snap, pending, videoSaved)
                            /\ Video!Editable(snap, pending, videoSaved)
    /\ \/ videoPc = "reload" \/ (Reading /\ purpose = "reload")
       \/ /\ Video!Differing(pending, videoSaved) \subseteq DOMAIN videoAsked \cup AlwaysOff
          /\ AskedIsWanted(videoAsked, pending, videoSaved)

(* A step that changes neither the choices nor the files.                   *)
LEMMA WishStays ==
  ASSUME WishInv, UNCHANGED <<doc, pending, videoSaved, videoAsked>>,
         videoPc' \in {"save", "check"} => IsWish(pending),
         videoPc' = "apply" => /\ IsWish(pending)
                               /\ videoPlan' = Video!Edited(snap', pending, videoSaved)
                               /\ Video!Editable(snap', pending, videoSaved),
         Reading' /\ purpose' \in {"save", "poll", "build"} => IsWish(pending),
         videoPc = "reload" \/ (Reading /\ purpose = "reload") =>
            videoPc' = "reload" \/ (Reading' /\ purpose' = "reload")
  PROVE  WishInv'
<1>1. /\ GroupsThere(doc)' <=> GroupsThere(doc)
      /\ IsWish(pending)' <=> IsWish(pending)
      /\ Video!Differing(pending, videoSaved)' = Video!Differing(pending, videoSaved)
      /\ (videoPlan' = Video!Edited(snap', pending, videoSaved)) =>
            (videoPlan = Video!Edited(snap, pending, videoSaved))'
      /\ Video!Editable(snap', pending, videoSaved) => Video!Editable(snap, pending, videoSaved)'
      /\ AskedIsWanted(videoAsked, pending, videoSaved)
            => AskedIsWanted(videoAsked, pending, videoSaved)'
  BY DEF GroupsThere, IsWish, Video!Differing, Video!Edited, Video!Written,
       Video!Grouped, AskedIsWanted, Video!Editable
<1> QED
  BY <1>1 DEF WishInv

LEMMA ReadIsWish ==
  ASSUME NEW d, NEW s, NEW w
  PROVE  IsWish(Video!Read(d)) /\ IsWish(Video!Rebase(Video!Read(d), s, w))
BY DEF IsWish, Video!Read, Video!Rebase

LEMMA WishStarts == Video!Init => WishInv
<1> SUFFICES ASSUME Video!Init PROVE WishInv
  OBVIOUS
<1>1. GroupsThere(doc)
  <2> SUFFICES ASSUME NEW g \in Video!Groups
               PROVE  \E n \in Nat \ {0} : doc[g] = [i \in 1..n |-> doc[g][i]]
    BY DEF GroupsThere
  <2> DEFINE blank == <<[bias |-> 0, minmag |-> "linear", mip |-> "linear"]>>
  <2>1. \/ doc[g] = blank
        \/ \E wish, S : doc[g] = [i \in DOMAIN blank |-> Video!Grouped(blank[i], g, wish, S)]
    BY DEF Video!Init, Video!Medium, Video!Written, Video!Groups, Video!Keys,
         Video!SystemKeys
  <2>2. DOMAIN blank = 1..1 /\ blank = [i \in 1..1 |-> blank[i]]
    OBVIOUS
  <2>3. doc[g] = [i \in 1..1 |-> doc[g][i]]
    BY <2>1, <2>2
  <2> QED
    BY <2>3
<1> QED
  BY <1>1 DEF Video!Init, WishInv, Reading

LEMMA WishStartReading ==
  ASSUME WishInv, NEW p, Video!StartReading(p),
         p \in {"save", "poll", "build"} => IsWish(pending),
         videoPc = "reload" => p = "reload", ~Reading
  PROVE  WishInv'
<1>1. /\ UNCHANGED <<doc, pending, videoSaved, videoAsked>>
      /\ videoPc' = "open" /\ purpose' = p
  BY DEF Video!StartReading, Video!disk
<1>2. Reading'
  BY <1>1 DEF Reading
<1> QED
  BY <1>1, <1>2, WishStays

LEMMA WishUnread ==
  ASSUME WishInv, Reading, Video!Unread PROVE WishInv'
<1>1. UNCHANGED <<doc, purpose>> /\ videoPc' = "idle" /\ ~Reading'
  BY DEF Video!Unread, Video!disk, Reading
<1>2. CASE purpose = "reload"
  <2>1. videoSaved' = None /\ pending' = None
    BY <1>2 DEF Video!Unread
  <2>2. Video!Differing(pending, videoSaved)' = {} /\ AskedIsWanted(videoAsked, pending, videoSaved)'
    <3>1. videoAsked' = Video!Nothing
      BY <1>2 DEF Video!Unread
    <3> QED
      BY <2>1, <3>1 DEF Video!Differing, Video!Nothing, AskedIsWanted
  <2>3. GroupsThere(doc)'
    BY <1>1 DEF WishInv, GroupsThere
  <2> QED
    BY <1>1, <2>1, <2>2, <2>3 DEF WishInv
<1>3. CASE purpose # "reload"
  <2>1. UNCHANGED <<videoSaved, pending, videoAsked>>
    BY <1>3 DEF Video!Unread
  <2>2. videoPc # "reload"
    BY DEF Reading
  <2> QED
    BY <1>1, <1>3, <2>1, <2>2, WishStays
<1> QED
  BY <1>2, <1>3

LEMMA WishOpen ==
  ASSUME WishInv, Video!Open PROVE WishInv'
<1>1. videoPc = "open" /\ Reading
  BY DEF Video!Open, Reading
<1>2. CASE Video!Unread
  BY <1>1, <1>2, WishUnread
<1>3. CASE ~Video!Unread
  <2>1. /\ UNCHANGED <<doc, pending, videoSaved, videoAsked, purpose>>
        /\ videoPc' \in {"read", "open"}
    BY <1>3 DEF Video!Open, Video!disk
  <2>2. Reading'
    BY <2>1 DEF Reading
  <2>3. purpose \in {"save", "poll", "build"} => IsWish(pending)
    BY <1>1 DEF WishInv
  <2> QED
    BY <1>1, <2>1, <2>2, <2>3, WishStays
<1> QED
  BY <1>2, <1>3

LEMMA WishReadAll ==
  ASSUME WishInv, Video!ReadAll PROVE WishInv'
<1>1. /\ UNCHANGED <<doc, pending, videoSaved, videoAsked, purpose>>
      /\ videoPc' = "after" /\ videoPc = "read"
  BY DEF Video!ReadAll, Video!disk
<1>2. Reading /\ Reading'
  BY <1>1 DEF Reading
<1>3. purpose \in {"save", "poll", "build"} => IsWish(pending)
  BY <1>2 DEF WishInv
<1> QED
  BY <1>1, <1>2, <1>3, WishStays

LEMMA WishReloaded ==
  ASSUME WishInv, Video!Reloaded PROVE WishInv'
<1>1. videoPc = "after" /\ Reading
  BY DEF Video!Reloaded, Reading
<1>2. CASE Video!Legible(snap)
  <2>1. /\ videoSaved' = Video!Read(snap) /\ pending' = Video!Read(snap)
        /\ videoPc' = "idle" /\ doc' = doc /\ videoAsked' = Video!Nothing
    BY <1>2 DEF Video!Reloaded, Video!disk
  <2>2. IsWish(pending)'
    BY <2>1, ReadIsWish
  <2>3. Video!Differing(pending, videoSaved)' = {} /\ AskedIsWanted(videoAsked, pending, videoSaved)'
    BY <2>1 DEF Video!Differing, Video!Nothing, AskedIsWanted
  <2>4. GroupsThere(doc)' /\ ~Reading'
    BY <2>1 DEF WishInv, GroupsThere, Reading
  <2> QED
    BY <2>1, <2>2, <2>3, <2>4 DEF WishInv
<1>3. CASE ~Video!Legible(snap)
  BY <1>1, <1>3, WishUnread DEF Video!Reloaded
<1> QED
  BY <1>2, <1>3

LEMMA WishSynchronized ==
  ASSUME WishInv, Video!Synchronized PROVE WishInv'
<1>1. videoPc = "after" /\ Reading /\ purpose \in {"save", "poll"}
  BY DEF Video!Synchronized, Reading
<1>2. CASE Video!Legible(snap) /\ stamp = before
  <2>1. /\ videoSaved' = Video!Read(snap)
        /\ pending' = Video!Rebase(Video!Read(snap), videoSaved, pending)
        /\ videoPc' \in {"check", "idle"} /\ doc' = doc
        /\ videoAsked' = [o \in {o \in DOMAIN videoAsked : pending'[o] # videoSaved'[o]} |-> videoAsked[o]]
    BY <1>2 DEF Video!Synchronized, Video!disk
  <2>2. IsWish(pending)'
    BY <2>1, ReadIsWish
  <2>3. /\ Video!Differing(pending, videoSaved) \subseteq DOMAIN videoAsked \cup AlwaysOff
        /\ AskedIsWanted(videoAsked, pending, videoSaved)
    BY <1>1 DEF WishInv
  <2>6. AskedIsWanted(videoAsked, pending, videoSaved)'
    <3> SUFFICES ASSUME NEW o \in (DOMAIN videoAsked)'
                 PROVE  /\ o \in Video!Options /\ videoAsked'[o] = pending'[o]
                        /\ pending'[o] # videoSaved'[o] /\ videoAsked'[o] \in Video!ValuesOf(o)
      BY DEF AskedIsWanted
    <3>1. o \in DOMAIN videoAsked /\ pending'[o] # videoSaved'[o] /\ videoAsked'[o] = videoAsked[o]
      BY <2>1
    <3>2. o \in Video!Options /\ videoAsked[o] = pending[o] /\ pending[o] # videoSaved[o]
          /\ videoAsked[o] \in Video!ValuesOf(o)
      BY <2>3, <3>1 DEF AskedIsWanted
    <3>3. pending'[o] = pending[o]
      BY <2>1, <3>2 DEF Video!Rebase
    <3> QED
      BY <3>1, <3>2, <3>3
  <2>4. ASSUME NEW o \in Video!Differing(pending, videoSaved)'
        PROVE  o \in (DOMAIN videoAsked)' \cup AlwaysOff
    <3>1. o \in Video!Options /\ pending'[o] # videoSaved'[o]
      BY <2>4 DEF Video!Differing
    <3>2. pending[o] # videoSaved[o]
      BY <2>1, <3>1 DEF Video!Rebase
    <3>3. o \in DOMAIN videoAsked \cup AlwaysOff
      BY <2>3, <3>1, <3>2 DEF Video!Differing
    <3> QED
      BY <2>1, <3>1, <3>3
  <2>5. GroupsThere(doc)' /\ ~Reading'
    BY <2>1 DEF WishInv, GroupsThere, Reading
  <2> QED
    BY <2>1, <2>2, <2>4, <2>5, <2>6 DEF WishInv
<1>3. CASE ~(Video!Legible(snap) /\ stamp = before)
  BY <1>1, <1>3, WishUnread DEF Video!Synchronized
<1> QED
  BY <1>2, <1>3

LEMMA WishBuilt ==
  ASSUME WishInv, Video!Built PROVE WishInv'
<1>1. videoPc = "after" /\ Reading /\ purpose = "build"
  BY DEF Video!Built, Reading
<1>2. CASE Video!Editable(snap, pending, videoSaved)
  <2>1. /\ UNCHANGED <<doc, pending, videoSaved, videoAsked, purpose, snap>>
        /\ videoPc' = "apply" /\ videoPlan' = Video!Edited(snap, pending, videoSaved)
    BY <1>2 DEF Video!Built, Video!disk
  <2>2. IsWish(pending) /\ ~Reading'
    BY <1>1, <2>1 DEF WishInv, Reading
  <2>3. Video!Edited(snap', pending, videoSaved) = Video!Edited(snap, pending, videoSaved)
    BY <2>1
  <2> QED
    BY <1>1, <1>2, <2>1, <2>2, <2>3, WishStays
<1>3. CASE ~Video!Editable(snap, pending, videoSaved)
  BY <1>1, <1>3, WishUnread DEF Video!Built
<1> QED
  BY <1>2, <1>3

LEMMA WishesAreWishes ==
  ASSUME NEW o, IsWish(pending), NEW wish \in Video!Wishes(o) PROVE IsWish(wish)
<1>1. \A p : IsWish(Video!WithPreset(pending, p))
  BY DEF IsWish, Video!WithPreset
<1>3. IsWish(Video!Defaults(pending))
  BY <1>1 DEF IsWish, Video!Defaults
<1>2. \A v : IsWish([pending EXCEPT ![o] = v])
  BY DEF IsWish
<1> QED
  BY <1>1, <1>2, <1>3 DEF Video!Wishes

LEMMA Choices ==
  /\ Video!Options = {"display", "environment", "fx", "texture_resolution", "texture_filtering", "shadow",
                      "character", "bloom", "ambient_occlusion", "flex", "vsync", "variable_rate",
                      "reflections", "anti_aliasing", "motion_blur", "depth_of_field", "volumetric",
                      "lens_flares", "light_shafts", "resolution", "grain"}
  /\ \A o \in {"environment", "fx", "texture_resolution", "texture_filtering", "shadow"} :
        Video!Count[o] = 4 /\ Video!ValuesOf(o) = 0..3
  /\ \A o \in {"display", "character", "bloom", "ambient_occlusion", "flex"} :
        Video!Count[o] = 3 /\ Video!ValuesOf(o) = 0..2
  /\ \A o \in {"vsync", "variable_rate", "reflections", "anti_aliasing", "motion_blur", "depth_of_field",
               "volumetric", "lens_flares", "light_shafts"} :
        Video!Count[o] = 2 /\ Video!ValuesOf(o) = 0..1
  /\ Video!ValuesOf("resolution") = {1280, 1920, 2560}
  /\ Video!ValuesOf("grain") = {0, 50, 99, 100}
<1> USE DEF Video!Options, Video!Listed, Video!Count, Video!ValuesOf, Video!Resolutions, Video!Grains
<1>1. Video!Options = {"display", "environment", "fx", "texture_resolution", "texture_filtering", "shadow",
                      "character", "bloom", "ambient_occlusion", "flex", "vsync", "variable_rate",
                      "reflections", "anti_aliasing", "motion_blur", "depth_of_field", "volumetric",
                      "lens_flares", "light_shafts", "resolution", "grain"}
  OBVIOUS
<1>2. \A o \in {"environment", "fx", "texture_resolution", "texture_filtering", "shadow"} :
        Video!Count[o] = 4 /\ Video!ValuesOf(o) = 0..3
  OBVIOUS
<1>3. \A o \in {"display", "character", "bloom", "ambient_occlusion", "flex"} :
        Video!Count[o] = 3 /\ Video!ValuesOf(o) = 0..2
  OBVIOUS
<1>4. \A o \in {"vsync", "variable_rate", "reflections", "anti_aliasing", "motion_blur", "depth_of_field",
               "volumetric", "lens_flares", "light_shafts"} :
        Video!Count[o] = 2 /\ Video!ValuesOf(o) = 0..1
  OBVIOUS
<1>5. Video!ValuesOf("resolution") = {1280, 1920, 2560} /\ Video!ValuesOf("grain") = {0, 50, 99, 100}
  OBVIOUS
<1> QED
  BY <1>1, <1>2, <1>3, <1>4, <1>5

(* The presets are choices of the menu.                                     *)
LEMMA PresetsAreChoices ==
  ASSUME NEW p \in 0..3, NEW o \in Video!Options, NEW w
  PROVE  Video!Preset(p, o, w) = w \/ Video!Preset(p, o, w) \in Video!ValuesOf(o)
<1> DEFINE at == {i \in DOMAIN Video!PresetOptions : Video!PresetOptions[i] = o}
           i == CHOOSE i \in at : TRUE
<1>1. CASE at = {}
  BY <1>1 DEF Video!Preset
<1>2. CASE at # {}
  <2>1. i \in at /\ Video!Preset(p, o, w) = Video!Presets[p + 1][i]
    BY <1>2 DEF Video!Preset
  <2> HIDE DEF i
  <2>2. i \in 1..15 /\ Video!PresetOptions[i] = o
    BY <2>1 DEF Video!PresetOptions
  <2>3. \/ Video!Presets[p + 1][i] \in 0..1
        \/ (Video!Presets[p + 1][i] \in 0..3 /\ i \in {1, 3, 4, 5, 6})
        \/ (Video!Presets[p + 1][i] \in 0..2 /\ i \in {2, 9, 11})
    BY <2>2 DEF Video!Presets
  <2>4. /\ i \in {1, 3, 4, 5, 6} => o \in {"environment", "fx", "texture_resolution",
                                          "texture_filtering", "shadow"}
        /\ i \in {2, 9, 11} => o \in {"character", "bloom", "ambient_occlusion"}
        /\ o \notin {"resolution", "grain"}
    BY <2>2 DEF Video!PresetOptions
  <2>5. 0..1 \subseteq Video!ValuesOf(o)
    BY <2>4, Choices
  <2> QED
    BY <2>1, <2>3, <2>4, <2>5, Choices
<1> QED
  BY <1>1, <1>2

(* What a choice changes, it changes to a choice of the menu.               *)
LEMMA NewWishes ==
  ASSUME NEW o, IsWish(pending), NEW wish \in Video!Wishes(o),
         NEW x \in Video!Options, wish[x] # pending[x]
  PROVE  wish[x] \in Video!ValuesOf(x)
<1>1. ASSUME NEW p \in 0..3, NEW w, w = Video!WithPreset(pending, p), w[x] # pending[x]
      PROVE  w[x] \in Video!ValuesOf(x)
  BY <1>1, PresetsAreChoices DEF Video!WithPreset
<1>2. CASE o = "overall"
  <2>1. CASE \E p \in 0..3 : wish = Video!WithPreset(pending, p)
    BY <1>1, <2>1
  <2>2. CASE wish = Video!Defaults(pending)
    <3> DEFINE w == Video!WithPreset(pending, 1)
    <3>1. \/ x = "vsync" /\ wish[x] = 0
          \/ x = "variable_rate" /\ wish[x] = 1
          \/ x = "grain" /\ wish[x] = 0
          \/ wish[x] = w[x]
      <4>1. w = [y \in Video!Options |-> w[y]]
        BY DEF Video!WithPreset
      <4>2. wish = [w EXCEPT !.vsync = 0, !.variable_rate = 1, !.grain = 0]
        BY <2>2 DEF Video!Defaults
      <4> HIDE DEF w
      <4>3. \A f, a, v : f = [y \in Video!Options |-> f[y]]
                => /\ [f EXCEPT ![a] = v] = [y \in Video!Options |-> [f EXCEPT ![a] = v][y]]
                   /\ [f EXCEPT ![a] = v][x] = IF x = a THEN v ELSE f[x]
        OBVIOUS
      <4> DEFINE w1 == [w EXCEPT !["vsync"] = 0]
                 w2 == [w1 EXCEPT !["variable_rate"] = 1]
                 w3 == [w2 EXCEPT !["grain"] = 0]
      <4>4. w1 = [y \in Video!Options |-> w1[y]] /\ w1[x] = IF x = "vsync" THEN 0 ELSE w[x]
        BY <4>1, <4>3
      <4>5. wish = w3
        BY <4>2
      <4> HIDE DEF w1
      <4>6. w2 = [y \in Video!Options |-> w2[y]] /\ w2[x] = IF x = "variable_rate" THEN 1 ELSE w1[x]
        BY <4>3, <4>4
      <4> HIDE DEF w2
      <4>7. w3[x] = IF x = "grain" THEN 0 ELSE w2[x]
        BY <4>3, <4>6
      <4> HIDE DEF w3
      <4> QED
        BY <4>4, <4>5, <4>6, <4>7
    <3>2. wish[x] = w[x] => wish[x] \in Video!ValuesOf(x)
      BY <1>1
    <3> QED
      BY <3>1, <3>2, Choices
  <2> QED
    BY <1>2, <2>1, <2>2 DEF Video!Wishes
<1>3. CASE o # "overall"
  <2>1. PICK v \in Video!Nexts(o) : wish = [pending EXCEPT ![o] = v]
    BY <1>3 DEF Video!Wishes
  <2>2. x = o /\ wish[x] = v
    BY <2>1 DEF IsWish
  <2>3. CASE o \in {"resolution", "grain"}
    BY <2>1, <2>2, <2>3 DEF Video!Nexts, Video!ValuesOf
  <2>4. CASE o \notin {"resolution", "grain"}
    <3>1. v = IF pending[o] \in 0..(Video!Count[o] - 2) THEN pending[o] + 1 ELSE 0
      BY <2>1, <2>4 DEF Video!Nexts
    <3>2. Video!Count[o] \in {2, 3, 4} /\ Video!ValuesOf(o) = 0..(Video!Count[o] - 1)
      <4>1. \/ o \in {"environment", "fx", "texture_resolution", "texture_filtering", "shadow"}
            \/ o \in {"display", "character", "bloom", "ambient_occlusion", "flex"}
            \/ o \in {"vsync", "variable_rate", "reflections", "anti_aliasing", "motion_blur",
                      "depth_of_field", "volumetric", "lens_flares", "light_shafts"}
        BY <2>2, <2>4, Choices
      <4>2. 4 - 1 = 3 /\ 3 - 1 = 2 /\ 2 - 1 = 1
        OBVIOUS
      <4>3. \/ Video!Count[o] = 4 /\ Video!ValuesOf(o) = 0..3
            \/ Video!Count[o] = 3 /\ Video!ValuesOf(o) = 0..2
            \/ Video!Count[o] = 2 /\ Video!ValuesOf(o) = 0..1
        BY <4>1, Choices
      <4> QED
        BY <4>2, <4>3
    <3> QED
      BY <2>2, <3>1, <3>2
  <2> QED
    BY <2>3, <2>4
<1> QED
  BY <1>2, <1>3

LEMMA WishChoose ==
  ASSUME WishInv, NEW o, Video!Choose(o) PROVE WishInv'
<1>1. PICK wish \in Video!Wishes(o) :
        /\ pending' = wish
        /\ videoAsked' = [x \in {x \in Video!Differing(wish, pending) \cup DOMAIN videoAsked :
                                     wish[x] # videoSaved[x]} |-> wish[x]]
  BY DEF Video!Choose
<1>2. /\ videoPc = "idle" /\ videoPc' = "save" /\ pending # None /\ UNCHANGED <<doc, videoSaved>>
  BY DEF Video!Choose, Video!disk
<1>3. IsWish(pending)'
  BY <1>1, <1>2, WishesAreWishes DEF WishInv
<1>4. /\ Video!Differing(pending, videoSaved) \subseteq DOMAIN videoAsked \cup AlwaysOff
      /\ AskedIsWanted(videoAsked, pending, videoSaved)
  BY <1>2 DEF WishInv, Reading
<1>7. AskedIsWanted(videoAsked, pending, videoSaved)'
  <2> SUFFICES ASSUME NEW x \in (DOMAIN videoAsked)'
               PROVE  /\ x \in Video!Options /\ videoAsked'[x] = pending'[x]
                      /\ pending'[x] # videoSaved'[x] /\ videoAsked'[x] \in Video!ValuesOf(x)
    BY DEF AskedIsWanted
  <2>1. /\ x \in Video!Differing(wish, pending) \cup DOMAIN videoAsked
        /\ wish[x] # videoSaved[x] /\ videoAsked'[x] = wish[x]
    BY <1>1
  <2>2. x \in Video!Options
    BY <1>4, <2>1 DEF Video!Differing, AskedIsWanted
  <2>3. CASE wish[x] = pending[x]
    BY <1>1, <1>2, <1>4, <2>1, <2>2, <2>3 DEF Video!Differing, AskedIsWanted
  <2>4. CASE wish[x] # pending[x]
    <3>1. wish[x] \in Video!ValuesOf(x)
      BY <1>2, <2>2, <2>4, NewWishes DEF WishInv
    <3> QED
      BY <1>1, <1>2, <2>1, <2>2, <3>1
  <2> QED
    BY <2>3, <2>4
<1>5. ASSUME NEW x \in Video!Differing(pending, videoSaved)'
      PROVE  x \in (DOMAIN videoAsked)' \cup AlwaysOff
  BY <1>1, <1>2, <1>4, <1>5 DEF Video!Differing
<1>6. GroupsThere(doc)' /\ ~Reading'
  BY <1>2 DEF WishInv, GroupsThere, Reading
<1> QED
  BY <1>2, <1>3, <1>5, <1>6, <1>7 DEF WishInv

LEMMA WishSave ==
  ASSUME WishInv, Video!Save PROVE WishInv'
<1>1. videoPc = "save" /\ IsWish(pending) /\ ~Reading
  BY DEF Video!Save, WishInv, Reading
<1>2. CASE times = stamp
  <2>1. UNCHANGED <<doc, pending, videoSaved, videoAsked>> /\ videoPc' = "check"
    BY <1>2 DEF Video!Save, Video!disk
  <2> QED
    BY <1>1, <2>1, WishStays
<1>3. CASE times # stamp
  BY <1>1, <1>3, WishStartReading DEF Video!Save
<1> QED
  BY <1>2, <1>3

LEMMA WishCheck ==
  ASSUME WishInv, Video!Check PROVE WishInv'
<1>1. /\ videoPc = "check" /\ pending' = Video!Forced(pending) /\ UNCHANGED <<doc, videoSaved>>
      /\ videoAsked' = [o \in DOMAIN videoAsked \ {"vsync", "variable_rate"} |-> videoAsked[o]]
      /\ videoPc' \in {"reload", "open"}
      /\ videoPc' = "open" => purpose' = "build"
  BY DEF Video!Check, Video!disk
<1>2. IsWish(pending)
  BY <1>1 DEF WishInv
<1>3. IsWish(pending)' /\ \A o \in Video!Options \ AlwaysOff : pending'[o] = pending[o]
  BY <1>1, <1>2 DEF IsWish, Video!Forced, AlwaysOff
<1>4. /\ Video!Differing(pending, videoSaved) \subseteq DOMAIN videoAsked \cup AlwaysOff
      /\ AskedIsWanted(videoAsked, pending, videoSaved)
  BY <1>1 DEF WishInv, Reading
<1>7. AskedIsWanted(videoAsked, pending, videoSaved)'
  <2> SUFFICES ASSUME NEW x \in (DOMAIN videoAsked)'
               PROVE  /\ x \in Video!Options /\ videoAsked'[x] = pending'[x]
                      /\ pending'[x] # videoSaved'[x] /\ videoAsked'[x] \in Video!ValuesOf(x)
    BY DEF AskedIsWanted
  <2>1. x \in DOMAIN videoAsked /\ x \notin AlwaysOff /\ videoAsked'[x] = videoAsked[x]
    BY <1>1 DEF AlwaysOff
  <2>2. x \in Video!Options /\ videoAsked[x] = pending[x] /\ pending[x] # videoSaved[x]
        /\ videoAsked[x] \in Video!ValuesOf(x)
    BY <1>4, <2>1 DEF AskedIsWanted
  <2> QED
    BY <1>1, <1>3, <2>1, <2>2
<1>5. ASSUME NEW o \in Video!Differing(pending, videoSaved)'
      PROVE  o \in (DOMAIN videoAsked)' \cup AlwaysOff
  <2>1. CASE o \in AlwaysOff
    BY <2>1
  <2>2. CASE o \notin AlwaysOff
    <3>1. o \in DOMAIN videoAsked
      BY <1>1, <1>3, <1>4, <1>5, <2>2 DEF Video!Differing
    <3> QED
      BY <1>1, <2>2, <3>1 DEF AlwaysOff
  <2> QED
    BY <2>1, <2>2
<1>6. GroupsThere(doc)'
  BY <1>1 DEF WishInv, GroupsThere
<1> QED
  BY <1>1, <1>3, <1>5, <1>6, <1>7 DEF WishInv

LEMMA WrittenGroups ==
  ASSUME NEW d, NEW w, NEW S, GroupsThere(d) PROVE GroupsThere(Video!Written(d, w, S))
<1> SUFFICES ASSUME NEW g \in Video!Groups
             PROVE  \E n \in Nat \ {0} : Video!Written(d, w, S)[g]
                                           = [i \in 1..n |-> Video!Written(d, w, S)[g][i]]
  BY DEF GroupsThere
<1>1. PICK n \in Nat \ {0} : d[g] = [i \in 1..n |-> d[g][i]]
  BY DEF GroupsThere
<1>2. \/ Video!Written(d, w, S)[g] = d[g]
      \/ Video!Written(d, w, S)[g] = [i \in DOMAIN d[g] |-> Video!Grouped(d[g][i], g, w, S)]
  BY DEF Video!Written, Video!Groups, Video!Keys, Video!SystemKeys
<1>3. DOMAIN d[g] = 1..n
  BY <1>1
<1>4. Video!Written(d, w, S)[g] = [i \in 1..n |-> Video!Written(d, w, S)[g][i]]
  <2>1. CASE Video!Written(d, w, S)[g] = d[g]
    BY <1>1, <2>1
  <2>2. CASE Video!Written(d, w, S)[g] = [i \in DOMAIN d[g] |-> Video!Grouped(d[g][i], g, w, S)]
    <3> DEFINE a == Video!Written(d, w, S)[g]
               b == [i \in 1..n |-> Video!Grouped(d[g][i], g, w, S)]
    <3>1. a = b /\ b = [i \in 1..n |-> b[i]]
      BY <1>3, <2>2
    <3> HIDE DEF a, b
    <3> QED
      BY <3>1 DEF a
  <2> QED
    BY <1>2, <2>1, <2>2
<1> QED
  BY <1>4

LEMMA WishApply ==
  ASSUME WishInv, Video!Apply PROVE WishInv'
<1>1. /\ videoPc = "apply" /\ videoPc' \in {"reload", "idle"}
      /\ UNCHANGED <<pending, videoSaved, purpose>>
      /\ videoPc' = "idle" => UNCHANGED <<doc, videoAsked>>
      /\ doc' = doc \/ (doc = snap /\ doc' = videoPlan)
  BY DEF Video!Apply
<1>2. IsWish(pending) /\ ~Reading /\ ~Reading'
  BY <1>1 DEF WishInv, Reading
<1>3. CASE videoPc' = "idle"
  BY <1>1, <1>2, <1>3, WishStays
<1>4. CASE videoPc' = "reload"
  <2>1. GroupsThere(doc')
    BY <1>1, WrittenGroups DEF WishInv, Video!Edited
  <2>2. IsWish(pending)'
    BY <1>1, <1>2 DEF IsWish
  <2> QED
    BY <1>2, <1>4, <2>1, <2>2 DEF WishInv
<1> QED
  BY <1>1, <1>3, <1>4

(* A file written by KF2 or the player keeps the lines of its groups.       *)
LEMMA WishEndWrite ==
  ASSUME VideoInv, WishInv, NEW o, Video!EndWrite(o) PROVE WishInv'
<1>1. UNCHANGED <<purpose, pending, videoSaved, videoAsked, videoPc, snap, videoPlan>>
  BY DEF Video!EndWrite, Video!Program
<1>2. GroupsThere(doc)
  BY DEF WishInv
<1>3. GroupsThere(doc')
  <2> DEFINE here == {k \in Video!KeysOf(o) : Video!FileOf(k) = writing}
  <2>1. \/ \E w, S : doc' = [k \in Video!Keys |-> IF k \in here THEN Video!Written(doc, w, S)[k]
                                                                  ELSE doc[k]]
        \/ \E k \in here : doc' \in {[doc EXCEPT ![k] = <<Odd>>], [doc EXCEPT ![k] = @ \o @]}
        \/ \E k \in here \ Video!Groups : doc' = [doc EXCEPT ![k] = <<>>]
    BY DEF Video!EndWrite
  <2> HIDE DEF here
  <2>2. Video!Groups \subseteq Video!Keys /\ IsDocument(doc)
    BY DEF VideoInv, Video!Keys, Video!SystemKeys
  <2>3. SUFFICES ASSUME NEW g \in Video!Groups
                 PROVE  \E n \in Nat \ {0} : doc'[g] = [i \in 1..n |-> doc'[g][i]]
    BY DEF GroupsThere
  <2>4. PICK m \in Nat \ {0} : doc[g] = [i \in 1..m |-> doc[g][i]]
    BY <1>2 DEF GroupsThere
  <2>5. CASE doc'[g] = doc[g]
    BY <2>4, <2>5
  <2>6. CASE doc'[g] = <<Odd>>
    <3>1. <<Odd>> = [i \in 1..1 |-> <<Odd>>[i]]
      OBVIOUS
    <3> QED
      BY <2>6, <3>1
  <2>7. CASE doc'[g] = doc[g] \o doc[g]
    <3> DEFINE s == doc[g]
               S == {s[i] : i \in 1..m}
               d == s \o s
    <3>1. s \in Seq(S) /\ Len(s) = m
      BY <2>4
    <3> HIDE DEF s, S
    <3>2. d \in Seq(S) /\ Len(d) = m + m
      BY <3>1, ConcatProperties
    <3>3. doc'[g] = d
      BY <2>7 DEF s
    <3> HIDE DEF d
    <3>4. d = [i \in 1..(m + m) |-> d[i]] /\ m + m \in Nat \ {0}
      BY <3>2
    <3> QED
      BY <3>3, <3>4
  <2>8. CASE \E w, S : doc'[g] = Video!Written(doc, w, S)[g]
    <3>1. PICK w, S : doc'[g] = Video!Written(doc, w, S)[g]
      BY <2>8
    <3>2. GroupsThere(Video!Written(doc, w, S))
      BY <1>2, WrittenGroups
    <3>3. PICK n \in Nat \ {0} :
            Video!Written(doc, w, S)[g] = [i \in 1..n |-> Video!Written(doc, w, S)[g][i]]
      BY <3>2 DEF GroupsThere
    <3> QED
      BY <3>1, <3>3
  <2>9. doc'[g] = doc[g] \/ doc'[g] = <<Odd>> \/ doc'[g] = doc[g] \o doc[g]
        \/ \E w, S : doc'[g] = Video!Written(doc, w, S)[g]
    <3>1. CASE \E w, S : doc' = [k \in Video!Keys |-> IF k \in here THEN Video!Written(doc, w, S)[k]
                                                                    ELSE doc[k]]
      BY <2>2, <3>1
    <3>2. ASSUME NEW k, NEW w, doc' = [doc EXCEPT ![k] = w]
          PROVE  doc'[g] = doc[g] \/ (k = g /\ doc'[g] = w)
      BY <2>2, <3>2 DEF IsDocument
    <3>3. CASE \E k \in here : doc' \in {[doc EXCEPT ![k] = <<Odd>>], [doc EXCEPT ![k] = @ \o @]}
      <4>1. PICK k \in here : \/ doc' = [doc EXCEPT ![k] = <<Odd>>]
                             \/ doc' = [doc EXCEPT ![k] = doc[k] \o doc[k]]
        BY <3>3
      <4> QED
        BY <3>2, <4>1
    <3>4. CASE \E k \in here \ Video!Groups : doc' = [doc EXCEPT ![k] = <<>>]
      <4>1. PICK k \in here \ Video!Groups : doc' = [doc EXCEPT ![k] = <<>>]
        BY <3>4
      <4>2. k # g
        OBVIOUS
      <4> QED
        BY <3>2, <4>1, <4>2
    <3> QED
      BY <2>1, <3>1, <3>3, <3>4
  <2> QED
    BY <2>5, <2>6, <2>7, <2>8, <2>9
<1>4. Video!Edited(snap, pending, videoSaved)' = Video!Edited(snap, pending, videoSaved)
      /\ Video!Differing(pending, videoSaved)' = Video!Differing(pending, videoSaved)
      /\ (Reading' <=> Reading)
  BY <1>1 DEF Video!Edited, Video!Written, Video!Grouped, Video!Differing, Reading
<1>5. (IsWish(pending) => IsWish(pending)')
      /\ (AskedIsWanted(videoAsked, pending, videoSaved) => AskedIsWanted(videoAsked, pending, videoSaved)')
  BY <1>1 DEF IsWish, AskedIsWanted
<1>6. Video!Editable(snap, pending, videoSaved) => Video!Editable(snap, pending, videoSaved)'
  BY <1>1 DEF Video!Editable, Video!Differing
<1> QED
  BY <1>1, <1>3, <1>4, <1>5, <1>6 DEF WishInv

(* Every step of the graphics settings keeps it.                            *)
LEMMA WishStep ==
  ASSUME VideoInv, WishInv, [Video!Next]_ofVideo PROVE WishInv'
<1>1. CASE Video!Reload
  BY <1>1, WishStartReading DEF Video!Reload, Reading
<1>2. CASE Video!Poll
  <2>1. videoPc = "idle" /\ IsWish(pending) /\ Video!StartReading("poll")
    BY <1>2 DEF Video!Poll, WishInv
  <2> QED
    BY <2>1, WishStartReading DEF Reading
<1>3. CASE Video!ChooseUnread
  <2>1. UNCHANGED <<doc, pending, videoSaved, videoAsked>> /\ videoPc' = "reload"
    BY <1>3 DEF Video!ChooseUnread, Video!disk
  <2>2. ~Reading'
    BY <2>1 DEF Reading
  <2> QED
    BY <2>1, <2>2, WishStays
<1>4. CASE UNCHANGED ofVideo \/ Video!Toggle \/ (\E f \in Video!Files : Video!BeginWrite(f))
  <2>1. UNCHANGED <<doc, pending, videoSaved, videoAsked, videoPc, purpose, snap, videoPlan>>
    BY <1>4 DEF ofVideo, Video!Toggle, Video!BeginWrite, Video!Program
  <2>2. Reading' <=> Reading
    BY <2>1 DEF Reading
  <2>3. /\ videoPc = "apply" => /\ IsWish(pending) /\ videoPlan = Video!Edited(snap, pending, videoSaved)
                                /\ Video!Editable(snap, pending, videoSaved)
        /\ videoPc \in {"save", "check"} => IsWish(pending)
        /\ Reading /\ purpose \in {"save", "poll", "build"} => IsWish(pending)
    BY DEF WishInv
  <2> QED
    BY <2>1, <2>2, <2>3, WishStays
<1>5. CASE Video!Next
  BY <1>1, <1>2, <1>3, <1>4, <1>5, WishOpen, WishReadAll, WishReloaded,
       WishSynchronized, WishBuilt, WishChoose, WishSave, WishCheck, WishApply,
       WishEndWrite DEF Video!Next
<1> QED
  BY <1>4, <1>5

(* The keys of each option, and the option each key belongs to.             *)
LEMMA KeysOfOptions ==
  /\ Video!KeysOf("display") = {"Fullscreen", "Borderless"}
  /\ Video!KeysOf("resolution") = {"Res"}
  /\ Video!KeysOf("vsync") = {"UseVsync"}
  /\ Video!KeysOf("grain") = {"ImageGrainScaler"}
  /\ Video!KeysOf("character") = {"SkeletalMeshLODBias", "AllowSubsurfaceScattering"}
  /\ Video!KeysOf("shadow") = {"WholeSceneShadows", "MaxShadowResolution", "ShadowTexels"}
  /\ Video!KeysOf("reflections") = {"Reflections"}
  /\ Video!KeysOf("anti_aliasing") = {"PostProcessAA"}
  /\ Video!KeysOf("bloom") = {"Bloom", "BloomQuality"}
  /\ Video!KeysOf("motion_blur") = {"MotionBlur"}
  /\ Video!KeysOf("ambient_occlusion") = {"AmbientOcclusion", "HBAO"}
  /\ Video!KeysOf("depth_of_field") = {"DepthOfField"}
  /\ Video!KeysOf("volumetric") = {"LightCones"}
  /\ Video!KeysOf("lens_flares") = {"LensFlares"}
  /\ Video!KeysOf("light_shafts") = {"LightShafts"}
  /\ Video!KeysOf("environment") = {"DetailMode", "Lifetime", "WorldLifetime"}
  /\ Video!KeysOf("fx") = {"DistanceFogQuality", "EmitterPool", "WorldEmitterPool"}
  /\ Video!KeysOf("texture_filtering") = {"MaxAnisotropy"} \cup Video!Groups
  /\ Video!KeysOf("texture_resolution") = Video!Groups
  /\ Video!KeysOf("flex") = {"PhysXLevel"}
  /\ Video!KeysOf("variable_rate") = {"SmoothFrameRate"}
<1> USE DEF Video!KeysOf, Video!Keyed, Video!Flag, Video!Texture
<1>1. Video!KeysOf("display") = {"Fullscreen", "Borderless"}
  OBVIOUS
<1>2. Video!KeysOf("resolution") = {"Res"}
  OBVIOUS
<1>3. Video!KeysOf("vsync") = {"UseVsync"}
  OBVIOUS
<1>4. Video!KeysOf("grain") = {"ImageGrainScaler"}
  OBVIOUS
<1>5. Video!KeysOf("character") = {"SkeletalMeshLODBias", "AllowSubsurfaceScattering"}
  OBVIOUS
<1>6. Video!KeysOf("shadow") = {"WholeSceneShadows", "MaxShadowResolution", "ShadowTexels"}
  OBVIOUS
<1>7. Video!KeysOf("reflections") = {"Reflections"}
  OBVIOUS
<1>8. Video!KeysOf("anti_aliasing") = {"PostProcessAA"}
  OBVIOUS
<1>9. Video!KeysOf("bloom") = {"Bloom", "BloomQuality"}
  OBVIOUS
<1>10. Video!KeysOf("motion_blur") = {"MotionBlur"}
  OBVIOUS
<1>11. Video!KeysOf("ambient_occlusion") = {"AmbientOcclusion", "HBAO"}
  OBVIOUS
<1>12. Video!KeysOf("depth_of_field") = {"DepthOfField"}
  OBVIOUS
<1>13. Video!KeysOf("volumetric") = {"LightCones"}
  OBVIOUS
<1>14. Video!KeysOf("lens_flares") = {"LensFlares"}
  OBVIOUS
<1>15. Video!KeysOf("light_shafts") = {"LightShafts"}
  OBVIOUS
<1>16. Video!KeysOf("environment") = {"DetailMode", "Lifetime", "WorldLifetime"}
  OBVIOUS
<1>17. Video!KeysOf("fx") = {"DistanceFogQuality", "EmitterPool", "WorldEmitterPool"}
  OBVIOUS
<1>18. Video!KeysOf("texture_filtering") = {"MaxAnisotropy"} \cup Video!Groups
  OBVIOUS
<1>19. Video!KeysOf("texture_resolution") = Video!Groups
  OBVIOUS
<1>20. Video!KeysOf("flex") = {"PhysXLevel"}
  OBVIOUS
<1>21. Video!KeysOf("variable_rate") = {"SmoothFrameRate"}
  OBVIOUS
<1> HIDE DEF Video!KeysOf, Video!Keyed, Video!Flag, Video!Texture
<1> QED
  BY <1>1, <1>2, <1>3, <1>4, <1>5, <1>6, <1>7, <1>8, <1>9, <1>10, <1>11, <1>12, <1>13,
       <1>14, <1>15, <1>16, <1>17, <1>18, <1>19, <1>20, <1>21

LEMMA OwnersOwn ==
  ASSUME NEW k \in Video!Keys \ Video!Groups PROVE k \in Video!KeysOf(Video!Owner[k])
<1>1. \E o \in Video!Options : k \in Video!KeysOf(o)
  BY KeysOfOptions, Choices DEF Video!Keys, Video!SystemKeys, Video!GameKeys,
       Video!EngineKeys
<1> QED
  BY <1>1 DEF Video!Owner

LEMMA OwnerIsOne ==
  ASSUME NEW o \in Video!Options, NEW k \in Video!KeysOf(o) \ Video!Groups, k \in Video!Keys
  PROVE  Video!Owner[k] = o
<1>1. Video!Owner[k] \in Video!Options /\ k \in Video!KeysOf(Video!Owner[k])
  BY DEF Video!Owner
<1>2. ASSUME NEW a \in Video!Options, k \in Video!KeysOf(a) PROVE a = o
  BY <1>2, KeysOfOptions, Choices
<1> QED
  BY <1>1, <1>2

(* A save writes no more than the player asked for.                         *)
LEMMA VideoOthersKept ==
  ASSUME VideoInv, WishInv, [Video!Next]_ofVideo, Video!Saves
  PROVE  LET mine == DOMAIN videoAsked \cup {"vsync", "variable_rate"} IN
         /\ \A k \in Video!Keys \ UNION {Video!KeysOf(o) : o \in mine} : doc'[k] = doc[k]
         /\ \A g \in Video!Groups : doc'[g] # doc[g] =>
              /\ "texture_resolution" \in mine \/ doc'[g][1].bias = doc[g][1].bias
              /\ "texture_filtering" \in mine \/ /\ doc'[g][1].mip = doc[g][1].mip
                                                 /\ doc'[g][1].minmag = doc[g][1].minmag
<1> DEFINE mine == DOMAIN videoAsked \cup {"vsync", "variable_rate"}
           D == Video!Differing(pending, videoSaved)
<1>1. videoPc = "apply" /\ videoPc' = "reload" /\ doc' # doc
  BY DEF Video!Saves
<1>2. doc = snap /\ doc' = videoPlan
  <2>1. Video!Apply
    BY <1>1 DEF Video!Next, ofVideo, Video!Reload, Video!Poll, Video!StartReading,
         Video!Open, Video!ReadAll, Video!Reloaded, Video!Synchronized, Video!Built,
         Video!Choose, Video!ChooseUnread, Video!Save, Video!Check, Video!BeginWrite,
         Video!EndWrite, Video!Toggle, Video!Program
  <2> QED
    BY <1>1, <2>1 DEF Video!Apply
<1>3. doc' = Video!Written(doc, pending, D)
  BY <1>1, <1>2 DEF WishInv, Video!Edited
<1>4. D \subseteq mine
  BY <1>1 DEF WishInv, Reading, AlwaysOff
<1> HIDE DEF D, mine
<1>5. ASSUME NEW k \in Video!Keys \ UNION {Video!KeysOf(o) : o \in mine} PROVE doc'[k] = doc[k]
  <2>1. ASSUME k \in Video!Groups PROVE D \cap Video!Texture = {}
    <3>1. ASSUME NEW o \in D \cap Video!Texture PROVE FALSE
      <4>1. k \in Video!KeysOf(o) /\ o \in mine
        BY <1>4, <2>1, <3>1 DEF Video!KeysOf
      <4> QED
        BY <1>5, <4>1
    <3> QED
      BY <3>1
  <2>2. ASSUME k \notin Video!Groups PROVE Video!Owner[k] \notin D
    BY <1>4, <1>5, <2>2, OwnersOwn
  <2> QED
    BY <1>3, <2>1, <2>2 DEF Video!Written
<1>6. ASSUME NEW g \in Video!Groups, doc'[g] # doc[g]
      PROVE  /\ "texture_resolution" \in mine \/ doc'[g][1].bias = doc[g][1].bias
             /\ "texture_filtering" \in mine \/ /\ doc'[g][1].mip = doc[g][1].mip
                                                /\ doc'[g][1].minmag = doc[g][1].minmag
  <2>1. g \in Video!Keys
    BY DEF Video!Keys, Video!SystemKeys
  <2>2. doc'[g] = [i \in DOMAIN doc[g] |-> Video!Grouped(doc[g][i], g, pending, D)]
    BY <1>3, <1>6, <2>1 DEF Video!Written
  <2>3. 1 \in DOMAIN doc[g]
    <3>1. PICK n \in Nat \ {0} : doc[g] = [i \in 1..n |-> doc[g][i]]
      BY DEF WishInv, GroupsThere
    <3> QED
      BY <3>1
  <2>4. doc'[g][1] = Video!Grouped(doc[g][1], g, pending, D)
    BY <2>2, <2>3
  <2>5. /\ "texture_resolution" \notin D => doc'[g][1].bias = doc[g][1].bias
        /\ "texture_filtering" \notin D => /\ doc'[g][1].mip = doc[g][1].mip
                                           /\ doc'[g][1].minmag = doc[g][1].minmag
    BY <2>4 DEF Video!Grouped
  <2> QED
    BY <1>4, <2>5
<1> QED
  BY <1>5, <1>6 DEF mine

(***************************************************************************)
(* What is written is read back.                                            *)
(***************************************************************************)

LEMMA Finds ==
  ASSUME NEW e, NEW k, NEW x, e[k] = <<x>>
  PROVE  Video!Find(e, k) = x /\ (\A z : Video!Num(e, k, z) = x)
<1>1. e[k] # <<>> /\ Len(e[k]) = 1 /\ e[k][1] = x
  OBVIOUS
<1> QED
  BY <1>1 DEF Video!Find, Video!Num, Video!Last

(* A key of an option holds what the option is written as.                  *)
LEMMA KeysWritten ==
  ASSUME NEW d, NEW w, NEW D, NEW o \in Video!Options, o \in D,
         NEW k \in Video!KeysOf(o) \ Video!Groups, k \in Video!Keys
  PROVE  /\ Video!Find(Video!Written(d, w, D), k) = Video!Keyed(o, w[o])[k]
         /\ \A z : Video!Num(Video!Written(d, w, D), k, z) = Video!Keyed(o, w[o])[k]
<1>1. Video!Owner[k] = o
  BY OwnerIsOne
<1>2. Video!Written(d, w, D)[k] = <<Video!Keyed(o, w[o])[k]>>
  BY <1>1 DEF Video!Written
<1> QED
  BY <1>2, Finds

LEMMA AllKeys == Video!Keys = {"Fullscreen", "Borderless", "Res", "UseVsync",
    "ImageGrainScaler", "DetailMode",
    "Lifetime", "SkeletalMeshLODBias", "AllowSubsurfaceScattering", "DistanceFogQuality",
    "EmitterPool", "WholeSceneShadows", "MaxShadowResolution", "ShadowTexels", "Reflections",
    "PostProcessAA", "Bloom", "BloomQuality", "MotionBlur", "AmbientOcclusion", "HBAO",
    "DepthOfField", "LightCones", "LensFlares", "LightShafts", "MaxAnisotropy",
    "SmoothFrameRate", "WorldLifetime", "WorldEmitterPool", "PhysXLevel"} \cup Video!Groups
BY DEF Video!Keys, Video!SystemKeys, Video!GameKeys, Video!EngineKeys

(* What each key of an option is written as.                                *)
LEMMA FlagsKeyed ==
  ASSUME NEW v
  PROVE  /\ (Video!Keyed("vsync", v)["UseVsync"] <=> v # 0)
         /\ (Video!Keyed("reflections", v)["Reflections"] <=> v # 0)
         /\ (Video!Keyed("anti_aliasing", v)["PostProcessAA"] <=> v # 0)
         /\ (Video!Keyed("motion_blur", v)["MotionBlur"] <=> v # 0)
         /\ (Video!Keyed("depth_of_field", v)["DepthOfField"] <=> v # 0)
         /\ (Video!Keyed("volumetric", v)["LightCones"] <=> v # 0)
         /\ (Video!Keyed("lens_flares", v)["LensFlares"] <=> v # 0)
         /\ (Video!Keyed("light_shafts", v)["LightShafts"] <=> v # 0)
         /\ (Video!Keyed("variable_rate", v)["SmoothFrameRate"] <=> v = 0)
<1> USE DEF Video!Keyed, Video!Flag
<1>1. Video!Keyed("vsync", v)["UseVsync"] <=> v # 0
  OBVIOUS
<1>2. Video!Keyed("reflections", v)["Reflections"] <=> v # 0
  OBVIOUS
<1>3. Video!Keyed("anti_aliasing", v)["PostProcessAA"] <=> v # 0
  OBVIOUS
<1>4. Video!Keyed("motion_blur", v)["MotionBlur"] <=> v # 0
  OBVIOUS
<1>5. Video!Keyed("depth_of_field", v)["DepthOfField"] <=> v # 0
  OBVIOUS
<1>6. Video!Keyed("volumetric", v)["LightCones"] <=> v # 0
  OBVIOUS
<1>7. Video!Keyed("lens_flares", v)["LensFlares"] <=> v # 0
  OBVIOUS
<1>8. Video!Keyed("light_shafts", v)["LightShafts"] <=> v # 0
  OBVIOUS
<1>9. Video!Keyed("variable_rate", v)["SmoothFrameRate"] <=> v = 0
  OBVIOUS
<1> HIDE DEF Video!Keyed, Video!Flag
<1> QED
  BY <1>1, <1>2, <1>3, <1>4, <1>5, <1>6, <1>7, <1>8, <1>9

LEMMA NumbersKeyed ==
  ASSUME NEW v
  PROVE  /\ Video!Keyed("resolution", v)["Res"] = (v)
         /\ Video!Keyed("grain", v)["ImageGrainScaler"] = (50 + 37 * v)
         /\ Video!Keyed("character", v)["SkeletalMeshLODBias"] = (IF v = 0 THEN 1 ELSE 0)
         /\ Video!Keyed("shadow", v)["MaxShadowResolution"] = (IF v = 3 THEN 1536 ELSE 1024)
         /\ Video!Keyed("shadow", v)["ShadowTexels"] = (Video!Texels[v + 1])
         /\ Video!Keyed("bloom", v)["BloomQuality"] = (v)
         /\ Video!Keyed("environment", v)["DetailMode"] = (IF v < 2 THEN v ELSE 2)
         /\ Video!Keyed("environment", v)["WorldLifetime"] = (Video!Lifetime[v + 1])
         /\ Video!Keyed("fx", v)["DistanceFogQuality"] = (IF v < 2 THEN 0 ELSE 1)
         /\ Video!Keyed("fx", v)["WorldEmitterPool"] = (Video!Pool[v + 1])
         /\ Video!Keyed("texture_filtering", v)["MaxAnisotropy"] = (Video!Anisotropy[v + 1])
         /\ Video!Keyed("flex", v)["PhysXLevel"] = (v)
<1> USE DEF Video!Keyed
<1>1. Video!Keyed("resolution", v)["Res"] = (v)
  OBVIOUS
<1>2. Video!Keyed("grain", v)["ImageGrainScaler"] = (50 + 37 * v)
  OBVIOUS
<1>3. Video!Keyed("character", v)["SkeletalMeshLODBias"] = (IF v = 0 THEN 1 ELSE 0)
  OBVIOUS
<1>4. Video!Keyed("shadow", v)["MaxShadowResolution"] = (IF v = 3 THEN 1536 ELSE 1024)
  OBVIOUS
<1>5. Video!Keyed("shadow", v)["ShadowTexels"] = (Video!Texels[v + 1])
  OBVIOUS
<1>6. Video!Keyed("bloom", v)["BloomQuality"] = (v)
  OBVIOUS
<1>7. Video!Keyed("environment", v)["DetailMode"] = (IF v < 2 THEN v ELSE 2)
  OBVIOUS
<1>8. Video!Keyed("environment", v)["WorldLifetime"] = (Video!Lifetime[v + 1])
  OBVIOUS
<1>9. Video!Keyed("fx", v)["DistanceFogQuality"] = (IF v < 2 THEN 0 ELSE 1)
  OBVIOUS
<1>10. Video!Keyed("fx", v)["WorldEmitterPool"] = (Video!Pool[v + 1])
  OBVIOUS
<1>11. Video!Keyed("texture_filtering", v)["MaxAnisotropy"] = (Video!Anisotropy[v + 1])
  OBVIOUS
<1>12. Video!Keyed("flex", v)["PhysXLevel"] = (v)
  OBVIOUS
<1> HIDE DEF Video!Keyed
<1> QED
  BY <1>1, <1>2, <1>3, <1>4, <1>5, <1>6, <1>7, <1>8, <1>9, <1>10, <1>11, <1>12

LEMMA SwitchesKeyed ==
  ASSUME NEW v
  PROVE  /\ (Video!Keyed("display", v)["Fullscreen"] <=> v = 2)
         /\ (Video!Keyed("display", v)["Borderless"] <=> v = 1)
         /\ (Video!Keyed("character", v)["AllowSubsurfaceScattering"] <=> v = 2)
         /\ (Video!Keyed("shadow", v)["WholeSceneShadows"] <=> v # 0)
         /\ (Video!Keyed("bloom", v)["Bloom"] <=> v # 0)
         /\ (Video!Keyed("ambient_occlusion", v)["AmbientOcclusion"] <=> v # 0)
         /\ (Video!Keyed("ambient_occlusion", v)["HBAO"] <=> v = 2)
<1> USE DEF Video!Keyed
<1>1. Video!Keyed("display", v)["Fullscreen"] <=> v = 2
  OBVIOUS
<1>2. Video!Keyed("display", v)["Borderless"] <=> v = 1
  OBVIOUS
<1>3. Video!Keyed("character", v)["AllowSubsurfaceScattering"] <=> v = 2
  OBVIOUS
<1>4. Video!Keyed("shadow", v)["WholeSceneShadows"] <=> v # 0
  OBVIOUS
<1>5. Video!Keyed("bloom", v)["Bloom"] <=> v # 0
  OBVIOUS
<1>6. Video!Keyed("ambient_occlusion", v)["AmbientOcclusion"] <=> v # 0
  OBVIOUS
<1>7. Video!Keyed("ambient_occlusion", v)["HBAO"] <=> v = 2
  OBVIOUS
<1> HIDE DEF Video!Keyed
<1> QED
  BY <1>1, <1>2, <1>3, <1>4, <1>5, <1>6, <1>7

(* Every choice outside the texture groups is read back as it was written.  *)
LEMMA KeysReadBack ==
  ASSUME NEW d, NEW w, NEW D, NEW o \in Video!Options, o \in D, w[o] \in Video!ValuesOf(o),
         o \notin Video!Texture
  PROVE  Video!Chosen(Video!Written(d, w, D), o) = w[o]
<1> DEFINE e == Video!Written(d, w, D)
           v == w[o]
<1>1. ASSUME NEW k \in Video!KeysOf(o) \ Video!Groups, k \in Video!Keys
      PROVE  /\ Video!Find(e, k) = Video!Keyed(o, v)[k]
             /\ \A z : Video!Num(e, k, z) = Video!Keyed(o, v)[k]
             /\ Video!Is(e, k) <=> Video!Keyed(o, v)[k] = TRUE
             /\ Video!Bit(e, k) = IF Video!Keyed(o, v)[k] = TRUE THEN 1 ELSE 0
  BY <1>1, KeysWritten DEF Video!Is, Video!Bit
<1> HIDE DEF e
<1>2. w[o] = v
  OBVIOUS
<1> HIDE DEF v
<1>3. ASSUME o = "vsync" PROVE Video!Chosen(e, o) = v
  <2>1. "UseVsync" \in Video!KeysOf(o) \ Video!Groups /\ "UseVsync" \in Video!Keys
    BY <1>3, KeysOfOptions, AllKeys DEF Video!Groups
  <2>2. Video!Bit(e, "UseVsync") = IF v # 0 THEN 1 ELSE 0
    BY <1>3, <1>1, <2>1, FlagsKeyed
  <2>3. v \in {0, 1}
    BY <1>2, <1>3, Choices
  <2> QED
    BY <1>3, <2>2, <2>3 DEF Video!Chosen
<1>4. ASSUME o = "reflections" PROVE Video!Chosen(e, o) = v
  <2>1. "Reflections" \in Video!KeysOf(o) \ Video!Groups /\ "Reflections" \in Video!Keys
    BY <1>4, KeysOfOptions, AllKeys DEF Video!Groups
  <2>2. Video!Bit(e, "Reflections") = IF v # 0 THEN 1 ELSE 0
    BY <1>4, <1>1, <2>1, FlagsKeyed
  <2>3. v \in {0, 1}
    BY <1>2, <1>4, Choices
  <2> QED
    BY <1>4, <2>2, <2>3 DEF Video!Chosen
<1>5. ASSUME o = "anti_aliasing" PROVE Video!Chosen(e, o) = v
  <2>1. "PostProcessAA" \in Video!KeysOf(o) \ Video!Groups /\ "PostProcessAA" \in Video!Keys
    BY <1>5, KeysOfOptions, AllKeys DEF Video!Groups
  <2>2. Video!Bit(e, "PostProcessAA") = IF v # 0 THEN 1 ELSE 0
    BY <1>5, <1>1, <2>1, FlagsKeyed
  <2>3. v \in {0, 1}
    BY <1>2, <1>5, Choices
  <2> QED
    BY <1>5, <2>2, <2>3 DEF Video!Chosen
<1>6. ASSUME o = "motion_blur" PROVE Video!Chosen(e, o) = v
  <2>1. "MotionBlur" \in Video!KeysOf(o) \ Video!Groups /\ "MotionBlur" \in Video!Keys
    BY <1>6, KeysOfOptions, AllKeys DEF Video!Groups
  <2>2. Video!Bit(e, "MotionBlur") = IF v # 0 THEN 1 ELSE 0
    BY <1>6, <1>1, <2>1, FlagsKeyed
  <2>3. v \in {0, 1}
    BY <1>2, <1>6, Choices
  <2> QED
    BY <1>6, <2>2, <2>3 DEF Video!Chosen
<1>7. ASSUME o = "depth_of_field" PROVE Video!Chosen(e, o) = v
  <2>1. "DepthOfField" \in Video!KeysOf(o) \ Video!Groups /\ "DepthOfField" \in Video!Keys
    BY <1>7, KeysOfOptions, AllKeys DEF Video!Groups
  <2>2. Video!Bit(e, "DepthOfField") = IF v # 0 THEN 1 ELSE 0
    BY <1>7, <1>1, <2>1, FlagsKeyed
  <2>3. v \in {0, 1}
    BY <1>2, <1>7, Choices
  <2> QED
    BY <1>7, <2>2, <2>3 DEF Video!Chosen
<1>8. ASSUME o = "volumetric" PROVE Video!Chosen(e, o) = v
  <2>1. "LightCones" \in Video!KeysOf(o) \ Video!Groups /\ "LightCones" \in Video!Keys
    BY <1>8, KeysOfOptions, AllKeys DEF Video!Groups
  <2>2. Video!Bit(e, "LightCones") = IF v # 0 THEN 1 ELSE 0
    BY <1>8, <1>1, <2>1, FlagsKeyed
  <2>3. v \in {0, 1}
    BY <1>2, <1>8, Choices
  <2> QED
    BY <1>8, <2>2, <2>3 DEF Video!Chosen
<1>9. ASSUME o = "lens_flares" PROVE Video!Chosen(e, o) = v
  <2>1. "LensFlares" \in Video!KeysOf(o) \ Video!Groups /\ "LensFlares" \in Video!Keys
    BY <1>9, KeysOfOptions, AllKeys DEF Video!Groups
  <2>2. Video!Bit(e, "LensFlares") = IF v # 0 THEN 1 ELSE 0
    BY <1>9, <1>1, <2>1, FlagsKeyed
  <2>3. v \in {0, 1}
    BY <1>2, <1>9, Choices
  <2> QED
    BY <1>9, <2>2, <2>3 DEF Video!Chosen
<1>10. ASSUME o = "light_shafts" PROVE Video!Chosen(e, o) = v
  <2>1. "LightShafts" \in Video!KeysOf(o) \ Video!Groups /\ "LightShafts" \in Video!Keys
    BY <1>10, KeysOfOptions, AllKeys DEF Video!Groups
  <2>2. Video!Bit(e, "LightShafts") = IF v # 0 THEN 1 ELSE 0
    BY <1>10, <1>1, <2>1, FlagsKeyed
  <2>3. v \in {0, 1}
    BY <1>2, <1>10, Choices
  <2> QED
    BY <1>10, <2>2, <2>3 DEF Video!Chosen
<1>11. ASSUME o = "variable_rate" PROVE Video!Chosen(e, o) = v
  <2>1. "SmoothFrameRate" \in Video!KeysOf(o) \ Video!Groups /\ "SmoothFrameRate" \in Video!Keys
    BY <1>11, KeysOfOptions, AllKeys DEF Video!Groups
  <2>2. Video!Bit(e, "SmoothFrameRate") = IF v = 0 THEN 1 ELSE 0
    BY <1>11, <1>1, <2>1, FlagsKeyed
  <2>3. v \in {0, 1}
    BY <1>2, <1>11, Choices
  <2> QED
    BY <1>11, <2>2, <2>3 DEF Video!Chosen
<1>12. ASSUME o = "display" PROVE Video!Chosen(e, o) = v
  <2>1. /\ {"Fullscreen", "Borderless"} \subseteq Video!KeysOf(o) \ Video!Groups
        /\ {"Fullscreen", "Borderless"} \subseteq Video!Keys
    BY <1>12, KeysOfOptions, AllKeys DEF Video!Groups
  <2>2. Video!Is(e, "Fullscreen") <=> v = 2
    BY <1>12, <1>1, <2>1, SwitchesKeyed
  <2>3. Video!Is(e, "Borderless") <=> v = 1
    BY <1>12, <1>1, <2>1, SwitchesKeyed
  <2>4. v \in 0..2
    BY <1>2, <1>12, Choices
  <2> QED
    BY <1>12, <2>2, <2>3, <2>4 DEF Video!Chosen, Video!Bit
<1>13. ASSUME o = "resolution" PROVE Video!Chosen(e, o) = v
  <2>1. /\ {"Res"} \subseteq Video!KeysOf(o) \ Video!Groups
        /\ {"Res"} \subseteq Video!Keys
    BY <1>13, KeysOfOptions, AllKeys DEF Video!Groups
  <2>2. \A z : Video!Num(e, "Res", z) = (v)
    <3>1. Video!Keyed("resolution", v)["Res"] = (v)
      BY NumbersKeyed
    <3>2. \A z : Video!Num(e, "Res", z) = Video!Keyed(o, v)["Res"]
      BY <1>1, <2>1
    <3> QED
      BY <1>13, <3>1, <3>2
  <2>3. v \in {1280, 1920, 2560}
    BY <1>2, <1>13, Choices
  <2> QED
    BY <1>13, <2>2, <2>3 DEF Video!Chosen, Video!Bit
<1>14. ASSUME o = "grain" PROVE Video!Chosen(e, o) = v
  <2>1. /\ {"ImageGrainScaler"} \subseteq Video!KeysOf(o) \ Video!Groups
        /\ {"ImageGrainScaler"} \subseteq Video!Keys
    BY <1>14, KeysOfOptions, AllKeys DEF Video!Groups
  <2>2. \A z : Video!Num(e, "ImageGrainScaler", z) = (50 + 37 * v)
    <3>1. Video!Keyed("grain", v)["ImageGrainScaler"] = (50 + 37 * v)
      BY NumbersKeyed
    <3>2. \A z : Video!Num(e, "ImageGrainScaler", z) = Video!Keyed(o, v)["ImageGrainScaler"]
      BY <1>1, <2>1
    <3> QED
      BY <1>14, <3>1, <3>2
  <2>3. v \in {0, 50, 99, 100}
    BY <1>2, <1>14, Choices
  <2> QED
    BY <1>14, <2>2, <2>3 DEF Video!Chosen, Video!Bit, Video!Clamped
<1>15. ASSUME o = "character" PROVE Video!Chosen(e, o) = v
  <2>1. /\ {"SkeletalMeshLODBias", "AllowSubsurfaceScattering"} \subseteq Video!KeysOf(o) \ Video!Groups
        /\ {"SkeletalMeshLODBias", "AllowSubsurfaceScattering"} \subseteq Video!Keys
    BY <1>15, KeysOfOptions, AllKeys DEF Video!Groups
  <2>2. \A z : Video!Num(e, "SkeletalMeshLODBias", z) = (IF v = 0 THEN 1 ELSE 0)
    <3>1. Video!Keyed("character", v)["SkeletalMeshLODBias"] = (IF v = 0 THEN 1 ELSE 0)
      BY NumbersKeyed
    <3>2. \A z : Video!Num(e, "SkeletalMeshLODBias", z) = Video!Keyed(o, v)["SkeletalMeshLODBias"]
      BY <1>1, <2>1
    <3> QED
      BY <1>15, <3>1, <3>2
  <2>3. Video!Is(e, "AllowSubsurfaceScattering") <=> v = 2
    BY <1>15, <1>1, <2>1, SwitchesKeyed
  <2>4. v \in 0..2
    BY <1>2, <1>15, Choices
  <2> QED
    BY <1>15, <2>2, <2>3, <2>4 DEF Video!Chosen, Video!Bit
<1>16. ASSUME o = "shadow" PROVE Video!Chosen(e, o) = v
  <2>1. /\ {"WholeSceneShadows", "MaxShadowResolution", "ShadowTexels"} \subseteq Video!KeysOf(o) \ Video!Groups
        /\ {"WholeSceneShadows", "MaxShadowResolution", "ShadowTexels"} \subseteq Video!Keys
    BY <1>16, KeysOfOptions, AllKeys DEF Video!Groups
  <2>2. Video!Is(e, "WholeSceneShadows") <=> v # 0
    BY <1>16, <1>1, <2>1, SwitchesKeyed
  <2>3. \A z : Video!Num(e, "MaxShadowResolution", z) = (IF v = 3 THEN 1536 ELSE 1024)
    <3>1. Video!Keyed("shadow", v)["MaxShadowResolution"] = (IF v = 3 THEN 1536 ELSE 1024)
      BY NumbersKeyed
    <3>2. \A z : Video!Num(e, "MaxShadowResolution", z) = Video!Keyed(o, v)["MaxShadowResolution"]
      BY <1>1, <2>1
    <3> QED
      BY <1>16, <3>1, <3>2
  <2>4. \A z : Video!Num(e, "ShadowTexels", z) = (Video!Texels[v + 1])
    <3>1. Video!Keyed("shadow", v)["ShadowTexels"] = (Video!Texels[v + 1])
      BY NumbersKeyed
    <3>2. \A z : Video!Num(e, "ShadowTexels", z) = Video!Keyed(o, v)["ShadowTexels"]
      BY <1>1, <2>1
    <3> QED
      BY <1>16, <3>1, <3>2
  <2>5. v \in 0..3
    BY <1>2, <1>16, Choices
  <2> QED
    BY <1>16, <2>2, <2>3, <2>4, <2>5 DEF Video!Chosen, Video!Bit, Video!Shadow,
         Video!Texels
<1>17. ASSUME o = "bloom" PROVE Video!Chosen(e, o) = v
  <2>1. /\ {"Bloom", "BloomQuality"} \subseteq Video!KeysOf(o) \ Video!Groups
        /\ {"Bloom", "BloomQuality"} \subseteq Video!Keys
    BY <1>17, KeysOfOptions, AllKeys DEF Video!Groups
  <2>2. Video!Is(e, "Bloom") <=> v # 0
    BY <1>17, <1>1, <2>1, SwitchesKeyed
  <2>3. \A z : Video!Num(e, "BloomQuality", z) = (v)
    <3>1. Video!Keyed("bloom", v)["BloomQuality"] = (v)
      BY NumbersKeyed
    <3>2. \A z : Video!Num(e, "BloomQuality", z) = Video!Keyed(o, v)["BloomQuality"]
      BY <1>1, <2>1
    <3> QED
      BY <1>17, <3>1, <3>2
  <2>4. v \in 0..2
    BY <1>2, <1>17, Choices
  <2> QED
    BY <1>17, <2>2, <2>3, <2>4 DEF Video!Chosen, Video!Bit, Video!Clamped
<1>18. ASSUME o = "ambient_occlusion" PROVE Video!Chosen(e, o) = v
  <2>1. /\ {"AmbientOcclusion", "HBAO"} \subseteq Video!KeysOf(o) \ Video!Groups
        /\ {"AmbientOcclusion", "HBAO"} \subseteq Video!Keys
    BY <1>18, KeysOfOptions, AllKeys DEF Video!Groups
  <2>2. Video!Is(e, "AmbientOcclusion") <=> v # 0
    BY <1>18, <1>1, <2>1, SwitchesKeyed
  <2>3. Video!Is(e, "HBAO") <=> v = 2
    BY <1>18, <1>1, <2>1, SwitchesKeyed
  <2>4. v \in 0..2
    BY <1>2, <1>18, Choices
  <2> QED
    BY <1>18, <2>2, <2>3, <2>4 DEF Video!Chosen, Video!Bit
<1>19. ASSUME o = "environment" PROVE Video!Chosen(e, o) = v
  <2>1. /\ {"DetailMode", "WorldLifetime"} \subseteq Video!KeysOf(o) \ Video!Groups
        /\ {"DetailMode", "WorldLifetime"} \subseteq Video!Keys
    BY <1>19, KeysOfOptions, AllKeys DEF Video!Groups
  <2>2. \A z : Video!Num(e, "DetailMode", z) = (IF v < 2 THEN v ELSE 2)
    <3>1. Video!Keyed("environment", v)["DetailMode"] = (IF v < 2 THEN v ELSE 2)
      BY NumbersKeyed
    <3>2. \A z : Video!Num(e, "DetailMode", z) = Video!Keyed(o, v)["DetailMode"]
      BY <1>1, <2>1
    <3> QED
      BY <1>19, <3>1, <3>2
  <2>3. \A z : Video!Num(e, "WorldLifetime", z) = (Video!Lifetime[v + 1])
    <3>1. Video!Keyed("environment", v)["WorldLifetime"] = (Video!Lifetime[v + 1])
      BY NumbersKeyed
    <3>2. \A z : Video!Num(e, "WorldLifetime", z) = Video!Keyed(o, v)["WorldLifetime"]
      BY <1>1, <2>1
    <3> QED
      BY <1>19, <3>1, <3>2
  <2>4. v \in 0..3
    BY <1>2, <1>19, Choices
  <2> QED
    BY <1>19, <2>2, <2>3, <2>4 DEF Video!Chosen, Video!Bit, Video!Environment,
         Video!Lifetime
<1>20. ASSUME o = "fx" PROVE Video!Chosen(e, o) = v
  <2>1. /\ {"DistanceFogQuality", "WorldEmitterPool"} \subseteq Video!KeysOf(o) \ Video!Groups
        /\ {"DistanceFogQuality", "WorldEmitterPool"} \subseteq Video!Keys
    BY <1>20, KeysOfOptions, AllKeys DEF Video!Groups
  <2>2. \A z : Video!Num(e, "DistanceFogQuality", z) = (IF v < 2 THEN 0 ELSE 1)
    <3>1. Video!Keyed("fx", v)["DistanceFogQuality"] = (IF v < 2 THEN 0 ELSE 1)
      BY NumbersKeyed
    <3>2. \A z : Video!Num(e, "DistanceFogQuality", z) = Video!Keyed(o, v)["DistanceFogQuality"]
      BY <1>1, <2>1
    <3> QED
      BY <1>20, <3>1, <3>2
  <2>3. \A z : Video!Num(e, "WorldEmitterPool", z) = (Video!Pool[v + 1])
    <3>1. Video!Keyed("fx", v)["WorldEmitterPool"] = (Video!Pool[v + 1])
      BY NumbersKeyed
    <3>2. \A z : Video!Num(e, "WorldEmitterPool", z) = Video!Keyed(o, v)["WorldEmitterPool"]
      BY <1>1, <2>1
    <3> QED
      BY <1>20, <3>1, <3>2
  <2>4. v \in 0..3
    BY <1>2, <1>20, Choices
  <2> QED
    BY <1>20, <2>2, <2>3, <2>4 DEF Video!Chosen, Video!Bit, Video!Fx, Video!Pool
<1>21. ASSUME o = "flex" PROVE Video!Chosen(e, o) = v
  <2>1. /\ {"PhysXLevel"} \subseteq Video!KeysOf(o) \ Video!Groups
        /\ {"PhysXLevel"} \subseteq Video!Keys
    BY <1>21, KeysOfOptions, AllKeys DEF Video!Groups
  <2>2. Video!Find(e, "PhysXLevel") = v
    <3>1. Video!Keyed("flex", v)["PhysXLevel"] = v
      BY NumbersKeyed
    <3>2. Video!Find(e, "PhysXLevel") = Video!Keyed(o, v)["PhysXLevel"]
      BY <1>1, <2>1
    <3> QED
      BY <1>21, <3>1, <3>2
  <2>3. v \in 0..2
    BY <1>2, <1>21, Choices
  <2> QED
    BY <1>21, <2>2, <2>3 DEF Video!Chosen, Video!Bit
<1>90. Video!Chosen(e, o) = v
  BY <1>3, <1>4, <1>5, <1>6, <1>7, <1>8, <1>9, <1>10, <1>11, <1>12, <1>13, <1>14,
       <1>15, <1>16, <1>17, <1>18, <1>19, <1>20, <1>21, Choices DEF Video!Texture
<1> QED
  BY <1>90, <1>2 DEF e

(* A texture group with one line, that is a tuple, stands for what was      *)
(* written there.                                                           *)
OneTuple(d, g) == d[g] = [i \in 1..1 |-> d[g][i]] /\ d[g][1] \in Video!Tuples

LEMMA GroupedIsTuple ==
  ASSUME NEW t \in Video!Tuples, NEW g \in Video!Groups, NEW w, NEW D,
         \A x \in D \cap Video!Texture : w[x] \in 0..3
  PROVE  Video!Grouped(t, g, w, D) \in Video!Tuples
<1>1. "texture_resolution" \in D => Video!Bias(g)[w["texture_resolution"] + 1] \in 0..3
  BY DEF Video!Texture, Video!Bias
<1>2. "texture_filtering" \in D => /\ Video!MinMag[w["texture_filtering"] + 1] \in {"linear", "aniso"}
                                   /\ Video!Mip(g)[w["texture_filtering"] + 1] \in {"point", "linear"}
  BY DEF Video!Texture, Video!MinMag, Video!Mip
<1> QED
  BY <1>1, <1>2 DEF Video!Tuples, Video!Grouped

LEMMA GroupReadBack ==
  ASSUME Video!VideoAssumption, NEW d, NEW w, NEW D, NEW g \in Video!Groups, OneTuple(d, g),
         D \cap Video!Texture # {}, \A x \in D \cap Video!Texture : w[x] \in 0..3
  PROVE  LET e == Video!Written(d, w, D)
         IN  /\ Video!Find(e, g) # Odd
             /\ "texture_resolution" \in D =>
                   Video!Find(e, g).bias = Video!Bias(g)[w["texture_resolution"] + 1]
             /\ "texture_filtering" \in D =>
                   /\ Video!Find(e, g).minmag = Video!MinMag[w["texture_filtering"] + 1]
                   /\ Video!Find(e, g).mip = Video!Mip(g)[w["texture_filtering"] + 1]
<1> DEFINE e == Video!Written(d, w, D)
           t == d[g][1]
           u == Video!Grouped(t, g, w, D)
<1>1. d[g] # <<>> /\ Len(d[g]) = 1 /\ DOMAIN d[g] = 1..1 /\ d[g][Len(d[g])] = t
  BY DEF OneTuple
<1>2. Video!Find(d, g) # Odd
  BY <1>1 DEF OneTuple, Video!Find, Video!Last, Video!VideoAssumption
<1>3. e[g] = [i \in 1..1 |-> Video!Grouped(d[g][i], g, w, D)]
  BY <1>1, <1>2 DEF Video!Written, Video!Keys, Video!SystemKeys
<1>4. Video!Find(e, g) = u
  <2>1. e[g] # <<>> /\ Len(e[g]) = 1 /\ e[g][1] = u
    BY <1>3
  <2> QED
    BY <2>1 DEF Video!Find, Video!Last
<1>5. u \in Video!Tuples
  BY GroupedIsTuple DEF OneTuple
<1>6. u # Odd
  BY <1>5 DEF Video!VideoAssumption
<1> QED
  BY <1>4, <1>6 DEF Video!Grouped

LEMMA Levels ==
  ASSUME NEW n \in 1..4 PROVE Video!FirstLevel({n}) = n - 1
<1>1. {n} # {} /\ (CHOOSE i \in {n} : \A j \in {n} : i <= j) = n
  OBVIOUS
<1> QED
  BY <1>1 DEF Video!FirstLevel

LEMMA TexturesReadBack ==
  ASSUME Video!VideoAssumption, NEW d, NEW w, NEW D, NEW o \in D \cap Video!Texture,
         \A g \in Video!Groups : OneTuple(d, g), \A x \in D \cap Video!Texture : w[x] \in 0..3
  PROVE  Video!Chosen(Video!Written(d, w, D), o) = w[o]
<1> DEFINE e == Video!Written(d, w, D)
           v == w[o]
<1>1. v \in 0..3
  OBVIOUS
<1>2. CASE o = "texture_resolution"
  <2> DEFINE S == {i \in 1..4 : \A g \in Video!Groups : Video!TupleIs(e, g, Video!Bias(g)[i])}
  <2>1. \A g \in Video!Groups : /\ Video!Find(e, g) # Odd
                                /\ Video!Find(e, g).bias = Video!Bias(g)[v + 1]
    <3>1. /\ "texture_resolution" \in D /\ D \cap Video!Texture # {}
          /\ v = w["texture_resolution"]
      BY <1>2 DEF v
    <3> HIDE DEF v
    <3> SUFFICES ASSUME NEW g \in Video!Groups
                 PROVE  /\ Video!Find(e, g) # Odd
                        /\ Video!Find(e, g).bias = Video!Bias(g)[v + 1]
      OBVIOUS
    <3> QED
      BY <3>1, GroupReadBack DEF e
  <2> HIDE DEF e, v
  <2>2. \A i \in 1..4 : Video!Bias("Character")[i] = Video!Bias("Character")[v + 1] => i = v + 1
    BY <1>1 DEF Video!Bias
  <2>3. S = {v + 1}
    BY <1>1, <2>1, <2>2 DEF Video!TupleIs, Video!Groups
  <2>4. Video!Chosen(e, o) = Video!FirstLevel(S)
    BY <1>2 DEF Video!Chosen, Video!TextureResolution
  <2> HIDE DEF S
  <2>5. Video!Chosen(e, o) = v
    <3>1. v + 1 \in 1..4 /\ (v + 1) - 1 = v
      BY <1>1
    <3> QED
      BY <2>3, <2>4, <3>1, Levels
  <2> QED
    BY <2>5 DEF e, v
<1>3. CASE o = "texture_filtering"
  <2> DEFINE known == {i \in 1..4 : Video!Anisotropy[i] = Video!Anisotropy[v + 1]}
             S == {i \in known : \A g \in Video!Groups : Video!FilterIs(e, g, i)}
  <2>1. \A g \in Video!Groups : /\ Video!Find(e, g) # Odd
                                /\ Video!Find(e, g).minmag = Video!MinMag[v + 1]
                                /\ Video!Find(e, g).mip = Video!Mip(g)[v + 1]
    <3>1. "texture_filtering" \in D /\ D \cap Video!Texture # {} /\ v = w["texture_filtering"]
      BY <1>3 DEF v
    <3> HIDE DEF v
    <3> SUFFICES ASSUME NEW g \in Video!Groups
                 PROVE  /\ Video!Find(e, g) # Odd
                        /\ Video!Find(e, g).minmag = Video!MinMag[v + 1]
                        /\ Video!Find(e, g).mip = Video!Mip(g)[v + 1]
      OBVIOUS
    <3> QED
      BY <3>1, GroupReadBack DEF e
  <2>2. Video!Num(e, "MaxAnisotropy", 16) = Video!Anisotropy[v + 1]
    <3>1. "MaxAnisotropy" \in Video!KeysOf(o) \ Video!Groups /\ "MaxAnisotropy" \in Video!Keys
      BY <1>3, KeysOfOptions, AllKeys DEF Video!Groups
    <3>2. Video!Num(e, "MaxAnisotropy", 16) = Video!Keyed(o, v)["MaxAnisotropy"]
      BY <1>3, <3>1, KeysWritten, Choices
    <3> QED
      BY <1>3, <3>2, NumbersKeyed
  <2> HIDE DEF e, v
  <2>3. \A i \in 1..4 :
           (Video!Anisotropy[i] = Video!Anisotropy[v + 1]
              /\ Video!Mip("Character")[i] = Video!Mip("Character")[v + 1]) => i = v + 1
    BY <1>1 DEF Video!Anisotropy, Video!Mip
  <2>4. S = {v + 1} /\ known # {}
    BY <1>1, <2>1, <2>3 DEF Video!FilterIs, Video!Groups
  <2>5. Video!Chosen(e, o) = Video!FirstLevel(S)
    BY <1>3, <2>2, <2>4 DEF Video!Chosen, Video!TextureFiltering
  <2> HIDE DEF S
  <2>6. Video!Chosen(e, o) = v
    <3>1. v + 1 \in 1..4 /\ (v + 1) - 1 = v
      BY <1>1
    <3> QED
      BY <2>4, <2>5, <3>1, Levels
  <2> QED
    BY <2>6 DEF e, v
<1> QED
  BY <1>2, <1>3 DEF Video!Texture

(* The lines of a texture group are all tuples, or the group is spoilt.     *)
AllTuples(l) == (\A i \in DOMAIN l : l[i] \in Video!Tuples) \/ (\A i \in DOMAIN l : l[i] = Odd)
TuplesInv == \A g \in Video!Groups : AllTuples(doc[g])

LEMMA TuplesStart == Video!Init => TuplesInv
<1> SUFFICES ASSUME Video!Init, NEW g \in Video!Groups PROVE AllTuples(doc[g])
  BY DEF TuplesInv
<1> DEFINE t == [bias |-> 0, minmag |-> "linear", mip |-> "linear"]
           medium == Video!WithPreset([o \in Video!Options |-> IF o = "resolution" THEN 1920 ELSE 0], 1)
<1>1. t \in Video!Tuples
  BY DEF Video!Tuples
<1>2. \/ doc[g] = <<t>>
      \/ doc[g] = [i \in DOMAIN <<t>> |-> Video!Grouped(<<t>>[i], g, medium, Video!Options)]
  BY DEF Video!Init, Video!Medium, Video!Written, Video!Groups, Video!Keys,
       Video!SystemKeys
<1>3. \A o \in Video!Texture : medium[o] \in 0..3
  <2>1. ASSUME NEW o \in Video!Texture PROVE medium[o] = 1
    BY <2>1 DEF Video!Texture, Video!WithPreset, Video!Preset, Video!Presets,
         Video!PresetOptions, Video!Options, Video!Listed, Video!Count
  <2> QED
    BY <2>1
<1> HIDE DEF medium
<1>4. Video!Grouped(t, g, medium, Video!Options) \in Video!Tuples
  BY <1>1, <1>3, GroupedIsTuple DEF Video!Texture
<1> QED
  BY <1>1, <1>2, <1>4 DEF AllTuples

LEMMA TuplesWritten ==
  ASSUME Video!VideoAssumption, NEW d, NEW w, NEW D, NEW g \in Video!Groups, AllTuples(d[g]),
         NEW n \in Nat \ {0}, d[g] = [i \in 1..n |-> d[g][i]],
         \A x \in D \cap Video!Texture : w[x] \in 0..3
  PROVE  AllTuples(Video!Written(d, w, D)[g])
<1> DEFINE e == Video!Written(d, w, D)[g]
<1>1. CASE e = d[g]
  BY <1>1
<1>2. CASE e # d[g]
  <2>1. Video!Find(d, g) # Odd /\ e = [i \in DOMAIN d[g] |-> Video!Grouped(d[g][i], g, w, D)]
    BY <1>2 DEF Video!Written, Video!Groups, Video!Keys, Video!SystemKeys
  <2>2. Len(d[g]) = n /\ d[g] # <<>> /\ n \in DOMAIN d[g] /\ Video!Find(d, g) = d[g][n]
    <3>1. Len(d[g]) = n /\ d[g] # <<>> /\ n \in DOMAIN d[g]
      OBVIOUS
    <3> QED
      BY <3>1 DEF Video!Find, Video!Last
  <2>3. \A i \in DOMAIN d[g] : d[g][i] \in Video!Tuples
    BY <2>1, <2>2 DEF AllTuples
  <2>4. \A i \in DOMAIN d[g] : Video!Grouped(d[g][i], g, w, D) \in Video!Tuples
    BY <2>3, GroupedIsTuple
  <2>5. DOMAIN e = DOMAIN d[g] /\ \A i \in DOMAIN d[g] : e[i] = Video!Grouped(d[g][i], g, w, D)
    BY <2>1
  <2> HIDE DEF e
  <2>6. AllTuples(e)
    BY <2>4, <2>5 DEF AllTuples
  <2> QED
    BY <2>6 DEF e
<1> QED
  BY <1>1, <1>2

LEMMA TuplesRepeated ==
  ASSUME NEW l, NEW n \in Nat \ {0}, l = [i \in 1..n |-> l[i]], AllTuples(l)
  PROVE  AllTuples(l \o l)
<1> DEFINE S == {l[i] : i \in 1..n}
           r == l \o l
<1>1. l \in Seq(S) /\ Len(l) = n /\ DOMAIN l = 1..n
  OBVIOUS
<1>2. S \subseteq Video!Tuples \/ S \subseteq {Odd}
  BY <1>1 DEF AllTuples
<1> HIDE DEF S
<1>3. r \in Seq(S)
  BY <1>1, ConcatProperties
<1> HIDE DEF r
<1>4. \A i \in DOMAIN r : r[i] \in S
  BY <1>3
<1>5. AllTuples(r)
  BY <1>2, <1>4 DEF AllTuples
<1> QED
  BY <1>5 DEF r

LEMMA TuplesStep ==
  ASSUME Video!VideoAssumption, VideoInv, WishInv, TuplesInv, [Video!Next]_ofVideo
  PROVE  TuplesInv'
<1>1. CASE doc' = doc
  BY <1>1 DEF TuplesInv
<1>2. CASE doc' # doc
  <2> SUFFICES ASSUME NEW g \in Video!Groups PROVE AllTuples(doc'[g])
    BY DEF TuplesInv
  <2>1. AllTuples(doc[g]) /\ g \in Video!Keys /\ IsDocument(doc)
    BY DEF TuplesInv, VideoInv, Video!Keys, Video!SystemKeys
  <2>2. PICK n \in Nat \ {0} : doc[g] = [i \in 1..n |-> doc[g][i]]
    BY DEF WishInv, GroupsThere
  <2>3. ASSUME NEW w, NEW D, \A x \in D \cap Video!Texture : w[x] \in 0..3
        PROVE  AllTuples(Video!Written(doc, w, D)[g])
    BY <2>1, <2>2, <2>3, TuplesWritten
  <2>4. CASE Video!Apply
    <3> DEFINE D == Video!Differing(pending, videoSaved)
    <3>1. videoPc = "apply" /\ doc = snap /\ doc' = videoPlan
      BY <1>2, <2>4 DEF Video!Apply
    <3>2. doc' = Video!Written(doc, pending, D)
      BY <3>1 DEF WishInv, Video!Edited
    <3>3. D \subseteq DOMAIN videoAsked \cup AlwaysOff /\ AskedIsWanted(videoAsked, pending, videoSaved)
      BY <3>1 DEF WishInv, Reading
    <3> HIDE DEF D
    <3>4. ASSUME NEW x \in D \cap Video!Texture PROVE pending[x] \in 0..3
      <4>1. x \in DOMAIN videoAsked
        BY <3>3 DEF Video!Texture, AlwaysOff
      <4>2. pending[x] \in Video!ValuesOf(x)
        BY <3>3, <4>1 DEF AskedIsWanted
      <4> QED
        BY <4>2, Choices DEF Video!Texture
    <3> QED
      BY <2>3, <3>2, <3>4
  <2>5. CASE \E o \in menu \cap Video!Options : Video!EndWrite(o)
    <3>1. PICK o \in menu \cap Video!Options : Video!EndWrite(o)
      BY <2>5
    <3> DEFINE here == {k \in Video!KeysOf(o) : Video!FileOf(k) = writing}
    <3>2. \/ \E v \in Video!ValuesOf(o) :
               doc' = [k \in Video!Keys |->
                         IF k \in here THEN Video!Written(doc, [x \in {o} |-> v], {o})[k] ELSE doc[k]]
          \/ \E k \in here : doc' \in {[doc EXCEPT ![k] = <<Odd>>], [doc EXCEPT ![k] = @ \o @]}
          \/ \E k \in here \ Video!Groups : doc' = [doc EXCEPT ![k] = <<>>]
      BY <3>1 DEF Video!EndWrite
    <3> HIDE DEF here
    <3>3. CASE \E v \in Video!ValuesOf(o) :
               doc' = [k \in Video!Keys |->
                         IF k \in here THEN Video!Written(doc, [x \in {o} |-> v], {o})[k] ELSE doc[k]]
      <4>1. PICK v \in Video!ValuesOf(o) :
               doc' = [k \in Video!Keys |->
                         IF k \in here THEN Video!Written(doc, [x \in {o} |-> v], {o})[k] ELSE doc[k]]
        BY <3>3
      <4> DEFINE w == [x \in {o} |-> v]
      <4>2. \A x \in {o} \cap Video!Texture : w[x] \in 0..3
        BY Choices DEF Video!Texture
      <4>3. doc'[g] = doc[g] \/ doc'[g] = Video!Written(doc, w, {o})[g]
        BY <2>1, <4>1
      <4> HIDE DEF w
      <4>4. AllTuples(Video!Written(doc, w, {o})[g])
        BY <2>3, <4>2
      <4> QED
        BY <2>1, <4>3, <4>4
    <3>4. ASSUME NEW k, NEW w, doc' = [doc EXCEPT ![k] = w]
          PROVE  doc'[g] = doc[g] \/ (k = g /\ doc'[g] = w)
      BY <2>1, <3>4 DEF IsDocument
    <3>5. CASE \E k \in here : doc' \in {[doc EXCEPT ![k] = <<Odd>>], [doc EXCEPT ![k] = @ \o @]}
      <4>1. PICK k \in here : \/ doc' = [doc EXCEPT ![k] = <<Odd>>]
                             \/ doc' = [doc EXCEPT ![k] = doc[k] \o doc[k]]
        BY <3>5
      <4>2. doc'[g] = doc[g] \/ doc'[g] = <<Odd>> \/ doc'[g] = doc[g] \o doc[g]
        BY <3>4, <4>1
      <4>3. AllTuples(<<Odd>>)
        BY DEF AllTuples
      <4>4. AllTuples(doc[g] \o doc[g])
        BY <2>1, <2>2, TuplesRepeated
      <4> QED
        BY <2>1, <4>2, <4>3, <4>4
    <3>6. CASE \E k \in here \ Video!Groups : doc' = [doc EXCEPT ![k] = <<>>]
      <4>1. PICK k \in here \ Video!Groups : doc' = [doc EXCEPT ![k] = <<>>]
        BY <3>6
      <4>2. k # g
        OBVIOUS
      <4> QED
        BY <2>1, <3>4, <4>1, <4>2
    <3> QED
      BY <3>2, <3>3, <3>5, <3>6
  <2>6. Video!Apply \/ (\E o \in menu \cap Video!Options : Video!EndWrite(o))
    BY <1>2 DEF Video!Next, ofVideo, Video!Reload, Video!Poll, Video!StartReading,
         Video!Open, Video!Unread, Video!ReadAll, Video!Reloaded, Video!Synchronized,
         Video!Built, Video!Choose, Video!disk, Video!ChooseUnread, Video!Save,
         Video!Check, Video!BeginWrite, Video!Toggle
  <2> QED
    BY <2>4, <2>5, <2>6
<1> QED
  BY <1>1, <1>2

(* A save is read back as what was asked for.                               *)
LEMMA VideoSavedIsAsked ==
  ASSUME Video!VideoAssumption, VideoInv, WishInv, TuplesInv, [Video!Next]_ofVideo, Video!Saves,
         NEW o \in DOMAIN videoAsked
  PROVE  Video!Chosen(doc', o) = videoAsked[o]
<1> DEFINE D == Video!Differing(pending, videoSaved)
<1>1. videoPc = "apply" /\ videoPc' = "reload" /\ doc' # doc
  BY DEF Video!Saves
<1>2. doc = snap /\ doc' = videoPlan
  <2>1. Video!Apply
    BY <1>1 DEF Video!Next, ofVideo, Video!Reload, Video!Poll, Video!StartReading,
         Video!Open, Video!ReadAll, Video!Reloaded, Video!Synchronized, Video!Built,
         Video!Choose, Video!ChooseUnread, Video!Save, Video!Check, Video!BeginWrite,
         Video!EndWrite, Video!Toggle, Video!Program
  <2> QED
    BY <1>1, <2>1 DEF Video!Apply
<1>3. doc' = Video!Written(doc, pending, D) /\ Video!Editable(doc, pending, videoSaved)
  BY <1>1, <1>2 DEF WishInv, Video!Edited
<1>4. AskedIsWanted(videoAsked, pending, videoSaved) /\ D \subseteq DOMAIN videoAsked \cup AlwaysOff
  BY <1>1 DEF WishInv, Reading
<1>5. /\ o \in Video!Options /\ o \in D /\ pending[o] = videoAsked[o] /\ pending[o] \in Video!ValuesOf(o)
  BY <1>4 DEF AskedIsWanted, Video!Differing
<1>6. ASSUME o \in Video!Texture, NEW g \in Video!Groups PROVE OneTuple(doc, g)
  <2>1. g \in Video!KeysOf(o)
    BY <1>6 DEF Video!KeysOf
  <2>2. Len(doc[g]) <= 1 /\ Video!Find(doc, g) # Odd
    BY <1>3, <1>5, <2>1 DEF Video!Editable
  <2>3. PICK n \in Nat \ {0} : doc[g] = [i \in 1..n |-> doc[g][i]]
    BY DEF WishInv, GroupsThere
  <2>4. n = 1 /\ Len(doc[g]) = 1 /\ DOMAIN doc[g] = 1..1 /\ doc[g] # <<>>
    BY <2>2, <2>3
  <2>5. doc[g][1] # Odd
    BY <2>2, <2>4 DEF Video!Find, Video!Last
  <2>6. AllTuples(doc[g])
    BY DEF TuplesInv
  <2> QED
    BY <2>3, <2>4, <2>5, <2>6 DEF AllTuples, OneTuple
<1>7. ASSUME NEW x \in D \cap Video!Texture PROVE pending[x] \in 0..3
  <2>1. x \in DOMAIN videoAsked
    BY <1>4 DEF Video!Texture, AlwaysOff
  <2>2. pending[x] \in Video!ValuesOf(x)
    BY <1>4, <2>1 DEF AskedIsWanted
  <2> QED
    BY <2>2, Choices DEF Video!Texture
<1> HIDE DEF D
<1>8. CASE o \in Video!Texture
  BY <1>3, <1>5, <1>6, <1>7, <1>8, TexturesReadBack
<1>9. CASE o \notin Video!Texture
  BY <1>3, <1>5, <1>9, KeysReadBack
<1> QED
  BY <1>8, <1>9

(***************************************************************************)
(* The runtime libraries.  The predicates take the files, the marker and    *)
(* whether Steam has changed a part as arguments: one says what is true     *)
(* before a file operation, and the next what is true after it.             *)
(***************************************************************************)

Places == Runtime!Parts \cup Runtime!Saved
Markers == [state : {"absent", "legacy", "installing", "installed"}, helper : {"none", "own"}]
RuntimeOperations == {"boot", "renew", "undo", "return", "user"}

RuntimeTypes(F, m) ==
    /\ F \in [Places -> Runtime!Contents] /\ m \in Markers
    /\ F["core"] \in {"stock", "forwarder", "foreign"}
    /\ F["ext"] \in {"stock", "optimized", "foreign"}
    /\ F["helper"] \in {"none", "own", "optimized"}
    /\ F["relay"] \in {"none", "stock", "optimized"}
    /\ m.state \in {"absent", "legacy"} => m.helper = "none"

(* What the marker on disk stands for, wherever the optimizer died.         *)
MarkerSays(F, m) ==
    /\ m.state = "absent" =>
          /\ F["core"] # "forwarder" /\ F["ext"] # "optimized"
          /\ F["helper"] # "optimized" /\ F["relay"] = "none"
    /\ m.state = "legacy" =>
          /\ F["ext"] # "optimized" /\ F["helper"] = "none" /\ F["relay"] # "optimized"
    /\ m.state \in {"installing", "installed"} =>
          /\ F["savedCore"] = "stock" /\ F["savedExt"] = "stock"
          /\ m.helper # "none" => F["savedHelper"] = m.helper
    /\ F["core"] = "forwarder" => F["relay"] # "none"

IsStep(s, to, put) == s.to = to /\ s.put = put

(* The order of the operations of an installation, with the helper h there  *)
(* is, and of a restoration.                                                *)
InstallOrder(h, s, t) ==
    \/ IsStep(s, "savedCore", "stock") /\ IsStep(t, "savedExt", "stock")
    \/ IsStep(s, "savedExt", "stock") /\ h # "own" /\ IsStep(t, "marker", "installing")
    \/ IsStep(s, "savedExt", "stock") /\ h # "none" /\ IsStep(t, "savedHelper", "own")
    \/ IsStep(s, "savedHelper", "own") /\ IsStep(t, "marker", "installing")
    \/ IsStep(s, "marker", "installing") /\ IsStep(t, "relay", "optimized")
    \/ IsStep(s, "relay", "optimized") /\ IsStep(t, "ext", "optimized")
    \/ IsStep(s, "ext", "optimized") /\ IsStep(t, "helper", "optimized")
    \/ IsStep(s, "helper", "optimized") /\ IsStep(t, "core", "forwarder")
    \/ IsStep(s, "core", "forwarder") /\ IsStep(t, "marker", "installed")

HelperBack(s) == s.to = "helper" /\ s.put \in {"none", "own"}

RestoreOrder(state, s, t) ==
    \/ IsStep(s, "core", "stock") /\ state # "legacy" /\ IsStep(t, "ext", "stock")
    \/ IsStep(s, "core", "stock") /\ state = "legacy" /\ IsStep(t, "relay", "none")
    \/ IsStep(s, "ext", "stock") /\ HelperBack(t)
    \/ HelperBack(s) /\ IsStep(t, "relay", "none")
    \/ IsStep(s, "relay", "none") /\ IsStep(t, "marker", "absent")

(* What is true before each operation of an installation, c = Steam has     *)
(* changed a part since ...                                                 *)
BeforeInstall(F, m, c, s) ==
    \/ IsStep(s, "savedCore", "stock") /\ m.state = "absent"
    \/ IsStep(s, "savedExt", "stock") /\ m.state = "absent" /\ F["savedCore"] = "stock"
    \/ /\ IsStep(s, "savedHelper", "own") /\ m.state = "absent"
       /\ F["savedCore"] = "stock" /\ F["savedExt"] = "stock"
    \/ /\ IsStep(s, "marker", "installing") /\ m.state = "absent"
       /\ F["savedCore"] = "stock" /\ F["savedExt"] = "stock"
       /\ F["helper"] # "none" => F["savedHelper"] = F["helper"]
    \/ IsStep(s, "relay", "optimized") /\ m.state = "installing"
    \/ IsStep(s, "ext", "optimized") /\ m.state = "installing" /\ F["relay"] = "optimized"
    \/ /\ IsStep(s, "helper", "optimized") /\ m.state = "installing" /\ F["relay"] = "optimized"
       /\ ~c => F["ext"] = "optimized"
    \/ /\ IsStep(s, "core", "forwarder") /\ m.state = "installing" /\ F["relay"] = "optimized"
       /\ F["helper"] = "optimized" /\ (~c => F["ext"] = "optimized")
    \/ /\ IsStep(s, "marker", "installed") /\ m.state = "installing" /\ F["relay"] = "optimized"
       /\ F["helper"] = "optimized"
       /\ ~c => F["ext"] = "optimized" /\ F["core"] = "forwarder"

(* ... and of a restoration.                                                *)
BeforeRestore(F, m, s) ==
    \/ IsStep(s, "core", "stock") /\ m.state # "absent"
    \/ /\ IsStep(s, "ext", "stock") /\ m.state \in {"installing", "installed"}
       /\ F["core"] # "forwarder"
    \/ /\ HelperBack(s) /\ m.state \in {"installing", "installed"}
       /\ F["core"] # "forwarder" /\ F["ext"] # "optimized"
    \/ /\ IsStep(s, "relay", "none") /\ m.state # "absent"
       /\ F["core"] # "forwarder" /\ F["ext"] # "optimized" /\ F["helper"] # "optimized"
    \/ /\ IsStep(s, "marker", "absent") /\ m.state # "absent" /\ F["relay"] = "none"
       /\ F["core"] # "forwarder" /\ F["ext"] # "optimized" /\ F["helper"] # "optimized"

(* A part Steam brought before the operation began is not written by it.    *)
NotForeign(F, m, c) ==
    ~c => F["core"] # "foreign" /\ (m.state # "legacy" => F["ext"] # "foreign")

RuntimeSteps == [from : Places \cup {"package"}, to : Places \cup {"marker"},
                 put : Runtime!Contents \cup {"absent", "installing", "installed"}]

PlanInv(F, m, c, o, p) ==
    /\ p \in Seq(RuntimeSteps)
    /\ p # <<>> =>
          /\ NotForeign(F, m, c)
          /\ o = "install" =>
                /\ \A i \in 1..(Len(p) - 1) : InstallOrder(F["helper"], p[i], p[i + 1])
                /\ IsStep(p[Len(p)], "marker", "installed")
                /\ BeforeInstall(F, m, c, p[1])
          /\ o # "install" =>
                /\ o \in RuntimeOperations
                /\ \A i \in 1..(Len(p) - 1) : RestoreOrder(m.state, p[i], p[i + 1])
                /\ IsStep(p[Len(p)], "marker", "absent")
                /\ BeforeRestore(F, m, p[1])

RuntimeInv ==
    /\ RuntimeTypes(files, runtimeMarker)
    /\ MarkerSays(files, runtimeMarker)
    /\ op \in Runtime!Operations
    /\ PlanInv(files, runtimeMarker, changed, op, runtimePlan)
    /\ Runtime!MixedIsTold

LEMMA RuntimeWhole == RuntimeInv => Runtime!RuntimeIsWhole
<1> SUFFICES ASSUME RuntimeInv PROVE Runtime!RuntimeIsWhole
  OBVIOUS
<1>1. runtimeMarker.state = "absent" <=> runtimeMarker = Runtime!NoMarker
  BY DEF RuntimeInv, RuntimeTypes, Markers, Runtime!NoMarker
<1>2. Runtime!StockRecoverable
  BY <1>1 DEF RuntimeInv, RuntimeTypes, MarkerSays, Markers, Runtime!StockRecoverable,
       Runtime!Marked, Runtime!Parts
<1>3. Runtime!ForwarderHasRelay
  BY DEF RuntimeInv, RuntimeTypes, MarkerSays, Runtime!ForwarderHasRelay, Runtime!Exists
<1> QED
  BY <1>2, <1>3 DEF RuntimeInv, Runtime!RuntimeIsWhole

LEMMA RuntimeStarts == Runtime!Init => RuntimeInv
<1> SUFFICES ASSUME Runtime!Init PROVE RuntimeInv
  OBVIOUS
<1>1. CASE \E h \in {"none", "own"} :
            /\ files = [f \in Runtime!Parts \cup Runtime!Saved |->
                          CASE f \in {"core", "ext"} -> "stock"
                            [] f = "helper" -> h
                            [] OTHER -> "none"]
            /\ runtimeMarker = Runtime!NoMarker
  <2>1. RuntimeTypes(files, runtimeMarker) /\ MarkerSays(files, runtimeMarker)
    BY <1>1 DEF RuntimeTypes, MarkerSays, Places, Markers, Runtime!Parts, Runtime!Saved,
       Runtime!Contents, Runtime!NoMarker
  <2> QED
    BY <2>1 DEF Runtime!Init, RuntimeInv, PlanInv, Runtime!MixedIsTold, Runtime!Idle,
       Runtime!Operations
<1>2. CASE \E s \in {"none", "stock"} :
            /\ files = [f \in Runtime!Parts \cup Runtime!Saved |->
                          CASE f = "core" -> "forwarder"
                            [] f \in {"ext", "relay"} -> "stock"
                            [] f = "savedCore" -> s
                            [] OTHER -> "none"]
            /\ runtimeMarker = [state |-> "legacy", helper |-> "none"]
  <2>1. RuntimeTypes(files, runtimeMarker) /\ MarkerSays(files, runtimeMarker)
    BY <1>2 DEF RuntimeTypes, MarkerSays, Places, Markers, Runtime!Parts, Runtime!Saved,
       Runtime!Contents
  <2> QED
    BY <2>1 DEF Runtime!Init, RuntimeInv, PlanInv, Runtime!MixedIsTold, Runtime!Idle,
       Runtime!Operations
<1> QED
  BY <1>1, <1>2 DEF Runtime!Init

(* One file operation: what Written of the program does.                    *)
Writes(F, m, s, G, n) ==
    IF s.to = "marker"
    THEN G = F /\ n = [state |-> s.put,
                       helper |-> CASE s.put = "absent" -> "none"
                                    [] s.put = "installing" -> F["helper"]
                                    [] OTHER -> m.helper]
    ELSE G = [F EXCEPT ![s.to] = s.put] /\ n = m

(* The whole optimized runtime, and nothing of it.                          *)
AllIn(F, m) == /\ m.state = "installed" /\ F["core"] = "forwarder" /\ F["relay"] = "optimized"
               /\ F["ext"] = "optimized" /\ F["helper"] = "optimized"

LEMMA AllInIsCurrent ==
  ASSUME MarkerSays(files, runtimeMarker)' PROVE Runtime!Current' <=> AllIn(files, runtimeMarker)'
BY DEF MarkerSays, AllIn, Runtime!Current, Runtime!Recoverable, Runtime!Parts

LEMMA AbsentIsStocked ==
  ASSUME RuntimeTypes(files, runtimeMarker)', MarkerSays(files, runtimeMarker)',
         runtimeMarker'.state = "absent"
  PROVE  Runtime!Stocked'
BY DEF RuntimeTypes, MarkerSays, Runtime!Stocked, Runtime!Exists

(* Each operation of an installation prepares the next one, and leaves the  *)
(* files as the marker says.                                                *)
LEMMA InstallWrites ==
  ASSUME NEW F, NEW m, NEW c, NEW s, RuntimeTypes(F, m), MarkerSays(F, m), BeforeInstall(F, m, c, s),
         NEW G, NEW n, Writes(F, m, s, G, n)
  PROVE  /\ RuntimeTypes(G, n) /\ MarkerSays(G, n)
         /\ NotForeign(F, m, c) => NotForeign(G, n, c)
         /\ \A t : InstallOrder(F["helper"], s, t) => BeforeInstall(G, n, c, t)
         /\ \A a, b : InstallOrder(F["helper"], a, b) => InstallOrder(G["helper"], a, b)
         /\ IsStep(s, "marker", "installed") => n.state = "installed" /\ (~c => AllIn(G, n))
<1> USE DEF RuntimeTypes, MarkerSays, NotForeign, Places, Markers, Runtime!Parts, Runtime!Saved,
            Runtime!Contents, IsStep, Writes
<1>1. CASE s.to # "marker"
  <2>1. G = [F EXCEPT ![s.to] = s.put] /\ n = m
    BY <1>1
  <2>2. IsStep(s, "savedCore", "stock") \/ IsStep(s, "savedExt", "stock")
        \/ IsStep(s, "savedHelper", "own") \/ IsStep(s, "relay", "optimized")
        \/ IsStep(s, "ext", "optimized") \/ IsStep(s, "helper", "optimized")
        \/ IsStep(s, "core", "forwarder")
    BY <1>1 DEF BeforeInstall
  <2>3. RuntimeTypes(G, n) /\ MarkerSays(G, n) /\ (NotForeign(F, m, c) => NotForeign(G, n, c))
    BY <2>1, <2>2 DEF BeforeInstall
  <2>4. ASSUME NEW t, InstallOrder(F["helper"], s, t) PROVE BeforeInstall(G, n, c, t)
    BY <2>1, <2>2, <2>4 DEF BeforeInstall, InstallOrder
  <2>5. G["helper"] = F["helper"] \/ G["helper"] = "optimized"
    BY <2>1, <2>2
  <2>6. \A a, b : InstallOrder(F["helper"], a, b) => InstallOrder(G["helper"], a, b)
    BY <2>5 DEF InstallOrder
  <2> QED
    BY <1>1, <2>3, <2>4, <2>6
<1>2. CASE s.to = "marker"
  <2>2. IsStep(s, "marker", "installing") \/ IsStep(s, "marker", "installed")
    BY <1>2 DEF BeforeInstall
  <2>1. G = F /\ n = [state |-> s.put, helper |-> IF s.put = "installing" THEN F["helper"] ELSE m.helper]
    BY <1>2, <2>2
  <2>3. /\ RuntimeTypes(G, n) /\ MarkerSays(G, n) /\ (NotForeign(F, m, c) => NotForeign(G, n, c))
        /\ IsStep(s, "marker", "installed") => n.state = "installed" /\ (~c => AllIn(G, n))
    BY <2>1, <2>2 DEF BeforeInstall, AllIn
  <2>4. ASSUME NEW t, InstallOrder(F["helper"], s, t) PROVE BeforeInstall(G, n, c, t)
    BY <2>1, <2>2, <2>4 DEF BeforeInstall, InstallOrder
  <2> QED
    BY <2>1, <2>3, <2>4
<1> QED
  BY <1>1, <1>2

(* The same of a restoration.                                               *)
LEMMA RestoreWrites ==
  ASSUME NEW F, NEW m, NEW s, RuntimeTypes(F, m), MarkerSays(F, m), BeforeRestore(F, m, s),
         NEW G, NEW n, Writes(F, m, s, G, n)
  PROVE  /\ RuntimeTypes(G, n) /\ MarkerSays(G, n)
         /\ \A t : RestoreOrder(m.state, s, t) =>
               /\ n.state = m.state /\ BeforeRestore(G, n, t)
               /\ \A c : NotForeign(F, m, c) => NotForeign(G, n, c)
         /\ IsStep(s, "marker", "absent") => n.state = "absent"
<1> USE DEF RuntimeTypes, MarkerSays, NotForeign, Places, Markers, Runtime!Parts, Runtime!Saved,
            Runtime!Contents, IsStep, Writes, HelperBack
<1>1. CASE s.to # "marker"
  <2>1. G = [F EXCEPT ![s.to] = s.put] /\ n = m
    BY <1>1
  <2>2. IsStep(s, "core", "stock") \/ IsStep(s, "ext", "stock")
        \/ HelperBack(s) \/ IsStep(s, "relay", "none")
    BY <1>1 DEF BeforeRestore
  <2>3. RuntimeTypes(G, n) /\ MarkerSays(G, n) /\ (\A c : NotForeign(F, m, c) => NotForeign(G, n, c))
    BY <2>1, <2>2 DEF BeforeRestore
  <2>4. ASSUME NEW t, RestoreOrder(m.state, s, t) PROVE BeforeRestore(G, n, t)
    BY <2>1, <2>2, <2>4 DEF BeforeRestore, RestoreOrder
  <2> QED
    BY <1>1, <2>1, <2>3, <2>4
<1>2. CASE s.to = "marker"
  <2>1. IsStep(s, "marker", "absent")
    BY <1>2 DEF BeforeRestore
  <2>2. G = F /\ n.state = "absent" /\ n.helper = "none"
        /\ n = [state |-> n.state, helper |-> n.helper]
    BY <1>2, <2>1
  <2>3. RuntimeTypes(G, n) /\ MarkerSays(G, n)
    BY <2>1, <2>2 DEF BeforeRestore
  <2>4. ASSUME NEW t PROVE ~RestoreOrder(m.state, s, t)
    BY <2>1 DEF RestoreOrder
  <2> QED
    BY <2>2, <2>3, <2>4
<1> QED
  BY <1>1, <1>2

LEMMA WritesOf ==
  ASSUME NEW s, Runtime!Written(s)
  PROVE  Writes(files, runtimeMarker, s, files', runtimeMarker')
BY DEF Runtime!Written, Writes

(* With no operation of a plan left, what remains to be said is that a      *)
(* mixed runtime has been told.                                             *)
LEMMA Entered ==
  ASSUME RuntimeTypes(files, runtimeMarker)', MarkerSays(files, runtimeMarker)',
         NEW o \in Runtime!Operations, Runtime!Enter(o),
         o = "none" /\ up' /\ ~changed' => Runtime!Stocked' \/ Runtime!Current' \/ runtimeTold'
  PROVE  RuntimeInv'
BY DEF RuntimeInv, PlanInv, Runtime!Enter, Runtime!MixedIsTold, Runtime!Idle

LEMMA FailedStep ==
  ASSUME RuntimeTypes(files, runtimeMarker)', MarkerSays(files, runtimeMarker)',
         NEW o \in Runtime!Operations \ {"none"}, Runtime!Failed(o)
  PROVE  RuntimeInv'
<1>1. /\ \E e \in {"none", "undo", "return"} :
            /\ Runtime!Enter(e)
            /\ e = "none" => o \in {"boot", "return", "user"}
      /\ runtimeTold' = (runtimeTold \/ o \in {"boot", "return", "user"})
  <2>1. CASE o \in {"boot", "return", "user"}
    BY <2>1 DEF Runtime!Failed
  <2>2. CASE o \notin {"boot", "return", "user"}
    BY <2>2 DEF Runtime!Failed
  <2> QED
    BY <2>1, <2>2
<1>2. PICK e \in {"none", "undo", "return"} :
            /\ Runtime!Enter(e)
            /\ e = "none" => o \in {"boot", "return", "user"}
  BY <1>1
<1>3. e \in Runtime!Operations
  BY DEF Runtime!Operations
<1>4. e = "none" => runtimeTold'
  BY <1>1, <1>2
<1> QED
  BY <1>2, <1>3, <1>4, Entered

(* The first operation of the plan is done, and another one is next ...     *)
LEMMA GoesOn ==
  ASSUME RuntimeInv, runtimePlan # <<>>, Len(runtimePlan) > 1, Runtime!Written(Head(runtimePlan)),
         runtimePlan' = Tail(runtimePlan), UNCHANGED <<op, changed>>
  PROVE  RuntimeInv'
<1> DEFINE p == runtimePlan
           s == p[1]
           t == p[2]
<1>1. /\ p \in Seq(RuntimeSteps) /\ p' \in Seq(RuntimeSteps) /\ p # <<>>
      /\ Len(p) \in Nat /\ Len(p') = Len(p) - 1 /\ p' # <<>>
      /\ Head(p) = s /\ p'[1] = t /\ p'[Len(p')] = p[Len(p)]
      /\ \A i \in 1..(Len(p') - 1) :
           i + 1 \in 1..(Len(p) - 1) /\ p'[i] = p[i + 1] /\ p'[i + 1] = p[i + 2]
  <2>1. p \in Seq(RuntimeSteps)
    BY DEF RuntimeInv, PlanInv
  <2>2. p' = Tail(p) /\ Len(p) > 1 /\ p # <<>>
    OBVIOUS
  <2> HIDE DEF p
  <2>3. p' \in Seq(RuntimeSteps) /\ Len(p) \in Nat /\ Len(p') = Len(p) - 1 /\ Head(p) = p[1]
    BY <2>1, <2>2
  <2>4. ASSUME NEW i \in 1..(Len(p) - 1) PROVE p'[i] = p[i + 1]
    BY <2>1, <2>2, <2>4
  <2>5. p' # <<>> /\ p'[1] = p[2] /\ p'[Len(p')] = p[Len(p)]
    <3>1. 1 \in 1..(Len(p) - 1) /\ Len(p') \in 1..(Len(p) - 1) /\ Len(p') + 1 = Len(p) /\ 1 + 1 = 2
      BY <2>2, <2>3
    <3>2. p'[1] = p[2] /\ p'[Len(p')] = p[Len(p)]
      BY <2>4, <3>1
    <3>3. Len(p') # 0
      BY <3>1
    <3> QED
      BY <3>2, <3>3, EmptySeq
  <2>6. ASSUME NEW i \in 1..(Len(p') - 1)
        PROVE  i + 1 \in 1..(Len(p) - 1) /\ p'[i] = p[i + 1] /\ p'[i + 1] = p[i + 2]
    <3>1. i \in 1..(Len(p) - 1) /\ i + 1 \in 1..(Len(p) - 1) /\ (i + 1) + 1 = i + 2
      BY <2>3
    <3> QED
      BY <2>4, <3>1
  <2> QED
    BY <2>1, <2>2, <2>3, <2>5, <2>6
<1>2. Writes(files, runtimeMarker, s, files', runtimeMarker')
  BY <1>1, WritesOf
<1>3. /\ RuntimeTypes(files, runtimeMarker) /\ MarkerSays(files, runtimeMarker)
      /\ NotForeign(files, runtimeMarker, changed)
  BY <1>1 DEF RuntimeInv, PlanInv
<1>4. CASE op = "install"
  <2>1. /\ \A i \in 1..(Len(p) - 1) : InstallOrder(files["helper"], p[i], p[i + 1])
        /\ IsStep(p[Len(p)], "marker", "installed")
        /\ BeforeInstall(files, runtimeMarker, changed, s)
    BY <1>1, <1>4 DEF RuntimeInv, PlanInv
  <2>2. InstallOrder(files["helper"], s, t)
    BY <1>1, <2>1
  <2>3. /\ RuntimeTypes(files', runtimeMarker') /\ MarkerSays(files', runtimeMarker')
        /\ NotForeign(files', runtimeMarker', changed)
        /\ BeforeInstall(files', runtimeMarker', changed, t)
        /\ \A a, b : InstallOrder(files["helper"], a, b) => InstallOrder(files'["helper"], a, b)
    <3> HIDE DEF p, s, t
    <3>1. /\ RuntimeTypes(files', runtimeMarker') /\ MarkerSays(files', runtimeMarker')
          /\ NotForeign(files, runtimeMarker, changed) => NotForeign(files', runtimeMarker', changed)
          /\ \A r : InstallOrder(files["helper"], s, r)
                     => BeforeInstall(files', runtimeMarker', changed, r)
          /\ \A a, b : InstallOrder(files["helper"], a, b) => InstallOrder(files'["helper"], a, b)
      BY <1>2, <1>3, <2>1, InstallWrites
    <3> QED
      BY <1>3, <2>2, <3>1
  <2>4. \A i \in 1..(Len(p') - 1) : InstallOrder(files'["helper"], p'[i], p'[i + 1])
    <3> TAKE i \in 1..(Len(p') - 1)
    <3>1. /\ i + 1 \in 1..(Len(p) - 1) /\ (i + 1) + 1 = i + 2
          /\ p'[i] = p[i + 1] /\ p'[i + 1] = p[i + 2]
      BY <1>1
    <3>2. InstallOrder(files["helper"], p[i + 1], p[(i + 1) + 1])
      BY <2>1, <3>1
    <3> QED
      BY <2>3, <3>1, <3>2
  <2>5. PlanInv(files, runtimeMarker, changed, op, runtimePlan)'
    BY <1>1, <1>4, <2>1, <2>3, <2>4 DEF PlanInv
  <2>6. RuntimeTypes(files, runtimeMarker)' /\ MarkerSays(files, runtimeMarker)'
    BY <2>3
  <2> QED
    BY <1>4, <2>5, <2>6 DEF RuntimeInv, Runtime!MixedIsTold, Runtime!Idle
<1>5. CASE op # "install"
  <2>1. /\ op \in RuntimeOperations
        /\ \A i \in 1..(Len(p) - 1) : RestoreOrder(runtimeMarker.state, p[i], p[i + 1])
        /\ IsStep(p[Len(p)], "marker", "absent")
        /\ BeforeRestore(files, runtimeMarker, s)
    BY <1>1, <1>5 DEF RuntimeInv, PlanInv
  <2>2. RestoreOrder(runtimeMarker.state, s, t)
    BY <1>1, <2>1
  <2>3. /\ RuntimeTypes(files', runtimeMarker') /\ MarkerSays(files', runtimeMarker')
        /\ NotForeign(files', runtimeMarker', changed)
        /\ BeforeRestore(files', runtimeMarker', t)
        /\ runtimeMarker'.state = runtimeMarker.state
    BY <1>2, <1>3, <2>1, <2>2, RestoreWrites
  <2>4. \A i \in 1..(Len(p') - 1) : RestoreOrder(runtimeMarker'.state, p'[i], p'[i + 1])
    <3> TAKE i \in 1..(Len(p') - 1)
    <3>1. /\ i + 1 \in 1..(Len(p) - 1) /\ (i + 1) + 1 = i + 2
          /\ p'[i] = p[i + 1] /\ p'[i + 1] = p[i + 2]
      BY <1>1
    <3>2. RestoreOrder(runtimeMarker.state, p[i + 1], p[(i + 1) + 1])
      BY <2>1, <3>1
    <3> QED
      BY <2>3, <3>1, <3>2
  <2>5. PlanInv(files, runtimeMarker, changed, op, runtimePlan)'
    BY <1>1, <1>5, <2>1, <2>3, <2>4 DEF PlanInv
  <2>6. RuntimeTypes(files, runtimeMarker)' /\ MarkerSays(files, runtimeMarker)'
    BY <2>3
  <2>7. op' # "none" /\ op' \in Runtime!Operations
    BY <2>1 DEF RuntimeOperations, Runtime!Operations
  <2> QED
    BY <2>5, <2>6, <2>7 DEF RuntimeInv, Runtime!MixedIsTold, Runtime!Idle
<1> QED
  BY <1>4, <1>5

(* ... or it was the last one.                                              *)
LEMMA PlanEnds ==
  ASSUME RuntimeInv, runtimePlan # <<>>, ~(Len(runtimePlan) > 1), Runtime!Written(Head(runtimePlan)),
         Runtime!Succeeded(op), UNCHANGED changed
  PROVE  RuntimeInv'
<1> DEFINE s == runtimePlan[1]
<1>1. Len(runtimePlan) = 1 /\ Head(runtimePlan) = s
  <2>1. runtimePlan \in Seq(RuntimeSteps)
    BY DEF RuntimeInv, PlanInv
  <2>2. Len(runtimePlan) \in Nat /\ Len(runtimePlan) # 0
    BY <2>1, EmptySeq
  <2>3. Len(runtimePlan) = 1
    <3>1. \A i \in Nat : i # 0 /\ ~(i > 1) => i = 1
      OBVIOUS
    <3> QED
      BY <2>2, <3>1
  <2>4. Head(runtimePlan) = runtimePlan[1]
    BY <2>1, HeadTailProperties
  <2> QED
    BY <2>3, <2>4
<1>2. Writes(files, runtimeMarker, s, files', runtimeMarker')
  BY <1>1, WritesOf
<1>3. RuntimeTypes(files, runtimeMarker) /\ MarkerSays(files, runtimeMarker)
  BY DEF RuntimeInv
<1>4. CASE op = "install"
  <2>1. IsStep(s, "marker", "installed") /\ BeforeInstall(files, runtimeMarker, changed, s)
    BY <1>1, <1>4 DEF RuntimeInv, PlanInv
  <2>2. /\ RuntimeTypes(files', runtimeMarker') /\ MarkerSays(files', runtimeMarker')
        /\ ~changed => AllIn(files', runtimeMarker')
    BY <1>2, <1>3, <2>1, InstallWrites
  <2>3. Runtime!Enter("none")
    BY <1>4 DEF Runtime!Succeeded
  <2>4. "none" \in Runtime!Operations
    BY DEF Runtime!Operations
  <2>5. RuntimeTypes(files, runtimeMarker)' /\ MarkerSays(files, runtimeMarker)'
    BY <2>2
  <2>6. ~changed' => Runtime!Current'
    BY <2>2, <2>5, AllInIsCurrent
  <2> QED
    BY <2>3, <2>4, <2>5, <2>6, Entered
<1>5. CASE op # "install"
  <2>1. /\ op \in RuntimeOperations /\ IsStep(s, "marker", "absent")
        /\ BeforeRestore(files, runtimeMarker, s)
    BY <1>1, <1>5 DEF RuntimeInv, PlanInv
  <2>2. /\ RuntimeTypes(files', runtimeMarker') /\ MarkerSays(files', runtimeMarker')
        /\ runtimeMarker'.state = "absent"
    BY <1>2, <1>3, <2>1, RestoreWrites
  <2>3. PICK o \in {"none", "install", "return"} : Runtime!Enter(o)
    BY DEF Runtime!Succeeded
  <2>4. o \in Runtime!Operations
    BY DEF Runtime!Operations
  <2>5. RuntimeTypes(files, runtimeMarker)' /\ MarkerSays(files, runtimeMarker)'
    BY <2>2
  <2>6. Runtime!Stocked'
    BY <2>2, <2>5, AbsentIsStocked
  <2> QED
    BY <2>3, <2>4, <2>5, <2>6, Entered
<1> QED
  BY <1>4, <1>5

LEMMA RuntimeStepDone ==
  ASSUME RuntimeInv, Runtime!StepDone PROVE RuntimeInv'
<1>1. changed' = changed /\ runtimePlan # <<>> /\ Runtime!Written(Head(runtimePlan))
  BY DEF Runtime!StepDone, Runtime!game
<1>2. CASE Len(runtimePlan) > 1
  BY <1>1, <1>2, GoesOn DEF Runtime!StepDone
<1>3. CASE ~(Len(runtimePlan) > 1)
  BY <1>1, <1>3, PlanEnds DEF Runtime!StepDone
<1> QED
  BY <1>2, <1>3

LEMMA WrittenKeeps ==
  ASSUME RuntimeInv, runtimePlan # <<>>, Runtime!Written(Head(runtimePlan))
  PROVE  RuntimeTypes(files', runtimeMarker') /\ MarkerSays(files', runtimeMarker')
<1> DEFINE s == runtimePlan[1]
<1>1. Head(runtimePlan) = s
  BY DEF RuntimeInv, PlanInv
<1>2. Writes(files, runtimeMarker, s, files', runtimeMarker')
  BY <1>1, WritesOf
<1>3. RuntimeTypes(files, runtimeMarker) /\ MarkerSays(files, runtimeMarker)
  BY DEF RuntimeInv
<1>4. BeforeInstall(files, runtimeMarker, changed, s) \/ BeforeRestore(files, runtimeMarker, s)
  BY DEF RuntimeInv, PlanInv
<1> QED
  BY <1>2, <1>3, <1>4, InstallWrites, RestoreWrites

LEMMA RuntimeStepFailed ==
  ASSUME RuntimeInv, Runtime!StepFailed PROVE RuntimeInv'
<1>1. runtimePlan # <<>> /\ Runtime!Failed(op)
  BY DEF Runtime!StepFailed
<1>2. RuntimeTypes(files', runtimeMarker') /\ MarkerSays(files', runtimeMarker')
  <2>1. CASE UNCHANGED <<files, runtimeMarker>>
    BY <2>1 DEF RuntimeInv
  <2>2. CASE Runtime!Written(Head(runtimePlan))
    BY <1>1, <2>2, WrittenKeeps
  <2> QED
    BY <2>1, <2>2 DEF Runtime!StepFailed
<1>3. op \in Runtime!Operations \ {"none"}
  BY <1>1 DEF RuntimeInv, PlanInv, RuntimeOperations, Runtime!Operations
<1>4. RuntimeTypes(files, runtimeMarker)' /\ MarkerSays(files, runtimeMarker)'
  BY <1>2
<1> QED
  BY <1>1, <1>3, <1>4, FailedStep

(***************************************************************************)
(* The plans, when they are made.                                           *)
(***************************************************************************)

LEMMA RestorePlanned ==
  ASSUME RuntimeTypes(files, runtimeMarker), MarkerSays(files, runtimeMarker), Runtime!CanRestore,
         NEW o \in RuntimeOperations
  PROVE  PlanInv(files, runtimeMarker, FALSE, o, Runtime!RestorePlan)
<1> DEFINE m == runtimeMarker
<1>1. NotForeign(files, m, FALSE) /\ m.state # "absent" /\ m.helper \in {"none", "own"}
      /\ m.state \in {"legacy", "installing", "installed"}
  BY DEF Runtime!CanRestore, Runtime!Known, Runtime!KnownLegacy, NotForeign,
       RuntimeTypes, Markers
<1>2. o # "install"
  BY DEF RuntimeOperations
<1>3. CASE m.state = "legacy"
  <2> DEFINE a == Runtime!Copy(IF files["savedCore"] = "stock" THEN "savedCore" ELSE "relay",
                               "core", "stock")
             b == Runtime!Remove("relay")
             e == Runtime!Mark("absent")
  <2>1. Runtime!RestorePlan = <<a, b, e>>
    BY <1>3 DEF Runtime!RestorePlan, Runtime!LegacyPlan
  <2>2. /\ a \in RuntimeSteps /\ b \in RuntimeSteps /\ e \in RuntimeSteps
        /\ IsStep(a, "core", "stock") /\ IsStep(b, "relay", "none") /\ IsStep(e, "marker", "absent")
    BY DEF Runtime!Copy, Runtime!Remove, Runtime!Put, Runtime!Mark, IsStep,
         RuntimeSteps, Places, Runtime!Parts, Runtime!Saved, Runtime!Contents
  <2> HIDE DEF a, b, e
  <2>3. RestoreOrder(m.state, a, b) /\ RestoreOrder(m.state, b, e) /\ BeforeRestore(files, m, a)
    BY <1>1, <1>3, <2>2 DEF RestoreOrder, BeforeRestore
  <2> DEFINE p == <<a, b, e>>
  <2>4. /\ p \in Seq(RuntimeSteps) /\ Len(p) = 3 /\ p[1] = a /\ p[2] = b /\ p[3] = e
    BY <2>2
  <2> HIDE DEF p
  <2>5. \A i \in 1..(Len(p) - 1) : RestoreOrder(m.state, p[i], p[i + 1])
    <3> TAKE i \in 1..(Len(p) - 1)
    <3>1. i = 1 \/ i = 2
      BY <2>4
    <3> QED
      BY <2>3, <2>4, <3>1
  <2>6. IsStep(p[Len(p)], "marker", "absent") /\ BeforeRestore(files, m, p[1])
    BY <2>2, <2>3, <2>4
  <2>7. PlanInv(files, m, FALSE, o, p)
    BY <1>1, <1>2, <2>4, <2>5, <2>6 DEF PlanInv
  <2> QED
    BY <2>1, <2>7 DEF p
<1>4. CASE m.state # "legacy"
  <2> DEFINE a == Runtime!Copy("savedCore", "core", "stock")
             b == Runtime!Copy("savedExt", "ext", "stock")
             h == IF m.helper = "none" THEN Runtime!Remove("helper")
                  ELSE Runtime!Copy("savedHelper", "helper", m.helper)
             d == Runtime!Remove("relay")
             e == Runtime!Mark("absent")
  <2>1. Runtime!RestorePlan = <<a, b, h, d, e>>
    BY <1>4 DEF Runtime!RestorePlan, Runtime!CurrentPlan
  <2>2. /\ a \in RuntimeSteps /\ b \in RuntimeSteps /\ d \in RuntimeSteps /\ e \in RuntimeSteps
        /\ IsStep(a, "core", "stock") /\ IsStep(b, "ext", "stock")
        /\ IsStep(d, "relay", "none") /\ IsStep(e, "marker", "absent")
    BY DEF Runtime!Copy, Runtime!Remove, Runtime!Put, Runtime!Mark, IsStep,
         RuntimeSteps, Places, Runtime!Parts, Runtime!Saved, Runtime!Contents
  <2>3. h \in RuntimeSteps /\ HelperBack(h)
    BY <1>1 DEF Runtime!Copy, Runtime!Remove, Runtime!Put, HelperBack, RuntimeSteps,
         Places, Runtime!Parts, Runtime!Saved, Runtime!Contents
  <2> HIDE DEF a, b, h, d, e
  <2>4. /\ RestoreOrder(m.state, a, b) /\ RestoreOrder(m.state, b, h) /\ RestoreOrder(m.state, h, d)
        /\ RestoreOrder(m.state, d, e) /\ BeforeRestore(files, m, a)
    BY <1>1, <1>4, <2>2, <2>3 DEF RestoreOrder, BeforeRestore
  <2> DEFINE p == <<a, b, h, d, e>>
  <2>5. /\ p \in Seq(RuntimeSteps) /\ Len(p) = 5
        /\ p[1] = a /\ p[2] = b /\ p[3] = h /\ p[4] = d /\ p[5] = e
    BY <2>2, <2>3
  <2> HIDE DEF p
  <2>6. \A i \in 1..(Len(p) - 1) : RestoreOrder(m.state, p[i], p[i + 1])
    <3> TAKE i \in 1..(Len(p) - 1)
    <3>1. i \in {1, 2, 3, 4}
      BY <2>5
    <3> QED
      BY <2>4, <2>5, <3>1
  <2>7. IsStep(p[Len(p)], "marker", "absent") /\ BeforeRestore(files, m, p[1])
    BY <2>2, <2>4, <2>5
  <2>8. PlanInv(files, m, FALSE, o, p)
    BY <1>1, <1>2, <2>5, <2>6, <2>7 DEF PlanInv
  <2> QED
    BY <2>1, <2>8 DEF p
<1> QED
  BY <1>3, <1>4

(* An installation is planned where there is no marker.                     *)
LEMMA InstallPlanned ==
  ASSUME RuntimeTypes(files, runtimeMarker), MarkerSays(files, runtimeMarker),
         ~Runtime!Transaction, Runtime!StockPair
  PROVE  PlanInv(files, runtimeMarker, FALSE, "install", Runtime!InstallPlan)
<1> DEFINE m == runtimeMarker
           a == Runtime!Copy("core", "savedCore", "stock")
           b == Runtime!Copy("ext", "savedExt", "stock")
           h == Runtime!Copy("helper", "savedHelper", files["helper"])
           k == Runtime!Mark("installing")
           r == Runtime!Put("relay", "optimized")
           x == Runtime!Put("ext", "optimized")
           g == Runtime!Put("helper", "optimized")
           f == Runtime!Put("core", "forwarder")
           e == Runtime!Mark("installed")
           w == <<k, r, x, g, f, e>>
<1>1. m.state = "absent" /\ NotForeign(files, m, FALSE) /\ files["helper"] \in {"none", "own"}
  BY DEF Runtime!Transaction, Runtime!Marked, Runtime!StockPair, Runtime!NoMarker,
       NotForeign, RuntimeTypes, MarkerSays
<1>2. /\ a \in RuntimeSteps /\ b \in RuntimeSteps /\ k \in RuntimeSteps /\ r \in RuntimeSteps
      /\ x \in RuntimeSteps /\ g \in RuntimeSteps /\ f \in RuntimeSteps /\ e \in RuntimeSteps
      /\ IsStep(a, "savedCore", "stock") /\ IsStep(b, "savedExt", "stock")
      /\ IsStep(k, "marker", "installing") /\ IsStep(r, "relay", "optimized")
      /\ IsStep(x, "ext", "optimized") /\ IsStep(g, "helper", "optimized")
      /\ IsStep(f, "core", "forwarder") /\ IsStep(e, "marker", "installed")
  BY DEF Runtime!Copy, Runtime!Put, Runtime!Mark, IsStep, RuntimeSteps, Places,
     Runtime!Parts, Runtime!Saved, Runtime!Contents
<1>3. files["helper"] = "own" => h \in RuntimeSteps /\ IsStep(h, "savedHelper", "own")
  BY DEF Runtime!Copy, IsStep, RuntimeSteps, Places, Runtime!Parts, Runtime!Saved,
       Runtime!Contents
<1>4. Runtime!InstallPlan = IF files["helper"] = "own" THEN <<a, b>> \o <<h>> \o w
                                                        ELSE <<a, b>> \o <<>> \o w
  BY <1>1 DEF Runtime!InstallPlan, Runtime!Exists
<1> HIDE DEF a, b, h, k, r, x, g, f, e
<1>5. <<a, b>> \in Seq(RuntimeSteps) /\ w \in Seq(RuntimeSteps)
  BY <1>2
<1>6. Len(w) = 6 /\ w[1] = k /\ w[2] = r /\ w[3] = x /\ w[4] = g /\ w[5] = f /\ w[6] = e
  OBVIOUS
<1> HIDE DEF w
<1>7. /\ InstallOrder(files["helper"], a, b) /\ InstallOrder(files["helper"], k, r)
      /\ InstallOrder(files["helper"], r, x) /\ InstallOrder(files["helper"], x, g)
      /\ InstallOrder(files["helper"], g, f) /\ InstallOrder(files["helper"], f, e)
      /\ BeforeInstall(files, m, FALSE, a)
  BY <1>1, <1>2 DEF InstallOrder, BeforeInstall
<1>8. CASE files["helper"] = "own"
  <2> DEFINE p == <<a, b>> \o <<h>> \o w
  <2>1. InstallOrder(files["helper"], b, h) /\ InstallOrder(files["helper"], h, k)
    BY <1>2, <1>3, <1>8 DEF InstallOrder
  <2>2. <<h>> \in Seq(RuntimeSteps)
    BY <1>3, <1>8
  <2>3. /\ p \in Seq(RuntimeSteps) /\ Len(p) = 9
        /\ p[1] = a /\ p[2] = b /\ p[3] = h /\ p[4] = k /\ p[5] = r /\ p[6] = x /\ p[7] = g
        /\ p[8] = f /\ p[9] = e
    <3> DEFINE q == <<a, b>> \o <<h>>
    <3>1. q \in Seq(RuntimeSteps) /\ Len(q) = 3 /\ q[1] = a /\ q[2] = b /\ q[3] = h
      BY <1>5, <2>2, ConcatProperties
    <3> HIDE DEF q
    <3>2. p = q \o w
      BY DEF q
    <3> HIDE DEF p
    <3>3. Len(q) + Len(w) = 9
      BY <1>6, <3>1
    <3>4. /\ p \in Seq(RuntimeSteps) /\ Len(p) = 9
          /\ \A i \in 1..9 : p[i] = IF i <= 3 THEN q[i] ELSE w[i - 3]
      <4>1. /\ p \in Seq(RuntimeSteps) /\ Len(p) = Len(q) + Len(w)
            /\ \A i \in 1..(Len(q) + Len(w)) : p[i] = IF i <= Len(q) THEN q[i] ELSE w[i - Len(q)]
        BY <1>5, <3>1, <3>2, ConcatProperties
      <4> QED
        BY <3>1, <3>3, <4>1
    <3>5. p[1] = q[1] /\ p[2] = q[2] /\ p[3] = q[3]
      BY <3>4
    <3>6. /\ p[4] = w[1] /\ p[5] = w[2] /\ p[6] = w[3]
          /\ p[7] = w[4] /\ p[8] = w[5] /\ p[9] = w[6]
      BY <3>4
    <3> QED
      BY <1>6, <3>1, <3>4, <3>5, <3>6
  <2> HIDE DEF p
  <2>4. \A i \in 1..(Len(p) - 1) : InstallOrder(files["helper"], p[i], p[i + 1])
    <3> TAKE i \in 1..(Len(p) - 1)
    <3>1. i \in {1, 2, 3, 4, 5, 6, 7, 8}
      BY <2>3
    <3> QED
      BY <1>7, <2>1, <2>3, <3>1
  <2>5. IsStep(p[Len(p)], "marker", "installed") /\ BeforeInstall(files, m, FALSE, p[1])
    BY <1>2, <1>7, <2>3
  <2>6. PlanInv(files, m, FALSE, "install", p)
    BY <1>1, <2>3, <2>4, <2>5 DEF PlanInv
  <2> QED
    BY <1>4, <1>8, <2>6 DEF p
<1>9. CASE files["helper"] # "own"
  <2> DEFINE p == <<a, b>> \o <<>> \o w
  <2>1. InstallOrder(files["helper"], b, k)
    BY <1>2, <1>9 DEF InstallOrder
  <2>2. <<a, b>> \o <<>> = <<a, b>>
    BY <1>5, ConcatEmptySeq
  <2>3. /\ p \in Seq(RuntimeSteps) /\ Len(p) = 8
        /\ p[1] = a /\ p[2] = b /\ p[3] = k /\ p[4] = r /\ p[5] = x /\ p[6] = g
        /\ p[7] = f /\ p[8] = e
    <3> DEFINE q == <<a, b>>
    <3>1. q \in Seq(RuntimeSteps) /\ Len(q) = 2 /\ q[1] = a /\ q[2] = b
      BY <1>5
    <3> HIDE DEF q
    <3>2. p = q \o w
      BY <2>2 DEF q
    <3> HIDE DEF p
    <3>3. Len(q) + Len(w) = 8
      BY <1>6, <3>1
    <3>4. /\ p \in Seq(RuntimeSteps) /\ Len(p) = 8
          /\ \A i \in 1..8 : p[i] = IF i <= 2 THEN q[i] ELSE w[i - 2]
      <4>1. /\ p \in Seq(RuntimeSteps) /\ Len(p) = Len(q) + Len(w)
            /\ \A i \in 1..(Len(q) + Len(w)) : p[i] = IF i <= Len(q) THEN q[i] ELSE w[i - Len(q)]
        BY <1>5, <3>1, <3>2, ConcatProperties
      <4> QED
        BY <3>1, <3>3, <4>1
    <3>5. p[1] = q[1] /\ p[2] = q[2]
      BY <3>4
    <3>6. /\ p[3] = w[1] /\ p[4] = w[2] /\ p[5] = w[3]
          /\ p[6] = w[4] /\ p[7] = w[5] /\ p[8] = w[6]
      BY <3>4
    <3> QED
      BY <1>6, <3>1, <3>4, <3>5, <3>6
  <2> HIDE DEF p
  <2>4. \A i \in 1..(Len(p) - 1) : InstallOrder(files["helper"], p[i], p[i + 1])
    <3> TAKE i \in 1..(Len(p) - 1)
    <3>1. i \in {1, 2, 3, 4, 5, 6, 7}
      BY <2>3
    <3> QED
      BY <1>7, <2>1, <2>3, <3>1
  <2>5. IsStep(p[Len(p)], "marker", "installed") /\ BeforeInstall(files, m, FALSE, p[1])
    BY <1>2, <1>7, <2>3
  <2>6. PlanInv(files, m, FALSE, "install", p)
    BY <1>1, <2>3, <2>4, <2>5 DEF PlanInv
  <2> QED
    BY <1>4, <1>9, <2>6 DEF p
<1> QED
  BY <1>8, <1>9

(***************************************************************************)
(* The callers.                                                             *)
(***************************************************************************)

LEMMA RuntimeRestore ==
  ASSUME RuntimeInv, NEW o \in RuntimeOperations, NEW r, Runtime!Restore(o, r)
  PROVE  RuntimeInv'
<1>1. /\ RuntimeTypes(files, runtimeMarker) /\ MarkerSays(files, runtimeMarker)
      /\ RuntimeTypes(files, runtimeMarker)' /\ MarkerSays(files, runtimeMarker)'
      /\ UNCHANGED <<files, runtimeMarker>>
  BY DEF RuntimeInv, Runtime!Restore
<1>2. o \in Runtime!Operations \ {"none"}
  BY DEF RuntimeOperations, Runtime!Operations
<1>3. CASE Runtime!Failed(o)
  BY <1>1, <1>2, <1>3, FailedStep
<1>4. CASE ~Runtime!Failed(o)
  <2>1. Runtime!CanRestore /\ op' = o /\ runtimePlan' = Runtime!RestorePlan /\ changed' = FALSE
    BY <1>4 DEF Runtime!Restore
  <2>2. PlanInv(files, runtimeMarker, FALSE, o, Runtime!RestorePlan)
    BY <1>1, <2>1, RestorePlanned
  <2>3. PlanInv(files, runtimeMarker, changed, op, runtimePlan)'
    BY <1>1, <2>1, <2>2
  <2> QED
    BY <1>1, <1>2, <2>1, <2>3 DEF RuntimeInv, Runtime!MixedIsTold, Runtime!Idle
<1> QED
  BY <1>3, <1>4

(* Where there is no transaction, nothing of the runtime is in.             *)
LEMMA NoTransaction ==
  ASSUME RuntimeInv, ~Runtime!Transaction, UNCHANGED <<files, runtimeMarker>>
  PROVE  Runtime!Stocked'
<1>1. runtimeMarker'.state = "absent"
  BY DEF Runtime!Transaction, Runtime!Marked, Runtime!NoMarker
<1>2. RuntimeTypes(files, runtimeMarker)' /\ MarkerSays(files, runtimeMarker)'
  BY DEF RuntimeInv
<1> QED
  BY <1>1, <1>2, AbsentIsStocked

LEMMA StillCurrent ==
  ASSUME Runtime!Current, UNCHANGED <<files, runtimeMarker>> PROVE Runtime!Current'
BY DEF Runtime!Current, Runtime!Recoverable

(* A step that ends in no operation, with the files as they were.           *)
LEMMA EntersNone ==
  ASSUME RuntimeInv, UNCHANGED <<files, runtimeMarker>>, Runtime!Enter("none"),
         ~Runtime!Transaction \/ Runtime!Current
  PROVE  RuntimeInv'
<1>1. RuntimeTypes(files, runtimeMarker)' /\ MarkerSays(files, runtimeMarker)'
  BY DEF RuntimeInv
<1>2. Runtime!Stocked' \/ Runtime!Current'
  BY NoTransaction, StillCurrent
<1>3. "none" \in Runtime!Operations
  BY DEF Runtime!Operations
<1> QED
  BY <1>1, <1>2, <1>3, Entered

LEMMA EntersSome ==
  ASSUME RuntimeInv, UNCHANGED <<files, runtimeMarker>>,
         NEW o \in Runtime!Operations \ {"none"}, Runtime!Enter(o)
  PROVE  RuntimeInv'
<1>1. RuntimeTypes(files, runtimeMarker)' /\ MarkerSays(files, runtimeMarker)'
  BY DEF RuntimeInv
<1> QED
  BY <1>1, Entered

LEMMA RuntimeBoot ==
  ASSUME RuntimeInv, Runtime!Boot PROVE RuntimeInv'
<1>1. "boot" \in RuntimeOperations
  BY DEF RuntimeOperations
<1>2. CASE \E r : Runtime!Restore("boot", r)
  BY <1>1, <1>2, RuntimeRestore
<1>3. CASE ~ \E r : Runtime!Restore("boot", r)
  <2>1. /\ UNCHANGED <<files, runtimeMarker>> /\ Runtime!Enter("none")
        /\ ~Runtime!Transaction \/ Runtime!Current
    BY <1>3 DEF Runtime!Boot, Runtime!Recover
  <2> QED
    BY <2>1, EntersNone
<1> QED
  BY <1>2, <1>3

LEMMA RuntimeEnsure ==
  ASSUME RuntimeInv, Runtime!Ensure PROVE RuntimeInv'
<1>1. "renew" \in RuntimeOperations /\ "install" \in Runtime!Operations \ {"none"}
  BY DEF RuntimeOperations, Runtime!Operations
<1>2. CASE Runtime!Restore("renew", FALSE)
  BY <1>1, <1>2, RuntimeRestore
<1>3. CASE ~Runtime!Restore("renew", FALSE) /\ Runtime!Transaction
  <2>1. UNCHANGED <<files, runtimeMarker>> /\ Runtime!Enter("none") /\ Runtime!Current
    BY <1>3 DEF Runtime!Ensure, Runtime!Recover
  <2> QED
    BY <2>1, EntersNone
<1>4. CASE ~Runtime!Transaction
  <2>1. UNCHANGED <<files, runtimeMarker>> /\ Runtime!Enter("install")
    BY <1>4 DEF Runtime!Ensure
  <2> QED
    BY <1>1, <2>1, EntersSome
<1> QED
  BY <1>2, <1>3, <1>4

LEMMA RuntimeBeginInstall ==
  ASSUME RuntimeInv, Runtime!BeginInstall PROVE RuntimeInv'
<1>1. /\ RuntimeTypes(files, runtimeMarker) /\ MarkerSays(files, runtimeMarker)
      /\ RuntimeTypes(files, runtimeMarker)' /\ MarkerSays(files, runtimeMarker)'
      /\ UNCHANGED <<files, runtimeMarker>>
  BY DEF RuntimeInv, Runtime!BeginInstall
<1>2. "install" \in Runtime!Operations \ {"none"}
  BY DEF Runtime!Operations
<1>3. CASE Runtime!Failed("install")
  BY <1>1, <1>2, <1>3, FailedStep
<1>4. CASE ~Runtime!Failed("install")
  <2>1. /\ ~Runtime!Transaction /\ Runtime!StockPair
        /\ op' = "install" /\ runtimePlan' = Runtime!InstallPlan /\ changed' = FALSE
    BY <1>4 DEF Runtime!BeginInstall
  <2>2. PlanInv(files, runtimeMarker, FALSE, "install", Runtime!InstallPlan)
    BY <1>1, <2>1, InstallPlanned
  <2>3. PlanInv(files, runtimeMarker, changed, op, runtimePlan)'
    BY <1>1, <2>1, <2>2
  <2> QED
    BY <1>1, <1>2, <2>1, <2>3 DEF RuntimeInv, Runtime!MixedIsTold, Runtime!Idle
<1> QED
  BY <1>3, <1>4

LEMMA RuntimeReturn ==
  ASSUME RuntimeInv, Runtime!Return \/ Runtime!BeginReturn PROVE RuntimeInv'
<1>1. CASE Runtime!Return
  <2>1. UNCHANGED <<files, runtimeMarker>> /\ Runtime!Enter("return")
    BY <1>1 DEF Runtime!Return
  <2>2. "return" \in Runtime!Operations \ {"none"}
    BY DEF Runtime!Operations
  <2> QED
    BY <2>1, <2>2, EntersSome
<1>2. CASE Runtime!BeginReturn
  <2>1. CASE Runtime!Restore("return", Runtime!Running)
    BY <2>1, RuntimeRestore DEF RuntimeOperations
  <2>2. CASE ~Runtime!Restore("return", Runtime!Running)
    <3>1. ~Runtime!Transaction /\ Runtime!Succeeded("return") /\ UNCHANGED <<files, runtimeMarker>>
      BY <1>2, <2>2 DEF Runtime!BeginReturn
    <3>2. Runtime!Enter("none")
      BY <3>1 DEF Runtime!Succeeded
    <3> QED
      BY <3>1, <3>2, EntersNone
  <2> QED
    BY <2>1, <2>2
<1> QED
  BY <1>1, <1>2

LEMMA RuntimeCrash ==
  ASSUME RuntimeInv, Runtime!Crash PROVE RuntimeInv'
<1>1. UNCHANGED <<files, runtimeMarker>> /\ Runtime!Enter("none") /\ ~up'
  BY DEF Runtime!Crash
<1>2. "none" \in Runtime!Operations
  BY DEF Runtime!Operations
<1>3. RuntimeTypes(files, runtimeMarker)' /\ MarkerSays(files, runtimeMarker)'
  BY <1>1 DEF RuntimeInv
<1> QED
  BY <1>1, <1>2, <1>3, Entered

(* KF2 is started or closed, or nothing happens.                            *)
LEMMA RuntimeStays ==
  ASSUME RuntimeInv, UNCHANGED <<files, runtimeMarker, up, op, runtimePlan, runtimeTold, changed>>
  PROVE  RuntimeInv'
<1>1. Runtime!MixedIsTold'
  BY StillCurrent DEF RuntimeInv, Runtime!MixedIsTold, Runtime!Idle, Runtime!Stocked,
       Runtime!Exists
<1>2. PlanInv(files, runtimeMarker, changed, op, runtimePlan)'
  BY DEF RuntimeInv
<1> QED
  BY <1>1, <1>2 DEF RuntimeInv

(* Steam changes no part an operation has yet to rely on.                   *)
LEMMA SteamWrites ==
  ASSUME NEW F, NEW m, NEW c, NEW p \in {"core", "ext"}, NEW v \in {"stock", "foreign"}, NEW G,
         G = [F EXCEPT ![p] = v], RuntimeTypes(F, m), MarkerSays(F, m)
  PROVE  /\ RuntimeTypes(G, m) /\ MarkerSays(G, m) /\ G["helper"] = F["helper"]
         /\ NotForeign(G, m, TRUE)
         /\ \A s : BeforeInstall(F, m, c, s) => BeforeInstall(G, m, TRUE, s)
         /\ \A s : BeforeRestore(F, m, s) => BeforeRestore(G, m, s)
<1> USE DEF RuntimeTypes, MarkerSays, NotForeign, Places, Markers, Runtime!Parts, Runtime!Saved,
            Runtime!Contents, IsStep
<1>1. RuntimeTypes(G, m) /\ MarkerSays(G, m) /\ G["helper"] = F["helper"] /\ NotForeign(G, m, TRUE)
  OBVIOUS
<1>2. /\ \A q \in {"relay", "helper", "savedCore", "savedExt", "savedHelper"} : G[q] = F[q]
      /\ G["core"] = "forwarder" => F["core"] = "forwarder"
      /\ G["ext"] = "optimized" => F["ext"] = "optimized"
  OBVIOUS
<1>3. ASSUME NEW s, BeforeInstall(F, m, c, s) PROVE BeforeInstall(G, m, TRUE, s)
  BY <1>2, <1>3 DEF BeforeInstall
<1>4. ASSUME NEW s, BeforeRestore(F, m, s) PROVE BeforeRestore(G, m, s)
  BY <1>2, <1>4 DEF BeforeRestore
<1> QED
  BY <1>1, <1>3, <1>4

LEMMA RuntimeSteam ==
  ASSUME RuntimeInv, Runtime!Steam PROVE RuntimeInv'
<1>1. /\ \E p \in {"core", "ext"}, v \in {"stock", "foreign"} : files' = [files EXCEPT ![p] = v]
      /\ changed' = TRUE /\ UNCHANGED <<runtimeMarker, up, op, runtimePlan>>
  BY DEF Runtime!Steam
<1>2. RuntimeTypes(files, runtimeMarker) /\ MarkerSays(files, runtimeMarker)
  BY DEF RuntimeInv
<1>3. /\ RuntimeTypes(files', runtimeMarker) /\ MarkerSays(files', runtimeMarker)
      /\ files'["helper"] = files["helper"] /\ NotForeign(files', runtimeMarker, TRUE)
      /\ \A s : BeforeInstall(files, runtimeMarker, changed, s)
                 => BeforeInstall(files', runtimeMarker, TRUE, s)
      /\ \A s : BeforeRestore(files, runtimeMarker, s) => BeforeRestore(files', runtimeMarker, s)
  <2>1. PICK p \in {"core", "ext"}, v \in {"stock", "foreign"} : files' = [files EXCEPT ![p] = v]
    BY <1>1
  <2> DEFINE G == files'
             F == files
  <2>2. G = [F EXCEPT ![p] = v] /\ RuntimeTypes(F, runtimeMarker) /\ MarkerSays(F, runtimeMarker)
    BY <1>2, <2>1
  <2> HIDE DEF F, G
  <2>3. /\ RuntimeTypes(G, runtimeMarker) /\ MarkerSays(G, runtimeMarker)
        /\ G["helper"] = F["helper"] /\ NotForeign(G, runtimeMarker, TRUE)
    BY <2>2, SteamWrites
  <2>4. ASSUME NEW s, BeforeInstall(F, runtimeMarker, changed, s)
        PROVE  BeforeInstall(G, runtimeMarker, TRUE, s)
    BY <2>2, <2>4, SteamWrites
  <2>5. ASSUME NEW s, BeforeRestore(F, runtimeMarker, s) PROVE BeforeRestore(G, runtimeMarker, s)
    BY <2>2, <2>5, SteamWrites
  <2> QED
    BY <2>3, <2>4, <2>5 DEF F, G
<1>4. PlanInv(files', runtimeMarker, TRUE, op, runtimePlan)
  BY <1>3 DEF RuntimeInv, PlanInv
<1>5. RuntimeTypes(files, runtimeMarker)' /\ MarkerSays(files, runtimeMarker)'
  BY <1>1, <1>3
<1>6. PlanInv(files, runtimeMarker, changed, op, runtimePlan)'
  BY <1>1, <1>4
<1> QED
  BY <1>1, <1>5, <1>6 DEF RuntimeInv, Runtime!MixedIsTold

(* Every step of the runtime libraries keeps the invariant.                 *)
LEMMA RuntimeStep ==
  ASSUME RuntimeInv, [Runtime!Next]_ofRuntime PROVE RuntimeInv'
<1>1. CASE UNCHANGED ofRuntime
  BY <1>1, RuntimeStays DEF ofRuntime
<1>2. CASE Runtime!BeginUndo \/ Runtime!UserRestore
  BY <1>2, RuntimeRestore DEF Runtime!BeginUndo, Runtime!UserRestore, RuntimeOperations
<1>3. CASE Runtime!GameStart \/ Runtime!GameExit
  BY <1>3, RuntimeStays DEF Runtime!GameStart, Runtime!GameExit
<1>4. CASE Runtime!Next
  BY <1>2, <1>3, <1>4, RuntimeBoot, RuntimeEnsure, RuntimeBeginInstall, RuntimeReturn,
     RuntimeStepDone, RuntimeStepFailed, RuntimeCrash, RuntimeSteam DEF Runtime!Next
<1> QED
  BY <1>1, <1>4

(* What Steam brought before an operation looked is not overwritten.        *)
LEMMA RuntimeSparesForeign ==
  ASSUME RuntimeInv, [Runtime!Next]_ofRuntime,
         NEW p \in Runtime!Parts, files[p] = "foreign", files'[p] # "foreign"
  PROVE  changed \/ changed'
<1> SUFFICES ASSUME ~changed, ~changed' PROVE FALSE
  OBVIOUS
<1>1. RuntimeTypes(files, runtimeMarker) /\ PlanInv(files, runtimeMarker, changed, op, runtimePlan)
  BY DEF RuntimeInv
<1>2. runtimePlan # <<>> /\ Runtime!Written(Head(runtimePlan))
  <2>1. ~UNCHANGED files
    OBVIOUS
  <2>2. Runtime!StepDone \/ Runtime!StepFailed \/ Runtime!Steam
    BY <2>1 DEF Runtime!Next, ofRuntime, Runtime!Boot, Runtime!Ensure,
         Runtime!BeginInstall, Runtime!BeginUndo, Runtime!Return, Runtime!BeginReturn,
         Runtime!UserRestore, Runtime!Crash, Runtime!GameStart, Runtime!GameExit,
         Runtime!Restore, Runtime!Recover
  <2>3. ~Runtime!Steam
    BY DEF Runtime!Steam
  <2> QED
    BY <2>1, <2>2, <2>3 DEF Runtime!StepDone, Runtime!StepFailed
<1> DEFINE s == runtimePlan[1]
<1>3. Head(runtimePlan) = s
  BY <1>1, <1>2, HeadTailProperties DEF PlanInv
<1>4. Writes(files, runtimeMarker, s, files', runtimeMarker')
  BY <1>2, <1>3, WritesOf
<1>5. /\ NotForeign(files, runtimeMarker, changed)
      /\ BeforeInstall(files, runtimeMarker, changed, s) \/ BeforeRestore(files, runtimeMarker, s)
  BY <1>1, <1>2 DEF PlanInv
<1>6. files["core"] # "foreign" /\ (files["ext"] = "foreign" => runtimeMarker.state = "legacy")
  BY <1>5 DEF NotForeign
<1>7. p = "ext" /\ runtimeMarker.state = "legacy"
  BY <1>1, <1>6 DEF RuntimeTypes, Runtime!Parts
<1>8. s.to = "ext"
  BY <1>1, <1>4, <1>7 DEF Writes, RuntimeTypes, Places
<1> QED
  BY <1>5, <1>7, <1>8 DEF BeforeInstall, BeforeRestore, IsStep, HelperBack

(***************************************************************************)
(* All parts together.                                                      *)
(***************************************************************************)

FilesInv ==
    /\ RuntimeInv
    /\ StagingInv
    /\ CapInv
    /\ VideoInv /\ WishInv /\ TuplesInv

LEMMA InitFiles == FilesInit => FilesInv
BY FilesAssumption, RuntimeStarts, StagingStarts, InitCap, VideoStarts, WishStarts,
     TuplesStart DEF FilesInit, FilesInv

(* A step is one of the part that the behaviour is about.                   *)
LEMMA StepOfOnePart ==
  [FilesNext]_filesVars =>
      /\ [Runtime!Next]_ofRuntime /\ [Staging!Next]_ofStaging
      /\ [Next]_vars /\ [Video!Next]_ofVideo
BY DEF FilesNext, filesVars

LEMMA NextFiles == FilesInv /\ [FilesNext]_filesVars => FilesInv'
<1> SUFFICES ASSUME FilesInv, [FilesNext]_filesVars PROVE FilesInv'
  OBVIOUS
<1>1. RuntimeInv'
  BY StepOfOnePart, RuntimeStep DEF FilesInv
<1>2. StagingInv'
  BY StepOfOnePart, StagingStep DEF FilesInv
<1>3. CapInv'
  BY StepOfOnePart, FilesAssumption, NextCap DEF FilesInv
<1>4. VideoInv'
  BY StepOfOnePart, FilesAssumption, VideoStep DEF FilesInv
<1>5. WishInv'
  BY StepOfOnePart, WishStep DEF FilesInv
<1>6. TuplesInv'
  BY StepOfOnePart, FilesAssumption, TuplesStep DEF FilesInv
<1> QED
  BY <1>1, <1>2, <1>3, <1>4, <1>5, <1>6 DEF FilesInv

(* The libraries of the game can be used, are returned, or are known to be  *)
(* mixed, after every failure, crash and update by Steam                    *)
(* (install_optimized_runtime_transaction,                                  *)
(* restore_optimized_runtime_transaction,                                   *)
(* recover_optimized_runtime_transaction).                                  *)
THEOREM RuntimeStaysWhole == FilesSpec => []RuntimeIsWhole
<1>1. FilesInv => RuntimeIsWhole
  BY RuntimeWhole DEF FilesInv, RuntimeIsWhole
<1> QED
  BY <1>1, InitFiles, NextFiles, PTL DEF FilesSpec

(* The logging settings can be taken back from wherever a staging stopped,  *)
(* and a start that reports clean has left no package, marker, setting or   *)
(* section of the optimizer behind (install_offline_telemetry_lab,          *)
(* enable_offline_gameplay_logging, restore_offline_telemetry_lab,          *)
(* cleanup_stale_offline_gameplay_configuration).  Empty directories are    *)
(* not spoken of: they may stay.                                            *)
THEOREM StagingStaysReversible == FilesSpec => []StagingIsReversible
<1>1. FilesInv => StagingIsReversible
  BY StagingReversible DEF FilesInv, StagingIsReversible
<1> QED
  BY <1>1, InitFiles, NextFiles, PTL DEF FilesSpec

(* The frame rate and the graphics settings on the page are what the files  *)
(* hold (set_slider_value, reload_video_settings,                           *)
(* synchronize_video_settings_from_game).                                   *)
THEOREM ShownStaysThere == FilesSpec => []ShownIsThere
<1>1. FilesInv => ShownIsThere
  BY VideoCurrent DEF FilesInv, CapInv, ShownIsThere
<1> QED
  BY <1>1, InitFiles, NextFiles, PTL DEF FilesSpec

(* What KF2, Steam or the player wrote, and was there when an operation     *)
(* looked, is not overwritten or removed by it: a library, a package, an    *)
(* edit of a cap or a graphics setting (require_known_current,              *)
(* install_offline_telemetry_lab, remove_authenticated_module,              *)
(* atomic_replace_utf8_if_unchanged, rebase_video_changes).  A library that *)
(* comes after the look may be replaced, a package only by the copy of the  *)
(* staging that had found its place free.                                   *)
THEOREM ForeignWritesStay == FilesSpec => ForeignWritesKept
<1> DEFINE Library == (\E p \in Runtime!Parts : files[p] = "foreign" /\ files'[p] # "foreign")
                        => changed \/ changed'
           Package == (module = "foreign" /\ module' # "foreign") => (stagingPc = "copy" /\ late)
           Cap == \A f \in Files : disk'[f].edits >= disk[f].edits
           Graphics == Video!Saves =>
             LET mine == DOMAIN videoAsked \cup {"vsync", "variable_rate"} IN
             /\ \A k \in Video!Keys \ UNION {Video!KeysOf(o) : o \in mine} : doc'[k] = doc[k]
             /\ \A g \in Video!Groups : doc'[g] # doc[g] =>
                  /\ "texture_resolution" \in mine \/ doc'[g][1].bias = doc[g][1].bias
                  /\ "texture_filtering" \in mine \/ /\ doc'[g][1].mip = doc[g][1].mip
                                                     /\ doc'[g][1].minmag = doc[g][1].minmag
<1>1. FilesInv /\ [FilesNext]_filesVars => [Library]_Runtime!vars
  <2> SUFFICES ASSUME FilesInv, [FilesNext]_filesVars PROVE Library
    OBVIOUS
  <2> QED
    BY StepOfOnePart, RuntimeSparesForeign DEF FilesInv
<1>2. FilesInv /\ [FilesNext]_filesVars => [Package]_Staging!vars
  BY StepOfOnePart, RemovalSpares DEF FilesInv
<1>3. FilesInv /\ [FilesNext]_filesVars => [Cap]_disk
  BY StepOfOnePart, FilesAssumption, StepKeepsEdits DEF FilesInv
<1>4. FilesInv /\ [FilesNext]_filesVars => [Graphics]_Video!vars
  <2> SUFFICES ASSUME FilesInv, [FilesNext]_filesVars, Video!Saves PROVE Graphics
    OBVIOUS
  <2> QED
    BY StepOfOnePart, VideoOthersKept DEF FilesInv
<1> QED
  BY <1>1, <1>2, <1>3, <1>4, InitFiles, NextFiles, PTL DEF FilesSpec,
       ForeignWritesKept, Runtime!ForeignKept, Staging!ForeignPackageKept,
       EditsKept, Video!OthersKept

(* Whatever the player chose and KF2 rewrote meanwhile, a save is read back *)
(* as the choices that were asked for (build_video_preview,                 *)
(* read_video_settings).                                                    *)
THEOREM SavedReadsAsAsked == FilesSpec => SavedIsAsked
<1> DEFINE ReadsBack ==
      Video!Saves => \A o \in DOMAIN videoAsked : Video!Chosen(doc', o) = videoAsked[o]
<1>1. FilesInv /\ [FilesNext]_filesVars => [ReadsBack]_Video!vars
  <2> SUFFICES ASSUME FilesInv, [FilesNext]_filesVars, Video!Saves, NEW o \in DOMAIN videoAsked
               PROVE  Video!Chosen(doc', o) = videoAsked[o]
    OBVIOUS
  <2> QED
    BY StepOfOnePart, FilesAssumption, VideoSavedIsAsked DEF FilesInv
<1> QED
  BY <1>1, InitFiles, NextFiles, PTL DEF FilesSpec, SavedIsAsked, Video!SavedIsAsked
===============================================================================
