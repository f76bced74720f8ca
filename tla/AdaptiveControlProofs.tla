------------------------ MODULE AdaptiveControlProofs ------------------------
(***************************************************************************)
(* The live control channel of Adaptive Resource Control, proved for any    *)
(* number of quality steps, processes, worlds, changes of mind and lost or  *)
(* late commands and receipts: a quality that KF2 reduced is accounted for, *)
(* and a restoration debt is only struck off when the game is back at the   *)
(* user's quality.                                                          *)
(*                                                                         *)
(* The argument follows the commands under way.  What a receipt may tell is *)
(* decided when KF2 handles its command (Replies), what the optimizer makes *)
(* of it ticks later, when the game may have changed: ChannelInv says what  *)
(* lies between the two.                                                    *)
(***************************************************************************)
EXTENDS AdaptiveControl, SequenceTheorems, TLAPS

(* What the variables hold, field by field, as in TypeOK.                   *)
Messages ==
    [from : Workers \cup {"none"}, op : Ops, to : Level \cup {NoLevel},
     world : 1 .. MaxWorlds, stale : BOOLEAN]

Game ==
    [process : 0 .. MaxProcesses, world : 0 .. MaxWorlds, enabled : BOOLEAN,
     quality : Level, before : Level \cup {NoLevel}, originals : BOOLEAN]
Jobs ==
    [Workers -> [status : {"free", "busy", "done"}, op : Ops \cup {"none"},
                 answer : Answers \cup {"none"}]]
Asks ==
    [from : Level \cup {NoLevel}, to : Level \cup {NoLevel}, current : BOOLEAN]
Records ==
    [process : 0 .. MaxProcesses, report : 0 .. MaxWorlds, setting : BOOLEAN,
     seen : Identities, confirmed : BOOLEAN, pending : {"none", "enable", "disable"},
     due : BOOLEAN, debt : 0 .. MaxProcesses, local : Level, known : BOOLEAN,
     rollback : Level \cup {NoLevel}, ask : Asks, slot : BOOLEAN,
     closed : {"open", "restored", "unrestored"}]
Bounds ==
    [processes : 0 .. MaxProcesses, worlds : 0 .. MaxWorlds,
     toggles : 0 .. MaxToggles, faults : 0 .. MaxFaults]

(* The types, with the commands as a sequence.                              *)
Shape ==
    /\ kf2 \in Game /\ wire \in Seq(Messages) /\ job \in Jobs /\ app \in Records
    /\ unseen \in BOOLEAN /\ bound \in Bounds

(* Processes and worlds are numbered as they come, and a world belongs to   *)
(* the process that played in it.                                           *)
Numbering ==
    /\ kf2.process \in {NoProcess, bound.processes}
    /\ kf2.world \in {NoWorld, bound.worlds}
    /\ kf2.process = NoProcess =>
          /\ kf2.world = NoWorld /\ kf2.quality = Top /\ kf2.before = NoLevel
    /\ app.process <= bound.processes /\ app.debt <= bound.processes
    /\ app.seen[1] <= bound.processes
    /\ app.report <= bound.worlds /\ app.seen[2] <= bound.worlds
    /\ \A i \in DOMAIN wire : wire[i].world <= bound.worlds
    /\ app.report # NoWorld /\ app.report = kf2.world => app.process = kf2.process
    /\ app.seen[2] # NoWorld /\ app.seen[2] = kf2.world => app.seen[1] = kf2.process
    /\ app.seen[1] = NoProcess <=> app.seen[2] = NoWorld

(* What is bound to no process knows nothing, and a debt is of the process  *)
(* that is bound.                                                           *)
Binding ==
    /\ app.process = NoProcess =>
          app.report = NoWorld /\ ~app.confirmed /\ app.ask = NoAsk
    /\ app.process # NoProcess /\ app.process = kf2.process =>
          app.debt \in {NoProcess, kf2.process}

(* A worker waits for at most one command, and nothing but a disable is sent *)
(* behind a mode, and no quality behind a quality.                           *)
Waiting ==
    /\ \A i \in DOMAIN wire :
          /\ wire[i].from # "none" =>
                job[wire[i].from].status = "busy" /\ job[wire[i].from].op = wire[i].op
          /\ wire[i].from = "quality" => wire[i].op = "quality"
          /\ wire[i].from = "mode" => wire[i].op # "quality"
    /\ \A i, j \in DOMAIN wire :
          i < j => /\ wire[i].from = "mode" => wire[j].op = "disable"
                   /\ wire[i].from = "quality" => wire[j].op # "quality"
                   /\ wire[i].from = wire[j].from => wire[i].from = "none"
    /\ job["mode"].status # "free" => ~app.confirmed
    /\ \A i \in DOMAIN wire :
          wire[i].from = "mode" /\ app.seen[2] # NoWorld => wire[i].world = app.seen[2]

(* What is asked is what was sent.                                          *)
Asking ==
    /\ app.ask # NoAsk =>
          /\ app.ask.from \in Level /\ app.ask.to \in Level
          /\ job["quality"].status # "free"
          /\ \A i \in DOMAIN wire :
                wire[i].from = "quality" => wire[i].to = app.ask.to
    /\ \A i \in DOMAIN wire : wire[i].op = "quality" => wire[i].to \in Level
    /\ ~app.setting /\ app.ask # NoAsk => app.process # kf2.process

(* The game is at the user's quality, and no command under way changes it.   *)
Quiet ==
    /\ kf2.quality = Top /\ kf2.before = NoLevel
    /\ \A i \in DOMAIN wire :
          wire[i].world = kf2.world => wire[i].stale \/ wire[i].op = "disable"

Off == Quiet /\ ~kf2.enabled

(* A confirmed disable keeps the game quiet until the next enable is sent.   *)
Proved ==
    LET j == job["mode"] IN
    /\ (/\ j.status = "done" /\ j.op = "disable" /\ j.answer = "applied"
        /\ app.seen[1] = kf2.process /\ kf2.process # NoProcess) => Off
    /\ (/\ app.confirmed /\ ~app.setting /\ app.debt = NoProcess
        /\ app.closed = "open"
        /\ app.seen[1] = kf2.process /\ kf2.process # NoProcess) => Off
    /\ app.pending = "enable" /\ ~app.setting =>
          app.seen[1] # kf2.process \/ kf2.process = NoProcess
    /\ app.closed = "restored" => Quiet

(* A game the optimizer was never bound to is left alone.                    *)
Untouched == Owner(app) # kf2.process => Quiet

Answer(a) ==
    job["quality"].status = "done" /\ job["quality"].answer = a
Fresh(i) == ~wire[i].stale /\ wire[i].world = kf2.world /\ wire[i].op = "quality"

(* What KF2 applied is what was asked for, and nothing older comes after it. *)
Applied ==
    /\ Answer("applied") =>
          /\ \A i \in DOMAIN wire : ~Fresh(i)
          /\ kf2.before = NoLevel
          /\ app.ask # NoAsk /\ kf2.quality < Top => kf2.quality = app.ask.to
    /\ Answer("restored") /\ ~unseen /\ kf2.before = Top => kf2.quality = Top
    /\ job["quality"].status = "done" => job["quality"].op = "quality"

Owed == app.debt = kf2.process

(* Nobody forgets a request that is under way.                               *)
Requested ==
    app.closed = "open" /\ app.ask = NoAsk /\ ~Owed =>
        \A i \in DOMAIN wire : Fresh(i) => wire[i].from # "quality"

(* The reduction KF2 has, or would roll back to, has an owner.               *)
Owned ==
    app.closed = "open" /\ ~unseen /\ ~Owed =>
        /\ kf2.before = NoLevel /\ kf2.quality < Top =>
              app.local < Top \/ (Answer("applied") /\ app.ask # NoAsk)
        /\ kf2.before # NoLevel /\ kf2.before < Top => app.local < Top
        /\ kf2.before = Top /\ kf2.quality < Top =>
              \/ app.local < Top \/ ~app.known
              \/ Answer("unknown") /\ app.ask # NoAsk

ChannelInv ==
    /\ Shape /\ Numbering /\ Binding /\ Waiting /\ Asking /\ Proved
    /\ Untouched /\ Applied /\ Requested /\ Owned

-----------------------------------------------------------------------------
(* What KF2 makes of a command: the quality stays, goes back to the user's,  *)
(* settles a failed rollback, is set, or is set and cannot be taken back.    *)
Stays(g, h) == h.quality = g.quality /\ h.before = g.before
Home(h) == h.quality = Top /\ h.before = NoLevel
Settled(g, h) == g.before # NoLevel /\ h.quality = g.before /\ h.before = NoLevel
Set(g, h, to) == g.before = NoLevel /\ h.quality = to /\ h.before = NoLevel
Half(g, h, to) == g.before = NoLevel /\ h.quality = to /\ h.before = g.quality

Replies(g, m, r) ==
    /\ \/ /\ Stays(g, r.kf2)
          /\ m.op = "quality" => r.answer # "applied"
          /\ r.answer = "restored" => g.before = NoLevel
       \/ Home(r.kf2) /\ m.op # "quality" /\ r.answer # "restored"
       \/ ~m.stale /\ m.op # "disable" /\ Settled(g, r.kf2) /\ r.answer = "restored"
       \/ ~m.stale /\ m.op = "quality" /\ Set(g, r.kf2, m.to) /\ r.answer = "applied" /\ r.commits
       \/ ~m.stale /\ m.op = "quality" /\ Half(g, r.kf2, m.to) /\ r.answer = "unknown" /\ r.fault
    /\ m.op = "disable" /\ r.answer = "applied" => Home(r.kf2) /\ r.commits /\ ~r.kf2.enabled
    /\ r.kf2.enabled /\ ~g.enabled => m.op = "enable" /\ ~m.stale

LEMMA RestoredIs ==
  ASSUME NEW g \in Game
  PROVE  /\ Restored(g) \in Game
         /\ Restored(g).process = g.process /\ Restored(g).world = g.world
         /\ (Restored(g).enabled <=> g.enabled) /\ Restored(g).quality = Top
         /\ Restored(g).before = NoLevel
<1>1. Top \in Level
  BY AdaptiveControlAssumption DEF Level
<1> QED
  BY <1>1 DEF Restored, Game

LEMMA ReplyIs ==
  ASSUME NEW g \in Game, NEW m \in Messages, m.op = "quality" => m.to \in Level,
         NEW r \in ApplyAdaptiveResourceControl(g, m)
  PROVE  /\ r.kf2 \in Game /\ r.kf2.process = g.process /\ r.kf2.world = g.world
         /\ r.answer \in Answers /\ r.commits \in BOOLEAN /\ r.fault \in BOOLEAN
         /\ Replies(g, m, r)
<1>1. /\ Refusal(g) \in {"failed", "unknown"}
      /\ {"applied", "failed", "unknown", "restored"} \subseteq Answers
  BY DEF Refusal, Answers
<1>2. ASSUME r = Reply(g, Refusal(g), FALSE, FALSE) \/ r = Reply(g, Refusal(g), FALSE, TRUE)
             \/ r = Reply(g, "unknown", FALSE, TRUE)
      PROVE  /\ r.kf2 = g /\ r.answer \in {"failed", "unknown"}
             /\ r.commits \in BOOLEAN /\ r.fault \in BOOLEAN
  <2>1. CASE r = Reply(g, Refusal(g), FALSE, FALSE)
    BY <1>1, <2>1 DEF Reply
  <2>2. CASE r = Reply(g, Refusal(g), FALSE, TRUE)
    BY <1>1, <2>2 DEF Reply
  <2>3. CASE r = Reply(g, "unknown", FALSE, TRUE)
    BY <2>3 DEF Reply
  <2> QED
    BY <1>2, <2>1, <2>2, <2>3
<1>3. ASSUME r = Reply(g, Refusal(g), FALSE, FALSE) \/ r = Reply(g, Refusal(g), FALSE, TRUE)
             \/ r = Reply(g, "unknown", FALSE, TRUE)
      PROVE  /\ r.kf2 \in Game /\ r.kf2.process = g.process /\ r.kf2.world = g.world
             /\ r.answer \in Answers /\ r.commits \in BOOLEAN /\ r.fault \in BOOLEAN
             /\ Replies(g, m, r)
  BY <1>1, <1>2, <1>3 DEF Replies, Stays
<1>4. CASE m.stale
  <2>1. r = Reply(g, Refusal(g), FALSE, FALSE)
    BY <1>4 DEF ApplyAdaptiveResourceControl, RefusesStale
  <2> QED
    BY <1>3, <2>1
<1>5. CASE ~m.stale /\ m.op # "disable" /\ g.before # NoLevel
  <2> DEFINE h == [g EXCEPT !.quality = g.before, !.before = NoLevel]
  <2>1. r = Reply(h, "restored", TRUE, FALSE) \/ r = Reply(g, "unknown", FALSE, TRUE)
    BY <1>5 DEF ApplyAdaptiveResourceControl, SettlesRollback
  <2>2. /\ h \in Game /\ h.process = g.process /\ h.world = g.world /\ (h.enabled <=> g.enabled)
        /\ h.quality = g.before /\ h.before = NoLevel
    BY <1>5 DEF Game
  <2> HIDE DEF h
  <2>3. CASE r = Reply(h, "restored", TRUE, FALSE)
    <3>1. r.kf2 = h /\ r.answer = "restored" /\ r.commits /\ ~r.fault
          /\ r.commits \in BOOLEAN /\ r.fault \in BOOLEAN
      BY <2>3 DEF Reply
    <3> QED
      BY <1>1, <1>5, <2>2, <3>1 DEF Replies, Settled
  <2> QED
    BY <1>3, <2>1, <2>3
<1>6. CASE ~m.stale /\ m.op = "disable"
  <2> DEFINE off == [g EXCEPT !.enabled = FALSE]
             left == [off EXCEPT !.originals = TRUE]
  <2>1. \/ r = Reply(Restored(off), "applied", TRUE, FALSE)
        \/ r = Reply(Restored(off), "failed", TRUE, TRUE)
        \/ r = Reply(left, "unknown", TRUE, TRUE)
    BY <1>6 DEF ApplyAdaptiveResourceControl, Disables
  <2>2. /\ off \in Game /\ off.process = g.process /\ off.world = g.world /\ ~off.enabled
    BY DEF Game
  <2>3. /\ left \in Game /\ left.process = g.process /\ left.world = g.world
        /\ left.quality = g.quality /\ left.before = g.before /\ ~left.enabled
    BY DEF Game
  <2> HIDE DEF off, left
  <2>4. CASE \/ r = Reply(Restored(off), "applied", TRUE, FALSE)
             \/ r = Reply(Restored(off), "failed", TRUE, TRUE)
    <3>1. /\ r.kf2 = Restored(off) /\ r.answer \in {"applied", "failed"} /\ r.commits
          /\ r.commits \in BOOLEAN /\ r.fault \in BOOLEAN
      <4>1. CASE r = Reply(Restored(off), "applied", TRUE, FALSE)
        BY <4>1 DEF Reply
      <4>2. CASE r = Reply(Restored(off), "failed", TRUE, TRUE)
        BY <4>2 DEF Reply
      <4> QED
        BY <2>4, <4>1, <4>2
    <3> QED
      BY <1>1, <1>6, <2>2, <3>1, RestoredIs DEF Replies, Home
  <2>5. CASE r = Reply(left, "unknown", TRUE, TRUE)
    <3>1. /\ r.kf2 = left /\ r.answer = "unknown"
          /\ r.commits \in BOOLEAN /\ r.fault \in BOOLEAN
      BY <2>5 DEF Reply
    <3> QED
      BY <1>1, <1>6, <2>3, <3>1 DEF Replies, Stays
  <2> QED
    BY <2>1, <2>4, <2>5
<1>7. CASE ~m.stale /\ m.op = "enable" /\ g.before = NoLevel
  <2> DEFINE base == IF g.originals THEN Restored(g) ELSE g
             on == [base EXCEPT !.enabled = TRUE]
  <2>1. \/ r = Reply(on, "applied", TRUE, FALSE)
        \/ r = Reply(g, Refusal(g), FALSE, TRUE)
        \/ r = Reply(Restored(g), "failed", FALSE, TRUE)
    BY <1>7 DEF ApplyAdaptiveResourceControl, Enables
  <2>2. /\ base \in Game /\ base.process = g.process /\ base.world = g.world
        /\ base.before = NoLevel /\ base.quality \in {g.quality, Top}
    BY <1>7, RestoredIs
  <2> HIDE DEF base
  <2>3. /\ on \in Game /\ on.process = g.process /\ on.world = g.world
        /\ on.before = NoLevel /\ on.quality \in {g.quality, Top}
    BY <2>2 DEF Game
  <2> HIDE DEF on
  <2>4. CASE r = Reply(on, "applied", TRUE, FALSE)
    <3>1. /\ r.kf2 = on /\ r.answer = "applied"
          /\ r.commits \in BOOLEAN /\ r.fault \in BOOLEAN
      BY <2>4 DEF Reply
    <3> QED
      BY <1>1, <1>7, <2>3, <3>1 DEF Replies, Home, Stays
  <2>5. CASE r = Reply(Restored(g), "failed", FALSE, TRUE)
    <3>1. /\ r.kf2 = Restored(g) /\ r.answer = "failed"
          /\ r.commits \in BOOLEAN /\ r.fault \in BOOLEAN
      BY <2>5 DEF Reply
    <3> QED
      BY <1>1, <1>7, <3>1, RestoredIs DEF Replies, Home
  <2> QED
    BY <1>3, <2>1, <2>4, <2>5
<1>8. CASE ~m.stale /\ m.op = "quality" /\ g.before = NoLevel
  <2> DEFINE at == [g EXCEPT !.quality = m.to]
             half == [g EXCEPT !.quality = m.to, !.before = g.quality]
  <2>1. \/ r = Reply(at, "applied", TRUE, FALSE)
        \/ r = Reply(g, Refusal(g), FALSE, TRUE)
        \/ r = Reply(g, "restored", FALSE, TRUE)
        \/ r = Reply(half, "unknown", FALSE, TRUE)
        \/ r = Reply(g, Refusal(g), FALSE, FALSE)
    BY <1>8 DEF ApplyAdaptiveResourceControl, SetsQuality
  <2>2. /\ at \in Game /\ at.process = g.process /\ at.world = g.world
        /\ at.before = NoLevel /\ at.quality = m.to /\ (at.enabled <=> g.enabled)
    BY <1>8 DEF Game
  <2>3. /\ half \in Game /\ half.process = g.process /\ half.world = g.world
        /\ half.before = g.quality /\ half.quality = m.to /\ (half.enabled <=> g.enabled)
    BY <1>8 DEF Game
  <2> HIDE DEF at, half
  <2>4. CASE r = Reply(at, "applied", TRUE, FALSE)
    <3>1. /\ r.kf2 = at /\ r.answer = "applied" /\ r.commits
          /\ r.commits \in BOOLEAN /\ r.fault \in BOOLEAN
      BY <2>4 DEF Reply
    <3> QED
      BY <1>1, <1>8, <2>2, <3>1 DEF Replies, Set
  <2>5. CASE r = Reply(half, "unknown", FALSE, TRUE)
    <3>1. /\ r.kf2 = half /\ r.answer = "unknown" /\ r.fault
          /\ r.commits \in BOOLEAN /\ r.fault \in BOOLEAN
      BY <2>5 DEF Reply
    <3> QED
      BY <1>1, <1>8, <2>3, <3>1 DEF Replies, Half
  <2>6. CASE r = Reply(g, "restored", FALSE, TRUE)
    <3>1. /\ r.kf2 = g /\ r.answer = "restored"
          /\ r.commits \in BOOLEAN /\ r.fault \in BOOLEAN
      BY <2>6 DEF Reply
    <3> QED
      BY <1>1, <1>8, <3>1 DEF Replies, Stays
  <2> QED
    BY <1>3, <2>1, <2>4, <2>5, <2>6
<1>9. m.stale \in BOOLEAN /\ m.op \in {"enable", "disable", "quality"}
  BY DEF Messages, Ops
<1> QED
  BY <1>4, <1>5, <1>6, <1>7, <1>8, <1>9

-----------------------------------------------------------------------------
(* Commands that pass: the wire is what it was, in order, without the       *)
(* command that was handled or given up, and no command gets fresh again.    *)
Passed(new, old, i, place) ==
    /\ place \in [DOMAIN new -> DOMAIN old]
    /\ \A a, b \in DOMAIN new : a < b => place[a] < place[b]
    /\ \A a \in DOMAIN new :
          /\ new[a].op = old[place[a]].op /\ new[a].to = old[place[a]].to
          /\ new[a].world = old[place[a]].world
          /\ old[place[a]].stale => new[a].stale
          /\ new[a].from = "none" \/ (new[a].from = old[place[a]].from /\ place[a] # i)

Shift(n, i) == [a \in 1 .. n |-> IF a < i THEN a ELSE a + 1]

LEMMA TakenPasses ==
  ASSUME NEW w \in Seq(Messages), NEW i \in DOMAIN w, NEW commits \in BOOLEAN
  PROVE  LET new == (IF commits THEN Outdated(SubSeq(w, 1, i - 1)) ELSE SubSeq(w, 1, i - 1))
                    \o SubSeq(w, i + 1, Len(w))
             place == Shift(Len(w) - 1, i) IN
         /\ new \in Seq(Messages) /\ Passed(new, w, i, place)
         /\ \A a \in DOMAIN new : place[a] # i
         /\ commits => \A a \in DOMAIN new : place[a] < i => new[a].stale
<1> DEFINE first == SubSeq(w, 1, i - 1)
           last == SubSeq(w, i + 1, Len(w))
           kept == IF commits THEN Outdated(first) ELSE first
           new == kept \o last
           place == Shift(Len(w) - 1, i)
<1>1. i \in 1 .. Len(w) /\ Len(w) \in Nat /\ DOMAIN w = 1 .. Len(w)
  OBVIOUS
<1>2. /\ first \in Seq(Messages) /\ Len(first) = i - 1
      /\ \A a \in 1 .. i - 1 : first[a] = w[a]
  BY <1>1
<1>3. /\ last \in Seq(Messages) /\ Len(last) = Len(w) - i
      /\ \A a \in 1 .. Len(w) - i : last[a] = w[i + a]
  BY <1>1
<1>4. /\ Outdated(first) \in Seq(Messages) /\ Len(Outdated(first)) = i - 1
      /\ \A a \in 1 .. i - 1 : Outdated(first)[a] = [first[a] EXCEPT !.stale = TRUE]
  <2>1. DOMAIN first = 1 .. i - 1
    BY <1>1, <1>2
  <2>2. \A a \in 1 .. i - 1 : first[a] \in Messages
    BY <1>1, <1>2
  <2>3. \A a \in 1 .. i - 1 : [first[a] EXCEPT !.stale = TRUE] \in Messages
    BY <2>2 DEF Messages
  <2>4. Outdated(first) = [a \in 1 .. i - 1 |-> [first[a] EXCEPT !.stale = TRUE]]
    BY <2>1 DEF Outdated
  <2> HIDE DEF first
  <2>5. Outdated(first) \in Seq(Messages) /\ Len(Outdated(first)) = i - 1
    <3> DEFINE f(a) == [first[a] EXCEPT !.stale = TRUE]
    <3>1. \A a \in 1 .. i - 1 : f(a) \in Messages
      BY <2>3
    <3>2. i - 1 \in Nat
      BY <1>1
    <3> HIDE DEF f
    <3>3. [a \in 1 .. i - 1 |-> f(a)] \in Seq(Messages) /\ Len([a \in 1 .. i - 1 |-> f(a)]) = i - 1
      BY <3>1, <3>2
    <3> QED
      BY <2>4, <3>3 DEF f
  <2> QED
    BY <2>4, <2>5
<1>5. /\ kept \in Seq(Messages) /\ Len(kept) = i - 1
      /\ \A a \in 1 .. i - 1 :
            /\ kept[a].op = w[a].op /\ kept[a].to = w[a].to /\ kept[a].world = w[a].world
            /\ kept[a].from = w[a].from /\ (w[a].stale => kept[a].stale)
            /\ commits => kept[a].stale
  <2>1. \A a \in 1 .. i - 1 : w[a] \in Messages
    BY <1>1
  <2>2. CASE commits = TRUE
    <3>1. kept = Outdated(first)
      BY <2>2
    <3> HIDE DEF kept, first
    <3> QED
      BY <1>2, <1>4, <2>1, <3>1 DEF Messages
  <2>3. CASE commits = FALSE
    BY <1>1, <1>2, <2>1, <2>3 DEF Messages
  <2> QED
    BY <2>2, <2>3
<1> HIDE DEF kept, last, first
<1>6. /\ new \in Seq(Messages) /\ Len(new) = Len(w) - 1
      /\ \A a \in 1 .. Len(w) - 1 :
            new[a] = IF a < i THEN kept[a] ELSE last[a - (i - 1)]
  <2>1. new \in Seq(Messages) /\ Len(new) = Len(kept) + Len(last)
    BY <1>3, <1>5, ConcatProperties
  <2>2. \A a \in 1 .. Len(kept) + Len(last) :
           new[a] = IF a <= Len(kept) THEN kept[a] ELSE last[a - Len(kept)]
    BY <1>3, <1>5, ConcatProperties
  <2> QED
    BY <1>1, <1>3, <1>5, <2>1, <2>2
<1>7. /\ DOMAIN new = 1 .. Len(w) - 1
      /\ place \in [DOMAIN new -> DOMAIN w]
      /\ \A a \in DOMAIN new : place[a] = IF a < i THEN a ELSE a + 1
  <2>1. DOMAIN new = 1 .. Len(new)
    <3> HIDE DEF new
    <3> QED
      BY <1>6
  <2> HIDE DEF new
  <2> QED
    BY <1>1, <1>6, <2>1 DEF Shift
<1>8. \A a, b \in DOMAIN new : a < b => place[a] < place[b]
  <2> HIDE DEF new, place
  <2> QED
    BY <1>1, <1>7
<1>9. ASSUME NEW a \in DOMAIN new
      PROVE  /\ new[a].op = w[place[a]].op /\ new[a].to = w[place[a]].to
             /\ new[a].world = w[place[a]].world /\ new[a].from = w[place[a]].from
             /\ w[place[a]].stale => new[a].stale
             /\ place[a] # i
             /\ commits /\ place[a] < i => new[a].stale
  <2> HIDE DEF place, new
  <2>1. CASE a < i
    BY SMTT(30), <1>1, <1>5, <1>6, <1>7, <2>1
  <2>2. CASE ~(a < i)
    <3>1. a \in 1 .. Len(w) - 1 /\ a - (i - 1) \in 1 .. Len(w) - i /\ i + (a - (i - 1)) = a + 1
      BY <1>1, <1>7, <2>2
    <3>2. last[a - (i - 1)] = w[a + 1]
      BY <1>3, <3>1
    <3> QED
      BY <1>1, <1>6, <1>7, <2>2, <3>1, <3>2
  <2> QED
    BY <2>1, <2>2
<1> HIDE DEF place, new
<1>10. Passed(new, w, i, place)
  BY <1>7, <1>8, <1>9 DEF Passed
<1> QED
  BY <1>6, <1>9, <1>10 DEF new, place, kept, first, last

LEMMA OutdatedPasses ==
  ASSUME NEW w \in Seq(Messages)
  PROVE  /\ Outdated(w) \in Seq(Messages) /\ Passed(Outdated(w), w, 0, [a \in DOMAIN w |-> a])
         /\ \A a \in DOMAIN Outdated(w) : Outdated(w)[a].stale
<1>1. \A a \in DOMAIN w : w[a] \in Messages
  OBVIOUS
<1>2. \A a \in DOMAIN w : [w[a] EXCEPT !.stale = TRUE] \in Messages
  BY <1>1 DEF Messages
<1>3. DOMAIN w = 1 .. Len(w) /\ Len(w) \in Nat
  OBVIOUS
<1>4. /\ DOMAIN Outdated(w) = 1 .. Len(w)
      /\ \A a \in 1 .. Len(w) : Outdated(w)[a] = [w[a] EXCEPT !.stale = TRUE]
  BY <1>3 DEF Outdated
<1>5. Outdated(w) \in Seq(Messages)
  BY <1>2, <1>3 DEF Outdated
<1>6. \A a \in 1 .. Len(w) :
         /\ Outdated(w)[a].op = w[a].op /\ Outdated(w)[a].to = w[a].to
         /\ Outdated(w)[a].world = w[a].world /\ Outdated(w)[a].from = w[a].from
         /\ Outdated(w)[a].stale
  BY <1>1, <1>3, <1>4 DEF Messages
<1> QED
  BY <1>3, <1>4, <1>5, <1>6 DEF Passed

LEMMA SamePasses ==
  ASSUME NEW w \in Seq(Messages)
  PROVE  Passed(w, w, 0, [a \in DOMAIN w |-> a])
<1>1. DOMAIN w = 1 .. Len(w) /\ Len(w) \in Nat
  OBVIOUS
<1> QED
  BY <1>1 DEF Passed

LEMMA RemovedPasses ==
  ASSUME NEW w \in Seq(Messages), NEW i \in DOMAIN w
  PROVE  /\ RemoveAt(w, i) \in Seq(Messages)
         /\ Passed(RemoveAt(w, i), w, i, Shift(Len(w) - 1, i))
<1>1. RemoveAt(w, i) = SubSeq(w, 1, i - 1) \o SubSeq(w, i + 1, Len(w))
  BY DEF RemoveAt
<1> QED
  BY <1>1, TakenPasses

LEMMA GivenUpPasses ==
  ASSUME NEW w \in Seq(Messages), NEW i \in DOMAIN w
  PROVE  LET new == [w EXCEPT ![i].from = "none"] IN
         new \in Seq(Messages) /\ Passed(new, w, i, [a \in DOMAIN w |-> a])
<1> DEFINE new == [w EXCEPT ![i].from = "none"]
<1>1. DOMAIN w = 1 .. Len(w) /\ Len(w) \in Nat /\ \A a \in DOMAIN w : w[a] \in Messages
  OBVIOUS
<1>2. [w[i] EXCEPT !.from = "none"] \in Messages
  BY <1>1 DEF Messages
<1>3. /\ DOMAIN new = DOMAIN w
      /\ \A a \in DOMAIN w : new[a] = IF a = i THEN [w[i] EXCEPT !.from = "none"] ELSE w[a]
  OBVIOUS
<1>4. new \in Seq(Messages)
  BY <1>1, <1>2, <1>3
<1>5. \A a \in DOMAIN w :
         /\ new[a].op = w[a].op /\ new[a].to = w[a].to /\ new[a].world = w[a].world
         /\ w[a].stale => new[a].stale
         /\ new[a].from = "none" \/ (new[a].from = w[a].from /\ a # i)
  BY <1>1, <1>3 DEF Messages
<1> HIDE DEF new
<1>6. Passed(new, w, i, [a \in DOMAIN w |-> a])
  BY <1>1, <1>3, <1>5 DEF Passed
<1> QED
  BY <1>4, <1>6 DEF new

-----------------------------------------------------------------------------
(* Nothing that was sent goes to the menu.                                  *)
LEMMA WireWorlds ==
  ASSUME NEW w \in Seq(Messages), NEW i \in DOMAIN w
  PROVE  /\ w[i] \in Messages /\ w[i].world \in 1 .. MaxWorlds /\ w[i].world # NoWorld
         /\ w[i].stale \in BOOLEAN /\ w[i].op \in Ops /\ w[i].from \in Workers \cup {"none"}
<1>1. w[i] \in Messages
  OBVIOUS
<1> QED
  BY <1>1 DEF Messages, NoWorld

LEMMA Typed == Shape => TypeOK
<1> SUFFICES ASSUME Shape PROVE TypeOK
  OBVIOUS
<1>1. kf2 \in [process : 0 .. MaxProcesses, world : 0 .. MaxWorlds,
               enabled : BOOLEAN, quality : Level,
               before : Level \cup {NoLevel}, originals : BOOLEAN]
  BY DEF Shape, Game
<1>2. \A i \in DOMAIN wire : wire[i] \in Messages
  BY WireWorlds DEF Shape
<1> QED
  BY <1>1, <1>2 DEF Shape, TypeOK, Jobs, Asks, Records, Bounds, Messages

LEMMA InitChannel == Init => ChannelInv
<1> SUFFICES ASSUME Init PROVE ChannelInv
  OBVIOUS
<1>1. Top \in Level /\ NoLevel \notin Level
  BY AdaptiveControlAssumption DEF Level, NoLevel
<1>2. Shape
  <2>1. kf2 \in Game
    BY <1>1, AdaptiveControlAssumption DEF Init, Game, NoProcess, NoWorld
  <2>2. wire \in Seq(Messages)
    BY DEF Init
  <2>3. job \in Jobs
    BY DEF Init, Jobs, Free, Workers
  <2>4. bound \in Bounds
    BY AdaptiveControlAssumption DEF Init, Bounds
  <2>5. NoAsk \in Asks
    BY DEF NoAsk, Asks
  <2>6. <<0, 0>> \in Identities /\ NoProcess \in 0 .. MaxProcesses /\ NoWorld \in 0 .. MaxWorlds
    BY AdaptiveControlAssumption DEF Identities, NoProcess, NoWorld
  <2>7. app \in Records
    BY <1>1, <2>5, <2>6 DEF Init, Records
  <2> QED
    BY <2>1, <2>2, <2>3, <2>4, <2>7 DEF Init, Shape
<1>3. DOMAIN wire = {}
  BY DEF Init
<1>4. /\ kf2.process = NoProcess /\ kf2.world = NoWorld /\ kf2.quality = Top
      /\ kf2.before = NoLevel
  BY DEF Init
<1>5. \A w \in Workers : job[w].status = "free"
  BY DEF Init, Free
<1>6. /\ app.process = NoProcess /\ app.report = NoWorld /\ app.seen = <<0, 0>>
      /\ app.seen[1] = 0 /\ app.seen[2] = 0
      /\ ~app.confirmed /\ app.pending = "none" /\ app.debt = NoProcess
      /\ app.ask = NoAsk /\ app.closed = "open" /\ app.setting
  BY DEF Init
<1>7. bound.processes = 0 /\ bound.worlds = 0
  BY DEF Init
<1>8. "mode" \in Workers /\ "quality" \in Workers
  BY DEF Workers
<1>9. Numbering /\ Binding
  BY <1>3, <1>4, <1>6, <1>7 DEF Numbering, Binding, NoProcess, NoWorld
<1>10. Waiting /\ Asking
  BY <1>3, <1>4, <1>5, <1>6, <1>8 DEF Waiting, Asking, NoProcess, NoWorld
<1>11. Proved /\ Untouched
  BY <1>3, <1>4, <1>5, <1>6, <1>8 DEF Proved, Untouched, Quiet, Owner
<1>12. Applied /\ Requested /\ Owned
  BY <1>1, <1>3, <1>4, <1>5, <1>6, <1>8 DEF Applied, Requested, Owned, Owed, Answer
<1> QED
  BY <1>2, <1>9, <1>10, <1>11, <1>12 DEF ChannelInv

-----------------------------------------------------------------------------
(* A quiet game has nothing to be owned.                                    *)
LEMMA QuietOwesNothing ==
  ASSUME Shape', Quiet', job'["quality"].status = "done" => job'["quality"].op = "quality"
  PROVE  Untouched' /\ Applied' /\ Requested' /\ Owned'
<1>1. Top \in Nat /\ NoLevel # Top
  BY AdaptiveControlAssumption DEF NoLevel
<1>2. kf2'.quality = Top /\ kf2'.before = NoLevel
  BY DEF Quiet
<1>3. \A i \in DOMAIN wire' : ~Fresh(i)'
  <2>1. \A i \in DOMAIN wire' : wire'[i].world = kf2'.world =>
              wire'[i].stale \/ wire'[i].op = "disable"
    BY DEF Quiet
  <2> QED
    BY <2>1 DEF Fresh
<1>4. Untouched'
  BY DEF Untouched
<1>5. Applied'
  BY <1>1, <1>2, <1>3 DEF Applied, Answer
<1>6. Requested'
  BY <1>3 DEF Requested
<1>7. Owned'
  BY <1>1, <1>2 DEF Owned
<1> QED
  BY <1>4, <1>5, <1>6, <1>7

LEMMA GameStartsKeeps == ASSUME ChannelInv, GameStarts PROVE ChannelInv'
<1>1. /\ kf2 \in Game /\ wire \in Seq(Messages) /\ app \in Records /\ bound \in Bounds
      /\ Shape /\ Numbering /\ Binding /\ Waiting /\ Asking /\ Proved
      /\ Untouched /\ Applied /\ Requested /\ Owned
  BY DEF ChannelInv, Shape
<1>2. /\ UNCHANGED <<wire, job, app, unseen>>
      /\ app.closed = "open" /\ kf2.process = NoProcess
      /\ bound.processes < MaxProcesses
      /\ bound' = [bound EXCEPT !.processes = @ + 1]
  BY DEF GameStarts
<1>3. PICK enabled \in BOOLEAN :
          kf2' = [process |-> bound.processes + 1, world |-> NoWorld,
                  enabled |-> enabled, quality |-> Top, before |-> NoLevel,
                  originals |-> FALSE]
  BY DEF GameStarts
<1>4. /\ kf2'.process = bound.processes + 1 /\ kf2'.world = NoWorld
      /\ kf2'.quality = Top /\ kf2'.before = NoLevel
  BY <1>3
<1>5. /\ bound.processes \in Nat /\ bound.worlds \in Nat /\ bound'.processes = bound.processes + 1
      /\ bound'.worlds = bound.worlds /\ bound' \in Bounds
  BY <1>1, <1>2, AdaptiveControlAssumption DEF Bounds
<1>6. Shape'
  <2>1. Top \in Level /\ NoWorld \in 0 .. MaxWorlds /\ bound.processes + 1 \in 0 .. MaxProcesses
    BY <1>2, <1>5, AdaptiveControlAssumption DEF Level, NoWorld
  <2>2. kf2' \in Game
    BY <1>3, <2>1 DEF Game
  <2> QED
    BY <1>1, <1>2, <1>5, <2>2 DEF Shape
<1>7. \A i \in DOMAIN wire' : wire'[i].world # kf2'.world
  BY <1>1, <1>2, <1>4, WireWorlds
<1>8. /\ app.process \in Nat /\ app.debt \in Nat /\ app.report \in Nat
      /\ app.seen[1] \in Nat /\ app.seen[2] \in Nat
  BY <1>1 DEF Records, Identities
<1>9. Numbering'
  BY <1>1, <1>2, <1>4, <1>5, <1>8 DEF Numbering, NoProcess, NoWorld
<1>10. /\ app.process # kf2'.process /\ app.debt # kf2'.process /\ app.seen[1] # kf2'.process
  BY <1>1, <1>2, <1>4, <1>5, <1>8 DEF Numbering
<1>11. Binding' /\ Waiting' /\ Asking'
  BY <1>1, <1>2, <1>10 DEF Binding, Waiting, Asking
<1>12. Quiet'
  BY <1>4, <1>7 DEF Quiet
<1>13. Proved'
  BY <1>1, <1>2, <1>10, <1>12 DEF Proved
<1>14. Untouched' /\ Applied' /\ Requested' /\ Owned'
  BY <1>1, <1>2, <1>6, <1>12, QuietOwesNothing DEF Applied
<1> QED
  BY <1>6, <1>9, <1>11, <1>13, <1>14 DEF ChannelInv

LEMMA GameExitsKeeps == ASSUME ChannelInv, GameExits PROVE ChannelInv'
<1>1. /\ kf2 \in Game /\ wire \in Seq(Messages) /\ app \in Records /\ bound \in Bounds
      /\ Shape /\ Numbering /\ Binding /\ Waiting /\ Asking /\ Proved
      /\ Untouched /\ Applied /\ Requested /\ Owned
  BY DEF ChannelInv, Shape
<1>2. /\ UNCHANGED <<wire, job, app, bound>> /\ unseen' = FALSE
      /\ kf2' = [kf2 EXCEPT !.process = NoProcess, !.world = NoWorld,
                  !.enabled = FALSE, !.quality = Top, !.before = NoLevel,
                  !.originals = FALSE]
  BY DEF GameExits
<1>3. Shape'
  <2>1. Top \in Level /\ NoWorld \in 0 .. MaxWorlds /\ NoProcess \in 0 .. MaxProcesses
    BY AdaptiveControlAssumption DEF Level, NoWorld, NoProcess
  <2>2. kf2' \in Game
    BY <1>1, <1>2, <2>1 DEF Game
  <2> QED
    BY <1>1, <1>2, <2>2 DEF Shape
<1>4. /\ kf2'.process = NoProcess /\ kf2'.world = NoWorld
      /\ kf2'.quality = Top /\ kf2'.before = NoLevel /\ ~kf2'.enabled
  BY <1>1, <1>2 DEF Game
<1>5. \A i \in DOMAIN wire' : wire'[i].world # kf2'.world
  BY <1>1, <1>2, <1>4, WireWorlds
<1>6. Quiet'
  BY <1>4, <1>5 DEF Quiet
<1>7. Numbering' /\ Binding' /\ Waiting'
  BY <1>1, <1>2, <1>4 DEF Numbering, Binding, Waiting
<1>8. Asking'
  BY <1>1, <1>2, <1>4 DEF Asking, Binding
<1>9. Proved'
  BY <1>1, <1>2, <1>4, <1>6 DEF Proved
<1>10. Untouched' /\ Applied' /\ Requested' /\ Owned'
  BY <1>1, <1>2, <1>3, <1>6, QuietOwesNothing DEF Applied
<1> QED
  BY <1>3, <1>7, <1>8, <1>9, <1>10 DEF ChannelInv

LEMMA TravelKeeps == ASSUME ChannelInv, Travel PROVE ChannelInv'
<1>1. /\ kf2 \in Game /\ wire \in Seq(Messages) /\ app \in Records /\ bound \in Bounds
      /\ Shape /\ Numbering /\ Binding /\ Waiting /\ Asking /\ Proved
      /\ Untouched /\ Applied /\ Requested /\ Owned
  BY DEF ChannelInv, Shape
<1>2. /\ UNCHANGED <<wire, job, app, unseen>> /\ kf2.process # NoProcess
      /\ \/ kf2' = [kf2 EXCEPT !.world = NoWorld] /\ bound' = bound
         \/ /\ bound.worlds < MaxWorlds
            /\ kf2' = [kf2 EXCEPT !.world = bound.worlds + 1]
            /\ bound' = [bound EXCEPT !.worlds = @ + 1]
  BY DEF Travel
<1>3. /\ bound.processes \in Nat /\ bound.worlds \in Nat /\ bound.worlds <= MaxWorlds
      /\ bound'.processes = bound.processes /\ bound' \in Bounds
      /\ bound'.worlds \in {bound.worlds, bound.worlds + 1}
  BY <1>1, <1>2, AdaptiveControlAssumption DEF Bounds
<1>4. /\ kf2'.process = kf2.process /\ (kf2'.enabled <=> kf2.enabled)
      /\ kf2'.quality = kf2.quality /\ kf2'.before = kf2.before
      /\ \/ kf2'.world = NoWorld /\ bound'.worlds = bound.worlds
         \/ kf2'.world = bound.worlds + 1 /\ bound'.worlds = bound.worlds + 1
  BY <1>1, <1>2 DEF Game, Bounds
<1>5. Shape'
  <2>1. NoWorld \in 0 .. MaxWorlds /\ (bound.worlds < MaxWorlds =>
              bound.worlds + 1 \in 0 .. MaxWorlds)
    BY <1>3, AdaptiveControlAssumption DEF NoWorld
  <2>2. kf2' \in Game
    BY <1>1, <1>2, <2>1 DEF Game
  <2> QED
    BY <1>1, <1>2, <1>3, <2>2 DEF Shape
<1>6. /\ app.report \in Nat /\ app.seen[2] \in Nat /\ \A i \in DOMAIN wire : wire[i].world \in Nat
      /\ app.report <= bound.worlds /\ app.seen[2] <= bound.worlds
      /\ \A i \in DOMAIN wire : wire[i].world <= bound.worlds
  BY <1>1, WireWorlds DEF Numbering, Records, Identities
<1>7. \A i \in DOMAIN wire' : wire'[i].world # kf2'.world
  BY <1>1, <1>2, <1>3, <1>4, <1>6, WireWorlds
<1>8. Numbering'
  BY <1>1, <1>2, <1>3, <1>4, <1>6 DEF Numbering, NoWorld, NoProcess
<1>9. Binding' /\ Waiting' /\ Asking'
  BY <1>1, <1>2, <1>4 DEF Binding, Waiting, Asking
<1>10. (Quiet => Quiet') /\ (Off => Off')
  BY <1>4, <1>7 DEF Quiet, Off
<1>11. Proved' /\ Untouched'
  BY <1>1, <1>2, <1>4, <1>10 DEF Proved, Untouched, Owner
<1>12. \A i \in DOMAIN wire' : ~Fresh(i)'
  BY <1>7 DEF Fresh
<1>13. Applied' /\ Requested' /\ Owned'
  BY <1>1, <1>2, <1>4, <1>12 DEF Applied, Requested, Owned, Answer, Owed
<1> QED
  BY <1>5, <1>8, <1>9, <1>11, <1>13 DEF ChannelInv

LEMMA GameRetriesKeeps == ASSUME ChannelInv, GameRetries PROVE ChannelInv'
<1>1. /\ kf2 \in Game /\ wire \in Seq(Messages) /\ app \in Records /\ bound \in Bounds
      /\ Shape /\ Numbering /\ Binding /\ Waiting /\ Asking /\ Proved
      /\ Untouched /\ Applied /\ Requested /\ Owned
  BY DEF ChannelInv, Shape
<1>2. /\ UNCHANGED <<wire, job, app, bound>> /\ unseen' = FALSE /\ kf2' = Restored(kf2)
  BY DEF GameRetries
<1>3. /\ kf2' \in Game /\ kf2'.process = kf2.process /\ kf2'.world = kf2.world
      /\ (kf2'.enabled <=> kf2.enabled) /\ kf2'.quality = Top /\ kf2'.before = NoLevel
  BY <1>1, <1>2, RestoredIs
<1>4. Shape'
  BY <1>1, <1>2, <1>3 DEF Shape
<1>5. Numbering' /\ Binding' /\ Waiting' /\ Asking'
  BY <1>1, <1>2, <1>3 DEF Numbering, Binding, Waiting, Asking
<1>6. (Quiet => Quiet') /\ (Off => Off')
  BY <1>2, <1>3 DEF Quiet, Off
<1>7. Proved' /\ Untouched'
  BY <1>1, <1>2, <1>3, <1>6 DEF Proved, Untouched, Owner
<1>8. \A i \in DOMAIN wire' : Fresh(i)' <=> Fresh(i)
  BY <1>2, <1>3 DEF Fresh
<1>9. Top \in Nat /\ NoLevel # Top
  BY AdaptiveControlAssumption DEF NoLevel
<1>10. Applied' /\ Requested' /\ Owned'
  BY <1>1, <1>2, <1>3, <1>8, <1>9 DEF Applied, Requested, Owned, Answer, Owed
<1> QED
  BY <1>4, <1>5, <1>7, <1>10 DEF ChannelInv

LEMMA ObserveKeeps == ASSUME ChannelInv, Observe PROVE ChannelInv'
<1>1. /\ kf2 \in Game /\ wire \in Seq(Messages) /\ app \in Records /\ bound \in Bounds
      /\ Shape /\ Numbering /\ Binding /\ Waiting /\ Asking /\ Proved
      /\ Untouched /\ Applied /\ Requested /\ Owned
  BY DEF ChannelInv, Shape
<1>2. /\ UNCHANGED <<kf2, wire, job, unseen, bound>> /\ app.process # NoProcess
      /\ app.process = kf2.process /\ app' = [app EXCEPT !.report = kf2.world]
  BY DEF Observe
<1>3. /\ app'.process = app.process /\ app'.report = kf2.world /\ app'.seen = app.seen
      /\ (app'.confirmed <=> app.confirmed) /\ (app'.setting <=> app.setting)
      /\ app'.pending = app.pending /\ app'.debt = app.debt /\ app'.local = app.local
      /\ (app'.known <=> app.known) /\ app'.ask = app.ask /\ app'.closed = app.closed
  BY <1>1, <1>2 DEF Records
<1>4. Shape'
  <2>1. kf2.world \in 0 .. MaxWorlds
    BY <1>1 DEF Game
  <2>2. app' \in Records
    BY <1>1, <1>2, <2>1 DEF Records
  <2> QED
    BY <1>1, <1>2, <2>2 DEF Shape
<1>5. bound.worlds \in Nat
  BY <1>1 DEF Bounds
<1>6. Numbering' /\ Binding'
  BY <1>1, <1>2, <1>3, <1>5 DEF Numbering, Binding, NoWorld
<1>7. Waiting' /\ Asking'
  BY <1>1, <1>2, <1>3 DEF Waiting, Asking
<1>8. (Quiet' <=> Quiet) /\ (Off' <=> Off)
  BY <1>2 DEF Quiet, Off
<1>9. Proved' /\ Untouched'
  BY <1>1, <1>2, <1>3, <1>8 DEF Proved, Untouched, Owner
<1>10. Applied' /\ Requested' /\ Owned'
  BY <1>1, <1>2, <1>3 DEF Applied, Requested, Owned, Answer, Owed, Fresh
<1> QED
  BY <1>4, <1>6, <1>7, <1>9, <1>10 DEF ChannelInv

LEMMA RetryDueKeeps == ASSUME ChannelInv, RetryDue PROVE ChannelInv'
<1>1. /\ kf2 \in Game /\ wire \in Seq(Messages) /\ app \in Records /\ bound \in Bounds
      /\ Shape /\ Numbering /\ Binding /\ Waiting /\ Asking /\ Proved
      /\ Untouched /\ Applied /\ Requested /\ Owned
  BY DEF ChannelInv, Shape
<1>2. UNCHANGED <<kf2, wire, job, unseen, bound>> /\ app' = [app EXCEPT !.due = TRUE]
  BY DEF RetryDue
<1>3. /\ app'.process = app.process /\ app'.report = app.report /\ app'.seen = app.seen
      /\ (app'.confirmed <=> app.confirmed) /\ (app'.setting <=> app.setting)
      /\ app'.pending = app.pending /\ app'.debt = app.debt /\ app'.local = app.local
      /\ (app'.known <=> app.known) /\ app'.ask = app.ask /\ app'.closed = app.closed
  BY <1>1, <1>2 DEF Records
<1>4. Shape'
  <2>1. app' \in Records
    BY <1>1, <1>2 DEF Records
  <2> QED
    BY <1>1, <1>2, <2>1 DEF Shape
<1>5. Numbering' /\ Binding' /\ Waiting' /\ Asking'
  BY <1>1, <1>2, <1>3 DEF Numbering, Binding, Waiting, Asking
<1>6. (Quiet' <=> Quiet) /\ (Off' <=> Off)
  BY <1>2 DEF Quiet, Off
<1>7. Proved' /\ Untouched'
  BY <1>1, <1>2, <1>3, <1>6 DEF Proved, Untouched, Owner
<1>8. Applied' /\ Requested' /\ Owned'
  BY <1>1, <1>2, <1>3 DEF Applied, Requested, Owned, Answer, Owed, Fresh
<1> QED
  BY <1>4, <1>5, <1>7, <1>8 DEF ChannelInv

LEMMA ChangePolicyKeeps == ASSUME ChannelInv, ChangePolicy PROVE ChannelInv'
<1>1. /\ kf2 \in Game /\ wire \in Seq(Messages) /\ app \in Records /\ bound \in Bounds
      /\ Shape /\ Numbering /\ Binding /\ Waiting /\ Asking /\ Proved
      /\ Untouched /\ Applied /\ Requested /\ Owned
  BY DEF ChannelInv, Shape
<1>2. /\ UNCHANGED <<kf2, wire, job, unseen>> /\ app.ask.current /\ bound.toggles < MaxToggles
      /\ app' = [app EXCEPT !.slot = FALSE, !.ask.current = FALSE]
      /\ bound' = [bound EXCEPT !.toggles = @ + 1]
  BY DEF ChangePolicy
<1>3. /\ app'.process = app.process /\ app'.report = app.report /\ app'.seen = app.seen
      /\ (app'.confirmed <=> app.confirmed) /\ (app'.setting <=> app.setting)
      /\ app'.pending = app.pending /\ app'.debt = app.debt /\ app'.local = app.local
      /\ (app'.known <=> app.known) /\ app'.closed = app.closed
      /\ app'.ask = [app.ask EXCEPT !.current = FALSE]
  BY <1>1, <1>2 DEF Records
<1>4. app.ask \in Asks /\ app.ask # NoAsk
  BY <1>1, <1>2 DEF Records, NoAsk
<1>5. NoLevel \notin Level
  BY DEF NoLevel, Level
<1>6. /\ app'.ask \in Asks /\ app'.ask.from = app.ask.from /\ app'.ask.to = app.ask.to
      /\ app'.ask # NoAsk
  <2>1. app'.ask \in Asks /\ app'.ask.from = app.ask.from /\ app'.ask.to = app.ask.to
    BY <1>3, <1>4 DEF Asks
  <2>2. app.ask.from \in Level /\ NoAsk.from = NoLevel
    BY <1>1, <1>4 DEF Asking, NoAsk
  <2> QED
    BY <1>5, <2>1, <2>2
<1>7. /\ bound' \in Bounds /\ bound'.processes = bound.processes /\ bound'.worlds = bound.worlds
  BY <1>1, <1>2, AdaptiveControlAssumption DEF Bounds
<1>8. Shape'
  <2>1. app' \in Records
    BY <1>1, <1>2, <1>3, <1>6 DEF Records
  <2> QED
    BY <1>1, <1>2, <1>7, <2>1 DEF Shape
<1>9. Numbering' /\ Binding' /\ Waiting'
  BY <1>1, <1>2, <1>3, <1>4, <1>7 DEF Numbering, Binding, Waiting
<1>10. Asking'
  BY <1>1, <1>2, <1>3, <1>4, <1>6 DEF Asking
<1>11. (Quiet' <=> Quiet) /\ (Off' <=> Off)
  BY <1>2 DEF Quiet, Off
<1>12. Proved' /\ Untouched'
  BY <1>1, <1>2, <1>3, <1>11 DEF Proved, Untouched, Owner
<1>13. Applied' /\ Requested' /\ Owned'
  BY <1>1, <1>2, <1>3, <1>4, <1>6 DEF Applied, Requested, Owned, Answer, Owed, Fresh
<1> QED
  BY <1>8, <1>9, <1>10, <1>12, <1>13 DEF ChannelInv

LEMMA AttachKeeps == ASSUME ChannelInv, Attach PROVE ChannelInv'
<1>1. /\ kf2 \in Game /\ wire \in Seq(Messages) /\ app \in Records /\ bound \in Bounds
      /\ Shape /\ Numbering /\ Binding /\ Waiting /\ Asking /\ Proved
      /\ Untouched /\ Applied /\ Requested /\ Owned
  BY DEF ChannelInv, Shape
<1>2. /\ UNCHANGED <<kf2, wire, job, unseen, bound>> /\ app.process = NoProcess
      /\ kf2.process # NoProcess
  BY DEF Attach
<1>3. \/ app.debt \in {NoProcess, kf2.process} /\ app' = [app EXCEPT !.process = kf2.process]
      \/ /\ app.debt \notin {NoProcess, kf2.process}
         /\ app' = [app EXCEPT !.process = kf2.process, !.debt = NoProcess,
                        !.local = Top, !.known = TRUE, !.rollback = NoLevel]
  BY DEF Attach
<1>4. /\ app'.process = kf2.process /\ app'.report = app.report /\ app'.seen = app.seen
      /\ (app'.confirmed <=> app.confirmed) /\ (app'.setting <=> app.setting)
      /\ app'.pending = app.pending /\ app'.closed = app.closed /\ app'.ask = app.ask
      /\ \/ /\ app'.debt = app.debt /\ app'.local = app.local /\ (app'.known <=> app.known)
            /\ app.debt \in {NoProcess, kf2.process}
         \/ app'.debt = NoProcess /\ app.debt \notin {NoProcess, kf2.process}
  BY <1>1, <1>3 DEF Records
<1>5. Shape'
  <2>1. kf2.process \in 0 .. MaxProcesses
    BY <1>1 DEF Game
  <2>2. Top \in Level /\ NoProcess \in 0 .. MaxProcesses
    BY AdaptiveControlAssumption DEF Level, NoProcess
  <2>3. app' \in Records
    BY ZenonT(60), <1>1, <1>3, <2>1, <2>2 DEF Records
  <2> QED
    BY <1>1, <1>2, <2>3 DEF Shape
<1>6. app.report = NoWorld /\ ~app.confirmed /\ app.ask = NoAsk
  BY <1>1, <1>2 DEF Binding
<1>7. Numbering' /\ Binding'
  <2>1. kf2.process <= bound.processes /\ NoProcess <= bound.processes
    BY <1>1, <1>2, AdaptiveControlAssumption DEF Numbering, Bounds, Game, NoProcess
  <2> QED
    BY <1>1, <1>2, <1>4, <1>6, <2>1 DEF Numbering, Binding
<1>8. Waiting' /\ Asking'
  BY <1>1, <1>2, <1>4, <1>6 DEF Waiting, Asking
<1>9. (Quiet' <=> Quiet) /\ (Off' <=> Off)
  BY <1>2 DEF Quiet, Off
<1>10. Proved' /\ Untouched'
  BY <1>1, <1>2, <1>4, <1>6, <1>9 DEF Proved, Untouched, Owner
<1>11. CASE app.debt \notin {NoProcess, kf2.process}
  <2>1. Quiet'
    BY <1>1, <1>2, <1>9, <1>11 DEF Untouched, Owner
  <2>2. Untouched' /\ Applied' /\ Requested' /\ Owned'
    BY <1>1, <1>2, <1>5, <2>1, QuietOwesNothing DEF Applied
  <2> QED
    BY <1>5, <1>7, <1>8, <1>10, <2>2 DEF ChannelInv
<1>12. CASE app.debt \in {NoProcess, kf2.process}
  <2>1. Applied' /\ Requested' /\ Owned'
    BY <1>1, <1>2, <1>4, <1>12 DEF Applied, Requested, Owned, Answer, Owed, Fresh
  <2> QED
    BY <1>5, <1>7, <1>8, <1>10, <2>1 DEF ChannelInv
<1> QED
  BY <1>11, <1>12

-----------------------------------------------------------------------------
(* What the worker that waited is left with.                                *)
LEMMA AnsweredIs ==
  ASSUME job \in Jobs, NEW worker \in Workers \cup {"none"}, NEW answer \in Answers
  PROVE  /\ Answered(worker, answer) \in Jobs
         /\ \A w \in Workers : w # worker => Answered(worker, answer)[w] = job[w]
         /\ worker # "none" =>
               /\ Answered(worker, answer)[worker].status = "done"
               /\ Answered(worker, answer)[worker].op = job[worker].op
               /\ Answered(worker, answer)[worker].answer = answer
<1>1. "none" \notin Workers
  BY DEF Workers
<1>2. CASE worker = "none"
  BY <1>2 DEF Answered
<1>3. CASE worker \in Workers
  <2>1. Answered(worker, answer) =
           [job EXCEPT ![worker] = [[job[worker] EXCEPT !.status = "done"] EXCEPT
                 !.answer = answer]]
    BY <1>1, <1>3 DEF Answered, Jobs
  <2>2. job[worker] \in [status : {"free", "busy", "done"}, op : Ops \cup {"none"},
                         answer : Answers \cup {"none"}]
    BY <1>3 DEF Jobs
  <2> DEFINE new == [[job[worker] EXCEPT !.status = "done"] EXCEPT !.answer = answer]
  <2>3. /\ new \in [status : {"free", "busy", "done"}, op : Ops \cup {"none"},
                    answer : Answers \cup {"none"}]
        /\ new.status = "done" /\ new.op = job[worker].op /\ new.answer = answer
    BY <2>2
  <2>4. Answered(worker, answer) = [job EXCEPT ![worker] = new]
    BY <2>1
  <2> HIDE DEF new
  <2> QED
    BY <1>1, <1>3, <2>3, <2>4 DEF Jobs
<1> QED
  BY <1>2, <1>3

(* A worker gets its answer: whom the others wait for is still under way.    *)
LEMMA AnswerKeepsWaiting ==
  ASSUME ChannelInv, Shape', NEW i \in DOMAIN wire, NEW place, Passed(wire', wire, i, place),
         NEW answer \in Answers, job' = Answered(wire[i].from, answer), app' = app,
         kf2'.process = kf2.process
  PROVE  Waiting' /\ Asking'
<1>1. /\ wire \in Seq(Messages) /\ job \in Jobs /\ Waiting /\ Asking
  BY DEF ChannelInv, Shape
<1> DEFINE m == wire[i]
<1>2. m.from \in Workers \cup {"none"}
  BY <1>1, WireWorlds
<1>3. /\ job' \in Jobs /\ \A w \in Workers : w # m.from => job'[w] = job[w]
      /\ m.from # "none" => job'[m.from].status = "done" /\ job'[m.from].op = job[m.from].op
  BY <1>1, <1>2, AnsweredIs
<1>4. \A a \in DOMAIN wire' :
        /\ place[a] \in DOMAIN wire
        /\ wire'[a].op = wire[place[a]].op /\ wire'[a].to = wire[place[a]].to
        /\ wire'[a].world = wire[place[a]].world
        /\ wire'[a].from = "none" \/ (wire'[a].from = wire[place[a]].from /\ place[a] # i)
  BY DEF Passed
<1>5. \A a, b \in DOMAIN wire' : a < b => place[a] < place[b]
  BY DEF Passed
<1>6. "mode" \in Workers /\ "quality" \in Workers /\ "none" \notin Workers
  BY DEF Workers
<1>7. DOMAIN wire = 1 .. Len(wire) /\ Len(wire) \in Nat
  BY <1>1
<1> DEFINE Pairs(w) == \A a, b \in DOMAIN w :
        a < b => /\ w[a].from = "mode" => w[b].op = "disable"
                 /\ w[a].from = "quality" => w[b].op # "quality"
                 /\ w[a].from = w[b].from => w[a].from = "none"
<1>8. Pairs(wire)
  BY <1>1 DEF Waiting
<1>9. Pairs(wire')
  <2> SUFFICES ASSUME NEW a \in DOMAIN wire', NEW b \in DOMAIN wire', a < b
               PROVE  /\ wire'[a].from = "mode" => wire'[b].op = "disable"
                      /\ wire'[a].from = "quality" => wire'[b].op # "quality"
                      /\ wire'[a].from = wire'[b].from => wire'[a].from = "none"
    OBVIOUS
  <2>1. place[a] < place[b] /\ place[a] \in DOMAIN wire /\ place[b] \in DOMAIN wire
    BY <1>4, <1>5
  <2> QED
    BY <1>4, <1>8, <2>1
<1>10. ASSUME NEW a \in DOMAIN wire', wire'[a].from # "none"
       PROVE  wire'[a].from \in Workers /\ wire'[a].from # m.from
  <2>1. place[a] \in DOMAIN wire /\ place[a] # i /\ wire'[a].from = wire[place[a]].from
    BY <1>4, <1>10
  <2>2. place[a] < i \/ i < place[a]
    BY <1>7, <2>1
  <2>3. wire[place[a]].from # m.from
    BY <1>8, <1>10, <2>1, <2>2
  <2> QED
    BY <1>1, <1>10, <2>1, <2>3, WireWorlds
<1> HIDE DEF m, Pairs
<1>11. \A a \in DOMAIN wire' : wire'[a].from # "none" =>
          job'[wire'[a].from].status = "busy" /\ job'[wire'[a].from].op = wire'[a].op
  <2>1. \A a \in DOMAIN wire : wire[a].from # "none" =>
          job[wire[a].from].status = "busy" /\ job[wire[a].from].op = wire[a].op
    BY <1>1 DEF Waiting
  <2> QED
    BY <1>3, <1>4, <1>10, <2>1
<1>12. \A a \in DOMAIN wire' :
          /\ wire'[a].from = "quality" => wire'[a].op = "quality"
          /\ wire'[a].from = "mode" => wire'[a].op # "quality"
  BY <1>1, <1>4 DEF Waiting
<1>13. job'["mode"].status # "free" => job["mode"].status # "free"
  <2>1. m.from # "none" => job[m.from].status = "busy"
    BY <1>1 DEF Waiting, m
  <2> QED
    BY <1>3, <1>6, <2>1
<1>14. job["quality"].status # "free" => job'["quality"].status # "free"
  BY <1>2, <1>3, <1>6
<1>15. Waiting'
  <2>1. job'["mode"].status # "free" => ~app'.confirmed
    BY <1>1, <1>13 DEF Waiting
  <2>2. \A a \in DOMAIN wire' :
          wire'[a].from = "mode" /\ app'.seen[2] # NoWorld => wire'[a].world = app'.seen[2]
    BY <1>1, <1>4 DEF Waiting
  <2> QED
    BY <1>9, <1>11, <1>12, <2>1, <2>2 DEF Waiting, Pairs
<1>16. Asking'
  BY <1>1, <1>4, <1>14 DEF Asking
<1> QED
  BY <1>15, <1>16

LEMMA FaultIs ==
  ASSUME bound \in Bounds, Faulty
  PROVE  /\ Fault \in Bounds
         /\ Fault.processes = bound.processes /\ Fault.worlds = bound.worlds
<1>1. bound.faults + 1 \in 0 .. MaxFaults
  BY AdaptiveControlAssumption DEF Bounds, Faulty
<1> QED
  BY <1>1 DEF Bounds, Fault

(* A worker that gives up, before or after the command is read.             *)
LEMMA GivingUpKeeps ==
  ASSUME ChannelInv, Shape', NEW i \in DOMAIN wire, NEW place, Passed(wire', wire, i, place),
         job' = Answered(wire[i].from, "failed"), UNCHANGED <<kf2, app, unseen>>,
         bound'.processes = bound.processes, bound'.worlds = bound.worlds
  PROVE  ChannelInv'
<1>1. /\ wire \in Seq(Messages) /\ job \in Jobs
      /\ Shape /\ Numbering /\ Binding /\ Waiting /\ Asking /\ Proved
      /\ Untouched /\ Applied /\ Requested /\ Owned
  BY DEF ChannelInv, Shape
<1> DEFINE m == wire[i]
<1>2. m.from \in Workers \cup {"none"} /\ "failed" \in Answers
  BY <1>1, WireWorlds DEF Answers
<1>3. /\ \A w \in Workers : w # m.from => job'[w] = job[w]
      /\ m.from # "none" => /\ job'[m.from].status = "done" /\ job'[m.from].op = job[m.from].op
                            /\ job'[m.from].answer = "failed"
  BY <1>1, <1>2, AnsweredIs
<1>4. \A a \in DOMAIN wire' :
        /\ place[a] \in DOMAIN wire
        /\ wire'[a].op = wire[place[a]].op /\ wire'[a].world = wire[place[a]].world
        /\ wire[place[a]].stale => wire'[a].stale
        /\ wire'[a].from = "none" \/ wire'[a].from = wire[place[a]].from
  BY DEF Passed
<1>5. "mode" \in Workers /\ "quality" \in Workers /\ "none" \notin Workers
  BY DEF Workers
<1>6. m.from # "none" => job[m.from].status = "busy" /\ job[m.from].op = m.op
  BY <1>1 DEF Waiting
<1>7. m.from = "quality" => m.op = "quality"
  BY <1>1 DEF Waiting
<1> HIDE DEF m
<1>8. Waiting' /\ Asking'
  BY <1>2, AnswerKeepsWaiting DEF m
<1>9. Numbering' /\ Binding'
  BY <1>1, <1>4 DEF Numbering, Binding
<1>10. \A a \in DOMAIN wire' :
          wire'[a].world = kf2'.world /\ ~wire'[a].stale =>
             wire[place[a]].world = kf2.world /\ ~wire[place[a]].stale
  BY <1>1, <1>4, WireWorlds DEF Shape
<1>11. (Quiet => Quiet') /\ (Off => Off')
  <2>1. ASSUME Quiet PROVE Quiet'
    BY <1>4, <1>10, <2>1 DEF Quiet
  <2> QED
    BY <2>1 DEF Off
<1>12. \A answer \in {"applied", "restored", "unknown"} : Answer(answer)' => Answer(answer)
  BY <1>2, <1>3, <1>5 DEF Answer
<1>13. Answer("applied") \/ Answer("unknown") => m.from # "quality"
  BY <1>6 DEF Answer
<1>14. Answer("applied") => Answer("applied")'
  BY <1>3, <1>5, <1>13 DEF Answer
<1>15. Answer("unknown") => Answer("unknown")'
  BY <1>3, <1>5, <1>13 DEF Answer
<1>16. \A a \in DOMAIN wire' : Fresh(a)' => Fresh(place[a])
  BY <1>4, <1>10 DEF Fresh
<1>17. Proved'
  <2>1. job'["mode"].status = "done" /\ job'["mode"].op = "disable"
           /\ job'["mode"].answer = "applied"
          => job'["mode"] = job["mode"]
    BY <1>2, <1>3, <1>5
  <2> QED
    BY <1>1, <1>11, <2>1 DEF Proved
<1>18. Untouched'
  BY <1>1, <1>11 DEF Untouched, Owner
<1>19. Applied'
  <2>1. job'["quality"].status = "done" => job'["quality"].op = "quality"
    BY <1>1, <1>3, <1>5, <1>6, <1>7 DEF Applied
  <2>2. Answer("applied")' => \A a \in DOMAIN wire' : ~Fresh(a)'
    BY <1>1, <1>4, <1>12, <1>16 DEF Applied
  <2> QED
    BY <1>1, <1>12, <2>1, <2>2 DEF Applied
<1>20. Requested'
  BY <1>1, <1>4, <1>5, <1>16 DEF Requested, Owed
<1>21. Owned'
  BY <1>1, <1>14, <1>15 DEF Owned, Owed
<1> QED
  BY <1>8, <1>9, <1>17, <1>18, <1>19, <1>20, <1>21 DEF ChannelInv

LEMMA UnreachableKeeps ==
  ASSUME ChannelInv, NEW i \in DOMAIN wire, Unreachable(i) PROVE ChannelInv'
<1>1. Shape /\ wire \in Seq(Messages) /\ job \in Jobs
  BY DEF ChannelInv, Shape
<1>2. /\ job' = Answered(wire[i].from, "failed") /\ wire' = RemoveAt(wire, i)
      /\ UNCHANGED <<kf2, app, unseen, bound>>
  BY DEF Unreachable
<1>3. wire[i].from \in Workers \cup {"none"} /\ "failed" \in Answers
  BY <1>1, WireWorlds DEF Answers
<1>4. job' \in Jobs
  BY <1>1, <1>2, <1>3, AnsweredIs
<1>5. wire' \in Seq(Messages) /\ Passed(wire', wire, i, Shift(Len(wire) - 1, i))
  BY <1>1, <1>2, RemovedPasses
<1>6. Shape'
  BY <1>1, <1>2, <1>4, <1>5 DEF Shape
<1> QED
  BY <1>2, <1>5, <1>6, GivingUpKeeps

LEMMA TimesOutKeeps ==
  ASSUME ChannelInv, NEW i \in DOMAIN wire, TimesOut(i) PROVE ChannelInv'
<1>1. Shape /\ wire \in Seq(Messages) /\ job \in Jobs /\ bound \in Bounds
  BY DEF ChannelInv, Shape
<1>2. /\ job' = Answered(wire[i].from, "failed") /\ wire' = [wire EXCEPT ![i].from = "none"]
      /\ UNCHANGED <<kf2, app, unseen>> /\ bound' = Fault /\ Faulty
  BY DEF TimesOut
<1>3. wire[i].from \in Workers \cup {"none"} /\ "failed" \in Answers
  BY <1>1, WireWorlds DEF Answers
<1>4. job' \in Jobs
  BY <1>1, <1>2, <1>3, AnsweredIs
<1>5. wire' \in Seq(Messages) /\ Passed(wire', wire, i, [a \in DOMAIN wire |-> a])
  BY <1>1, <1>2, GivenUpPasses
<1>6. /\ bound' \in Bounds /\ bound'.processes = bound.processes /\ bound'.worlds = bound.worlds
  BY <1>1, <1>2, FaultIs
<1>7. Shape'
  BY <1>1, <1>2, <1>4, <1>5, <1>6 DEF Shape
<1> QED
  BY <1>2, <1>5, <1>6, <1>7, GivingUpKeeps

-----------------------------------------------------------------------------
(* What stays unseen: as long as a reduction is there it was not unseen      *)
(* before, and what no receipt told did not change it.                       *)
LEMMA StillSeen ==
  ASSUME kf2 \in Game, NEW r, r.kf2 \in Game, NEW lost \in BOOLEAN,
         ~Unseen(r, lost),
         r.kf2.quality < Top \/ (r.kf2.before # NoLevel /\ r.kf2.before < Top)
  PROVE  ~unseen /\ (lost => r.kf2.quality = kf2.quality)
<1>1. r.kf2.before # NoLevel => r.kf2.before \in Level
  BY DEF Game
<1>2. Reduced(r.kf2)
  BY <1>1, AdaptiveControlAssumption DEF Reduced, Level
<1> QED
  BY <1>2 DEF Unseen

(* No command makes a quiet game loud.                                      *)
LEMMA HandlingKeepsQuiet ==
  ASSUME NEW m \in Messages, NEW r, Replies(kf2, m, r), kf2' = r.kf2, m.world = kf2.world,
         m.stale \/ m.op = "disable", kf2.quality = Top /\ kf2.before = NoLevel
  PROVE  /\ kf2'.quality = Top /\ kf2'.before = NoLevel
         /\ ~kf2.enabled => ~kf2'.enabled
  BY DEF Replies, Stays, Home, Messages

LEMMA DeliverKeeps ==
  ASSUME ChannelInv, NEW i \in DOMAIN wire, Deliver(i) PROVE ChannelInv'
<1> DEFINE m == wire[i]
<1>1. /\ kf2 \in Game /\ wire \in Seq(Messages) /\ job \in Jobs /\ bound \in Bounds
      /\ Shape /\ Numbering /\ Binding /\ Waiting /\ Asking /\ Proved
      /\ Untouched /\ Applied /\ Requested /\ Owned
  BY DEF ChannelInv, Shape
<1>2. m.world = kf2.world /\ app' = app
  BY DEF Deliver
<1>3. PICK r \in ApplyAdaptiveResourceControl(kf2, m), lost \in BOOLEAN :
          /\ r.fault \/ (lost /\ m.from # "none") => Faulty
          /\ ~(r.fault /\ lost)
          /\ m.from = "none" => ~lost
          /\ kf2' = r.kf2
          /\ wire' = (IF r.commits THEN Outdated(SubSeq(wire, 1, i - 1))
                      ELSE SubSeq(wire, 1, i - 1))
                     \o SubSeq(wire, i + 1, Len(wire))
          /\ job' = Answered(m.from, IF lost THEN "failed" ELSE r.answer)
          /\ unseen' = Unseen(r, lost \/ m.from = "none")
          /\ bound' = (IF r.fault \/ lost THEN Fault ELSE bound)
  BY DEF Deliver
<1>4. /\ m \in Messages /\ m.from \in Workers \cup {"none"} /\ m.world # NoWorld
      /\ m.op = "quality" => m.to \in Level
      /\ m.op \in Ops /\ m.stale \in BOOLEAN
  BY <1>1, WireWorlds DEF Asking
<1>5. /\ r.kf2 \in Game /\ r.kf2.process = kf2.process /\ r.kf2.world = kf2.world
      /\ r.answer \in Answers /\ r.commits \in BOOLEAN /\ r.fault \in BOOLEAN
      /\ Replies(kf2, m, r)
  BY <1>1, <1>3, <1>4, ReplyIs
<1> DEFINE place == Shift(Len(wire) - 1, i)
           answer == IF lost THEN "failed" ELSE r.answer
           blind == lost \/ m.from = "none"
<1>6. /\ wire' \in Seq(Messages) /\ Passed(wire', wire, i, place)
      /\ \A a \in DOMAIN wire' : place[a] # i
      /\ r.commits => \A a \in DOMAIN wire' : place[a] < i => wire'[a].stale
  BY <1>1, <1>3, <1>5, TakenPasses
<1>7. answer \in Answers
  BY <1>5 DEF Answers
<1>8. /\ job' \in Jobs /\ \A w \in Workers : w # m.from => job'[w] = job[w]
      /\ m.from # "none" => /\ job'[m.from].status = "done" /\ job'[m.from].op = job[m.from].op
                            /\ job'[m.from].answer = answer
  BY <1>1, <1>3, <1>4, <1>7, AnsweredIs
<1>9. bound' \in Bounds /\ bound'.processes = bound.processes /\ bound'.worlds = bound.worlds
  <2>1. CASE r.fault \/ lost
    BY <1>1, <1>3, <2>1, FaultIs
  <2>2. CASE ~(r.fault \/ lost)
    BY <1>1, <1>3, <2>2
  <2> QED
    BY <2>1, <2>2
<1>10. blind \in BOOLEAN /\ unseen' = Unseen(r, blind)
  BY <1>3
<1>11. Unseen(r, blind) \in BOOLEAN
  BY DEF Unseen
<1>12. Shape'
  BY <1>1, <1>2, <1>3, <1>5, <1>6, <1>8, <1>9, <1>10, <1>11 DEF Shape
<1>13. /\ kf2'.process = kf2.process /\ kf2'.world = kf2.world /\ kf2'.world # NoWorld
       /\ kf2.process # NoProcess
  BY <1>1, <1>2, <1>3, <1>4, <1>5 DEF Numbering
<1>14. Waiting' /\ Asking'
  BY <1>2, <1>3, <1>6, <1>7, <1>12, <1>13, AnswerKeepsWaiting
<1>15. \A a \in DOMAIN wire' :
        /\ place[a] \in DOMAIN wire
        /\ wire'[a].op = wire[place[a]].op /\ wire'[a].world = wire[place[a]].world
        /\ wire[place[a]].stale => wire'[a].stale
        /\ wire'[a].from = "none" \/ wire'[a].from = wire[place[a]].from
  BY <1>6 DEF Passed
<1>16. "mode" \in Workers /\ "quality" \in Workers /\ "none" \notin Workers
  BY DEF Workers
<1>17. /\ m.from # "none" => job[m.from].status = "busy" /\ job[m.from].op = m.op
       /\ m.from = "quality" => m.op = "quality"
       /\ m.from = "mode" => m.op # "quality"
  BY <1>1 DEF Waiting
<1>18. DOMAIN wire = 1 .. Len(wire) /\ Len(wire) \in Nat
  BY <1>1
<1>19. ASSUME NEW a \in DOMAIN wire', i < place[a]
       PROVE  /\ m.from = "mode" => wire'[a].op = "disable"
              /\ m.from = "quality" => wire'[a].op # "quality"
  BY <1>1, <1>15, <1>19 DEF Waiting
<1>20. \A a \in DOMAIN wire' : place[a] < i \/ i < place[a]
  BY <1>6, <1>15, <1>18
<1>21. Fresh(i) <=> ~m.stale /\ m.op = "quality"
  BY <1>2 DEF Fresh
<1>22. \A a \in DOMAIN wire' : ~wire'[a].stale => ~wire[place[a]].stale
  BY <1>1, <1>6, <1>15, WireWorlds
<1>23. \A a \in DOMAIN wire' : Fresh(a)' => Fresh(place[a])
  BY <1>13, <1>15, <1>22 DEF Fresh
<1>24. Top \in Nat /\ NoLevel # Top /\ NoLevel \notin Level /\ NoLevel < 0
  BY AdaptiveControlAssumption DEF NoLevel, Level
<1> HIDE DEF m, place, answer, blind
<1>25. Numbering' /\ Binding'
  BY <1>1, <1>2, <1>9, <1>13, <1>15 DEF Numbering, Binding
<1>26. (Quiet => Quiet') /\ (Off => Off')
  <2>1. ASSUME Quiet PROVE Quiet' /\ (~kf2.enabled => ~kf2'.enabled)
    <3>1. m.stale \/ m.op = "disable"
      BY <1>2, <2>1 DEF Quiet, m
    <3>2. kf2'.quality = Top /\ kf2'.before = NoLevel /\ (~kf2.enabled => ~kf2'.enabled)
      BY <1>2, <1>3, <1>4, <1>5, <2>1, <3>1, HandlingKeepsQuiet DEF Quiet
    <3>3. \A a \in DOMAIN wire' :
             wire'[a].world = kf2'.world => wire'[a].stale \/ wire'[a].op = "disable"
      BY <1>13, <1>15, <1>22, <2>1 DEF Quiet
    <3> QED
      BY <3>2, <3>3 DEF Quiet
  <2> QED
    BY <2>1 DEF Off
<1>27. Proved'
  <2>1. ASSUME job'["mode"].status = "done", job'["mode"].op = "disable",
               job'["mode"].answer = "applied", app.seen[1] = kf2.process
        PROVE  Off'
    <3>1. CASE m.from # "mode"
      BY <1>1, <1>8, <1>13, <1>16, <1>26, <2>1, <3>1 DEF Proved
    <3>2. CASE m.from = "mode"
      <4>1. m.op = "disable" /\ answer = "applied"
        BY <1>8, <1>16, <1>17, <2>1, <3>2
      <4>2. r.answer = "applied"
        BY <4>1 DEF answer
      <4>3. kf2'.quality = Top /\ kf2'.before = NoLevel /\ r.commits /\ ~kf2'.enabled
        BY <1>3, <1>5, <4>1, <4>2 DEF Replies, Home
      <4>4. \A a \in DOMAIN wire' : wire'[a].stale \/ wire'[a].op = "disable"
        BY <1>6, <1>19, <1>20, <3>2, <4>3
      <4> QED
        BY <4>3, <4>4 DEF Off, Quiet
    <3> QED
      BY <3>1, <3>2
  <2> QED
    BY <1>1, <1>2, <1>13, <1>26, <2>1 DEF Proved
<1>28. Untouched'
  BY <1>1, <1>2, <1>13, <1>26 DEF Untouched, Owner
<1>29. Applied'
  <2>1. job'["quality"].status = "done" => job'["quality"].op = "quality"
    BY <1>1, <1>8, <1>16, <1>17 DEF Applied
  <2>2. CASE m.from = "quality"
    <3>1. ASSUME Answer("applied")'
          PROVE  /\ \A a \in DOMAIN wire' : ~Fresh(a)'
                 /\ kf2'.before = NoLevel
                 /\ app'.ask # NoAsk => kf2'.quality = app'.ask.to
      <4>1. r.answer = "applied"
        BY <1>8, <2>2, <3>1 DEF Answer, answer
      <4>2. kf2'.quality = m.to /\ kf2'.before = NoLevel /\ r.commits
        BY <1>3, <1>5, <1>17, <2>2, <4>1 DEF Replies, Set
      <4>3. \A a \in DOMAIN wire' : ~Fresh(a)'
        BY <1>6, <1>19, <1>20, <2>2, <4>2 DEF Fresh
      <4>4. app.ask # NoAsk => m.to = app.ask.to
        BY <1>1, <2>2 DEF Asking, m
      <4> QED
        BY <1>2, <4>2, <4>3, <4>4
    <3>2. ASSUME Answer("restored")' PROVE kf2'.before = NoLevel
      <4>1. r.answer = "restored"
        BY <1>8, <2>2, <3>2 DEF Answer, answer
      <4> QED
        BY <1>3, <1>5, <1>17, <2>2, <4>1 DEF Replies, Stays, Settled
    <3> QED
      BY <1>24, <2>1, <3>1, <3>2 DEF Applied
  <2>3. CASE m.from # "quality"
    <3>1. job'["quality"] = job["quality"]
      BY <1>8, <1>16, <2>3
    <3>2. \A x \in {"applied", "restored"} : Answer(x)' <=> Answer(x)
      BY <3>1 DEF Answer
    <3>3. ASSUME Answer("applied")
          PROVE  /\ \A a \in DOMAIN wire' : ~Fresh(a)'
                 /\ kf2'.before = NoLevel
                 /\ app'.ask # NoAsk /\ kf2'.quality < Top => kf2'.quality = app'.ask.to
      <4>1. ~Fresh(i) /\ kf2.before = NoLevel
        BY <1>1, <3>3 DEF Applied
      <4>2. m.stale \/ m.op # "quality"
        BY <1>21, <4>1
      <4>3. Stays(kf2, kf2') \/ Home(kf2')
        BY <1>3, <1>4, <1>5, <4>1, <4>2 DEF Replies, Settled
      <4>4. \A a \in DOMAIN wire' : ~Fresh(a)'
        BY <1>1, <1>15, <1>23, <3>3 DEF Applied
      <4> QED
        BY <1>1, <1>2, <1>24, <3>3, <4>1, <4>3, <4>4 DEF Stays, Home, Applied
    <3>4. ASSUME Answer("restored"), ~unseen', kf2'.before = Top
          PROVE  kf2'.quality = Top
      <4> SUFFICES ASSUME kf2'.quality # Top PROVE FALSE
        OBVIOUS
      <4>1. kf2'.quality < Top
        BY <1>3, <1>5, <1>24 DEF Game, Level
      <4>2. ~unseen /\ (blind => kf2'.quality = kf2.quality)
        BY <1>1, <1>3, <1>5, <1>10, <3>4, <4>1, StillSeen
      <4>3. kf2.before = Top => kf2.quality = Top
        BY <1>1, <3>4, <4>2 DEF Applied
      <4>4. CASE Stays(kf2, kf2')
        BY <3>4, <4>1, <4>3, <4>4 DEF Stays
      <4>5. CASE Half(kf2, kf2', m.to) /\ m.op = "quality"
        <5>1. m.from = "none"
          BY <1>4, <1>17, <2>3, <4>5 DEF Workers
        <5>2. kf2.quality = Top /\ blind
          BY <3>4, <4>5, <5>1 DEF Half, blind
        <5> QED
          BY <4>1, <4>2, <5>2
      <4> QED
        BY <1>3, <1>5, <1>24, <3>4, <4>4, <4>5 DEF Replies, Home, Settled, Set
    <3> QED
      BY <2>1, <3>2, <3>3, <3>4 DEF Applied
  <2> QED
    BY <2>2, <2>3
<1>30. Requested'
  BY <1>1, <1>2, <1>13, <1>15, <1>16, <1>23 DEF Requested, Owed
<1>31. Owned'
  <2> SUFFICES ASSUME app.closed = "open", ~unseen', ~Owed
               PROVE  /\ kf2'.before = NoLevel /\ kf2'.quality < Top =>
                           app.local < Top \/ (Answer("applied")' /\ app.ask # NoAsk)
                      /\ kf2'.before # NoLevel /\ kf2'.before < Top => app.local < Top
                      /\ kf2'.before = Top /\ kf2'.quality < Top =>
                           \/ app.local < Top \/ ~app.known
                           \/ Answer("unknown")' /\ app.ask # NoAsk
    BY <1>2, <1>13 DEF Owned, Owed
  <2>1. kf2'.quality < Top \/ (kf2'.before # NoLevel /\ kf2'.before < Top) =>
           ~unseen /\ (blind => kf2'.quality = kf2.quality)
    BY <1>1, <1>3, <1>5, <1>10, StillSeen
  <2>2. ~unseen =>
         /\ kf2.before = NoLevel /\ kf2.quality < Top =>
              app.local < Top \/ (Answer("applied") /\ app.ask # NoAsk)
         /\ kf2.before # NoLevel /\ kf2.before < Top => app.local < Top
         /\ kf2.before = Top /\ kf2.quality < Top =>
              \/ app.local < Top \/ ~app.known
              \/ Answer("unknown") /\ app.ask # NoAsk
    BY <1>1 DEF Owned
  <2>3. \A x \in {"applied", "unknown"} : Answer(x) => Answer(x)'
    <3>1. job["quality"].status = "done" => m.from # "quality"
      BY <1>17
    <3> QED
      BY <1>8, <1>16, <3>1 DEF Answer
  <2>4. Fresh(i) => ~Answer("applied")
    BY <1>1 DEF Applied
  <2>5. Fresh(i) /\ m.from = "quality" => app.ask # NoAsk
    BY <1>1 DEF Requested, m
  <2>6. m.op = "quality" => m.from \in {"quality", "none"}
    BY <1>4, <1>17 DEF Workers
  <2>7. m.from = "quality" /\ ~lost => Answer(r.answer)'
    BY <1>8, <1>16 DEF Answer, answer
  <2>8. CASE Stays(kf2, kf2')
    BY <2>1, <2>2, <2>3, <2>8 DEF Stays
  <2>9. CASE Home(kf2')
    BY <1>24, <2>9 DEF Home
  <2>10. CASE Settled(kf2, kf2')
    BY <1>24, <2>1, <2>2, <2>10 DEF Settled
  <2>11. CASE ~m.stale /\ m.op = "quality" /\ Set(kf2, kf2', m.to) /\ r.answer = "applied"
    <3>1. blind => (kf2'.quality < Top => app.local < Top)
      BY <1>21, <2>1, <2>2, <2>4, <2>11 DEF Set
    <3>2. ~blind => Answer("applied")' /\ app.ask # NoAsk
      BY <1>21, <2>5, <2>6, <2>7, <2>11 DEF blind
    <3> QED
      BY <1>24, <2>11, <3>1, <3>2 DEF Set
  <2>12. CASE ~m.stale /\ m.op = "quality" /\ Half(kf2, kf2', m.to) /\ r.answer = "unknown"
                 /\ r.fault
    <3>1. kf2.quality < Top => app.local < Top
      <4>1. kf2.quality \in Level
        BY <1>1 DEF Game
      <4>2. kf2'.before = kf2.quality /\ kf2'.before # NoLevel /\ kf2.before = NoLevel
        BY <1>24, <2>12, <4>1 DEF Half
      <4> QED
        BY <1>21, <2>1, <2>2, <2>4, <2>12, <4>2
    <3>2. kf2.quality = Top /\ kf2'.quality < Top => ~blind
      BY <1>24, <2>1
    <3>3. ~blind => Answer("unknown")' /\ app.ask # NoAsk
      BY <1>21, <2>5, <2>6, <2>7, <2>12 DEF blind
    <3>4. kf2'.before = kf2.quality /\ kf2.quality \in Level
      BY <1>1, <2>12 DEF Half, Game
    <3> QED
      BY <1>24, <3>1, <3>2, <3>3, <3>4
  <2> QED
    BY <1>3, <1>5, <2>8, <2>9, <2>10, <2>11, <2>12 DEF Replies
<1> QED
  BY <1>12, <1>14, <1>25, <1>27, <1>28, <1>29, <1>30, <1>31 DEF ChannelInv

LEMMA ServeKeeps == ASSUME ChannelInv, Serve PROVE ChannelInv'
  BY DeliverKeeps, UnreachableKeeps DEF Serve

-----------------------------------------------------------------------------
(* Commands that come: the wire keeps its places, and at most one command    *)
(* is new, at its end.                                                      *)
Grown(new, old, m) ==
    \A a \in DOMAIN new :
        \/ /\ a \in DOMAIN old
           /\ new[a].op = old[a].op /\ new[a].to = old[a].to
           /\ new[a].world = old[a].world /\ new[a].from = old[a].from
           /\ ~new[a].stale => ~old[a].stale
        \/ a = Len(old) + 1 /\ new[a] = m

LEMMA AppendGrows ==
  ASSUME NEW w \in Seq(Messages), NEW m \in Messages
  PROVE  Append(w, m) \in Seq(Messages) /\ Grown(Append(w, m), w, m)
<1>1. DOMAIN w = 1 .. Len(w) /\ Len(w) \in Nat
  OBVIOUS
<1>2. /\ Append(w, m) \in Seq(Messages) /\ Len(Append(w, m)) = Len(w) + 1
      /\ DOMAIN Append(w, m) = 1 .. Len(w) + 1
      /\ \A a \in 1 .. Len(w) : Append(w, m)[a] = w[a]
      /\ Append(w, m)[Len(w) + 1] = m
  BY <1>1
<1> QED
  BY <1>1, <1>2 DEF Grown

LEMMA SameGrows ==
  ASSUME NEW w, NEW m
  PROVE  Grown(w, w, m)
  BY DEF Grown

LEMMA OutdatedGrows ==
  ASSUME NEW w \in Seq(Messages), NEW m
  PROVE  /\ Outdated(w) \in Seq(Messages) /\ Grown(Outdated(w), w, m)
         /\ \A a \in DOMAIN Outdated(w) : Outdated(w)[a].stale
<1>1. \A a \in DOMAIN w : w[a] \in Messages
  OBVIOUS
<1>2. /\ DOMAIN Outdated(w) = DOMAIN w
      /\ \A a \in DOMAIN w : Outdated(w)[a] = [w[a] EXCEPT !.stale = TRUE]
  BY DEF Outdated
<1>3. \A a \in DOMAIN w :
         /\ Outdated(w)[a].op = w[a].op /\ Outdated(w)[a].to = w[a].to
         /\ Outdated(w)[a].world = w[a].world /\ Outdated(w)[a].from = w[a].from
         /\ Outdated(w)[a].stale
  BY <1>1, <1>2 DEF Messages
<1> QED
  BY <1>2, <1>3, OutdatedPasses DEF Grown

(* What the user interface learns from a command it sends itself.           *)
Learns(r, op) ==
    /\ r.kf2 \in Game /\ r.kf2.process = kf2.process /\ r.kf2.world = kf2.world
    /\ r.wire \in Seq(Messages) /\ Grown(r.wire, wire, Command("none", op, NoLevel, app.report))
    /\ r.unseen \in BOOLEAN /\ r.ok \in BOOLEAN /\ r.fault \in BOOLEAN
    /\ \/ Stays(kf2, r.kf2)
       \/ Home(r.kf2)
       \/ op = "enable" /\ Settled(kf2, r.kf2)
    /\ r.kf2.enabled /\ ~kf2.enabled => op = "enable"
    /\ ~r.unseen /\ (r.kf2.quality < Top \/ (r.kf2.before # NoLevel /\ r.kf2.before < Top)) =>
             ~unseen

LEMMA ResultIs ==
  ASSUME Shape, app.report # NoWorld, NEW op \in {"enable", "disable"}, NEW r \in Results(op)
  PROVE  /\ Learns(r, op)
         /\ app.report # kf2.world => r.kf2 = kf2 /\ r.wire = wire /\ ~r.ok
         /\ r.ok /\ op = "disable" =>
               /\ Home(r.kf2) /\ ~r.kf2.enabled
               /\ \A a \in DOMAIN r.wire : r.wire[a].stale
<1> DEFINE m == Command("none", op, NoLevel, app.report)
<1>1. kf2 \in Game /\ wire \in Seq(Messages) /\ unseen \in BOOLEAN /\ app \in Records
  BY DEF Shape
<1>2. m \in Messages /\ m.op = op /\ ~m.stale
  <2>1. app.report \in 1 .. MaxWorlds
    BY <1>1, AdaptiveControlAssumption DEF Records, NoWorld
  <2>2. op \in Ops /\ op # "quality"
    BY DEF Ops
  <2> QED
    BY <2>1, <2>2 DEF Messages, Command
<1>3. ASSUME NEW w \in Seq(Messages), Grown(w, wire, m), NEW ok \in BOOLEAN, NEW fault \in BOOLEAN,
             r = Result(kf2, w, unseen, ok, fault)
      PROVE  Learns(r, op)
  <2>1. /\ r.kf2 = kf2 /\ r.wire = w /\ (r.unseen <=> unseen) /\ r.unseen \in BOOLEAN
        /\ r.ok \in BOOLEAN /\ r.fault \in BOOLEAN
    BY <1>1, <1>3 DEF Result
  <2> QED
    BY <1>1, <1>3, <2>1 DEF Learns, Stays
<1>4. CASE r = Result(kf2, wire, unseen, FALSE, FALSE) \/ r = Result(kf2, wire, unseen, FALSE, TRUE)
  <2>1. r.kf2 = kf2 /\ r.wire = wire /\ ~r.ok
    BY <1>4 DEF Result
  <2> QED
    BY <1>1, <1>3, <1>4, <2>1, SameGrows
<1>5. CASE r = Result(kf2, Append(wire, m), unseen, FALSE, TRUE) /\ app.report = kf2.world
  <2>1. ~r.ok
    BY <1>5 DEF Result
  <2> QED
    BY <1>1, <1>2, <1>3, <1>5, <2>1, AppendGrows
<1>6. ASSUME NEW q \in ApplyAdaptiveResourceControl(kf2, m), NEW lost \in BOOLEAN,
             r = Result(q.kf2, IF q.commits THEN Outdated(wire) ELSE wire,
                        Unseen(q, FALSE), q.answer = "applied" /\ ~lost, q.fault \/ lost)
      PROVE  /\ Learns(r, op)
             /\ r.ok /\ op = "disable" =>
                  /\ Home(r.kf2) /\ ~r.kf2.enabled
                  /\ \A a \in DOMAIN r.wire : r.wire[a].stale
  <2>1. /\ q.kf2 \in Game /\ q.kf2.process = kf2.process /\ q.kf2.world = kf2.world
        /\ q.answer \in Answers /\ q.commits \in BOOLEAN /\ q.fault \in BOOLEAN
        /\ Replies(kf2, m, q)
    BY <1>1, <1>2, ReplyIs
  <2>2. /\ r.kf2 = q.kf2 /\ r.wire = IF q.commits THEN Outdated(wire) ELSE wire
        /\ (r.unseen <=> Unseen(q, FALSE)) /\ r.unseen \in BOOLEAN
        /\ (r.ok <=> q.answer = "applied" /\ ~lost) /\ r.ok \in BOOLEAN /\ r.fault \in BOOLEAN
    BY <1>6, <2>1 DEF Result, Unseen
  <2>3. r.wire \in Seq(Messages) /\ Grown(r.wire, wire, m)
    BY <1>1, <2>1, <2>2, OutdatedGrows, SameGrows
  <2>4. q.commits => \A a \in DOMAIN r.wire : r.wire[a].stale
    BY <1>1, <2>2, OutdatedGrows
  <2>5. /\ \/ Stays(kf2, q.kf2)
           \/ Home(q.kf2)
           \/ op = "enable" /\ Settled(kf2, q.kf2)
        /\ q.kf2.enabled /\ ~kf2.enabled => op = "enable"
        /\ op = "disable" /\ q.answer = "applied" => Home(q.kf2) /\ q.commits /\ ~q.kf2.enabled
    BY <1>2, <2>1 DEF Replies
  <2>6. ~Unseen(q, FALSE) /\ (q.kf2.quality < Top \/ (q.kf2.before # NoLevel /\ q.kf2.before < Top))
          => ~unseen
    BY <1>1, <2>1, StillSeen
  <2>7. Learns(r, op)
    BY <2>1, <2>2, <2>3, <2>5, <2>6 DEF Learns
  <2> QED
    BY <2>2, <2>4, <2>5, <2>7
<1> DEFINE outcome(q, lost) ==
             Result(q.kf2, IF q.commits THEN Outdated(wire) ELSE wire,
                    Unseen(q, FALSE), q.answer = "applied" /\ ~lost, q.fault \/ lost)
           replies == ApplyAdaptiveResourceControl(kf2, m)
           handled(lost) == {outcome(q, lost) : q \in replies}
           all == UNION {handled(lost) : lost \in BOOLEAN}
<1>7. Results(op) =
        IF app.report # kf2.world THEN {Result(kf2, wire, unseen, FALSE, FALSE)}
        ELSE all \cup {Result(kf2, wire, unseen, FALSE, TRUE),
                       Result(kf2, Append(wire, m), unseen, FALSE, TRUE)}
  BY Zenon DEF Results
<1>8. r \in all => \E q \in replies, lost \in BOOLEAN : r = outcome(q, lost)
  <2> HIDE DEF outcome, replies
  <2> QED
    OBVIOUS
<1>9. CASE r \in all /\ app.report = kf2.world
  <2>1. PICK q \in replies, lost \in BOOLEAN : r = outcome(q, lost)
    BY <1>8, <1>9
  <2> QED
    BY <1>6, <1>9, <2>1
<1> HIDE DEF all, handled, outcome, replies
<1>10. CASE app.report # kf2.world
  BY <1>4, <1>7, <1>10
<1>11. CASE app.report = kf2.world
  <2>1. \/ r \in all
        \/ r = Result(kf2, wire, unseen, FALSE, TRUE)
        \/ r = Result(kf2, Append(wire, m), unseen, FALSE, TRUE)
    BY <1>7, <1>11
  <2> QED
    BY <1>4, <1>5, <1>9, <1>11, <2>1
<1> QED
  BY <1>10, <1>11

(* What a command of the user interface leaves as it was: the workers, what  *)
(* they wait for, and the order it waits in.                                *)
Undisturbed ==
    /\ kf2'.process = kf2.process /\ kf2'.world = kf2.world /\ job' = job
    /\ \A a \in DOMAIN wire' : wire'[a].world <= bound.worlds
    /\ \A a \in DOMAIN wire' : Fresh(a)' => a \in DOMAIN wire /\ Fresh(a)
    /\ \A a \in DOMAIN wire' :
         /\ wire'[a].from # "none" =>
               job[wire'[a].from].status = "busy" /\ job[wire'[a].from].op = wire'[a].op
         /\ wire'[a].from = "quality" => wire'[a].op = "quality"
         /\ wire'[a].from = "mode" => wire'[a].op # "quality"
         /\ wire'[a].op = "quality" => wire'[a].to \in Level
         /\ wire'[a].from # "none" => a \in DOMAIN wire /\ wire'[a].from = wire[a].from
                /\ wire'[a].to = wire[a].to /\ wire'[a].world = wire[a].world
    /\ \A a, b \in DOMAIN wire' :
         a < b => /\ wire'[a].from = "mode" => wire'[b].op = "disable"
                  /\ wire'[a].from = "quality" => wire'[b].op # "quality"
                  /\ wire'[a].from = wire'[b].from => wire'[a].from = "none"

LEMMA UnsentDisturbsNothing ==
  ASSUME ChannelInv, UNCHANGED <<kf2, wire, job>>
  PROVE  Undisturbed /\ (Quiet => Quiet') /\ (Off => Off')
<1>1. Numbering /\ Waiting /\ Asking
  BY DEF ChannelInv
<1>2. (Quiet => Quiet') /\ (Off => Off')
  BY DEF Quiet, Off
<1> QED
  BY <1>1, <1>2 DEF Numbering, Waiting, Asking, Undisturbed, Fresh

LEMMA SendingDisturbsNothing ==
  ASSUME ChannelInv, NEW op \in {"enable", "disable"}, NEW r, Learns(r, op),
         kf2' = r.kf2, wire' = r.wire, job' = job,
         op = "enable" => job["mode"].status = "free"
  PROVE  Undisturbed /\ (op = "disable" => (Quiet => Quiet') /\ (Off => Off'))
<1> DEFINE m == Command("none", op, NoLevel, app.report)
<1>1. /\ wire \in Seq(Messages) /\ app \in Records /\ bound \in Bounds
      /\ Shape /\ Numbering /\ Waiting /\ Asking
  BY DEF ChannelInv, Shape
<1>2. /\ m.from = "none" /\ m.op = op /\ m.world = app.report /\ op # "quality"
  BY DEF Command
<1>3. Grown(wire', wire, m)
  BY DEF Learns
<1> HIDE DEF m
<1>4. \A a \in DOMAIN wire' :
        \/ /\ a \in DOMAIN wire
           /\ wire'[a].op = wire[a].op /\ wire'[a].to = wire[a].to
           /\ wire'[a].world = wire[a].world /\ wire'[a].from = wire[a].from
           /\ ~wire'[a].stale => ~wire[a].stale
        \/ /\ a = Len(wire) + 1 /\ wire'[a].from = "none" /\ wire'[a].op = op
           /\ wire'[a].world = app.report
  BY <1>2, <1>3 DEF Grown
<1>5. DOMAIN wire = 1 .. Len(wire) /\ Len(wire) \in Nat
  BY <1>1
<1>6. kf2'.world = kf2.world /\ kf2'.process = kf2.process
  BY DEF Learns
<1>7. ASSUME op = "disable" PROVE (Quiet => Quiet') /\ (Off => Off')
  <2>1. Quiet => kf2'.quality = Top /\ kf2'.before = NoLevel /\ (~kf2.enabled => ~kf2'.enabled)
    BY <1>7 DEF Learns, Quiet, Stays, Home
  <2>2. Quiet => \A a \in DOMAIN wire' :
           wire'[a].world = kf2'.world => wire'[a].stale \/ wire'[a].op = "disable"
    BY <1>4, <1>6, <1>7 DEF Quiet
  <2> QED
    BY <2>1, <2>2 DEF Quiet, Off
<1>8. \A a \in DOMAIN wire' : wire'[a].world <= bound.worlds
  BY <1>1, <1>4 DEF Numbering
<1>9. \A a \in DOMAIN wire' : Fresh(a)' => a \in DOMAIN wire /\ Fresh(a)
  BY <1>2, <1>4, <1>6 DEF Fresh
<1>10. \A a \in DOMAIN wire' :
          /\ wire'[a].from # "none" =>
                job[wire'[a].from].status = "busy" /\ job[wire'[a].from].op = wire'[a].op
          /\ wire'[a].from = "quality" => wire'[a].op = "quality"
          /\ wire'[a].from = "mode" => wire'[a].op # "quality"
          /\ wire'[a].op = "quality" => wire'[a].to \in Level
          /\ wire'[a].from # "none" => a \in DOMAIN wire /\ wire'[a].from = wire[a].from
                 /\ wire'[a].to = wire[a].to /\ wire'[a].world = wire[a].world
  BY <1>1, <1>2, <1>4 DEF Waiting, Asking
<1>11. ASSUME NEW a \in DOMAIN wire', NEW b \in DOMAIN wire', a < b
       PROVE  /\ wire'[a].from = "mode" => wire'[b].op = "disable"
              /\ wire'[a].from = "quality" => wire'[b].op # "quality"
              /\ wire'[a].from = wire'[b].from => wire'[a].from = "none"
  <2>1. CASE b \in DOMAIN wire
    <3>1. a \in DOMAIN wire /\ b # Len(wire) + 1 /\ a # Len(wire) + 1
      BY <1>4, <1>5, <1>11, <2>1
    <3> QED
      BY <1>1, <1>4, <1>11, <2>1, <3>1 DEF Waiting
  <2>2. CASE b \notin DOMAIN wire
    <3>1. wire'[b].from = "none" /\ wire'[b].op = op
      BY <1>4, <2>2
    <3>2. wire'[a].from = "mode" => op = "disable"
      BY <1>10
    <3> QED
      BY <1>2, <3>1, <3>2
  <2> QED
    BY <2>1, <2>2
<1> QED
  BY <1>6, <1>7, <1>8, <1>9, <1>10, <1>11 DEF Undisturbed

-----------------------------------------------------------------------------
(* What a toggle leaves in the record.                                      *)
LEMMA DeferredIs ==
  ASSUME app \in Records, kf2 \in Game, kf2.process # NoProcess, NEW enabled \in BOOLEAN,
         NEW a, a = ModeDeferred(Reserved(app, enabled), enabled)
  PROVE  /\ a \in Records
         /\ a.process = app.process /\ a.report = app.report /\ a.seen = app.seen
         /\ a.closed = app.closed /\ a.local = app.local
         /\ a.ask = NoAsk /\ ~a.confirmed /\ (a.setting <=> enabled)
         /\ a.pending = Mode(enabled)
         /\ enabled => a.debt = app.debt /\ (a.known <=> app.known)
         /\ ~enabled => a.debt = kf2.process
<1>1. /\ NoAsk \in Asks /\ kf2.process \in 0 .. MaxProcesses
      /\ Mode(enabled) \in {"none", "enable", "disable"}
  BY DEF NoAsk, Asks, Game, Mode
<1>2. CASE enabled
  <2> DEFINE z == [app EXCEPT !.setting = TRUE]
  <2>1. a = [[z EXCEPT !.ask = NoAsk] EXCEPT !.confirmed = FALSE, !.pending = Mode(enabled),
                                             !.due = TRUE]
    BY <1>2 DEF ModeDeferred, Reserved, ResetLocal
  <2>2. /\ z \in Records /\ z.process = app.process /\ z.report = app.report /\ z.seen = app.seen
        /\ z.closed = app.closed /\ z.local = app.local /\ z.setting /\ z.debt = app.debt
        /\ (z.known <=> app.known)
    BY DEF Records
  <2> HIDE DEF z
  <2>3. a \in Records
    BY ZenonT(60), <1>1, <2>1, <2>2 DEF Records
  <2>4. /\ a.process = z.process /\ a.report = z.report /\ a.seen = z.seen
        /\ a.closed = z.closed /\ a.local = z.local /\ a.ask = NoAsk /\ ~a.confirmed
        /\ (a.setting <=> z.setting) /\ a.pending = Mode(enabled) /\ a.debt = z.debt
        /\ (a.known <=> z.known)
    BY <2>1, <2>2 DEF Records
  <2> QED
    BY <1>2, <2>2, <2>3, <2>4
<1>3. CASE ~enabled
  <2> DEFINE z == [app EXCEPT !.setting = FALSE, !.debt = kf2.process, !.known = FALSE]
  <2>1. /\ z \in Records /\ z.process = app.process /\ z.report = app.report /\ z.seen = app.seen
        /\ z.closed = app.closed /\ z.local = app.local /\ ~z.setting /\ z.debt = kf2.process
    BY <1>1 DEF Records
  <2>2. Reserved(app, enabled) = z
    BY <1>3 DEF Reserved
  <2> HIDE DEF z
  <2>3. a = [[z EXCEPT !.ask = NoAsk] EXCEPT !.confirmed = FALSE, !.pending = Mode(enabled),
                                             !.due = TRUE]
    BY <1>3, <2>1, <2>2 DEF ModeDeferred, ResetLocal
  <2> QED
    BY ZenonT(60), <1>1, <1>3, <2>1, <2>3 DEF Records
<1> QED
  BY <1>2, <1>3

LEMMA ConfirmedIs ==
  ASSUME app \in Records, kf2 \in Game, NEW enabled \in BOOLEAN,
         NEW a, a = ModeConfirmed(Reserved(app, enabled), enabled)
  PROVE  /\ a \in Records
         /\ a.process = app.process /\ a.report = app.report
         /\ a.seen = <<app.process, app.report>>
         /\ a.closed = app.closed /\ a.ask = NoAsk /\ a.confirmed /\ (a.setting <=> enabled)
         /\ a.pending = "none"
         /\ enabled => a.debt = app.debt /\ a.local = app.local /\ (a.known <=> app.known)
         /\ ~enabled => a.debt = NoProcess
<1>1. /\ NoAsk \in Asks /\ kf2.process \in 0 .. MaxProcesses /\ NoProcess \in 0 .. MaxProcesses
      /\ Top \in Level /\ <<app.process, app.report>> \in Identities
  BY AdaptiveControlAssumption DEF NoAsk, Asks, Game, Level, NoProcess, Identities,
       Records
<1>2. CASE enabled
  <2> DEFINE z == [app EXCEPT !.setting = TRUE]
             y == [z EXCEPT !.seen = <<z.process, z.report>>, !.due = FALSE,
                            !.confirmed = TRUE, !.pending = "none", !.debt = z.debt]
  <2>1. a = [y EXCEPT !.ask = NoAsk]
    BY <1>2 DEF ModeConfirmed, Reserved, ResetLocal
  <2>2. /\ z \in Records /\ z.process = app.process /\ z.report = app.report
        /\ z.closed = app.closed /\ z.local = app.local /\ z.setting /\ z.debt = app.debt
        /\ (z.known <=> app.known)
    BY DEF Records
  <2> HIDE DEF z
  <2>3. /\ y \in Records /\ y.process = app.process /\ y.report = app.report
        /\ y.seen = <<app.process, app.report>>
        /\ y.closed = app.closed /\ y.local = app.local /\ y.setting /\ y.debt = app.debt
        /\ (y.known <=> app.known) /\ y.confirmed /\ y.pending = "none"
    BY <1>1, <2>2 DEF Records
  <2> HIDE DEF y
  <2> QED
    BY ZenonT(60), <1>1, <1>2, <2>1, <2>3 DEF Records
<1>3. CASE ~enabled
  <2> DEFINE z == [app EXCEPT !.setting = FALSE, !.debt = kf2.process, !.known = FALSE]
             y == [z EXCEPT !.seen = <<z.process, z.report>>, !.due = FALSE,
                            !.confirmed = TRUE, !.pending = "none", !.debt = NoProcess]
  <2>1. /\ z \in Records /\ z.process = app.process /\ z.report = app.report
        /\ z.closed = app.closed /\ ~z.setting
    BY <1>1 DEF Records
  <2>2. Reserved(app, enabled) = z
    BY <1>3 DEF Reserved
  <2> HIDE DEF z
  <2>3. /\ y \in Records /\ y.process = app.process /\ y.report = app.report
        /\ y.seen = <<app.process, app.report>>
        /\ y.closed = app.closed /\ ~y.setting /\ y.debt = NoProcess
        /\ y.confirmed /\ y.pending = "none"
    BY <1>1, <2>1 DEF Records
  <2>4. a = ResetLocal(y, enabled)
    BY <1>3, <2>2 DEF ModeConfirmed
  <2> HIDE DEF y
  <2>5. a = [y EXCEPT !.ask = NoAsk, !.slot = FALSE, !.local = Top, !.known = TRUE]
    BY <1>3, <2>3, <2>4 DEF ResetLocal
  <2> QED
    BY ZenonT(60), <1>1, <1>3, <2>3, <2>5 DEF Records
<1> QED
  BY <1>2, <1>3

-----------------------------------------------------------------------------
(* What the bookkeeping of the user interface's commands owes to Numbering,  *)
(* Waiting and Asking, whatever the answer was.                             *)
LEMMA RecordKeepsOrder ==
  ASSUME ChannelInv, Undisturbed, bound'.processes = bound.processes, bound'.worlds = bound.worlds,
         app \in Records, bound \in Bounds,
         kf2' = kf2 \/ kf2.process # NoProcess,
         \/ app'.ask = NoAsk
         \/ app'.ask = app.ask /\ app'.process = app.process /\ (app'.setting <=> app.setting),
         \/ app'.process = app.process /\ app'.report = app.report
         \/ app'.process = NoProcess /\ app'.report = NoWorld,
         \/ app'.seen = app.seen
         \/ app'.seen = <<0, 0>>
         \/ app'.seen = <<app.process, app.report>> /\ app.report # NoWorld
               /\ job["mode"].status = "free",
         ~app'.confirmed \/ (app'.process # NoProcess /\ job["mode"].status = "free")
            \/ (app'.process = app.process /\ (app'.confirmed <=> app.confirmed)),
         app'.debt \in {app.debt, NoProcess, kf2.process, Owner(app)},
         app'.process # NoProcess /\ app'.process = kf2.process =>
               app'.debt \in {NoProcess, kf2.process}
  PROVE  Numbering' /\ Binding' /\ Waiting' /\ Asking'
<1>1. Shape /\ Numbering /\ Binding /\ Waiting /\ Asking /\ "mode" \in Workers /\ kf2 \in Game
  BY DEF ChannelInv, Workers, Shape
<1>2. app.process = NoProcess => app.report = NoWorld /\ ~app.confirmed
  BY <1>1 DEF Binding
<1>3. \/ app'.seen[1] = app.seen[1] /\ app'.seen[2] = app.seen[2]
      \/ app'.seen[1] = NoProcess /\ app'.seen[2] = NoWorld
      \/ app'.seen[1] = app.process /\ app'.seen[2] = app.report /\ app.report # NoWorld
            /\ app.process # NoProcess /\ job["mode"].status = "free"
  BY <1>2 DEF NoProcess, NoWorld
<1>4. kf2.process <= bound.processes /\ NoProcess <= bound.processes /\ NoWorld <= bound.worlds
      /\ app.debt <= bound.processes /\ app.process <= bound.processes /\ app.report <= bound.worlds
  BY <1>1 DEF Numbering, Bounds, NoProcess, NoWorld
<1>5. app'.debt <= bound.processes
  BY <1>4 DEF Owner
<1>6. Numbering'
  <2>1. /\ kf2'.process \in {NoProcess, bound'.processes} /\ kf2'.world \in {NoWorld, bound'.worlds}
        /\ app'.process <= bound'.processes /\ app'.debt <= bound'.processes
        /\ app'.report <= bound'.worlds
        /\ \A i \in DOMAIN wire' : wire'[i].world <= bound'.worlds
    BY <1>1, <1>4, <1>5 DEF Numbering, Undisturbed
  <2>0. kf2'.process = NoProcess =>
          /\ kf2'.world = NoWorld /\ kf2'.quality = Top /\ kf2'.before = NoLevel
    BY <1>1 DEF Numbering, Undisturbed
  <2>2. /\ app'.seen[1] <= bound'.processes /\ app'.seen[2] <= bound'.worlds
    BY <1>1, <1>3, <1>4 DEF Numbering
  <2>3. /\ app'.report # NoWorld /\ app'.report = kf2'.world => app'.process = kf2'.process
        /\ app'.seen[2] # NoWorld /\ app'.seen[2] = kf2'.world => app'.seen[1] = kf2'.process
        /\ app'.seen[1] = NoProcess <=> app'.seen[2] = NoWorld
    BY <1>1, <1>3 DEF Numbering, Undisturbed
  <2> QED
    BY <2>0, <2>1, <2>2, <2>3 DEF Numbering
<1>7. Binding'
  BY <1>1, <1>2 DEF Binding, Undisturbed
<1>8. Waiting'
  <2>1. /\ \A a \in DOMAIN wire' :
            /\ wire'[a].from # "none" =>
                  job'[wire'[a].from].status = "busy" /\ job'[wire'[a].from].op = wire'[a].op
            /\ wire'[a].from = "quality" => wire'[a].op = "quality"
            /\ wire'[a].from = "mode" => wire'[a].op # "quality"
        /\ \A a, b \in DOMAIN wire' :
            a < b => /\ wire'[a].from = "mode" => wire'[b].op = "disable"
                     /\ wire'[a].from = "quality" => wire'[b].op # "quality"
                     /\ wire'[a].from = wire'[b].from => wire'[a].from = "none"
    BY DEF Undisturbed
  <2>2. job'["mode"].status # "free" => ~app'.confirmed
    BY <1>1, <1>2 DEF Waiting, Undisturbed
  <2>3. \A a \in DOMAIN wire' :
           wire'[a].from = "mode" /\ app'.seen[2] # NoWorld => wire'[a].world = app'.seen[2]
    <3>1. \A a \in DOMAIN wire' : wire'[a].from = "mode" =>
             /\ job["mode"].status = "busy" /\ a \in DOMAIN wire /\ wire[a].from = "mode"
             /\ wire'[a].world = wire[a].world
      BY DEF Undisturbed
    <3> QED
      BY <1>1, <1>3, <3>1 DEF Waiting
  <2> QED
    BY <2>1, <2>2, <2>3 DEF Waiting
<1>9. Asking'
  <2>1. \A a \in DOMAIN wire' : wire'[a].op = "quality" => wire'[a].to \in Level
    BY DEF Undisturbed
  <2>2. CASE app'.ask = NoAsk
    BY <2>1, <2>2 DEF Asking
  <2>3. CASE app'.ask = app.ask /\ app'.process = app.process /\ (app'.setting <=> app.setting)
    <3>1. app.ask # NoAsk => \A a \in DOMAIN wire' : wire'[a].from = "quality" =>
                wire'[a].to = app.ask.to
      BY <1>1 DEF Asking, Undisturbed
    <3> QED
      BY <1>1, <2>1, <2>3, <3>1 DEF Asking, Undisturbed
  <2> QED
    BY <2>2, <2>3
<1> QED
  BY <1>6, <1>7, <1>8, <1>9

-----------------------------------------------------------------------------
(* What a command of the user interface does to the game.                   *)
Moves ==
    /\ Stays(kf2, kf2') \/ Home(kf2') \/ Settled(kf2, kf2')
    /\ ~unseen' /\ (kf2'.quality < Top \/ (kf2'.before # NoLevel /\ kf2'.before < Top)) => ~unseen

LEMMA MovesKeepApplied ==
  ASSUME ChannelInv, Shape', Undisturbed, Moves,
         app'.ask = NoAsk \/ app'.ask = app.ask
  PROVE  Applied'
<1>1. Applied /\ kf2' \in Game /\ kf2 \in Game
  BY DEF ChannelInv, Shape
<1>2. Top \in Nat /\ NoLevel # Top /\ NoLevel \notin Level
  BY AdaptiveControlAssumption DEF NoLevel, Level
<1>3. \A x \in {"applied", "restored"} : Answer(x)' <=> Answer(x)
  BY DEF Answer, Undisturbed
<1>4. ASSUME Answer("applied")
      PROVE  /\ \A a \in DOMAIN wire' : ~Fresh(a)'
             /\ kf2'.before = NoLevel
             /\ app'.ask # NoAsk /\ kf2'.quality < Top => kf2'.quality = app'.ask.to
  BY <1>1, <1>2, <1>4 DEF Applied, Undisturbed, Moves, Stays, Home, Settled
<1>5. ASSUME Answer("restored"), ~unseen', kf2'.before = Top
      PROVE  kf2'.quality = Top
  <2>1. kf2'.quality # Top => kf2'.quality < Top
    BY <1>1, <1>2 DEF Game, Level
  <2> QED
    BY <1>1, <1>2, <1>5, <2>1 DEF Applied, Moves, Stays, Home, Settled
<1>6. job'["quality"].status = "done" => job'["quality"].op = "quality"
  BY <1>1 DEF Applied, Undisturbed
<1> QED
  BY <1>3, <1>4, <1>5, <1>6 DEF Applied

(* Adaptive is switched on: what was reduced still has its owner.           *)
LEMMA EnableKeeps ==
  ASSUME ChannelInv, Shape', Numbering', Binding', Waiting', Asking', Undisturbed, Moves,
         app.closed = "open", ~app.setting,
         app'.process = app.process, app'.debt = app.debt, app'.local = app.local,
         app'.known <=> app.known, app'.closed = app.closed, app'.setting, app'.ask = NoAsk,
         (UNCHANGED <<kf2, wire>> /\ app'.seen = app.seen) \/ job["mode"].status = "free",
         Owner(app) # kf2.process => UNCHANGED <<kf2, wire>>
  PROVE  ChannelInv'
<1>1. /\ kf2 \in Game /\ kf2' \in Game
      /\ Binding /\ Asking /\ Proved /\ Untouched /\ Applied /\ Requested /\ Owned
  BY DEF ChannelInv, Shape
<1>2. Top \in Nat /\ NoLevel # Top /\ NoLevel \notin Level
  BY AdaptiveControlAssumption DEF NoLevel, Level
<1>3. kf2'.process = kf2.process /\ job' = job
  BY DEF Undisturbed
<1>4. Owner(app') = Owner(app)
  BY DEF Owner
<1>5. Owner(app') # kf2'.process => UNCHANGED <<kf2, wire>> /\ Quiet'
  <2> SUFFICES ASSUME Owner(app') # kf2'.process PROVE UNCHANGED <<kf2, wire>> /\ Quiet'
    OBVIOUS
  <2>1. UNCHANGED <<kf2, wire>> /\ Quiet
    BY <1>1, <1>3 DEF Untouched, Owner
  <2> QED
    BY <2>1 DEF Quiet
<1>6. Proved'
  <2>1. ASSUME job'["mode"].status = "done", job'["mode"].op = "disable",
               job'["mode"].answer = "applied", app'.seen[1] = kf2'.process,
               kf2'.process # NoProcess
        PROVE  Off'
    <3>1. UNCHANGED <<kf2, wire>> /\ app'.seen = app.seen
      BY <1>3, <2>1
    <3>2. Off
      BY <1>1, <1>3, <2>1, <3>1 DEF Proved
    <3> QED
      BY <3>1, <3>2 DEF Off, Quiet
  <2> QED
    BY <2>1 DEF Proved
<1>7. Untouched'
  BY <1>3, <1>5 DEF Untouched, Owner
<1>8. CASE Quiet'
  BY <1>1, <1>3, <1>6, <1>8, QuietOwesNothing DEF ChannelInv, Applied
<1>9. CASE ~Quiet'
  <2>1. Owner(app) = kf2.process
    BY <1>3, <1>4, <1>5, <1>9
  <2>2. app.ask = NoAsk
    BY <1>1, <2>1 DEF Binding, Asking, Owner
  <2>3. Applied'
    BY MovesKeepApplied
  <2>4. Requested'
    BY <1>1, <1>3, <2>2 DEF Requested, Owed, Undisturbed
  <2>5. Owned'
    <3> SUFFICES ASSUME ~unseen', ~Owed
                 PROVE  /\ kf2'.before = NoLevel /\ kf2'.quality < Top => app.local < Top
                        /\ kf2'.before # NoLevel /\ kf2'.before < Top => app.local < Top
                        /\ kf2'.before = Top /\ kf2'.quality < Top =>
                              app.local < Top \/ ~app.known
      BY <1>3 DEF Owned, Owed
    <3>1. ~unseen =>
            /\ kf2.before = NoLevel /\ kf2.quality < Top => app.local < Top
            /\ kf2.before # NoLevel /\ kf2.before < Top => app.local < Top
            /\ kf2.before = Top /\ kf2.quality < Top => app.local < Top \/ ~app.known
      BY <1>1, <2>2 DEF Owned
    <3> QED
      BY <1>2, <3>1 DEF Moves, Stays, Home, Settled
  <2> QED
    BY <1>6, <1>7, <2>3, <2>4, <2>5 DEF ChannelInv
<1> QED
  BY <1>8, <1>9

(* Adaptive is switched off and KF2 has not confirmed it: the debt is there. *)
LEMMA DisableKeeps ==
  ASSUME ChannelInv, Shape', Numbering', Binding', Waiting', Asking', Undisturbed, Moves,
         (Quiet => Quiet') /\ (Off => Off'),
         app'.process \in {app.process, NoProcess}, app'.seen = app.seen, ~app'.confirmed,
         app'.debt = kf2.process, app'.pending # "enable", app'.closed # "restored",
         app'.ask = NoAsk
  PROVE  ChannelInv'
<1>1. Binding /\ Proved /\ Untouched /\ Numbering
  BY DEF ChannelInv
<1>2. kf2'.process = kf2.process /\ job' = job
  BY DEF Undisturbed
<1>3. Proved'
  BY <1>1, <1>2 DEF Proved
<1>4. Untouched'
  BY <1>1, <1>2 DEF Untouched, Owner
<1>5. Applied'
  BY MovesKeepApplied
<1>6. Requested' /\ Owned'
  BY <1>2 DEF Requested, Owned, Owed
<1> QED
  BY <1>3, <1>4, <1>5, <1>6 DEF ChannelInv

(* Switched by the user: three ways it can go.                              *)
LEMMA ToggledBounds ==
  ASSUME bound \in Bounds, bound.toggles < MaxToggles, NEW fault \in BOOLEAN, fault => Faulty,
         bound' = [bound EXCEPT !.toggles = @ + 1, !.faults = IF fault THEN @ + 1 ELSE @]
  PROVE  /\ bound' \in Bounds
         /\ bound'.processes = bound.processes /\ bound'.worlds = bound.worlds
<1>1. bound.toggles + 1 \in 0 .. MaxToggles
  BY AdaptiveControlAssumption DEF Bounds
<1>2. (IF fault THEN bound.faults + 1 ELSE bound.faults) \in 0 .. MaxFaults
  BY AdaptiveControlAssumption DEF Bounds, Faulty
<1> QED
  BY <1>1, <1>2 DEF Bounds

LEMMA LearnedMoves ==
  ASSUME NEW op, NEW r, Learns(r, op), kf2' = r.kf2, unseen' = r.unseen
  PROVE  Moves
  BY DEF Learns, Moves

LEMMA ToggleKeeps == ASSUME ChannelInv, Toggle PROVE ChannelInv'
<1> DEFINE enabled == ~app.setting
           a == Reserved(app, enabled)
<1>1. /\ kf2 \in Game /\ wire \in Seq(Messages) /\ app \in Records /\ bound \in Bounds
      /\ job \in Jobs /\ unseen \in BOOLEAN
      /\ Shape /\ Numbering /\ Binding /\ Waiting /\ Asking /\ Proved
      /\ Untouched /\ Applied /\ Requested /\ Owned
  BY DEF ChannelInv, Shape
<1>2. app.closed = "open" /\ bound.toggles < MaxToggles /\ job' = job
  BY DEF Toggle
<1>3. enabled \in BOOLEAN /\ Mode(enabled) \in {"enable", "disable"}
      /\ (enabled => Mode(enabled) = "enable") /\ (~enabled => Mode(enabled) = "disable")
  BY <1>1 DEF Records, Mode
<1>4. \/ /\ kf2.process = NoProcess
         /\ app' = [app EXCEPT !.setting = enabled]
         /\ bound' = [bound EXCEPT !.toggles = @ + 1]
         /\ UNCHANGED <<kf2, wire, unseen>>
      \/ /\ kf2.process # NoProcess
         /\ app' = ModeDeferred(a, enabled)
         /\ bound' = [bound EXCEPT !.toggles = @ + 1]
         /\ UNCHANGED <<kf2, wire, unseen>>
      \/ /\ kf2.process # NoProcess
         /\ app.report # NoWorld /\ job["mode"].status = "free"
         /\ \E r \in Results(Mode(enabled)) :
               /\ Sent(r)
               /\ app' = (IF r.ok THEN ModeConfirmed(a, enabled)
                          ELSE ModeDeferred(a, enabled))
               /\ bound' = [bound EXCEPT !.toggles = @ + 1,
                               !.faults = IF r.fault THEN @ + 1 ELSE @]
  BY DEF Toggle
<1>5. CASE /\ kf2.process = NoProcess
           /\ app' = [app EXCEPT !.setting = enabled]
           /\ bound' = [bound EXCEPT !.toggles = @ + 1]
           /\ UNCHANGED <<kf2, wire, unseen>>
  <2>1. /\ app'.process = app.process /\ app'.report = app.report /\ app'.seen = app.seen
        /\ (app'.confirmed <=> app.confirmed) /\ app'.debt = app.debt /\ app'.ask = app.ask
        /\ app'.closed = app.closed /\ app' \in Records
    BY <1>1, <1>3, <1>5 DEF Records
  <2>2. bound' \in Bounds /\ bound'.processes = bound.processes /\ bound'.worlds = bound.worlds
    BY <1>1, <1>2, <1>5, AdaptiveControlAssumption DEF Bounds
  <2>3. Shape'
    BY <1>1, <1>2, <1>5, <2>1, <2>2 DEF Shape
  <2>4. Numbering' /\ Binding' /\ Waiting'
    BY <1>1, <1>2, <1>5, <2>1, <2>2 DEF Numbering, Binding, Waiting
  <2>5. Asking'
    BY <1>1, <1>2, <1>5, <2>1 DEF Asking, Binding
  <2>6. Quiet'
    <3>1. kf2'.world = NoWorld /\ kf2'.quality = Top /\ kf2'.before = NoLevel
      BY <1>1, <1>5 DEF Numbering
    <3>2. \A i \in DOMAIN wire' : wire'[i].world # kf2'.world
      BY <1>1, <1>5, <3>1, WireWorlds
    <3> QED
      BY <3>1, <3>2 DEF Quiet
  <2>7. Proved'
    BY <1>2, <1>5, <2>1, <2>6 DEF Proved
  <2> QED
    BY <1>1, <1>2, <2>3, <2>4, <2>5, <2>6, <2>7, QuietOwesNothing DEF ChannelInv,
         Applied
<1>6. ASSUME kf2.process # NoProcess, app' = ModeDeferred(a, enabled), Shape', Undisturbed, Moves,
             bound'.processes = bound.processes, bound'.worlds = bound.worlds,
             enabled => UNCHANGED <<kf2, wire>> \/ job["mode"].status = "free",
             Owner(app) # kf2.process => UNCHANGED <<kf2, wire>>,
             ~enabled => (Quiet => Quiet') /\ (Off => Off')
      PROVE  ChannelInv'
  <2>1. /\ app'.process = app.process /\ app'.report = app.report /\ app'.seen = app.seen
        /\ app'.closed = app.closed /\ app'.local = app.local
        /\ app'.ask = NoAsk /\ ~app'.confirmed /\ (app'.setting <=> enabled)
        /\ app'.pending = Mode(enabled)
        /\ enabled => app'.debt = app.debt /\ (app'.known <=> app.known)
        /\ ~enabled => app'.debt = kf2.process
    BY <1>1, <1>3, <1>6, DeferredIs
  <2> HIDE DEF enabled, a
  <2>2. /\ app'.debt \in {app.debt, kf2.process}
        /\ app'.process # NoProcess /\ app'.process = kf2.process =>
                 app'.debt \in {NoProcess, kf2.process}
    BY <1>1, <1>3, <2>1 DEF Binding
  <2>3. Numbering' /\ Binding' /\ Waiting' /\ Asking'
    BY <1>1, <1>6, <2>1, <2>2, RecordKeepsOrder
  <2>4. CASE enabled
    <3>1. ~app.setting
      BY <2>4 DEF enabled
    <3> QED
      BY <1>2, <1>6, <2>1, <2>3, <2>4, <3>1, EnableKeeps
  <2>5. CASE ~enabled
    BY <1>2, <1>3, <1>6, <2>1, <2>3, <2>5, DisableKeeps
  <2> QED
    BY <2>4, <2>5
<1>7. CASE /\ kf2.process # NoProcess
           /\ app' = ModeDeferred(a, enabled)
           /\ bound' = [bound EXCEPT !.toggles = @ + 1]
           /\ UNCHANGED <<kf2, wire, unseen>>
  <2>1. bound' \in Bounds /\ bound'.processes = bound.processes /\ bound'.worlds = bound.worlds
    BY <1>1, <1>2, <1>7, AdaptiveControlAssumption DEF Bounds
  <2>2. app' \in Records
    BY <1>1, <1>3, <1>7, DeferredIs
  <2>3. Shape'
    BY <1>1, <1>2, <1>7, <2>1, <2>2 DEF Shape
  <2>4. Undisturbed /\ (Quiet => Quiet') /\ (Off => Off')
    BY <1>2, <1>7, UnsentDisturbsNothing
  <2>5. Moves
    BY <1>7 DEF Moves, Stays
  <2> HIDE DEF enabled, a
  <2> QED
    BY <1>6, <1>7, <2>1, <2>3, <2>4, <2>5
<1>8. ASSUME kf2.process # NoProcess, app.report # NoWorld, job["mode"].status = "free",
             NEW r \in Results(Mode(enabled)), Sent(r),
             app' = (IF r.ok THEN ModeConfirmed(a, enabled) ELSE ModeDeferred(a, enabled)),
             bound' = [bound EXCEPT !.toggles = @ + 1,
                               !.faults = IF r.fault THEN @ + 1 ELSE @]
      PROVE  ChannelInv'
  <2> HIDE DEF enabled
  <2>1. /\ Learns(r, Mode(enabled))
        /\ app.report # kf2.world => r.kf2 = kf2 /\ r.wire = wire /\ ~r.ok
        /\ r.ok /\ Mode(enabled) = "disable" =>
              /\ Home(r.kf2) /\ ~r.kf2.enabled
              /\ \A i \in DOMAIN r.wire : r.wire[i].stale
    BY <1>1, <1>3, <1>8, ResultIs
  <2>2. kf2' = r.kf2 /\ wire' = r.wire /\ unseen' = r.unseen /\ (r.fault => Faulty)
    BY <1>8 DEF Sent
  <2>3. /\ r.fault \in BOOLEAN /\ r.ok \in BOOLEAN /\ kf2' \in Game /\ wire' \in Seq(Messages)
        /\ unseen' \in BOOLEAN
    BY <2>1, <2>2 DEF Learns
  <2>4. bound' \in Bounds /\ bound'.processes = bound.processes /\ bound'.worlds = bound.worlds
    BY <1>1, <1>2, <1>8, <2>2, <2>3, ToggledBounds, Zenon
  <2>5. Undisturbed /\ (~enabled => (Quiet => Quiet') /\ (Off => Off'))
    BY <1>2, <1>3, <1>8, <2>1, <2>2, SendingDisturbsNothing
  <2>6. Moves
    BY <2>1, <2>2, LearnedMoves
  <2>7. app.process # NoProcess
    BY <1>1, <1>8 DEF Binding
  <2>8. Owner(app) # kf2.process => app.report # kf2.world
    BY <1>1, <1>8, <2>7 DEF Numbering, Owner
  <2>9. Owner(app) # kf2.process => UNCHANGED <<kf2, wire>> /\ ~r.ok
    BY <2>1, <2>2, <2>8
  <2>10. CASE ~r.ok
    <3>1. app' = ModeDeferred(a, enabled)
      BY <1>8, <2>10
    <3>2. app' \in Records
      BY <1>1, <1>3, <1>8, <3>1, DeferredIs
    <3>3. Shape'
      BY <1>1, <1>2, <2>3, <2>4, <3>2 DEF Shape
    <3> QED
      BY <1>6, <1>8, <2>4, <2>5, <2>6, <2>9, <3>1, <3>3
  <2>11. CASE r.ok
    <3>1. app' = ModeConfirmed(a, enabled)
      BY <1>8, <2>11
    <3>2. /\ app' \in Records
          /\ app'.process = app.process /\ app'.report = app.report
          /\ app'.seen = <<app.process, app.report>>
          /\ app'.closed = app.closed /\ app'.ask = NoAsk /\ app'.confirmed
          /\ (app'.setting <=> enabled) /\ app'.pending = "none"
          /\ enabled => app'.debt = app.debt /\ app'.local = app.local /\ (app'.known <=> app.known)
          /\ ~enabled => app'.debt = NoProcess
      BY <1>1, <1>3, <3>1, ConfirmedIs
    <3>3. Shape'
      BY <1>1, <1>2, <2>3, <2>4, <3>2 DEF Shape
    <3>4. /\ app'.debt \in {app.debt, NoProcess}
          /\ app'.process # NoProcess /\ app'.process = kf2.process =>
                   app'.debt \in {NoProcess, kf2.process}
      BY <1>1, <1>3, <3>2 DEF Binding
    <3>5. Numbering' /\ Binding' /\ Waiting' /\ Asking'
      BY <1>1, <1>8, <2>4, <2>5, <2>7, <3>2, <3>4, RecordKeepsOrder
    <3>6. CASE enabled
      <4>1. ~app.setting
        BY <3>6 DEF enabled
      <4> QED
        BY <1>2, <1>8, <2>5, <2>6, <2>9, <3>2, <3>3, <3>5, <3>6, <4>1, EnableKeeps
    <3>7. CASE ~enabled
      <4>1. Off' /\ Quiet'
        BY <1>3, <2>1, <2>2, <2>11, <3>7 DEF Off, Quiet, Home
      <4>2. Proved'
        BY <1>2, <3>2, <4>1 DEF Proved
      <4> QED
        BY <1>1, <1>2, <3>3, <3>5, <4>1, <4>2, QuietOwesNothing DEF ChannelInv, Applied
    <3> QED
      BY <3>6, <3>7
  <2> QED
    BY <2>3, <2>10, <2>11
<1> QED
  BY <1>4, <1>5, <1>7, <1>8

-----------------------------------------------------------------------------
(* The optimizer lets go of the game.                                       *)
LEMMA NoGameIsQuiet == ASSUME ChannelInv, kf2.process = NoProcess PROVE Quiet
<1>1. kf2.world = NoWorld /\ kf2.quality = Top /\ kf2.before = NoLevel
  BY DEF ChannelInv, Numbering
<1>2. \A i \in DOMAIN wire : wire[i].world # kf2.world
  BY <1>1, WireWorlds DEF ChannelInv, Shape
<1> QED
  BY <1>1, <1>2 DEF Quiet

LEMMA LiveRestoreIs ==
  ASSUME ChannelInv, NEW r \in LiveRestores(app),
         kf2' = r.kf2, wire' = r.wire, unseen' = r.unseen, job' = job
  PROVE  /\ kf2' \in Game /\ wire' \in Seq(Messages) /\ unseen' \in BOOLEAN
         /\ r.ok \in BOOLEAN /\ r.fault \in BOOLEAN
         /\ Undisturbed /\ Moves /\ (Quiet => Quiet') /\ (Off => Off')
         /\ kf2' = kf2 \/ kf2.process # NoProcess
         /\ r.ok => Quiet'
         /\ ~r.ok => Owner(app) = kf2.process /\ kf2.process # NoProcess
<1>1. /\ kf2 \in Game /\ wire \in Seq(Messages) /\ unseen \in BOOLEAN
      /\ Shape /\ Numbering /\ Binding /\ Untouched
  BY DEF ChannelInv, Shape
<1>2. ASSUME NEW ok \in BOOLEAN, r = Result(kf2, wire, unseen, ok, FALSE), ok => Quiet
      PROVE  /\ kf2' \in Game /\ wire' \in Seq(Messages) /\ unseen' \in BOOLEAN
             /\ r.ok \in BOOLEAN /\ r.fault \in BOOLEAN
             /\ Undisturbed /\ Moves /\ (Quiet => Quiet') /\ (Off => Off')
             /\ kf2' = kf2
             /\ (r.ok => Quiet') /\ (r.ok <=> ok)
  <2>1. /\ kf2' = kf2 /\ wire' = wire /\ (unseen' <=> unseen) /\ unseen' \in BOOLEAN
        /\ (r.ok <=> ok) /\ r.ok \in BOOLEAN /\ r.fault \in BOOLEAN
    BY <1>1, <1>2 DEF Result
  <2>2. Undisturbed /\ (Quiet => Quiet') /\ (Off => Off')
    BY <2>1, UnsentDisturbsNothing
  <2>3. Moves
    BY <2>1 DEF Moves, Stays
  <2> QED
    BY <1>1, <1>2, <2>1, <2>2, <2>3
<1>3. CASE Owner(app) = NoProcess \/ Owner(app) # kf2.process
  <2>1. r = Result(kf2, wire, unseen, TRUE, FALSE)
    BY <1>3 DEF LiveRestores
  <2>2. Quiet
    <3>1. CASE kf2.process = NoProcess
      BY <3>1, NoGameIsQuiet
    <3>2. CASE kf2.process # NoProcess
      BY <1>1, <1>3, <3>2 DEF Untouched
    <3> QED
      BY <3>1, <3>2
  <2> QED
    BY <1>2, <2>1, <2>2
<1>4. CASE Owner(app) # NoProcess /\ Owner(app) = kf2.process /\ app.report = NoWorld
  <2>1. r = Result(kf2, wire, unseen, FALSE, FALSE)
    BY <1>4 DEF LiveRestores
  <2> QED
    BY <1>2, <1>4, <2>1
<1>5. CASE Owner(app) # NoProcess /\ Owner(app) = kf2.process /\ app.report # NoWorld
  <2>1. r \in Results("disable")
    BY <1>5 DEF LiveRestores
  <2>2. /\ Learns(r, "disable")
        /\ r.ok => /\ Home(r.kf2)
                   /\ \A a \in DOMAIN r.wire : r.wire[a].stale
    BY <1>1, <1>5, <2>1, ResultIs
  <2>3. Undisturbed /\ (Quiet => Quiet') /\ (Off => Off')
    BY <2>2, SendingDisturbsNothing
  <2>4. Moves
    BY <2>2, LearnedMoves
  <2>5. r.ok => Quiet'
    BY <2>2 DEF Home, Quiet
  <2> QED
    BY <1>5, <2>2, <2>3, <2>4, <2>5 DEF Learns
<1> QED
  BY <1>3, <1>4, <1>5

LEMMA LiveRestoredIs ==
  ASSUME app \in Records, kf2 \in Game, NEW r, r.ok \in BOOLEAN
  PROVE  LET a == LiveRestored(app, r) IN
         /\ a \in Records
         /\ a.process = app.process /\ a.report = app.report /\ a.seen = app.seen
         /\ (a.confirmed <=> app.confirmed) /\ (a.setting <=> app.setting)
         /\ a.pending = app.pending /\ a.closed = app.closed
         /\ r.ok => a.ask = NoAsk /\ a.debt = NoProcess
         /\ ~r.ok => a.ask = app.ask /\ a.debt = Owner(app)
<1>1. NoAsk \in Asks /\ Top \in Level /\ NoProcess \in 0 .. MaxProcesses
  BY AdaptiveControlAssumption DEF NoAsk, Asks, Level, NoProcess
<1>2. Owner(app) \in 0 .. MaxProcesses
  BY DEF Owner, Records, Game
<1>3. CASE r.ok
  BY <1>1, <1>3 DEF LiveRestored, Records
<1>4. CASE ~r.ok
  BY <1>2, <1>4 DEF LiveRestored, Records
<1> QED
  BY <1>3, <1>4

LEMMA CloseKeeps == ASSUME ChannelInv, Close PROVE ChannelInv'
<1>1. /\ kf2 \in Game /\ wire \in Seq(Messages) /\ app \in Records /\ bound \in Bounds
      /\ job \in Jobs
      /\ Shape /\ Numbering /\ Binding /\ Waiting /\ Asking /\ Proved
      /\ Untouched /\ Applied /\ Requested /\ Owned
  BY DEF ChannelInv, Shape
<1>2. PICK r \in LiveRestores(app) :
        /\ Sent(r)
        /\ app' = [LiveRestored(app, r) EXCEPT
                      !.closed = IF r.ok THEN "restored" ELSE "unrestored"]
        /\ bound' = (IF r.fault THEN Fault ELSE bound)
  BY DEF Close
<1>3. kf2' = r.kf2 /\ wire' = r.wire /\ unseen' = r.unseen /\ job' = job /\ (r.fault => Faulty)
  BY <1>2 DEF Sent, Close
<1>4. /\ kf2' \in Game /\ wire' \in Seq(Messages) /\ unseen' \in BOOLEAN
      /\ r.ok \in BOOLEAN /\ r.fault \in BOOLEAN
      /\ Undisturbed /\ Moves /\ (Quiet => Quiet') /\ (Off => Off')
      /\ kf2' = kf2 \/ kf2.process # NoProcess
      /\ r.ok => Quiet'
      /\ ~r.ok => Owner(app) = kf2.process /\ kf2.process # NoProcess
  BY <1>3, LiveRestoreIs
<1> DEFINE a == LiveRestored(app, r)
<1>5. /\ a \in Records
      /\ a.process = app.process /\ a.report = app.report /\ a.seen = app.seen
      /\ (a.confirmed <=> app.confirmed) /\ (a.setting <=> app.setting)
      /\ a.pending = app.pending
      /\ r.ok => a.ask = NoAsk /\ a.debt = NoProcess
      /\ ~r.ok => a.ask = app.ask /\ a.debt = Owner(app)
  BY <1>1, <1>4, LiveRestoredIs
<1> HIDE DEF a
<1>6. /\ app' \in Records
      /\ app'.process = app.process /\ app'.report = app.report /\ app'.seen = app.seen
      /\ (app'.confirmed <=> app.confirmed) /\ (app'.setting <=> app.setting)
      /\ app'.pending = app.pending /\ app'.ask = a.ask /\ app'.debt = a.debt
      /\ r.ok => app'.closed = "restored"
      /\ ~r.ok => app'.closed = "unrestored"
  <2>1. app' = [a EXCEPT !.closed = IF r.ok THEN "restored" ELSE "unrestored"]
    BY <1>2 DEF a
  <2>2. CASE r.ok
    BY <1>5, <2>1, <2>2 DEF Records
  <2>3. CASE ~r.ok
    BY <1>5, <2>1, <2>3 DEF Records
  <2> QED
    BY <2>2, <2>3
<1>7. bound' \in Bounds /\ bound'.processes = bound.processes /\ bound'.worlds = bound.worlds
  BY <1>1, <1>2, <1>3, FaultIs
<1>8. Shape'
  BY <1>1, <1>3, <1>4, <1>6, <1>7 DEF Shape
<1>9. /\ app'.debt \in {NoProcess, Owner(app)}
      /\ app'.ask = NoAsk \/ app'.ask = app.ask
      /\ app'.process # NoProcess /\ app'.process = kf2.process =>
               app'.debt \in {NoProcess, kf2.process}
  BY <1>4, <1>5, <1>6
<1>10. Numbering' /\ Binding' /\ Waiting' /\ Asking'
  BY <1>1, <1>4, <1>6, <1>7, <1>9, RecordKeepsOrder
<1>11. kf2'.process = kf2.process /\ job' = job
  BY <1>4 DEF Undisturbed
<1>12. Proved'
  BY <1>1, <1>4, <1>6, <1>11 DEF Proved
<1>13. CASE r.ok
  BY <1>1, <1>3, <1>4, <1>8, <1>10, <1>12, <1>13, QuietOwesNothing DEF ChannelInv,
       Applied
<1>14. CASE ~r.ok
  <2>1. Untouched'
    BY <1>4, <1>5, <1>6, <1>11, <1>14 DEF Untouched, Owner
  <2>2. Applied'
    BY <1>4, <1>8, <1>9, MovesKeepApplied
  <2>3. Requested' /\ Owned'
    BY <1>6, <1>14 DEF Requested, Owned
  <2> QED
    BY <1>8, <1>10, <1>12, <2>1, <2>2, <2>3 DEF ChannelInv
<1> QED
  BY <1>4, <1>13, <1>14

LEMMA DetachedIs ==
  ASSUME kf2 \in Game, NEW a \in Records, NEW b, b = Detached(a)
  PROVE  /\ b \in Records
         /\ b.process = NoProcess /\ b.report = NoWorld /\ b.ask = NoAsk
         /\ ~b.confirmed /\ b.pending = "none" /\ b.closed = a.closed
         /\ a.debt = kf2.process /\ a.debt # NoProcess => b.debt = kf2.process /\ b.seen = a.seen
         /\ a.debt # kf2.process \/ a.debt = NoProcess => b.debt = NoProcess /\ b.seen = <<0, 0>>
<1> DEFINE debt == IF a.debt = kf2.process THEN a.debt ELSE NoProcess
           u == [a EXCEPT !.process = NoProcess, !.report = NoWorld,
                        !.ask = NoAsk, !.slot = FALSE, !.confirmed = FALSE,
                        !.pending = "none", !.debt = debt]
<1>1. /\ NoAsk \in Asks /\ Top \in Level /\ NoProcess \in 0 .. MaxProcesses
      /\ NoWorld \in 0 .. MaxWorlds /\ <<0, 0>> \in Identities /\ debt \in 0 .. MaxProcesses
  BY AdaptiveControlAssumption DEF NoAsk, Asks, Level, NoProcess, NoWorld, Identities,
       Game
<1>2. b = IF debt # NoProcess THEN u
          ELSE [u EXCEPT !.seen = <<0, 0>>, !.due = TRUE, !.local = Top,
                         !.known = TRUE, !.rollback = NoLevel]
  BY DEF Detached
<1>3. /\ a.debt = kf2.process /\ a.debt # NoProcess => debt = kf2.process /\ debt # NoProcess
      /\ a.debt # kf2.process \/ a.debt = NoProcess => debt = NoProcess
  OBVIOUS
<1> HIDE DEF debt
<1>4. /\ u \in Records /\ u.process = NoProcess /\ u.report = NoWorld /\ u.ask = NoAsk
      /\ ~u.confirmed /\ u.pending = "none" /\ u.closed = a.closed /\ u.debt = debt
      /\ u.seen = a.seen
  BY <1>1 DEF Records
<1> HIDE DEF u
<1>5. CASE debt # NoProcess
  BY <1>2, <1>3, <1>4, <1>5
<1>6. CASE debt = NoProcess
  <2>1. b = [u EXCEPT !.seen = <<0, 0>>, !.due = TRUE, !.local = Top,
                         !.known = TRUE, !.rollback = NoLevel]
    BY <1>2, <1>6
  <2>2. b \in Records
    BY <1>1, <1>4, <2>1 DEF Records
  <2>3. /\ b.process = u.process /\ b.report = u.report /\ b.ask = u.ask
        /\ (b.confirmed <=> u.confirmed) /\ b.pending = u.pending /\ b.closed = u.closed
        /\ b.debt = u.debt /\ b.seen = <<0, 0>>
    BY <1>4, <2>1 DEF Records
  <2> QED
    BY <1>3, <1>4, <1>6, <2>2, <2>3
<1> QED
  BY <1>5, <1>6

LEMMA DetachKeeps == ASSUME ChannelInv, Detach PROVE ChannelInv'
<1>1. /\ kf2 \in Game /\ wire \in Seq(Messages) /\ app \in Records /\ bound \in Bounds
      /\ job \in Jobs
      /\ Shape /\ Numbering /\ Binding /\ Waiting /\ Asking /\ Proved
      /\ Untouched /\ Applied /\ Requested /\ Owned
  BY DEF ChannelInv, Shape
<1> DEFINE spent == IF app.process = kf2.process THEN 1 ELSE 0
<1>2. /\ app.process # NoProcess /\ app.closed = "open" /\ job' = job
      /\ \/ /\ app.debt = NoProcess
            /\ \E r \in LiveRestores(app) :
                  LET used == bound.faults + spent + IF r.fault THEN 1 ELSE 0 IN
                  /\ used <= MaxFaults /\ bound' = [bound EXCEPT !.faults = used]
                  /\ Sent(r) /\ app' = Detached(LiveRestored(app, r))
         \/ /\ app.debt # NoProcess
            /\ bound.faults + spent <= MaxFaults
            /\ bound' = [bound EXCEPT !.faults = @ + spent]
            /\ app' = Detached(app) /\ UNCHANGED <<kf2, wire, unseen>>
  BY DEF Detach
<1>3. spent \in {0, 1}
  OBVIOUS
<1> HIDE DEF spent
<1>4. ASSUME NEW n \in Nat, n <= MaxFaults, bound' = [bound EXCEPT !.faults = n]
      PROVE  /\ bound' \in Bounds
             /\ bound'.processes = bound.processes /\ bound'.worlds = bound.worlds
  BY <1>1, <1>4, AdaptiveControlAssumption DEF Bounds
<1>5. ASSUME NEW a \in Records, app' = Detached(a), a.seen = app.seen, a.closed = app.closed,
             Undisturbed, Moves, (Quiet => Quiet'), (Off => Off'), Shape',
             kf2' = kf2 \/ kf2.process # NoProcess,
             bound'.processes = bound.processes, bound'.worlds = bound.worlds,
             a.debt = kf2.process \/ Quiet'
      PROVE  ChannelInv'
  <2>1. /\ app'.process = NoProcess /\ app'.report = NoWorld /\ app'.ask = NoAsk
        /\ ~app'.confirmed /\ app'.pending = "none" /\ app'.closed = a.closed
        /\ a.debt = kf2.process /\ a.debt # NoProcess =>
                 app'.debt = kf2.process /\ app'.seen = a.seen
        /\ a.debt # kf2.process \/ a.debt = NoProcess =>
                 app'.debt = NoProcess /\ app'.seen = <<0, 0>>
    BY <1>1, <1>5, DetachedIs
  <2>2. Numbering' /\ Binding' /\ Waiting' /\ Asking'
    BY <1>1, <1>5, <2>1, RecordKeepsOrder
  <2>3. CASE a.debt = kf2.process /\ a.debt # NoProcess
    BY <1>2, <1>5, <2>1, <2>2, <2>3, DisableKeeps
  <2>4. CASE a.debt # kf2.process \/ a.debt = NoProcess
    <3>1. Quiet'
      BY <1>5, <2>4, NoGameIsQuiet
    <3>2. app'.seen[1] = NoProcess
      BY <2>1, <2>4 DEF NoProcess
    <3>3. Proved'
      BY <1>2, <1>5, <2>1, <3>1, <3>2 DEF Proved
    <3> QED
      BY <1>1, <1>2, <1>5, <2>2, <3>1, <3>3, QuietOwesNothing DEF ChannelInv, Applied
  <2> QED
    BY <2>3, <2>4
<1>6. CASE /\ app.debt # NoProcess
           /\ bound.faults + spent <= MaxFaults
           /\ bound' = [bound EXCEPT !.faults = @ + spent]
           /\ app' = Detached(app) /\ UNCHANGED <<kf2, wire, unseen>>
  <2>1. bound.faults + spent \in Nat /\ bound' = [bound EXCEPT !.faults = bound.faults + spent]
    BY <1>1, <1>3, <1>6 DEF Bounds
  <2>2. bound' \in Bounds /\ bound'.processes = bound.processes /\ bound'.worlds = bound.worlds
    BY <1>4, <1>6, <2>1
  <2>3. Undisturbed /\ (Quiet => Quiet') /\ (Off => Off')
    BY <1>2, <1>6, UnsentDisturbsNothing
  <2>4. Moves
    BY <1>6 DEF Moves, Stays
  <2>5. app' \in Records
    BY <1>1, <1>6, DetachedIs
  <2>6. Shape'
    BY <1>1, <1>2, <1>6, <2>2, <2>5 DEF Shape
  <2>7. app.debt = kf2.process \/ Quiet'
    BY <1>1, <1>2, <1>6, <2>3 DEF Binding, Untouched, Owner
  <2> QED
    BY <1>1, <1>5, <1>6, <2>2, <2>3, <2>4, <2>6, <2>7
<1>7. ASSUME NEW r \in LiveRestores(app), Sent(r), app' = Detached(LiveRestored(app, r)),
             NEW used, used = bound.faults + spent + (IF r.fault THEN 1 ELSE 0),
             used <= MaxFaults, bound' = [bound EXCEPT !.faults = used]
      PROVE  ChannelInv'
  <2>1. kf2' = r.kf2 /\ wire' = r.wire /\ unseen' = r.unseen /\ job' = job
    BY <1>2, <1>7 DEF Sent
  <2>2. /\ kf2' \in Game /\ wire' \in Seq(Messages) /\ unseen' \in BOOLEAN
        /\ r.ok \in BOOLEAN /\ r.fault \in BOOLEAN
        /\ Undisturbed /\ Moves /\ (Quiet => Quiet') /\ (Off => Off')
        /\ kf2' = kf2 \/ kf2.process # NoProcess
        /\ r.ok => Quiet'
        /\ ~r.ok => Owner(app) = kf2.process /\ kf2.process # NoProcess
    BY <2>1, LiveRestoreIs
  <2> DEFINE a == LiveRestored(app, r)
  <2>3. /\ a \in Records /\ a.seen = app.seen /\ a.closed = app.closed
        /\ ~r.ok => a.debt = Owner(app)
    BY <1>1, <2>2, LiveRestoredIs
  <2> HIDE DEF a
  <2>4. app' = Detached(a)
    BY <1>7 DEF a
  <2>5. app' \in Records
    BY <1>1, <2>3, <2>4, DetachedIs
  <2>6. used \in Nat
    BY <1>1, <1>3, <1>7 DEF Bounds
  <2>7. bound' \in Bounds /\ bound'.processes = bound.processes /\ bound'.worlds = bound.worlds
    BY <1>4, <1>7, <2>6
  <2>8. Shape'
    BY <1>1, <2>1, <2>2, <2>5, <2>7 DEF Shape
  <2> QED
    BY <1>5, <2>2, <2>3, <2>4, <2>7, <2>8
<1> QED
  BY <1>2, <1>6, <1>7

-----------------------------------------------------------------------------
(* A tick, stage by stage.                                                  *)
Boundary == AtBoundary(app, job)
Sends == SendsMode(app, Boundary, job)
SentNow == IF Sends THEN ModeSent(Boundary) ELSE Boundary
Polled ==
    IF job["quality"].status = "done" THEN QualityPolled(SentNow, job["quality"]) ELSE SentNow
Decided ==
    IF job["mode"].status = "done" THEN ModePolled(Polled, job["mode"]) ELSE Polled
ModeCommand == Command("mode", Desired(Boundary), NoLevel, app.report)
LeftJobs ==
    [w \in Workers |-> IF job[w].status = "done" THEN Free
                       ELSE IF w = "mode" /\ Sends THEN Busy(ModeCommand.op) ELSE job[w]]
Missed ==
    /\ job["quality"].status = "done" /\ job["quality"].answer = "applied"
    /\ kf2.quality < Top /\ app.ask # NoAsk /\ ~(app.ask.current /\ app.slot)

LEMMA BoundaryIs ==
  ASSUME app \in Records
  PROVE  /\ Boundary \in Records
         /\ Boundary.process = app.process /\ Boundary.report = app.report
         /\ Boundary.seen = app.seen /\ (Boundary.setting <=> app.setting)
         /\ Boundary.local = app.local /\ (Boundary.known <=> app.known)
         /\ Boundary.rollback = app.rollback /\ Boundary.ask = app.ask
         /\ (Boundary.slot <=> app.slot) /\ Boundary.closed = app.closed
         /\ \/ Boundary = app /\ app.seen = <<app.process, app.report>>
            \/ /\ ~Boundary.confirmed /\ Boundary.pending = "none"
               /\ \/ Boundary.debt = app.process
                  \/ Boundary.debt = app.debt /\ ~MayBeReduced(app, job)
<1>1. CASE app.seen = <<app.process, app.report>>
  BY <1>1 DEF Boundary, AtBoundary
<1>2. CASE app.seen # <<app.process, app.report>>
  <2> DEFINE debt == IF MayBeReduced(app, job) THEN app.process ELSE app.debt
  <2>1. Boundary = [app EXCEPT !.confirmed = FALSE, !.pending = "none", !.debt = debt]
    BY <1>2 DEF Boundary, AtBoundary
  <2>2. debt \in 0 .. MaxProcesses
    BY DEF Records
  <2>3. debt = app.process \/ (debt = app.debt /\ ~MayBeReduced(app, job))
    OBVIOUS
  <2> HIDE DEF debt
  <2>4. Boundary \in Records
    BY <2>1, <2>2 DEF Records
  <2> QED
    BY <2>1, <2>2, <2>3, <2>4 DEF Records
<1> QED
  BY <1>1, <1>2

LEMMA SentIs ==
  ASSUME app \in Records
  PROVE  /\ SentNow \in Records
         /\ SentNow.process = app.process /\ SentNow.report = app.report
         /\ (SentNow.setting <=> app.setting)
         /\ SentNow.local = app.local /\ (SentNow.known <=> app.known)
         /\ SentNow.rollback = app.rollback /\ SentNow.ask = app.ask
         /\ (SentNow.slot <=> app.slot) /\ SentNow.closed = app.closed
         /\ SentNow.debt = Boundary.debt
         /\ Sends => /\ SentNow.seen = <<app.process, app.report>> /\ ~SentNow.confirmed
                     /\ SentNow.pending = Desired(Boundary)
         /\ ~Sends => SentNow = Boundary
<1>1. CASE Sends
  <2>1. SentNow = [Boundary EXCEPT !.seen = <<Boundary.process, Boundary.report>>, !.due = FALSE,
                                  !.confirmed = FALSE, !.pending = Desired(Boundary)]
    BY <1>1 DEF SentNow, ModeSent
  <2>2. /\ Desired(Boundary) \in {"none", "enable", "disable"}
        /\ <<Boundary.process, Boundary.report>> \in Identities
    BY BoundaryIs DEF Desired, Mode, Identities, Records
  <2> HIDE DEF Boundary
  <2>3. SentNow \in Records
    BY <2>1, <2>2, BoundaryIs DEF Records
  <2>4. /\ SentNow.process = Boundary.process /\ SentNow.report = Boundary.report
        /\ (SentNow.setting <=> Boundary.setting)
        /\ SentNow.local = Boundary.local /\ (SentNow.known <=> Boundary.known)
        /\ SentNow.rollback = Boundary.rollback /\ SentNow.ask = Boundary.ask
        /\ (SentNow.slot <=> Boundary.slot) /\ SentNow.closed = Boundary.closed
        /\ SentNow.debt = Boundary.debt
        /\ SentNow.seen = <<Boundary.process, Boundary.report>> /\ ~SentNow.confirmed
        /\ SentNow.pending = Desired(Boundary)
    BY <2>1, <2>2, BoundaryIs DEF Records
  <2> QED
    BY <1>1, <2>3, <2>4, BoundaryIs
<1>2. CASE ~Sends
  BY <1>2, BoundaryIs DEF SentNow
<1> QED
  BY <1>1, <1>2

LEMMA PolledIs ==
  ASSUME app \in Records, job \in Jobs,
         app.ask # NoAsk => app.ask.from \in Level /\ app.ask.to \in Level
  PROVE  LET s == SentNow
             j == job["quality"]
             accepted == app.ask.current /\ app.slot IN
         /\ Polled \in Records
         /\ Polled.process = s.process /\ Polled.report = s.report
         /\ (Polled.setting <=> s.setting) /\ Polled.seen = s.seen
         /\ (Polled.confirmed <=> s.confirmed) /\ Polled.pending = s.pending
         /\ Polled.debt = s.debt /\ Polled.closed = s.closed
         /\ j.status # "done" => Polled = s
         /\ j.status = "done" =>
              /\ Polled.ask = NoAsk
              /\ app.ask = NoAsk => Polled = s
              /\ app.ask # NoAsk /\ j.answer = "applied" /\ accepted => Polled.local = app.ask.to
              /\ app.ask # NoAsk /\ ~(j.answer = "applied" /\ accepted) => Polled.local = app.local
              /\ app.ask # NoAsk /\ j.answer = "unknown" => ~Polled.known
              /\ app.ask # NoAsk /\ j.answer \notin {"applied", "restored", "unknown"} =>
                    (Polled.known <=> app.known)
<1> DEFINE s == SentNow
           j == job["quality"]
           accepted == s.ask.current /\ s.slot
           settled == [s EXCEPT !.ask = NoAsk, !.slot = IF accepted THEN FALSE ELSE s.slot]
<1>1. /\ s \in Records /\ s.ask = app.ask /\ s.local = app.local /\ (s.known <=> app.known)
      /\ (s.slot <=> app.slot)
  BY SentIs
<1>2. CASE j.status # "done"
  BY <1>1, <1>2 DEF Polled
<1>3. CASE j.status = "done" /\ app.ask = NoAsk
  BY <1>1, <1>3 DEF Polled, QualityPolled
<1>4. CASE j.status = "done" /\ app.ask # NoAsk
  <2>1. Polled = CASE j.answer = "restored" ->
                        [settled EXCEPT !.known = TRUE, !.rollback = NoLevel]
                   [] j.answer = "unknown" ->
                        [settled EXCEPT !.known = FALSE, !.rollback = s.ask.from]
                   [] j.answer = "applied" /\ accepted ->
                        [settled EXCEPT !.known = TRUE, !.local = s.ask.to,
                            !.rollback = IF s.ask.to >= settled.rollback THEN NoLevel
                               ELSE settled.rollback]
                   [] OTHER -> settled
    BY <1>1, <1>4 DEF Polled, QualityPolled
  <2>2. NoAsk \in Asks
    BY DEF NoAsk, Asks
  <2> HIDE DEF s, j
  <2>3. accepted \in BOOLEAN /\ (accepted <=> app.ask.current /\ app.slot)
    BY <1>1 DEF Records, Asks
  <2> HIDE DEF accepted
  <2>4. (IF accepted THEN FALSE ELSE s.slot) \in BOOLEAN
    BY <1>1, <2>3 DEF Records
  <2>5. /\ settled \in Records
        /\ settled.process = s.process /\ settled.report = s.report
        /\ (settled.setting <=> s.setting) /\ settled.seen = s.seen
        /\ (settled.confirmed <=> s.confirmed) /\ settled.pending = s.pending
        /\ settled.debt = s.debt /\ settled.closed = s.closed
        /\ settled.ask = NoAsk /\ settled.local = s.local /\ (settled.known <=> s.known)
    BY <1>1, <2>2, <2>4 DEF Records
  <2> HIDE DEF settled
  <2>7. /\ s.ask.to \in Level /\ s.ask.from \in Level /\ s.local \in Level
        /\ settled.rollback \in Level \cup {NoLevel} /\ settled.local = s.local
    BY <1>1, <1>4, <2>5 DEF Records
  <2> DEFINE Kept == /\ Polled.process = s.process /\ Polled.report = s.report
                     /\ (Polled.setting <=> s.setting) /\ Polled.seen = s.seen
                     /\ (Polled.confirmed <=> s.confirmed) /\ Polled.pending = s.pending
                     /\ Polled.debt = s.debt /\ Polled.closed = s.closed /\ Polled.ask = NoAsk
  <2>8. CASE j.answer = "restored"
    <3>1. Polled = [settled EXCEPT !.known = TRUE, !.local = s.local, !.rollback = NoLevel]
      BY <2>1, <2>5, <2>7, <2>8 DEF Records
    <3>2. Polled \in Records
      BY <2>5, <2>7, <3>1 DEF Records
    <3>3. Kept /\ Polled.local = s.local
      BY <2>5, <3>1 DEF Records
    <3> QED
      BY <1>1, <1>4, <2>8, <3>2, <3>3 DEF s, j
  <2>9. CASE j.answer = "unknown"
    <3>1. Polled = [settled EXCEPT !.known = FALSE, !.local = s.local, !.rollback = s.ask.from]
      BY <2>1, <2>5, <2>7, <2>9 DEF Records
    <3>2. Polled \in Records
      BY <2>5, <2>7, <3>1 DEF Records
    <3>3. Kept /\ Polled.local = s.local /\ ~Polled.known
      BY <2>5, <3>1 DEF Records
    <3> QED
      BY <1>1, <1>4, <2>9, <3>2, <3>3 DEF s, j
  <2>10. CASE j.answer = "applied" /\ accepted
    <3> DEFINE b == IF s.ask.to >= settled.rollback THEN NoLevel ELSE settled.rollback
    <3>1. b \in Level \cup {NoLevel}
      BY <2>7
    <3>2. Polled = [settled EXCEPT !.known = TRUE, !.local = s.ask.to, !.rollback = b]
      BY <2>1, <2>10
    <3> HIDE DEF b
    <3>3. Polled \in Records
      BY <2>5, <2>7, <3>1, <3>2 DEF Records
    <3>4. Kept /\ Polled.local = s.ask.to
      BY <2>5, <3>2 DEF Records
    <3> QED
      BY <1>1, <1>4, <2>3, <2>10, <3>3, <3>4 DEF s, j
  <2>11. CASE j.answer \notin {"restored", "unknown"} /\ ~(j.answer = "applied" /\ accepted)
    <3>1. Polled = settled
      BY <2>1, <2>11
    <3> QED
      BY <1>1, <1>4, <2>3, <2>5, <2>11, <3>1 DEF s, j
  <2> QED
    BY <2>8, <2>9, <2>10, <2>11
<1> QED
  BY <1>2, <1>3, <1>4

LEMMA DecidedIs ==
  ASSUME app \in Records, job \in Jobs, Polled \in Records
  PROVE  LET j == job["mode"] IN
         /\ Decided \in Records
         /\ Decided.process = Polled.process /\ Decided.report = Polled.report
         /\ (Decided.setting <=> Polled.setting) /\ Decided.seen = Polled.seen
         /\ Decided.ask = Polled.ask /\ Decided.closed = Polled.closed
         /\ \/ Decided = Polled /\ (j.status = "done" => Polled.pending = "none")
            \/ /\ j.status = "done" /\ Polled.pending # "none" /\ Decided.pending = "none"
               /\ j.answer = "applied" /\ j.op = "disable" /\ Polled.pending = "disable"
               /\ Polled.debt # NoProcess /\ Decided.debt = NoProcess
               /\ Decided.confirmed <=> ~Polled.setting
            \/ /\ j.status = "done" /\ Polled.pending # "none" /\ Decided.pending = "none"
               /\ Decided.debt = Polled.debt /\ Decided.local = Polled.local
               /\ (Decided.known <=> Polled.known)
               /\ Decided.confirmed <=> j.answer = "applied" /\ j.op = Polled.pending
<1> DEFINE j == job["mode"]
           p == Polled
           proof == j.answer = "applied" /\ j.op = p.pending
           settles == proof /\ j.op = "disable" /\ p.debt # NoProcess
<1>1. CASE j.status # "done" \/ p.pending = "none"
  BY <1>1 DEF Decided, ModePolled
<1>2. ASSUME j.status = "done", p.pending # "none", settles
      PROVE  /\ Decided \in Records
             /\ Decided.process = p.process /\ Decided.report = p.report
             /\ (Decided.setting <=> p.setting) /\ Decided.seen = p.seen
             /\ Decided.ask = p.ask /\ Decided.closed = p.closed
             /\ Decided.pending = "none" /\ Decided.debt = NoProcess
             /\ Decided.confirmed <=> ~p.setting
  <2>1. Decided = [p EXCEPT !.local = Top, !.known = TRUE, !.rollback = NoLevel,
                   !.debt = NoProcess, !.pending = "none",
                   !.confirmed = ~p.setting, !.due = p.setting \/ p.due]
    BY <1>2 DEF Decided, ModePolled
  <2>2. /\ Top \in Level /\ NoProcess \in 0 .. MaxProcesses
        /\ (~p.setting) \in BOOLEAN /\ (p.setting \/ p.due) \in BOOLEAN
    BY AdaptiveControlAssumption DEF Level, NoProcess
  <2> DEFINE off == ~p.setting
             due == p.setting \/ p.due
  <2> HIDE DEF p, off, due
  <2>3. p \in Records /\ off \in BOOLEAN /\ due \in BOOLEAN
    BY <2>2 DEF p, off, due
  <2>4. Decided = [p EXCEPT !.local = Top, !.known = TRUE, !.rollback = NoLevel,
                   !.debt = NoProcess, !.pending = "none", !.confirmed = off, !.due = due]
    BY <2>1 DEF off, due
  <2>5. Decided \in Records
    BY <2>2, <2>3, <2>4 DEF Records
  <2>6. /\ Decided.process = p.process /\ Decided.report = p.report
        /\ (Decided.setting <=> p.setting) /\ Decided.seen = p.seen
        /\ Decided.ask = p.ask /\ Decided.closed = p.closed
        /\ Decided.pending = "none" /\ Decided.debt = NoProcess
        /\ (Decided.confirmed <=> off)
    BY <2>3, <2>4 DEF Records
  <2> QED
    BY <2>5, <2>6 DEF off
<1>3. ASSUME j.status = "done", p.pending # "none", ~settles
      PROVE  /\ Decided \in Records
             /\ Decided.process = p.process /\ Decided.report = p.report
             /\ (Decided.setting <=> p.setting) /\ Decided.seen = p.seen
             /\ Decided.ask = p.ask /\ Decided.closed = p.closed
             /\ Decided.pending = "none" /\ Decided.debt = p.debt /\ Decided.local = p.local
             /\ (Decided.known <=> p.known)
             /\ Decided.confirmed <=> proof
  <2>1. Decided = [p EXCEPT !.confirmed = proof, !.pending = "none"]
    BY <1>3 DEF Decided, ModePolled
  <2>2. proof \in BOOLEAN
    OBVIOUS
  <2> HIDE DEF p, proof
  <2>3. p \in Records
    BY DEF p
  <2>4. Decided \in Records
    BY <2>1, <2>2, <2>3 DEF Records
  <2> QED
    BY <2>1, <2>2, <2>3, <2>4 DEF Records
<1>4. CASE j.status = "done" /\ p.pending # "none" /\ settles
  BY <1>2, <1>4
<1>5. CASE j.status = "done" /\ p.pending # "none" /\ ~settles
  BY <1>3, <1>5
<1> QED
  BY <1>1, <1>4, <1>5

(* What a tick decides about the mode: a disable that KF2 confirmed strikes  *)
(* the debt off, and what is confirmed was confirmed in this world.         *)
Settles ==
    /\ job["mode"].status = "done" /\ job["mode"].op = "disable"
    /\ job["mode"].answer = "applied" /\ app.seen = <<app.process, app.report>>

LEMMA DecisionIs ==
  ASSUME ChannelInv
  PROVE  LET d == Decided
             j == job["mode"] IN
         /\ d \in Records /\ d.process = app.process /\ d.report = app.report
         /\ (d.setting <=> app.setting) /\ d.closed = app.closed
         /\ Sends => /\ d.seen = <<app.process, app.report>> /\ app.report # NoWorld
                     /\ ~d.confirmed /\ d.pending = Desired(Boundary) /\ j.status = "free"
         /\ ~Sends => /\ d.seen = app.seen
                      /\ d.pending \in {"none", app.pending}
         /\ d.debt \in {app.debt, app.process} \/ (d.debt = NoProcess /\ Settles)
         /\ d.confirmed => app.seen = <<app.process, app.report>>
         /\ d.confirmed => \/ app.confirmed /\ d.debt = app.debt /\ j.status # "done"
                           \/ Settles
                           \/ j.status = "done" /\ app.pending = "enable"
         /\ job["quality"].status = "done" => d.ask = NoAsk
         /\ job["quality"].status # "done" => d.ask = app.ask
<1> DEFINE d == Decided
           j == job["mode"]
<1>1. /\ app \in Records /\ job \in Jobs /\ Asking /\ Waiting
      /\ app.ask # NoAsk => app.ask.from \in Level /\ app.ask.to \in Level
  BY DEF ChannelInv, Shape, Asking
<1>2. /\ Boundary \in Records
      /\ Boundary.seen = app.seen /\ Boundary.ask = app.ask
      /\ \/ Boundary = app /\ app.seen = <<app.process, app.report>>
         \/ /\ ~Boundary.confirmed /\ Boundary.pending = "none"
            /\ Boundary.debt \in {app.debt, app.process}
  BY <1>1, BoundaryIs
<1>3. /\ SentNow.process = app.process /\ SentNow.report = app.report
      /\ (SentNow.setting <=> app.setting) /\ SentNow.closed = app.closed
      /\ SentNow.ask = app.ask /\ SentNow.debt = Boundary.debt
      /\ Sends => /\ SentNow.seen = <<app.process, app.report>> /\ ~SentNow.confirmed
                  /\ SentNow.pending = Desired(Boundary)
      /\ ~Sends => SentNow = Boundary
  BY <1>1, SentIs
<1>4. /\ Polled \in Records
      /\ Polled.process = SentNow.process /\ Polled.report = SentNow.report
      /\ (Polled.setting <=> SentNow.setting) /\ Polled.seen = SentNow.seen
      /\ (Polled.confirmed <=> SentNow.confirmed) /\ Polled.pending = SentNow.pending
      /\ Polled.debt = SentNow.debt /\ Polled.closed = SentNow.closed
      /\ job["quality"].status # "done" => Polled = SentNow
      /\ job["quality"].status = "done" => Polled.ask = NoAsk
  BY <1>1, PolledIs
<1>5. /\ d \in Records
      /\ d.process = Polled.process /\ d.report = Polled.report
      /\ (d.setting <=> Polled.setting) /\ d.seen = Polled.seen
      /\ d.ask = Polled.ask /\ d.closed = Polled.closed
      /\ \/ d = Polled /\ (j.status = "done" => Polled.pending = "none")
         \/ /\ j.status = "done" /\ Polled.pending # "none" /\ d.pending = "none"
            /\ j.answer = "applied" /\ j.op = "disable" /\ Polled.pending = "disable"
            /\ d.debt = NoProcess
         \/ /\ j.status = "done" /\ Polled.pending # "none" /\ d.pending = "none"
            /\ d.debt = Polled.debt
            /\ d.confirmed <=> j.answer = "applied" /\ j.op = Polled.pending
  BY <1>1, <1>4, DecidedIs
<1>6. Sends => j.status = "free" /\ app.report # NoWorld
  <2>1. Sends => j.status = "free" /\ Boundary.report # NoWorld
    BY DEF Sends, SendsMode
  <2> QED
    BY <1>1, <2>1, BoundaryIs
<1> HIDE DEF d, j
<1>7. CASE Sends
  <2>1. d = Polled
    BY <1>5, <1>6, <1>7
  <2> QED
    BY <1>2, <1>3, <1>4, <1>5, <1>6, <1>7, <2>1 DEF d, j
<1>8. CASE ~Sends
  <2>1. /\ Polled.seen = app.seen /\ (Polled.confirmed <=> Boundary.confirmed)
        /\ Polled.pending = Boundary.pending /\ Polled.debt = Boundary.debt
    BY <1>2, <1>3, <1>4, <1>8
  <2>2. /\ d.process = app.process /\ d.report = app.report
        /\ (d.setting <=> app.setting) /\ d.closed = app.closed /\ d.seen = app.seen
        /\ job["quality"].status = "done" => d.ask = NoAsk
        /\ job["quality"].status # "done" => d.ask = app.ask
    BY <1>3, <1>4, <1>5, <2>1
  <2>3. CASE Boundary = app /\ app.seen = <<app.process, app.report>>
    <3>1. CASE d = Polled /\ (j.status = "done" => Polled.pending = "none")
      <4>1. d.confirmed => j.status # "done"
        BY <1>1, <2>1, <2>3, <3>1 DEF Waiting, j
      <4> QED
        BY <1>5, <1>8, <2>1, <2>2, <2>3, <3>1, <4>1 DEF d, j
    <3>2. CASE /\ j.status = "done" /\ Polled.pending # "none" /\ d.pending = "none"
               /\ j.answer = "applied" /\ j.op = "disable" /\ Polled.pending = "disable"
               /\ d.debt = NoProcess
      BY <1>5, <1>8, <2>1, <2>2, <2>3, <3>2 DEF d, j, Settles
    <3>3. CASE /\ j.status = "done" /\ Polled.pending # "none" /\ d.pending = "none"
               /\ d.debt = Polled.debt
               /\ d.confirmed <=> j.answer = "applied" /\ j.op = Polled.pending
      <4>1. app.pending \in {"none", "enable", "disable"}
        BY <1>1 DEF Records
      <4>2. d.confirmed => Settles \/ app.pending = "enable"
        BY <2>1, <2>3, <3>3, <4>1 DEF Settles, j
      <4> QED
        BY <1>5, <1>8, <2>1, <2>2, <2>3, <3>3, <4>2 DEF d, j
    <3> QED
      BY <1>5, <3>1, <3>2, <3>3
  <2>4. CASE /\ ~Boundary.confirmed /\ Boundary.pending = "none"
             /\ Boundary.debt \in {app.debt, app.process}
    <3>1. d = Polled
      BY <1>5, <2>1, <2>4
    <3> QED
      BY <1>5, <1>8, <2>1, <2>2, <2>4, <3>1 DEF d, j
  <2> QED
    BY <1>2, <2>3, <2>4
<1> QED
  BY <1>7, <1>8

(* The debt of the running game is only struck off when the game is quiet.   *)
LEMMA StrikingOffIsQuiet ==
  ASSUME ChannelInv, app.process # NoProcess, Owed, Decided.debt # kf2.process
  PROVE  Quiet
<1>1. Binding /\ Untouched /\ Proved
  BY DEF ChannelInv
<1>2. CASE app.process # kf2.process
  BY <1>1, <1>2 DEF Untouched, Owner
<1>3. CASE app.process = kf2.process
  <2>1. Settles
    BY <1>3, DecisionIs DEF Owed
  <2>2. app.seen[1] = app.process
    BY <2>1 DEF Settles
  <2> QED
    BY <1>1, <1>3, <2>1, <2>2 DEF Proved, Settles, Off
<1> QED
  BY <1>2, <1>3

(* A reduction still has its owner after a tick, the answer that is taken    *)
(* notwithstanding.                                                         *)
LEMMA DecisionOwns ==
  ASSUME ChannelInv, app.process # NoProcess, app.closed = "open",
         ~unseen, ~Missed, Decided.debt # kf2.process
  PROVE  LET d == Decided IN
         /\ kf2.before = NoLevel /\ kf2.quality < Top => d.local < Top
         /\ kf2.before # NoLevel /\ kf2.before < Top => d.local < Top
         /\ kf2.before = Top /\ kf2.quality < Top => d.local < Top \/ ~d.known
<1> DEFINE d == Decided
<1>1. /\ app \in Records /\ job \in Jobs /\ kf2 \in Game
      /\ Numbering /\ Binding /\ Asking /\ Untouched /\ Applied /\ Owned
      /\ app.ask # NoAsk => app.ask.from \in Level /\ app.ask.to \in Level
  BY DEF ChannelInv, Shape, Asking
<1>2. Top \in Nat /\ NoLevel # Top
  BY AdaptiveControlAssumption DEF NoLevel
<1>3. CASE Quiet
  BY <1>2, <1>3 DEF Quiet
<1>4. CASE ~Quiet
  <2>1. app.process = kf2.process /\ ~Owed
    BY <1>1, <1>4, StrikingOffIsQuiet DEF Untouched, Owner
  <2>2. app.debt = NoProcess
    BY <1>1, <2>1 DEF Binding, Owed
  <2>3. /\ kf2.before = NoLevel /\ kf2.quality < Top =>
              app.local < Top \/ (Answer("applied") /\ app.ask # NoAsk)
        /\ kf2.before # NoLevel /\ kf2.before < Top => app.local < Top
        /\ kf2.before = Top /\ kf2.quality < Top =>
              \/ app.local < Top \/ ~app.known
              \/ Answer("unknown") /\ app.ask # NoAsk
    BY <1>1, <2>1 DEF Owned
  <2>4. Boundary.debt = NoProcess
    <3>1. CASE Boundary.debt = app.process /\ ~Boundary.confirmed /\ Boundary.pending = "none"
      <4>1. Polled.debt = app.process /\ (Polled.pending = "none" \/ Sends)
        BY <1>1, <3>1, SentIs, PolledIs
      <4>2. Sends => job["mode"].status # "done"
        BY DecisionIs
      <4>3. Polled \in Records
        BY <1>1, PolledIs
      <4>4. Decided.debt = Polled.debt
        BY <1>1, <4>1, <4>2, <4>3, DecidedIs
      <4> QED
        BY <2>1, <4>1, <4>4
    <3> QED
      BY <1>1, <2>2, <3>1, BoundaryIs
  <2>5. d.local = Polled.local /\ (d.known <=> Polled.known)
    <3>1. Polled.debt = NoProcess /\ Polled \in Records
      BY <1>1, <2>4, SentIs, PolledIs
    <3> QED
      BY <1>1, <3>1, DecidedIs
  <2> HIDE DEF d
  <2>6. CASE job["quality"].status # "done" \/ app.ask = NoAsk
    <3>1. Polled = SentNow
      BY <1>1, <2>6, PolledIs
    <3>2. SentNow.local = app.local /\ (SentNow.known <=> app.known)
      BY <1>1, SentIs
    <3> QED
      BY <2>3, <2>5, <2>6, <3>1, <3>2 DEF Answer, d
  <2>7. CASE job["quality"].status = "done" /\ app.ask # NoAsk
    <3> DEFINE accepted == app.ask.current /\ app.slot
               answer == job["quality"].answer
    <3>1. /\ answer = "applied" /\ accepted => Polled.local = app.ask.to
          /\ ~(answer = "applied" /\ accepted) => Polled.local = app.local
          /\ answer = "unknown" => ~Polled.known
          /\ answer \notin {"applied", "restored", "unknown"} => (Polled.known <=> app.known)
      BY <1>1, <2>7, PolledIs
    <3>2. /\ answer = "applied" => kf2.before = NoLevel /\ (kf2.quality < Top =>
                   kf2.quality = app.ask.to)
          /\ answer = "restored" /\ kf2.before = Top => kf2.quality = Top
      BY <1>1, <2>7 DEF Applied, Answer
    <3>3. answer = "applied" /\ kf2.quality < Top => accepted
      BY <2>7 DEF Missed
    <3>4. \A x \in {"applied", "unknown"} : Answer(x) => answer = x
      BY DEF Answer
    <3> HIDE DEF accepted, answer
    <3>5. kf2.before = NoLevel /\ kf2.quality < Top => d.local < Top
      BY <2>3, <2>5, <3>1, <3>2, <3>3, <3>4
    <3>6. kf2.before # NoLevel /\ kf2.before < Top => d.local < Top
      BY <2>3, <2>5, <3>1, <3>2
    <3>7. kf2.before = Top /\ kf2.quality < Top => d.local < Top \/ ~d.known
      BY <1>2, <2>3, <2>5, <3>1, <3>2, <3>4
    <3> QED
      BY <3>5, <3>6, <3>7 DEF d
  <2> QED
    BY <2>6, <2>7
<1> QED
  BY <1>3, <1>4

(* A tick as the stages tell it.                                            *)
LEMMA TickIs ==
  ASSUME ChannelInv, Tick
  PROVE  /\ app.process # NoProcess /\ app.closed = "open"
         /\ \/ /\ app' = Decided /\ job' = LeftJobs
               /\ wire' = wire \o (IF Sends THEN <<ModeCommand>> ELSE <<>>)
            \/ /\ MayDispatch(Decided, LeftJobs)
               /\ \E to \in Decisions(Decided) :
                     /\ app' = [Decided EXCEPT !.slot = TRUE,
                           !.ask = [from |-> Decided.local, to |-> to, current |-> TRUE]]
                     /\ job' = [LeftJobs EXCEPT !["quality"] = Busy("quality")]
                     /\ wire' = Append(wire, Command("quality", "quality", to, app.report))
         /\ unseen' = (unseen \/ Missed)
         /\ UNCHANGED <<kf2, bound>>
  BY Zenon DEF Tick, Boundary, Sends, SentNow, Polled, Decided, ModeCommand, LeftJobs,
       Missed

LEMMA LeftJobsAre ==
  ASSUME ChannelInv
  PROVE  /\ LeftJobs \in Jobs
         /\ LeftJobs["mode"].status # "done" /\ LeftJobs["quality"].status # "done"
         /\ \A w \in Workers : job[w].status = "busy" => LeftJobs[w] = job[w]
         /\ job["quality"].status # "done" => LeftJobs["quality"] = job["quality"]
         /\ ~Sends /\ LeftJobs["mode"].status # "free" => job["mode"].status = "busy"
         /\ Sends => LeftJobs["mode"].status = "busy" /\ LeftJobs["mode"].op = ModeCommand.op
<1>1. /\ job \in Jobs /\ "mode" \in Workers /\ "quality" \in Workers
  BY DEF ChannelInv, Shape, Workers
<1>2. Sends => job["mode"].status = "free"
  BY DEF Sends, SendsMode
<1>3. ModeCommand.op \in {"enable", "disable"}
  BY DEF ModeCommand, Command, Desired, Mode
<1>4. /\ Free \in [status : {"free", "busy", "done"}, op : Ops \cup {"none"},
                   answer : Answers \cup {"none"}]
      /\ Free.status = "free"
      /\ Busy(ModeCommand.op) \in [status : {"free", "busy", "done"}, op : Ops \cup {"none"},
                                   answer : Answers \cup {"none"}]
      /\ Busy(ModeCommand.op).status = "busy" /\ Busy(ModeCommand.op).op = ModeCommand.op
  BY <1>3 DEF Free, Busy, Ops
<1>5. \A w \in Workers : /\ job[w] \in [status : {"free", "busy", "done"}, op : Ops \cup {"none"},
                                        answer : Answers \cup {"none"}]
                         /\ job[w].status \in {"free", "busy", "done"}
  BY <1>1 DEF Jobs
<1> DEFINE left(w) == IF job[w].status = "done" THEN Free
                      ELSE IF w = "mode" /\ Sends THEN Busy(ModeCommand.op) ELSE job[w]
<1>6. LeftJobs = [w \in Workers |-> left(w)]
  BY DEF LeftJobs
<1>7. \A w \in Workers : left(w) \in [status : {"free", "busy", "done"}, op : Ops \cup {"none"},
                                      answer : Answers \cup {"none"}]
  BY <1>4, <1>5
<1>8. \A w \in Workers : LeftJobs[w] = left(w)
  BY <1>6
<1>9. LeftJobs \in Jobs
  <2> HIDE DEF left
  <2> QED
    BY <1>6, <1>7 DEF Jobs
<1> HIDE DEF LeftJobs
<1>10. LeftJobs["mode"] = left("mode") /\ LeftJobs["quality"] = left("quality")
  BY <1>1, <1>8
<1>11. /\ \A w \in Workers : job[w].status = "busy" => LeftJobs[w] = job[w]
       /\ job["quality"].status # "done" => LeftJobs["quality"] = job["quality"]
  BY <1>1, <1>2, <1>8
<1>12. /\ LeftJobs["mode"].status # "done" /\ LeftJobs["quality"].status # "done"
       /\ ~Sends /\ LeftJobs["mode"].status # "free" => job["mode"].status = "busy"
       /\ Sends => LeftJobs["mode"].status = "busy" /\ LeftJobs["mode"].op = ModeCommand.op
  BY <1>1, <1>2, <1>4, <1>5, <1>10
<1> QED
  BY <1>9, <1>11, <1>12

(* What a tick owes whether it asks for a quality or not.                   *)
LEMMA DecisionKeepsNumbers ==
  ASSUME ChannelInv, app.process # NoProcess, UNCHANGED <<kf2, bound>>,
         app'.process = Decided.process, app'.report = Decided.report,
         app'.seen = Decided.seen, app'.debt = Decided.debt,
         \A i \in DOMAIN wire' : wire'[i].world <= bound.worlds
  PROVE  Numbering' /\ Binding'
<1>1. Shape /\ Numbering /\ Binding /\ bound \in Bounds
  BY DEF ChannelInv, Shape
<1>2. /\ app'.process = app.process /\ app'.report = app.report
      /\ app'.debt \in {app.debt, app.process, NoProcess}
      /\ \/ app'.seen[1] = app.seen[1] /\ app'.seen[2] = app.seen[2]
         \/ app'.seen[1] = app.process /\ app'.seen[2] = app.report /\ app.report # NoWorld
  BY DecisionIs
<1>3. NoProcess <= bound.processes
  BY <1>1 DEF Bounds, NoProcess
<1>4. Numbering'
  BY <1>1, <1>2, <1>3 DEF Numbering
<1>5. Binding'
  BY <1>1, <1>2 DEF Binding
<1> QED
  BY <1>4, <1>5

LEMMA ReportedElsewhere ==
  ASSUME ChannelInv, app.process # kf2.process, app.report # NoWorld
  PROVE  app.report # kf2.world
  BY DEF ChannelInv, Numbering

(* A tick that asks for no quality.                                         *)
LEMMA WatchingKeeps ==
  ASSUME ChannelInv, app.process # NoProcess, app.closed = "open",
         app' = Decided, job' = LeftJobs,
         wire' = wire \o (IF Sends THEN <<ModeCommand>> ELSE <<>>),
         unseen' = (unseen \/ Missed), UNCHANGED <<kf2, bound>>
  PROVE  ChannelInv'
<1> DEFINE m == ModeCommand
<1>1. /\ kf2 \in Game /\ wire \in Seq(Messages) /\ app \in Records /\ bound \in Bounds
      /\ job \in Jobs /\ unseen \in BOOLEAN
      /\ Shape /\ Numbering /\ Binding /\ Waiting /\ Asking /\ Proved
      /\ Untouched /\ Applied /\ Requested /\ Owned
  BY DEF ChannelInv, Shape
<1>2. /\ app' \in Records /\ app'.process = app.process /\ app'.report = app.report
      /\ (app'.setting <=> app.setting) /\ app'.closed = "open"
      /\ Sends => /\ app'.seen = <<app.process, app.report>> /\ app.report # NoWorld
                  /\ ~app'.confirmed /\ app'.pending = Desired(Boundary)
                  /\ job["mode"].status = "free"
      /\ ~Sends => /\ app'.seen = app.seen
                   /\ app'.pending \in {"none", app.pending}
      /\ app'.confirmed => app.seen = <<app.process, app.report>>
      /\ app'.confirmed => \/ app.confirmed /\ app'.debt = app.debt /\ job["mode"].status # "done"
                           \/ Settles
                           \/ job["mode"].status = "done" /\ app.pending = "enable"
      /\ job["quality"].status = "done" => app'.ask = NoAsk
      /\ job["quality"].status # "done" => app'.ask = app.ask
  BY DecisionIs
<1>3. /\ job' \in Jobs /\ job'["mode"].status # "done" /\ job'["quality"].status # "done"
      /\ \A w \in Workers : job[w].status = "busy" => job'[w] = job[w]
      /\ job["quality"].status # "done" => job'["quality"] = job["quality"]
      /\ ~Sends /\ job'["mode"].status # "free" => job["mode"].status = "busy"
      /\ Sends => job'["mode"].status = "busy" /\ job'["mode"].op = m.op
  BY LeftJobsAre
<1>4. /\ m.from = "mode" /\ m.op \in {"enable", "disable"} /\ m.world = app.report
      /\ m.op = Desired(Boundary)
      /\ Sends => m \in Messages
  <2>1. m.from = "mode" /\ m.op = Desired(Boundary) /\ m.to = NoLevel
           /\ m.world = app.report /\ ~m.stale
    BY DEF ModeCommand, Command
  <2>2. Desired(Boundary) \in {"enable", "disable"}
    BY DEF Desired, Mode
  <2>3. Sends => app.report \in 1 .. MaxWorlds
    BY <1>1, <1>2, AdaptiveControlAssumption DEF Records, NoWorld
  <2>4. Sends => m \in Messages
    BY <2>2, <2>3 DEF ModeCommand, Command, Messages, Workers, Ops
  <2> QED
    BY <2>1, <2>2, <2>4
<1> HIDE DEF m
<1>5. wire' = IF Sends THEN Append(wire, m) ELSE wire
  BY <1>1 DEF m
<1>6. /\ wire' \in Seq(Messages)
      /\ \A a \in DOMAIN wire' : \/ a \in DOMAIN wire /\ wire'[a] = wire[a]
                                 \/ Sends /\ a = Len(wire) + 1 /\ wire'[a] = m
  <2>1. CASE Sends
    <3>1. /\ Append(wire, m) \in Seq(Messages) /\ DOMAIN Append(wire, m) = 1 .. Len(wire) + 1
          /\ \A a \in 1 .. Len(wire) : Append(wire, m)[a] = wire[a]
          /\ Append(wire, m)[Len(wire) + 1] = m /\ DOMAIN wire = 1 .. Len(wire) /\ Len(wire) \in Nat
      BY <1>1, <1>4, <2>1
    <3>2. wire' = Append(wire, m)
      BY <1>5, <2>1
    <3> QED
      BY <2>1, <3>1, <3>2
  <2>2. CASE ~Sends
    BY <1>1, <1>5, <2>2
  <2> QED
    BY <2>1, <2>2
<1>7. DOMAIN wire = 1 .. Len(wire) /\ Len(wire) \in Nat
  BY <1>1
<1>8. unseen' \in BOOLEAN
  BY <1>1 DEF Missed
<1>9. Shape'
  BY <1>1, <1>2, <1>3, <1>6, <1>8 DEF Shape
<1>10. Numbering' /\ Binding'
  <2>1. \A i \in DOMAIN wire' : wire'[i].world <= bound.worlds
    BY <1>1, <1>4, <1>6 DEF Numbering
  <2> QED
    BY <2>1, DecisionKeepsNumbers
<1>11. "mode" \in Workers /\ "quality" \in Workers /\ "none" \notin Workers
  BY DEF Workers
<1>12. \A a \in DOMAIN wire : wire[a].from \in Workers \cup {"none"}
  BY <1>1, WireWorlds
<1>13. Waiting'
  <2>1. \A a \in DOMAIN wire' :
          /\ wire'[a].from # "none" =>
                job'[wire'[a].from].status = "busy" /\ job'[wire'[a].from].op = wire'[a].op
          /\ wire'[a].from = "quality" => wire'[a].op = "quality"
          /\ wire'[a].from = "mode" => wire'[a].op # "quality"
    <3>1. \A a \in DOMAIN wire :
            /\ wire[a].from # "none" =>
                  job'[wire[a].from].status = "busy" /\ job'[wire[a].from].op = wire[a].op
            /\ wire[a].from = "quality" => wire[a].op = "quality"
            /\ wire[a].from = "mode" => wire[a].op # "quality"
      BY <1>1, <1>3, <1>12 DEF Waiting
    <3> QED
      BY <1>3, <1>4, <1>6, <3>1
  <2>2. ASSUME NEW a \in DOMAIN wire', NEW b \in DOMAIN wire', a < b
        PROVE  /\ wire'[a].from = "mode" => wire'[b].op = "disable"
               /\ wire'[a].from = "quality" => wire'[b].op # "quality"
               /\ wire'[a].from = wire'[b].from => wire'[a].from = "none"
    <3>1. a \in DOMAIN wire /\ wire'[a] = wire[a]
      BY <1>6, <1>7, <2>2
    <3>2. CASE b \in DOMAIN wire /\ wire'[b] = wire[b]
      BY <1>1, <2>2, <3>1, <3>2 DEF Waiting
    <3>3. CASE Sends /\ wire'[b] = m
      <4>1. wire[a].from # "mode"
        BY <1>1, <1>2, <3>1, <3>3 DEF Waiting
      <4> QED
        BY <1>4, <3>1, <3>3, <4>1
    <3> QED
      BY <1>6, <3>2, <3>3
  <2>3. job'["mode"].status # "free" => ~app'.confirmed
    <3>1. CASE Sends
      BY <1>2, <3>1
    <3>2. CASE ~Sends /\ job'["mode"].status # "free"
      <4>1. job["mode"].status = "busy" /\ ~app.confirmed
        BY <1>1, <1>3, <3>2 DEF Waiting
      <4> QED
        BY <1>2, <4>1 DEF Settles
    <3> QED
      BY <3>1, <3>2
  <2>4. \A a \in DOMAIN wire' :
          wire'[a].from = "mode" /\ app'.seen[2] # NoWorld => wire'[a].world = app'.seen[2]
    <3>1. CASE Sends
      <4>1. \A a \in DOMAIN wire : wire[a].from # "mode"
        BY <1>1, <1>2, <3>1 DEF Waiting
      <4>2. app'.seen[2] = app.report
        BY <1>2, <3>1
      <4> QED
        BY <1>4, <1>6, <4>1, <4>2
    <3>2. CASE ~Sends
      BY <1>1, <1>2, <1>6, <3>2 DEF Waiting
    <3> QED
      BY <3>1, <3>2
  <2> QED
    BY <2>1, <2>2, <2>3, <2>4 DEF Waiting
<1>14. Asking'
  <2>1. \A a \in DOMAIN wire' :
          /\ wire'[a].op = "quality" \/ wire'[a].from = "quality" =>
                   a \in DOMAIN wire /\ wire'[a] = wire[a]
    BY <1>4, <1>6
  <2>2. \A a \in DOMAIN wire' : wire'[a].op = "quality" => wire'[a].to \in Level
    BY <1>1, <2>1 DEF Asking
  <2>3. CASE job["quality"].status = "done"
    BY <1>2, <2>2, <2>3 DEF Asking
  <2>4. CASE job["quality"].status # "done"
    BY <1>1, <1>2, <1>3, <2>1, <2>2, <2>4 DEF Asking
  <2> QED
    BY <2>3, <2>4
<1>15. Proved'
  <2>1. app'.pending = "enable" /\ ~app'.setting =>
          app'.seen[1] # kf2'.process \/ kf2'.process = NoProcess
    <3>1. CASE Sends
      <4>1. app'.pending = Mode(Boundary.debt = NoProcess /\ Boundary.setting)
        BY <1>2, <3>1 DEF Desired
      <4>2. ~app'.setting => app'.pending = "disable"
        BY <1>1, <1>2, <4>1, BoundaryIs DEF Mode
      <4> QED
        BY <4>2
    <3>2. CASE ~Sends
      BY <1>1, <1>2, <3>2 DEF Proved
    <3> QED
      BY <3>1, <3>2
  <2>2. ASSUME app'.confirmed, ~app'.setting, app'.debt = NoProcess,
               app'.seen[1] = kf2'.process, kf2'.process # NoProcess
        PROVE  Off'
    <3>1. ~Sends /\ wire' = wire /\ app'.seen = app.seen
      BY <1>2, <1>5, <2>2
    <3>2. Settles => Off
      BY <1>1, <2>2, <3>1 DEF Proved, Settles
    <3>3. Off
      BY <1>1, <1>2, <2>2, <3>1, <3>2 DEF Proved
    <3> QED
      BY <3>1, <3>3 DEF Off, Quiet
  <2> QED
    BY <1>2, <1>3, <2>1, <2>2 DEF Proved
<1>16. Untouched'
  <2>1. ASSUME app.process # kf2.process PROVE Quiet'
    <3>1. Quiet
      BY <1>1, <2>1 DEF Untouched, Owner
    <3>2. Sends => m.world # kf2.world
      BY <1>2, <1>4, <2>1, ReportedElsewhere
    <3> QED
      BY <1>6, <3>1, <3>2 DEF Quiet
  <2> QED
    BY <1>2, <2>1 DEF Untouched, Owner
<1>17. Applied'
  BY <1>3 DEF Applied, Answer
<1>18. \A a \in DOMAIN wire' : Fresh(a)' => a \in DOMAIN wire /\ Fresh(a) /\ wire'[a] = wire[a]
  BY <1>4, <1>6 DEF Fresh
<1>19. Owed /\ app'.debt # kf2.process => Quiet
  BY StrikingOffIsQuiet
<1>20. Requested'
  <2> SUFFICES ASSUME app'.ask = NoAsk, app'.debt # kf2.process, NEW a \in DOMAIN wire', Fresh(a)',
                      wire'[a].from = "quality"
               PROVE  FALSE
    BY DEF Requested, Owed
  <2>1. a \in DOMAIN wire /\ Fresh(a) /\ wire[a].from = "quality"
    BY <1>18
  <2>2. ~Quiet
    BY <2>1 DEF Quiet, Fresh
  <2>3. ~Owed
    BY <1>19, <2>2
  <2>4. job["quality"].status = "busy"
    BY <1>1, <2>1 DEF Waiting
  <2> QED
    BY <1>1, <1>2, <2>1, <2>3, <2>4 DEF Requested
<1>21. Owned'
  <2> SUFFICES ASSUME ~unseen', app'.debt # kf2.process
               PROVE  /\ kf2.before = NoLevel /\ kf2.quality < Top => app'.local < Top
                      /\ kf2.before # NoLevel /\ kf2.before < Top => app'.local < Top
                      /\ kf2.before = Top /\ kf2.quality < Top => app'.local < Top \/ ~app'.known
    BY DEF Owned, Owed
  <2> QED
    BY DecisionOwns
<1> QED
  BY <1>9, <1>10, <1>13, <1>14, <1>15, <1>16, <1>17, <1>20, <1>21 DEF ChannelInv

(* A tick whose decision becomes a command: the mode is confirmed, so none   *)
(* waits, and no other quality is under way.                                *)
LEMMA DispatchKeeps ==
  ASSUME ChannelInv, app.process # NoProcess, app.closed = "open",
         MayDispatch(Decided, LeftJobs), NEW to \in Decisions(Decided),
         app' = [Decided EXCEPT !.slot = TRUE,
                   !.ask = [from |-> Decided.local, to |-> to, current |-> TRUE]],
         job' = [LeftJobs EXCEPT !["quality"] = Busy("quality")],
         wire' = Append(wire, Command("quality", "quality", to, app.report)),
         unseen' = (unseen \/ Missed), UNCHANGED <<kf2, bound>>
  PROVE  ChannelInv'
<1> DEFINE q == Command("quality", "quality", to, app.report)
           d == Decided
           ask == [from |-> d.local, to |-> to, current |-> TRUE]
<1>1. /\ kf2 \in Game /\ wire \in Seq(Messages) /\ app \in Records /\ bound \in Bounds
      /\ job \in Jobs /\ unseen \in BOOLEAN
      /\ Shape /\ Numbering /\ Binding /\ Waiting /\ Asking /\ Proved
      /\ Untouched /\ Applied /\ Requested /\ Owned
  BY DEF ChannelInv, Shape
<1>2. d.confirmed /\ d.setting /\ d.report # NoWorld /\ LeftJobs["quality"].status = "free"
  BY DEF MayDispatch
<1>3. /\ d \in Records /\ d.process = app.process /\ d.report = app.report
      /\ (d.setting <=> app.setting) /\ d.closed = app.closed /\ d.seen = app.seen /\ ~Sends
      /\ job["quality"].status # "done" => d.ask = app.ask
      /\ app.confirmed \/ job["mode"].status = "done"
  BY <1>2, DecisionIs DEF Settles
<1>4. /\ LeftJobs \in Jobs /\ LeftJobs["mode"].status # "done"
      /\ \A w \in Workers : job[w].status = "busy" => LeftJobs[w] = job[w]
      /\ LeftJobs["mode"].status # "free" => job["mode"].status = "busy"
  BY <1>3, LeftJobsAre
<1>5. /\ "mode" \in Workers /\ "quality" \in Workers /\ "none" \notin Workers
      /\ \A a \in DOMAIN wire : wire[a].from \in Workers \cup {"none"}
  BY <1>1, WireWorlds DEF Workers
<1>6. job["mode"].status \in {"free", "busy", "done"}
         /\ job["quality"].status \in {"free", "busy", "done"}
  BY <1>1, <1>5 DEF Jobs
<1>7. job["mode"].status # "busy" /\ job["quality"].status # "busy"
  BY <1>1, <1>2, <1>3, <1>4, <1>5 DEF Waiting
<1>8. \A a \in DOMAIN wire : wire[a].from = "none"
  BY <1>1, <1>5, <1>7 DEF Waiting, Workers
<1> HIDE DEF d
<1>9. to \in Level /\ d.local \in Level
  BY <1>3 DEF Decisions, Records, d
<1>10. NoLevel \notin Level /\ NoAsk.to = NoLevel
  BY DEF NoLevel, Level, NoAsk
<1>11. /\ ask \in Asks /\ ask # NoAsk /\ ask.from \in Level /\ ask.to = to
  BY <1>9, <1>10 DEF Asks
<1>12. /\ q.from = "quality" /\ q.op = "quality" /\ q.to = to /\ q.world = app.report
       /\ q \in Messages
  <2>1. app.report \in 1 .. MaxWorlds
    BY <1>1, <1>2, <1>3, AdaptiveControlAssumption DEF Records, NoWorld
  <2> QED
    BY <1>9, <2>1 DEF Command, Messages, Workers, Ops
<1> HIDE DEF q, ask
<1>13. app' = [d EXCEPT !.slot = TRUE, !.ask = ask] /\ wire' = Append(wire, q)
  BY DEF d, q, ask
<1>14. /\ app' \in Records /\ app'.process = app.process /\ app'.report = app.report
       /\ app'.seen = app.seen /\ app'.setting /\ app'.closed = "open" /\ app'.ask = ask
       /\ app'.local = d.local /\ (app'.known <=> d.known) /\ app'.debt = d.debt
  BY ZenonT(60), <1>2, <1>3, <1>11, <1>13 DEF Records, d
<1>15. /\ job' \in Jobs /\ job'["quality"].status = "busy" /\ job'["quality"].op = "quality"
       /\ job'["mode"] = LeftJobs["mode"]
  <2>1. /\ Busy("quality") \in [status : {"free", "busy", "done"}, op : Ops \cup {"none"},
                                answer : Answers \cup {"none"}]
        /\ Busy("quality").status = "busy" /\ Busy("quality").op = "quality"
    BY DEF Busy, Ops
  <2>2. "mode" # "quality"
    OBVIOUS
  <2> HIDE DEF LeftJobs
  <2> QED
    BY <1>4, <1>5, <2>1, <2>2 DEF Jobs
<1>16. /\ wire' \in Seq(Messages)
       /\ \A a \in DOMAIN wire' : \/ a \in DOMAIN wire /\ wire'[a] = wire[a]
                                  \/ a = Len(wire) + 1 /\ wire'[a] = q
       /\ DOMAIN wire = 1 .. Len(wire) /\ Len(wire) \in Nat
  <2>1. /\ Append(wire, q) \in Seq(Messages) /\ DOMAIN Append(wire, q) = 1 .. Len(wire) + 1
        /\ \A a \in 1 .. Len(wire) : Append(wire, q)[a] = wire[a]
        /\ Append(wire, q)[Len(wire) + 1] = q /\ DOMAIN wire = 1 .. Len(wire) /\ Len(wire) \in Nat
    BY <1>1, <1>12
  <2> QED
    BY <1>13, <2>1
<1>17. Shape'
  BY <1>1, <1>14, <1>15, <1>16 DEF Shape, Missed
<1>18. Numbering' /\ Binding'
  <2>1. \A i \in DOMAIN wire' : wire'[i].world <= bound.worlds
    BY <1>1, <1>12, <1>16 DEF Numbering
  <2>2. app'.process = d.process /\ app'.report = d.report /\ app'.seen = d.seen
    BY <1>3, <1>14 DEF d
  <2> QED
    BY <1>14, <2>1, <2>2, DecisionKeepsNumbers DEF d
<1>19. Waiting'
  <2>1. job'["mode"].status = "free"
    BY <1>4, <1>5, <1>6, <1>7, <1>15, <1>17 DEF Shape, Jobs
  <2>2. \A a \in DOMAIN wire' :
          /\ wire'[a].from # "none" =>
                job'[wire'[a].from].status = "busy" /\ job'[wire'[a].from].op = wire'[a].op
          /\ wire'[a].from = "quality" => wire'[a].op = "quality"
          /\ wire'[a].from # "mode"
    BY <1>8, <1>12, <1>15, <1>16
  <2>3. \A a, b \in DOMAIN wire' : a < b => wire'[a].from = "none"
    BY <1>8, <1>16
  <2> QED
    BY <2>1, <2>2, <2>3 DEF Waiting
<1>20. Asking'
  <2>1. \A a \in DOMAIN wire' : wire'[a].op = "quality" => wire'[a].to \in Level
    BY <1>1, <1>9, <1>12, <1>16 DEF Asking
  <2>2. \A a \in DOMAIN wire' : wire'[a].from = "quality" => wire'[a].to = to
    BY <1>8, <1>12, <1>16
  <2> QED
    BY <1>9, <1>11, <1>14, <1>15, <2>1, <2>2 DEF Asking
<1>21. Proved'
  BY <1>4, <1>14, <1>15 DEF Proved
<1>22. Untouched'
  <2>1. ASSUME app.process # kf2.process PROVE Quiet'
    <3>1. Quiet
      BY <1>1, <2>1 DEF Untouched, Owner
    <3>2. q.world # kf2.world
      BY <1>2, <1>3, <1>12, <2>1, ReportedElsewhere DEF d
    <3> QED
      BY <1>16, <3>1, <3>2 DEF Quiet
  <2> QED
    BY <1>14, <2>1 DEF Untouched, Owner
<1>23. Applied'
  BY <1>15 DEF Applied, Answer
<1>24. Requested'
  BY <1>11, <1>14 DEF Requested
<1>25. Owned'
  <2> SUFFICES ASSUME ~unseen', app'.debt # kf2.process
               PROVE  /\ kf2.before = NoLevel /\ kf2.quality < Top => app'.local < Top
                      /\ kf2.before # NoLevel /\ kf2.before < Top => app'.local < Top
                      /\ kf2.before = Top /\ kf2.quality < Top => app'.local < Top \/ ~app'.known
    BY DEF Owned, Owed
  <2> QED
    BY <1>14, DecisionOwns DEF d
<1> QED
  BY <1>17, <1>18, <1>19, <1>20, <1>21, <1>22, <1>23, <1>24, <1>25 DEF ChannelInv

LEMMA TickKeeps == ASSUME ChannelInv, Tick PROVE ChannelInv'
  BY TickIs, WatchingKeeps, DispatchKeeps

-----------------------------------------------------------------------------
LEMMA NextKeepsChannel == ASSUME ChannelInv, [Next]_vars PROVE ChannelInv'
<1>1. CASE Tick
  BY <1>1, TickKeeps
<1>2. CASE Observe \/ RetryDue \/ ChangePolicy
  BY <1>2, ObserveKeeps, RetryDueKeeps, ChangePolicyKeeps
<1>3. CASE Toggle
  BY <1>3, ToggleKeeps
<1>4. CASE Attach \/ Detach \/ Close
  BY <1>4, AttachKeeps, DetachKeeps, CloseKeeps
<1>5. CASE Serve
  BY <1>5, ServeKeeps
<1>6. CASE \E i \in DOMAIN wire : TimesOut(i)
  BY <1>6, TimesOutKeeps
<1>7. CASE GameStarts \/ GameExits \/ Travel \/ GameRetries
  BY <1>7, GameStartsKeeps, GameExitsKeeps, TravelKeeps, GameRetriesKeeps
<1>8. CASE UNCHANGED vars
  BY <1>8 DEF vars, ChannelInv, Shape, Numbering, Binding, Waiting, Asking, Proved,
     Untouched, Applied, Requested, Owned, Quiet, Off, Owner, Answer, Fresh, Owed
<1> QED
  BY <1>1, <1>2, <1>3, <1>4, <1>5, <1>6, <1>7, <1>8 DEF Next

LEMMA ChannelIsKept == Spec => []ChannelInv
<1>1. Init => ChannelInv
  BY InitChannel
<1>2. ChannelInv /\ [Next]_vars => ChannelInv'
  BY NextKeepsChannel
<1> QED
  BY <1>1, <1>2, PTL DEF Spec

LEMMA ChannelAccounts == ChannelInv => QualityIsAccounted
<1> SUFFICES ASSUME ChannelInv PROVE QualityIsAccounted
  OBVIOUS
<1>1. Shape /\ kf2 \in Game /\ Proved /\ Owned /\ app \in Records
  BY DEF ChannelInv, Shape
<1>2. Top \in Nat /\ NoLevel # Top /\ NoLevel < Top
  BY AdaptiveControlAssumption DEF NoLevel
<1>3. ReductionIsOwned
  <2> SUFFICES ASSUME kf2.quality < Top, app.closed = "open", ~unseen, ~Owed
               PROVE  app.local < Top \/ ~app.known \/ app.ask # NoAsk
    BY DEF ReductionIsOwned, Owed
  <2>1. kf2.before \in Level \cup {NoLevel}
    BY <1>1 DEF Game
  <2>2. kf2.before = NoLevel \/ (kf2.before # NoLevel /\ kf2.before < Top) \/ kf2.before = Top
    BY <1>2, <2>1 DEF Level
  <2> QED
    BY <1>1, <2>2 DEF Owned
<1>4. RestoredStays
  <2>1. app.closed = "restored" => kf2.quality = Top
    BY <1>1 DEF Proved, Quiet
  <2>2. ASSUME app.confirmed, ~app.setting, app.debt = NoProcess, app.closed = "open",
               app.process = kf2.process, app.seen = <<kf2.process, kf2.world>>,
               kf2.process # NoProcess
        PROVE  kf2.quality = Top /\ ~kf2.enabled
    <3>1. app.seen[1] = kf2.process
      BY <2>2
    <3>2. Off
      BY <1>1, <2>2, <3>1 DEF Proved
    <3> QED
      BY <3>2 DEF Off, Quiet
  <2> QED
    BY <2>1, <2>2 DEF RestoredStays
<1> QED
  BY <1>3, <1>4 DEF QualityIsAccounted

(* As long as the optimizer runs and no receipt of a change was lost, a      *)
(* reduced quality has an owner: the optimizer owes its restoration, shows   *)
(* it as its own, knows that it does not know, or waits for the receipt; and *)
(* once KF2 has confirmed that Adaptive is off, or the optimizer was closed  *)
(* with the game restored, the game stays at the user's quality              *)
(* (reconcile_adaptive_runtime_mode, poll_adaptive_quality_dispatcher,       *)
(* restore_live_adaptive_quality).                                          *)
THEOREM QualityStaysAccounted == Spec => []QualityIsAccounted
  BY ChannelIsKept, ChannelAccounts, PTL

(* Neither a late receipt nor the bookkeeping of a debt leaves the records    *)
(* of the two dispatchers, of the mode or of the game outside their types.    *)
THEOREM ChannelTyped == Spec => []TypeOK
<1>1. ChannelInv => TypeOK
  BY Typed DEF ChannelInv
<1> QED
  BY <1>1, ChannelIsKept, PTL

-----------------------------------------------------------------------------
(* The debt of the running game is only struck off when the game is home.   *)
Pays ==
    app.debt = kf2.process /\ app.debt # NoProcess /\ app'.debt # app.debt => kf2'.quality = Top

LEMMA TickPays == ASSUME ChannelInv, Tick PROVE Pays
<1>1. app.process # NoProcess /\ kf2' = kf2 /\ Decided \in Records
  BY TickIs, DecisionIs
<1>2. app'.debt = Decided.debt
  BY <1>1, TickIs DEF Records
<1>3. Owed /\ Decided.debt # kf2.process => Quiet
  BY <1>1, StrikingOffIsQuiet
<1> QED
  BY <1>1, <1>2, <1>3 DEF Pays, Owed, Quiet

LEMMA TogglePays == ASSUME ChannelInv, Toggle PROVE Pays
<1> SUFFICES ASSUME app.debt = kf2.process, kf2.process # NoProcess, app'.debt # app.debt
             PROVE  kf2'.quality = Top
  BY DEF Pays
<1> DEFINE enabled == ~app.setting
           a == Reserved(app, enabled)
<1>1. Shape /\ app \in Records /\ kf2 \in Game
  BY DEF ChannelInv, Shape
<1>2. enabled \in BOOLEAN /\ Mode(enabled) \in {"enable", "disable"}
      /\ (~enabled => Mode(enabled) = "disable")
  BY DEF Mode
<1>3. \/ app' = ModeDeferred(a, enabled)
      \/ /\ app.report # NoWorld
         /\ \E r \in Results(Mode(enabled)) :
               /\ Sent(r)
               /\ app' = (IF r.ok THEN ModeConfirmed(a, enabled)
                          ELSE ModeDeferred(a, enabled))
  BY DEF Toggle
<1> HIDE DEF enabled
<1>4. ModeDeferred(a, enabled).debt = app.debt
  BY <1>1, <1>2, DeferredIs
<1>5. PICK r \in Results(Mode(enabled)) :
         app.report # NoWorld /\ Sent(r) /\ r.ok /\ app' = ModeConfirmed(a, enabled)
  BY <1>3, <1>4
<1>6. ~enabled
  BY <1>1, <1>2, <1>5, ConfirmedIs
<1>7. Home(r.kf2)
  BY <1>1, <1>2, <1>5, <1>6, ResultIs
<1> QED
  BY <1>5, <1>7 DEF Sent, Home

LEMMA DetachPays == ASSUME ChannelInv, Detach PROVE Pays
<1> SUFFICES ASSUME app.debt = kf2.process, app.debt # NoProcess, app'.debt # app.debt
             PROVE  FALSE
  BY DEF Pays
<1>1. app \in Records /\ kf2 \in Game
  BY DEF ChannelInv, Shape
<1>2. app' = Detached(app)
  BY DEF Detach
<1> QED
  BY <1>1, <1>2, DetachedIs

LEMMA ClosePays == ASSUME ChannelInv, Close PROVE Pays
<1> SUFFICES ASSUME app.debt = kf2.process, app.debt # NoProcess, app'.debt # app.debt
             PROVE  kf2'.quality = Top
  BY DEF Pays
<1>1. app \in Records /\ kf2 \in Game
  BY DEF ChannelInv, Shape
<1>2. PICK r \in LiveRestores(app) :
        /\ Sent(r) /\ job' = job
        /\ app' = [LiveRestored(app, r) EXCEPT
                      !.closed = IF r.ok THEN "restored" ELSE "unrestored"]
  BY DEF Close
<1>3. /\ r.ok \in BOOLEAN /\ (r.ok => Quiet')
      /\ ~r.ok => Owner(app) = kf2.process
  BY <1>2, LiveRestoreIs DEF Sent
<1>4. /\ LiveRestored(app, r) \in Records
      /\ ~r.ok => LiveRestored(app, r).debt = Owner(app)
  BY <1>1, <1>3, LiveRestoredIs
<1>5. app'.debt = LiveRestored(app, r).debt
  BY <1>2, <1>4 DEF Records
<1> QED
  BY <1>3, <1>4, <1>5 DEF Quiet

LEMMA NextPays == ASSUME ChannelInv, [Next]_vars PROVE Pays
<1>1. app \in Records /\ kf2 \in Game
  BY DEF ChannelInv, Shape
<1>2. CASE Observe \/ RetryDue \/ ChangePolicy
  <2>1. app'.debt = app.debt
    BY <1>1, <1>2 DEF Observe, RetryDue, ChangePolicy, Records
  <2> QED
    BY <2>1 DEF Pays
<1>3. CASE Attach
  <2>1. app.debt = kf2.process => app'.debt = app.debt
    BY <1>1, <1>3 DEF Attach, Records
  <2> QED
    BY <2>1 DEF Pays
<1>4. CASE Serve \/ (\E i \in DOMAIN wire : TimesOut(i))
           \/ GameStarts \/ GameExits \/ Travel \/ GameRetries \/ UNCHANGED vars
  BY <1>4 DEF Serve, Deliver, Unreachable, TimesOut, GameStarts, GameExits, Travel,
       GameRetries, vars, Pays
<1> QED
  BY <1>2, <1>3, <1>4, TickPays, TogglePays, DetachPays, ClosePays DEF Next

(* Whatever strikes off the debt of the running game, a receipt that is taken *)
(* at a tick, a switch or the close of the optimizer, leaves the game at the  *)
(* user's quality (reconcile_adaptive_runtime_mode,                           *)
(* set_live_adaptive_enabled, restore_live_adaptive_quality).                 *)
THEOREM DebtsArePaid == Spec => DebtIsPaid
<1>1. ChannelInv /\ [Next]_vars =>
        [(app.debt = kf2.process /\ app.debt # NoProcess
            /\ app'.debt # app.debt) => kf2'.quality = Top]_vars
  BY NextPays DEF Pays
<1> QED
  BY <1>1, ChannelIsKept, PTL DEF Spec, DebtIsPaid
==============================================================================
