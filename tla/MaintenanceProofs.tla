--------------------------- MODULE MaintenanceProofs ---------------------------
(***************************************************************************)
(* The one busy gate of updates, Auto Repair and manual import, proved for  *)
(* any package, versions, intervals and any number of starts, failures and  *)
(* wishes: two of them never work on the package together, what is handed   *)
(* to the helper or ignored is what the user asked for, and a failure       *)
(* leaves neither a half repaired package nor a hasty retry behind.         *)
(***************************************************************************)
EXTENDS Maintenance, FiniteSetTheorems, SequenceTheorems, WellFoundedInduction, TLAPS

(* The fields the argument reads are there.                                 *)
Shape ==
    /\ "on" \in DOMAIN app
    /\ {"phase", "offer", "ignored"} \subseteq DOMAIN ctl
    /\ {"pc", "by"} \subseteq DOMAIN repair
    /\ {"pc", "result"} \subseteq DOMAIN install
    /\ "wanted" \in DOMAIN seen

(* The gate: a repair under way lives with its process, and excludes an     *)
(* installation and a helper; an installation, and a helper that waits for  *)
(* the close, keep the phase at "installing", which excludes a repair.      *)
Gate ==
    /\ repair.pc # "none" => /\ install.pc = "none" /\ helper = None /\ app.on
                             /\ repair.by \in {"auto", "import"}
    /\ install.pc # "none" => app.on /\ helper = None /\ ctl.phase = "installing"
    /\ app.on /\ helper # None => ctl.phase = "installing"

(* What is installed was approved, and nothing replaces the offer meanwhile. *)
Approved ==
    /\ install.pc # "none" => ctl.offer = install.result /\ seen.wanted = ctl.offer.version
    /\ helper # None => helper = seen.wanted

MaintenanceInv == Shape /\ Gate /\ Approved /\ IgnoredIsSaved

-----------------------------------------------------------------------------
LEMMA InitMaintenance == Init => MaintenanceInv
  BY DEF Init, MaintenanceInv, Shape, Gate, Approved, IgnoredIsSaved, NewController,
       NoState, NoRepair, Idle

(* A check leaves the ignored version alone, and its fields in place.       *)
LEMMA CheckingIs ==
  ASSUME NEW c, NEW trigger, {"phase", "offer", "ignored"} \subseteq DOMAIN c
  PROVE  /\ {"phase", "offer", "ignored"} \subseteq DOMAIN Checking(c, trigger)
         /\ Checking(c, trigger).ignored = c.ignored
  BY DEF Checking

LEMMA CompletedIs ==
  ASSUME NEW c, NEW offer, {"phase", "offer", "ignored"} \subseteq DOMAIN c
  PROVE  /\ {"phase", "offer", "ignored"} \subseteq DOMAIN Completed(c, offer)
         /\ Completed(c, offer).ignored = c.ignored
  BY DEF Completed

(* The state that is read back ignores what the file says.                  *)
LEMMA RestoredIs ==
  ASSUME NEW d, NEW auto
  PROVE  /\ {"phase", "offer", "ignored"} \subseteq DOMAIN Restored(d, auto)
         /\ Restored(d, auto).ignored = d.ignored
  BY DEF Restored, NewController

LEMMA SavedIgnored ==
  ASSUME NEW c, NEW saved \in BOOLEAN, Saves(c, saved)
  PROVE  disk'.ignored = c.ignored \/ disk' = disk
<1>1. CASE saved = TRUE
  BY <1>1 DEF Saves, Persisted
<1>2. CASE saved = FALSE
  BY <1>2 DEF Saves
<1> QED
  BY <1>1, <1>2

(* Starting a check, from the constructor or by the user.                   *)
LEMMA StartsCheckKeeps ==
  ASSUME NEW c, NEW trigger, NEW saved \in BOOLEAN, NEW launched \in BOOLEAN,
         {"phase", "offer", "ignored"} \subseteq DOMAIN c,
         c.ignored # None => disk.ignored = c.ignored,
         Shape, StartsCheck(c, trigger, saved, launched)
  PROVE  /\ {"phase", "offer", "ignored"} \subseteq DOMAIN ctl'
         /\ "wanted" \in DOMAIN seen' /\ seen'.wanted = seen.wanted
         /\ IgnoredIsSaved'
<1> DEFINE begun == Checking(c, trigger)
<1>1. {"phase", "offer", "ignored"} \subseteq DOMAIN begun /\ begun.ignored = c.ignored
  BY CheckingIs
<1>2. ctl' = begun \/ ctl' = [begun EXCEPT !.phase = "error"]
  <2>1. CASE launched = TRUE
    BY <2>1 DEF StartsCheck
  <2>2. CASE launched = FALSE
    BY <2>2 DEF StartsCheck
  <2> QED
    BY <2>1, <2>2
<1>3. {"phase", "offer", "ignored"} \subseteq DOMAIN ctl' /\ ctl'.ignored = c.ignored
  <2> HIDE DEF begun
  <2> QED
    BY <1>1, <1>2
<1>4. disk'.ignored = c.ignored \/ disk' = disk
  BY <1>1, SavedIgnored DEF StartsCheck
<1>5. \E x : seen' = [seen EXCEPT !.asked = x]
  BY DEF StartsCheck
<1> QED
  BY <1>3, <1>4, <1>5 DEF IgnoredIsSaved, Shape

(* A step that leaves the controller, the installation, the helper and the  *)
(* window alone, and starts no repair.                                      *)
LEMMA RepairKeeps ==
  ASSUME MaintenanceInv, UNCHANGED <<window, helper>>, app' = app,
         {"pc", "by"} \subseteq DOMAIN repair',
         repair'.pc # "none" => repair.pc # "none" /\ repair'.by = repair.by
  PROVE  MaintenanceInv'
  BY DEF MaintenanceInv, Shape, Gate, Approved, IgnoredIsSaved, window

LEMMA NextMaintenance == MaintenanceInv /\ [Next]_vars => MaintenanceInv'
<1> SUFFICES ASSUME MaintenanceInv, [Next]_vars PROVE MaintenanceInv'
  OBVIOUS
<1>A. Shape /\ Gate /\ Approved /\ IgnoredIsSaved
  BY DEF MaintenanceInv
<1>1. CASE Boot
  <2>1. /\ ~app.on /\ helper = None /\ helper' = helper /\ UNCHANGED <<install, repair>>
        /\ "on" \in DOMAIN app' /\ app'.on
    BY <1>1, <1>A DEF Boot, Shape, Stopped
  <2>2. PICK readable \in BOOLEAN, saved \in BOOLEAN, launched \in BOOLEAN :
          LET c == Restored(Loaded(readable), ctl.auto) IN
          \/ StartsCheck(c, "automatic", saved, launched)
          \/ /\ ctl' = c /\ disk' = disk
             /\ seen' = IF readable THEN seen ELSE [seen EXCEPT !.asked = 0]
    BY <1>1 DEF Boot
  <2> DEFINE c == Restored(Loaded(readable), ctl.auto)
  <2>3. /\ {"phase", "offer", "ignored"} \subseteq DOMAIN c
        /\ c.ignored = Loaded(readable).ignored
    BY RestoredIs
  <2>4. c.ignored # None => disk.ignored = c.ignored
    <3>1. CASE readable = TRUE
      BY <2>3, <3>1 DEF Loaded
    <3>2. CASE readable = FALSE
      BY <2>3, <3>2 DEF Loaded, NoState
    <3> QED
      BY <3>1, <3>2
  <2> HIDE DEF c
  <2>5. /\ {"phase", "offer", "ignored"} \subseteq DOMAIN ctl'
        /\ "wanted" \in DOMAIN seen' /\ IgnoredIsSaved'
    <3>1. CASE StartsCheck(c, "automatic", saved, launched)
      BY <2>3, <2>4, <3>1, <1>A, StartsCheckKeeps
    <3>2. CASE ctl' = c /\ disk' = disk
               /\ seen' = IF readable THEN seen ELSE [seen EXCEPT !.asked = 0]
      <4>1. "wanted" \in DOMAIN seen'
        BY <3>2, <1>A DEF Shape
      <4> QED
        BY <2>3, <2>4, <3>2, <4>1 DEF IgnoredIsSaved
    <3> QED
      BY <2>2, <3>1, <3>2 DEF c
  <2>6. install.pc = "none" /\ repair.pc = "none"
    BY <2>1, <1>A DEF Gate
  <2> QED
    BY <2>1, <2>5, <2>6, <1>A DEF MaintenanceInv, Shape, Gate, Approved
<1>2. CASE ManualCheck
  <2>1. /\ app.on /\ ctl.phase # "installing"
        /\ UNCHANGED <<app, install, repair, helper>>
    BY <1>2 DEF ManualCheck, Responsive, Begins
  <2>2. PICK saved \in BOOLEAN, launched \in BOOLEAN :
          StartsCheck(ctl, "manual", saved, launched)
    BY <1>2 DEF ManualCheck
  <2>3. /\ {"phase", "offer", "ignored"} \subseteq DOMAIN ctl'
        /\ "wanted" \in DOMAIN seen' /\ IgnoredIsSaved'
    BY <2>2, <1>A, StartsCheckKeeps DEF Shape, IgnoredIsSaved
  <2>4. helper = None /\ install.pc = "none"
    BY <2>1, <1>A DEF Gate
  <2> QED
    BY <2>1, <2>3, <2>4, <1>A DEF MaintenanceInv, Shape, Gate, Approved
<1>3. CASE PollCheck
  <2>1. /\ UNCHANGED <<app, install, repair, helper>> /\ app.on
        /\ seen' = IF check.pc = "found" THEN [seen EXCEPT !.asked = 0] ELSE seen
    BY <1>3 DEF PollCheck, Responsive
  <2>2. "wanted" \in DOMAIN seen' /\ seen'.wanted = seen.wanted
    BY <2>1, <1>A DEF Shape
  <2>3. CASE UNCHANGED <<ctl, disk>>
    BY <2>1, <2>2, <2>3, <1>A DEF MaintenanceInv, Shape, Gate, Approved, IgnoredIsSaved
  <2>4. CASE ctl.phase = "checking" /\ ctl' = [ctl EXCEPT !.phase = "error"] /\ disk' = disk
    BY <2>1, <2>2, <2>4, <1>A DEF MaintenanceInv, Shape, Gate, Approved, IgnoredIsSaved
  <2>5. CASE /\ ctl.phase = "checking" /\ ctl' = Completed(ctl, check.result)
             /\ \E saved \in BOOLEAN : Saves(ctl', saved)
    <3>1. {"phase", "offer", "ignored"} \subseteq DOMAIN ctl' /\ ctl'.ignored = ctl.ignored
      BY <2>5, <1>A, CompletedIs DEF Shape
    <3>2. disk'.ignored = ctl'.ignored \/ disk' = disk
      BY <2>5, SavedIgnored
    <3> QED
      BY <2>1, <2>2, <2>5, <3>1, <3>2, <1>A
         DEF MaintenanceInv, Shape, Gate, Approved, IgnoredIsSaved
  <2> QED
    BY <1>3, <2>3, <2>4, <2>5 DEF PollCheck
<1>4. CASE Dismiss \/ ToggleAutomatic
  <2>1. /\ UNCHANGED <<app, disk, install, seen, repair, helper>>
        /\ \/ ctl' = [ctl EXCEPT !.dismissed = TRUE] \/ ctl' = [ctl EXCEPT !.auto = ~@]
    BY <1>4 DEF Dismiss, ToggleAutomatic, world
  <2>2. /\ {"phase", "offer", "ignored"} \subseteq DOMAIN ctl'
        /\ ctl'.phase = ctl.phase /\ ctl'.offer = ctl.offer /\ ctl'.ignored = ctl.ignored
    BY <2>1, <1>A DEF Shape
  <2> QED
    BY <2>1, <2>2, <1>A DEF MaintenanceInv, Shape, Gate, Approved, IgnoredIsSaved
<1>5. CASE Ignore
  <2>1. PICK saved \in BOOLEAN : /\ Saves([ctl EXCEPT !.ignored = ctl.cached], saved)
                                 /\ ctl' = Ignored(ctl, saved)
    BY <1>5 DEF Ignore
  <2>2. UNCHANGED <<app, install, seen, repair, helper>>
    BY <1>5 DEF Ignore
  <2>3. /\ {"phase", "offer", "ignored"} \subseteq DOMAIN ctl'
        /\ ctl'.phase = ctl.phase /\ ctl'.offer = ctl.offer
        /\ ctl'.ignored # None => disk'.ignored = ctl'.ignored
    <3>1. CASE saved = TRUE
      BY <2>1, <3>1, <1>A DEF Ignored, Saves, Persisted, Shape
    <3>2. CASE saved = FALSE
      BY <2>1, <3>2, <1>A DEF Ignored, Saves, Shape, IgnoredIsSaved
    <3> QED
      BY <3>1, <3>2
  <2> QED
    BY <2>2, <2>3, <1>A DEF MaintenanceInv, Shape, Gate, Approved, IgnoredIsSaved
<1>6. CASE StartInstall
  <2>1. /\ app.on /\ repair.pc = "none" /\ ctl.phase = "available"
        /\ UNCHANGED <<app, disk, repair, helper>>
        /\ \/ /\ ctl' = [ctl EXCEPT !.phase = "installing"]
              /\ install' = [pc |-> "running", result |-> ctl.offer]
              /\ seen' = [seen EXCEPT !.wanted = ctl.offer.version]
           \/ UNCHANGED <<ctl, install, seen>>
    BY <1>6 DEF StartInstall, Responsive, Busy, world
  <2>2. helper = None
    BY <2>1, <1>A DEF Gate
  <2> QED
    BY <2>1, <2>2, <1>A DEF MaintenanceInv, Shape, Gate, Approved, IgnoredIsSaved
<1>7. CASE PollInstall
  <2>1. /\ app.on /\ install.pc # "none" /\ install' = Idle
        /\ UNCHANGED <<disk, repair>>
        /\ \/ /\ helper' = ctl.offer.version /\ app' = [app EXCEPT !.closing = TRUE]
              /\ UNCHANGED <<ctl, seen>>
           \/ /\ \E x : ctl' = [ctl EXCEPT !.phase = x]
              /\ seen' = [seen EXCEPT !.wanted = None] /\ UNCHANGED <<app, helper>>
    BY <1>7 DEF PollInstall, Responsive
  <2>2. helper = None /\ ctl.phase = "installing" /\ repair.pc = "none"
        /\ seen.wanted = ctl.offer.version
    BY <2>1, <1>A DEF Gate, Approved
  <2> QED
    BY <2>1, <2>2, <1>A DEF MaintenanceInv, Shape, Gate, Approved, IgnoredIsSaved, Idle
<1>8. CASE StartRepair \/ ClosePicker
  <2>1. /\ app.on /\ UNCHANGED <<window, helper>>
        /\ app' = app \/ app' = [app EXCEPT !.picker = FALSE]
        /\ \/ repair' = repair
           \/ /\ repair.pc = "none" /\ ctl.phase # "installing"
              /\ \E by \in {"auto", "import"} :
                    repair' = [NoRepair EXCEPT !.pc = "query", !.by = by]
    BY <1>8 DEF StartRepair, ClosePicker, StillBusy, Responsive, Busy, world
  <2>2. app'.on /\ "on" \in DOMAIN app'
    BY <2>1, <1>A DEF Shape
  <2>3. CASE repair' = repair
    BY <2>1, <2>2, <2>3, <1>A
       DEF MaintenanceInv, Shape, Gate, Approved, IgnoredIsSaved, window
  <2>4. CASE /\ repair.pc = "none" /\ ctl.phase # "installing"
             /\ \E by \in {"auto", "import"} :
                   repair' = [NoRepair EXCEPT !.pc = "query", !.by = by]
    <3>1. helper = None /\ install.pc = "none"
      BY <2>1, <2>4, <1>A DEF Gate
    <3>2. {"pc", "by"} \subseteq DOMAIN repair' /\ repair'.by \in {"auto", "import"}
      BY <2>4 DEF NoRepair
    <3> QED
      BY <2>1, <2>2, <3>1, <3>2, <1>A
         DEF MaintenanceInv, Shape, Gate, Approved, IgnoredIsSaved, window
  <2> QED
    BY <2>1, <2>3, <2>4
<1>9. CASE PollRepair \/ EndImport
  <2>1. /\ repair' = NoRepair /\ UNCHANGED <<window, helper>>
        /\ app' = app \/ app' = CloseAgain(app)
    BY <1>9 DEF PollRepair, EndImport, world
  <2>2. "on" \in DOMAIN app' /\ (app'.on <=> app.on)
    BY <2>1, <1>A DEF CloseAgain, Shape
  <2> QED
    BY <2>1, <2>2, <1>A
       DEF MaintenanceInv, Shape, Gate, Approved, IgnoredIsSaved, window, NoRepair
<1>10. CASE OpenPicker \/ AsksToClose
  <2>1. /\ UNCHANGED <<window, repair, helper>>
        /\ app' = [app EXCEPT !.picker = TRUE] \/ app' = [app EXCEPT !.closing = TRUE]
    BY <1>10 DEF OpenPicker, AsksToClose, world
  <2>2. "on" \in DOMAIN app' /\ (app'.on <=> app.on)
    BY <2>1, <1>A DEF Shape
  <2> QED
    BY <2>1, <2>2, <1>A DEF MaintenanceInv, Shape, Gate, Approved, IgnoredIsSaved,
         window
<1>11. CASE Close
  <2>1. /\ app.on /\ repair.by # "import" /\ UNCHANGED <<ctl, disk, seen, repair, helper>>
        /\ \/ repair.by # "auto" /\ app' = Stopped(app) /\ install' = Idle
           \/ app' = [app EXCEPT !.closing = FALSE, !.asked = TRUE] /\ install' = install
    BY <1>11 DEF Close, Responsive, CanClose, window, world
  <2>2. CASE repair.by # "auto" /\ app' = Stopped(app) /\ install' = Idle
    <3>1. repair.pc = "none"
      BY <2>1, <2>2, <1>A DEF Gate
    <3> QED
      BY <2>1, <2>2, <3>1, <1>A
         DEF MaintenanceInv, Shape, Gate, Approved, IgnoredIsSaved, Stopped, Idle
  <2>3. CASE app' = [app EXCEPT !.closing = FALSE, !.asked = TRUE] /\ install' = install
    <3>1. "on" \in DOMAIN app' /\ (app'.on <=> app.on)
      BY <2>3, <1>A DEF Shape
    <3> QED
      BY <2>1, <2>3, <3>1, <1>A DEF MaintenanceInv, Shape, Gate, Approved,
           IgnoredIsSaved
  <2> QED
    BY <2>1, <2>2, <2>3
<1>12. CASE CheckAnswers
  BY <1>12, <1>A DEF CheckAnswers, world, MaintenanceInv, Shape, Gate, Approved,
       IgnoredIsSaved
<1>13. CASE InstallAnswers
  <2>1. /\ install.pc # "none" /\ UNCHANGED <<app, ctl, disk, seen, repair, helper>>
        /\ install' = [install EXCEPT !.pc = "failed"] \/ install' = [install EXCEPT !.pc = "prepared"]
    BY <1>13 DEF InstallAnswers, world
  <2> QED
    BY <2>1, <1>A DEF MaintenanceInv, Shape, Gate, Approved, IgnoredIsSaved
<1>14. CASE Repairs
  <2>1. /\ repair.pc # "none" /\ UNCHANGED <<window, helper>> /\ app' = app
    BY <1>14 DEF Repairs, RepairPlans, RepairReplaces, RepairVerifies,
         RepairRollsBack, world
  <2>2. DOMAIN repair' = DOMAIN repair /\ repair'.by = repair.by
    <3>1. CASE RepairPlans
      BY <3>1, <1>A DEF RepairPlans, Shape
    <3>2. CASE RepairReplaces
      BY <3>2, <1>A DEF RepairReplaces, RollingBack, Shape
    <3>3. CASE RepairVerifies
      BY <3>3, <1>A DEF RepairVerifies, RollingBack, Shape
    <3>4. CASE RepairRollsBack
      BY <3>4, <1>A DEF RepairRollsBack, Shape
    <3> QED
      BY <1>14, <3>1, <3>2, <3>3, <3>4 DEF Repairs
  <2> QED
    BY <2>1, <2>2, <1>A, RepairKeeps DEF Shape
<1>15. CASE HelperEnds
  BY <1>15, <1>A DEF HelperEnds, window, MaintenanceInv, Shape, Gate, Approved,
       IgnoredIsSaved
<1>16. CASE Crash
  <2>1. /\ app' = Stopped(app) /\ repair' = NoRepair /\ install' = Idle
        /\ UNCHANGED <<ctl, disk, seen, helper>>
    BY <1>16 DEF Crash
  <2> QED
    BY <2>1, <1>A DEF MaintenanceInv, Shape, Gate, Approved, IgnoredIsSaved, Stopped,
         Idle, NoRepair
<1>17. CASE Publishes \/ FileChanges \/ TimePasses \/ UNCHANGED vars
  <2>1. UNCHANGED <<app, window, repair, helper>>
    BY <1>17 DEF Publishes, FileChanges, TimePasses, vars, window
  <2> QED
    BY <2>1, <1>A, RepairKeeps DEF Shape
<1>18. CASE ClockSetBack
  <2>1. /\ UNCHANGED <<app, ctl, disk, install, repair, helper>>
        /\ seen' = [seen EXCEPT !.asked = 0]
    BY <1>18 DEF ClockSetBack
  <2>2. "wanted" \in DOMAIN seen' /\ seen'.wanted = seen.wanted
    BY <2>1, <1>A DEF Shape
  <2> QED
    BY <2>1, <2>2, <1>A DEF MaintenanceInv, Shape, Gate, Approved, IgnoredIsSaved
<1> QED
  BY <1>1, <1>2, <1>3, <1>4, <1>5, <1>6, <1>7, <1>8, <1>9, <1>10, <1>11, <1>12, <1>13,
       <1>14, <1>15, <1>16, <1>17, <1>18 DEF Next, User, Wish, Rest, Ticks,
       Environment

(* Two actors never maintain the package at once, whatever was started,     *)
(* polled, closed or lost in between (the busy gate of                      *)
(* application_update.cpp:382).                                             *)
THEOREM OneMaintainerHolds == Spec => []OneMaintainer
<1>1. MaintenanceInv => OneMaintainer
  BY DEF MaintenanceInv, Gate, OneMaintainer
<1> QED
  BY InitMaintenance, NextMaintenance, <1>1, PTL DEF Spec

(* What is handed to the helper is what the user approved, and what is       *)
(* ignored is ignored on disk (begin_install_with_user_consent,             *)
(* ignore_update).                                                          *)
THEOREM ConsentIsHonoured == Spec => []ConsentHonoured
<1>1. MaintenanceInv => ConsentHonoured
  BY DEF MaintenanceInv, Approved, ConsentHonoured, InstallIsConsented
<1> QED
  BY InitMaintenance, NextMaintenance, <1>1, PTL DEF Spec

-----------------------------------------------------------------------------
(* What a failure leaves behind: the retry delays first, then what the state *)
(* file and the controller remember of the last automatic check.             *)

(* Every set of numbers has a least one: an input that a recursive definition *)
(* fails on would have a least one too.                                      *)
LEMMA LeastExists ==
  ASSUME NEW S \in SUBSET Nat, S # {}
  PROVE  \E m \in S : \A y \in S : m <= y
<1> DEFINE R == {ss \in Nat \X Nat : ss[1] < ss[2]}
<1>1. IsWellFoundedOn(R, Nat)
  <2>1. OpToRel(<, Nat) = R
    BY DEF OpToRel
  <2> QED
    BY <2>1, NatLessThanWellFounded
<1>2. PICK m \in S : \A y \in S : ~ (<<y, m>> \in R)
  BY <1>1, WFMin
<1>3. ASSUME NEW y \in S PROVE m <= y
  <2>1. <<y, m>> \notin R /\ <<y, m>> \in Nat \X Nat
    BY <1>2, <1>3
  <2>2. ~(<<y, m>>[1] < <<y, m>>[2])
    BY <2>1
  <2> QED
    BY <2>2, <1>3
<1> QED
  BY <1>3

(* f holds the delay after each of the first n failures.                    *)
Doubles(f, n) ==
    f = [k \in 0 .. n |->
            IF k <= 1 THEN RetryInitial
            ELSE IF 2 * f[k - 1] < RetryMaximum THEN 2 * f[k - 1]
            ELSE RetryMaximum]

(* There is such a function for every number of failures.                   *)
LEMMA DelaysExist == ASSUME NEW n \in Nat PROVE \E f : Doubles(f, n)
<1> DEFINE S == {k \in Nat : ~ \E f : Doubles(f, k)}
<1> SUFFICES ASSUME S # {} PROVE FALSE
  OBVIOUS
<1>1. PICK m \in S : \A k \in S : m <= k
  <2>1. S \in SUBSET Nat
    OBVIOUS
  <2> QED
    BY ONLY <2>1, S # {}, LeastExists
<1>2. CASE m = 0
  <2> DEFINE f == [k \in 0 .. 0 |-> RetryInitial]
  <2>1. Doubles(f, 0)
    BY DEF Doubles
  <2> QED
    BY <2>1, <1>2, <1>1
<1>3. CASE m # 0
  <2>1. m - 1 \in Nat /\ m - 1 \notin S
    BY <1>1, <1>3
  <2>2. PICK f : Doubles(f, m - 1)
    BY <2>1
  <2> DEFINE g == [k \in 0 .. m |->
                     IF k < m THEN f[k]
                     ELSE IF k <= 1 THEN RetryInitial
                     ELSE IF 2 * f[m - 1] < RetryMaximum THEN 2 * f[m - 1]
                     ELSE RetryMaximum]
  <2>3. ASSUME NEW k \in 0 .. m
        PROVE g[k] = IF k <= 1 THEN RetryInitial
                     ELSE IF 2 * g[k - 1] < RetryMaximum THEN 2 * g[k - 1]
                     ELSE RetryMaximum
    <3>1. CASE k = m
      <4>1. k > 1 => g[k - 1] = f[m - 1]
        BY <3>1, <2>1
      <4> QED
        BY <3>1, <4>1
    <3>2. CASE k # m
      <4>1. k \in 0 .. (m - 1) /\ (~(k <= 1) => k - 1 \in 0 .. (m - 1))
        BY <3>2
      <4>2. g[k] = f[k] /\ (~(k <= 1) => g[k - 1] = f[k - 1])
        BY <4>1
      <4> QED
        BY <4>1, <4>2, <2>2 DEF Doubles
    <3> QED
      BY <3>1, <3>2
  <2>4. Doubles(g, m)
    BY <2>3 DEF Doubles
  <2> QED
    BY <2>4, <1>1
<1> QED
  BY <1>2, <1>3

(* No delay is shorter than the first.                                      *)
LEMMA RetryWaits ==
  ASSUME NEW n \in Nat
  PROVE  RetryAfter(n) \in Nat /\ RetryAfter(n) >= RetryInitial
<1> DEFINE f == CHOOSE f : Doubles(f, n)
<1>1. Doubles(f, n)
  BY DelaysExist
<1>2. RetryAfter(n) = f[n]
  BY DEF RetryAfter, Doubles
<1> HIDE DEF f
<1> DEFINE S == {k \in 0 .. n : ~(f[k] \in Nat /\ f[k] >= RetryInitial)}
<1>3. ASSUME S # {} PROVE FALSE
  <2>1. PICK m \in S : \A k \in S : m <= k
    <3>1. S \in SUBSET Nat
      OBVIOUS
    <3> QED
      BY ONLY <3>1, <1>3, LeastExists
  <2>2. f[m] = IF m <= 1 THEN RetryInitial
               ELSE IF 2 * f[m - 1] < RetryMaximum THEN 2 * f[m - 1]
               ELSE RetryMaximum
    BY <1>1 DEF Doubles
  <2>3. ~(m <= 1) => f[m - 1] \in Nat /\ f[m - 1] >= RetryInitial
    <3>1. ~(m <= 1) => m - 1 \in 0 .. n /\ m - 1 \notin S
      BY <2>1
    <3> QED
      BY <3>1
  <2>4. RetryInitial \in Nat /\ RetryMaximum \in Nat /\ RetryInitial <= RetryMaximum
    BY MaintenanceAssumption
  <2> QED
    BY <2>2, <2>3, <2>4
<1> QED
  BY <1>2, <1>3

(* What the state file and the controller say of the last automatic check.  *)
Remembers(c) == c.failures >= 1 /\ c.attempt >= seen.asked /\ c.attempt <= time

Numbered(c) ==
    /\ {"attempt", "failures"} \subseteq DOMAIN c
    /\ c.attempt \in Nat /\ c.failures \in Nat

Recorded ==
    /\ time \in Nat \ {0} /\ faults \in Nat
    /\ Numbered(ctl) /\ Numbered(disk)
    /\ "asked" \in DOMAIN seen /\ seen.asked \in Nat
    /\ seen.asked # 0 => Remembers(ctl) /\ Remembers(disk)

(* A request is of the running process, and a repair that has not compared  *)
(* the files has changed none.                                              *)
Fresh ==
    /\ "on" \in DOMAIN app /\ "pc" \in DOMAIN check
    /\ check.pc = "running" => app.on
    /\ {"pc", "plan"} \subseteq DOMAIN repair
    /\ repair.pc = "query" => repair.plan = <<>>

ContainInv == Recorded /\ Fresh

-----------------------------------------------------------------------------
LEMMA InitContain == Init => ContainInv
BY DEF Init, ContainInv, Recorded, Fresh, Numbered, NewController, NoState, Idle,
     NoRepair

(* The attempt and the failures, through each of the controller's operations.*)
LEMMA CheckingCounts ==
  ASSUME Recorded, NEW c, Numbered(c), NEW trigger \in {"automatic", "manual"}
  PROVE  /\ Numbered(Checking(c, trigger)) /\ Checking(c, trigger).attempt = time
         /\ Checking(c, trigger).failures =
               IF trigger = "automatic" THEN c.failures + 1 ELSE c.failures
BY DEF Checking, Numbered, Recorded

LEMMA RestoredCounts ==
  ASSUME NEW d, Numbered(d), NEW auto
  PROVE  /\ Numbered(Restored(d, auto)) /\ Restored(d, auto).attempt = d.attempt
         /\ Restored(d, auto).failures = IF d.attempt > 0 THEN d.failures ELSE 0
BY DEF Restored, NewController, Numbered

LEMMA PersistedCounts ==
  ASSUME NEW c, Numbered(c)
  PROVE  /\ Numbered(Persisted(c)) /\ Persisted(c).attempt = c.attempt
         /\ Persisted(c).failures = c.failures
BY DEF Persisted, Numbered

(* The beginning of a check, of a controller that remembers the last one.   *)
LEMMA StartsCheckRecords ==
  ASSUME Recorded, NEW c, Numbered(c), NEW trigger \in {"automatic", "manual"},
         NEW saved \in BOOLEAN, NEW launched \in BOOLEAN,
         StartsCheck(c, trigger, saved, launched), time' = time, faults' \in Nat,
         trigger = "manual" => c = ctl
  PROVE  Recorded'
<1> DEFINE begun == Checking(c, trigger)
<1>1. /\ Numbered(begun) /\ begun.attempt = time
      /\ begun.failures = IF trigger = "automatic" THEN c.failures + 1 ELSE c.failures
  BY CheckingCounts
<1>2. /\ disk' = IF saved THEN Persisted(begun) ELSE disk
      /\ ctl' = begun \/ ctl' = [begun EXCEPT !.phase = "error"]
      /\ seen' = [seen EXCEPT !.asked = IF trigger = "manual" THEN seen.asked
                                        ELSE IF saved THEN time ELSE 0]
  BY DEF StartsCheck, Saves
<1>3. /\ Numbered(ctl') /\ ctl'.attempt = begun.attempt /\ ctl'.failures = begun.failures
  <2> HIDE DEF begun
  <2> QED
    BY <1>1, <1>2 DEF Numbered
<1>4. /\ saved => Numbered(disk') /\ disk'.attempt = begun.attempt
                  /\ disk'.failures = begun.failures
      /\ ~saved => disk' = disk
  <2> HIDE DEF begun
  <2> QED
    BY <1>1, <1>2, PersistedCounts
<1>5. /\ "asked" \in DOMAIN seen' 
      /\ seen'.asked = IF trigger = "manual" THEN seen.asked ELSE IF saved THEN time ELSE 0
  BY <1>2 DEF Recorded
<1> HIDE DEF begun
<1>6. Numbered(disk')
  BY <1>4 DEF Recorded
<1>7. c.failures \in Nat /\ time \in Nat /\ seen.asked \in Nat
  BY DEF Numbered, Recorded
<1>8. CASE trigger = "manual"
  <2>1. c = ctl /\ seen'.asked = seen.asked /\ time' = time
        /\ begun.attempt = time /\ begun.failures = c.failures
    BY <1>1, <1>5, <1>8
  <2>2. ASSUME seen.asked # 0
        PROVE  /\ ctl'.attempt = time /\ ctl'.failures = ctl.failures
               /\ ctl.failures >= 1 /\ seen.asked <= time
               /\ disk.failures >= 1 /\ seen.asked <= disk.attempt /\ disk.attempt <= time
    <3>1. ctl.attempt \in Nat /\ disk.attempt \in Nat /\ Remembers(ctl) /\ Remembers(disk)
      BY <2>2 DEF Recorded, Numbered
    <3> QED
      BY <1>3, <1>7, <2>1, <3>1 DEF Remembers
  <2>3. ASSUME seen.asked # 0 PROVE Remembers(ctl)'
    BY <1>7, <2>1, <2>2, <2>3 DEF Remembers
  <2>4. ASSUME seen.asked # 0 PROVE Remembers(disk)'
    <3>1. CASE saved
      BY <1>4, <1>7, <2>1, <2>2, <2>4, <3>1 DEF Remembers
    <3>2. CASE ~saved
      BY <1>4, <2>1, <2>2, <2>4, <3>2 DEF Remembers
    <3> QED
      BY <3>1, <3>2
  <2>5. time' \in Nat \ {0} /\ seen'.asked \in Nat
    BY <1>7, <2>1 DEF Recorded
  <2> QED
    BY <1>3, <1>5, <1>6, <2>1, <2>3, <2>4, <2>5 DEF Recorded
<1>9. CASE trigger = "automatic"
  <2>1. seen'.asked # 0 => Remembers(ctl)' /\ Remembers(disk)'
    BY <1>1, <1>3, <1>4, <1>5, <1>7, <1>9 DEF Recorded, Remembers
  <2> QED
    BY <1>3, <1>5, <1>6, <1>7, <1>9, <2>1 DEF Recorded
<1> QED
  BY <1>8, <1>9

(* A step that leaves the counts of the controller and the state file alone.*)
LEMMA RecordedKept ==
  ASSUME Recorded, faults' \in Nat, time' \in Nat, time' >= time,
         Numbered(ctl'), ctl'.attempt = ctl.attempt, ctl'.failures = ctl.failures,
         Numbered(disk'),
         disk' = disk \/ (disk'.attempt = ctl.attempt /\ disk'.failures = ctl.failures),
         "asked" \in DOMAIN seen', seen'.asked \in {seen.asked, 0}
  PROVE  Recorded'
BY DEF Recorded, Remembers, Numbered

LEMMA NextRecorded == ASSUME ContainInv, [Next]_vars PROVE Recorded'
<1> USE DEF Numbered
<1>0. Recorded /\ Numbered(ctl) /\ Numbered(disk) /\ time \in Nat /\ faults \in Nat
      /\ "asked" \in DOMAIN seen /\ seen.asked \in Nat
  BY DEF ContainInv, Recorded
<1>1. \A did \in BOOLEAN : Fails(did) => faults' \in Nat
  BY <1>0 DEF Fails
<1>2. ASSUME UNCHANGED <<ctl, disk, seen>>, faults' \in Nat, time' \in Nat, time' >= time
      PROVE  Recorded'
  BY <1>0, <1>2, RecordedKept
<1>3. CASE Boot
  <2>1. PICK readable \in BOOLEAN, saved \in BOOLEAN, launched \in BOOLEAN :
          LET c == Restored(Loaded(readable), ctl.auto) IN
          /\ Fails(~readable \/ ~saved)
          /\ \/ StartsCheck(c, "automatic", saved, launched)
             \/ /\ ctl' = c /\ disk' = disk
                /\ seen' = IF readable THEN seen ELSE [seen EXCEPT !.asked = 0]
    BY <1>3 DEF Boot
  <2> DEFINE c == Restored(Loaded(readable), ctl.auto)
  <2>2. time' = time /\ faults' \in Nat
    <3>1. (~readable \/ ~saved) \in BOOLEAN
      OBVIOUS
    <3> QED
      BY <1>1, <1>3, <2>1, <3>1 DEF Boot
  <2>3. Numbered(Loaded(readable)) /\ (readable => Loaded(readable) = disk)
    BY <1>0 DEF Loaded, NoState
  <2>4. /\ Numbered(c) /\ c.attempt = Loaded(readable).attempt
        /\ c.failures = IF Loaded(readable).attempt > 0 THEN Loaded(readable).failures ELSE 0
    BY <2>3, RestoredCounts
  <2> HIDE DEF c
  <2>5. CASE StartsCheck(c, "automatic", saved, launched)
    BY <1>0, <2>2, <2>4, <2>5, StartsCheckRecords
  <2>6. CASE /\ ctl' = c /\ disk' = disk
             /\ seen' = IF readable THEN seen ELSE [seen EXCEPT !.asked = 0]
    <3>1. CASE readable
      <4>1. seen' = seen /\ c.attempt = disk.attempt
            /\ c.failures = IF disk.attempt > 0 THEN disk.failures ELSE 0
        BY <2>3, <2>4, <2>6, <3>1
      <4>2. seen.asked # 0 => disk.attempt > 0
        BY <1>0 DEF Recorded, Remembers
      <4> QED
        BY <1>0, <2>2, <2>4, <2>6, <4>1, <4>2 DEF Recorded, Remembers
    <3>2. CASE ~readable
      <4>1. "asked" \in DOMAIN seen' /\ seen'.asked = 0
        BY <1>0, <2>6, <3>2
      <4> QED
        BY <1>0, <2>2, <2>4, <2>6, <4>1 DEF Recorded
    <3> QED
      BY <3>1, <3>2
  <2> QED
    BY <2>1, <2>5, <2>6 DEF c
<1>4. CASE ManualCheck
  <2>1. PICK saved \in BOOLEAN, launched \in BOOLEAN :
          Fails(~saved) /\ StartsCheck(ctl, "manual", saved, launched)
    BY <1>4 DEF ManualCheck
  <2>2. time' = time /\ faults' \in Nat
    BY <1>1, <1>4, <2>1 DEF ManualCheck
  <2> QED
    BY <1>0, <2>1, <2>2, StartsCheckRecords
<1>5. CASE PollCheck
  <2>1. time' = time
    BY <1>5 DEF PollCheck
  <2>2. CASE /\ ctl.phase = "checking" /\ check.pc = "found"
             /\ ctl' = Completed(ctl, check.result)
             /\ \E saved \in BOOLEAN : Fails(~saved) /\ Saves(ctl', saved)
    <3>1. Numbered(ctl')
      BY <1>0, <2>2 DEF Completed
    <3>2. Numbered(disk') /\ faults' \in Nat
      BY <1>0, <1>1, <2>2, <3>1, PersistedCounts DEF Saves
    <3>3. "asked" \in DOMAIN seen' /\ seen'.asked = 0
      BY <1>0, <1>5, <2>2 DEF PollCheck
    <3> QED
      BY <1>0, <2>1, <3>1, <3>2, <3>3 DEF Recorded
  <2>3. CASE UNCHANGED <<disk, faults>> /\ (ctl' = ctl \/ ctl' = [ctl EXCEPT !.phase = "error"])
    <3>1. "asked" \in DOMAIN seen' /\ seen'.asked \in {seen.asked, 0}
      BY <1>0, <1>5 DEF PollCheck
    <3>2. Numbered(ctl') /\ ctl'.attempt = ctl.attempt /\ ctl'.failures = ctl.failures
      BY <1>0, <2>3
    <3> QED
      BY <1>0, <2>1, <2>3, <3>1, <3>2, RecordedKept
  <2> QED
    BY <1>5, <2>2, <2>3 DEF PollCheck
<1>6. CASE Dismiss \/ ToggleAutomatic
  <2>1. UNCHANGED <<time, faults, disk, seen>>
        /\ (ctl' = [ctl EXCEPT !.dismissed = TRUE] \/ ctl' = [ctl EXCEPT !.auto = ~@])
    BY <1>6 DEF Dismiss, ToggleAutomatic, world
  <2>2. Numbered(ctl') /\ ctl'.attempt = ctl.attempt /\ ctl'.failures = ctl.failures
    BY <1>0, <2>1
  <2> QED
    BY <1>0, <2>1, <2>2, RecordedKept
<1>7. CASE Ignore
  <2>1. PICK saved \in BOOLEAN :
          /\ Fails(~saved) /\ Saves([ctl EXCEPT !.ignored = ctl.cached], saved)
          /\ ctl' = Ignored(ctl, saved)
    BY <1>7 DEF Ignore
  <2> DEFINE c == [ctl EXCEPT !.ignored = ctl.cached]
  <2>2. Numbered(ctl') /\ ctl'.attempt = ctl.attempt /\ ctl'.failures = ctl.failures
    BY <1>0, <2>1 DEF Ignored
  <2>3. Numbered(c) /\ c.attempt = ctl.attempt /\ c.failures = ctl.failures
    BY <1>0
  <2>4. disk' = disk \/ disk' = Persisted(c)
    BY <2>1 DEF Saves
  <2> HIDE DEF c
  <2>5. /\ Numbered(disk')
        /\ disk' = disk \/ (disk'.attempt = ctl.attempt /\ disk'.failures = ctl.failures)
    BY <1>0, <2>3, <2>4, PersistedCounts
  <2>6. time' = time /\ seen' = seen /\ faults' \in Nat
    BY <1>1, <1>7, <2>1 DEF Ignore
  <2> QED
    BY <1>0, <2>2, <2>5, <2>6, RecordedKept
<1>8. CASE StartInstall \/ PollInstall
  <2>1. /\ UNCHANGED <<time, faults, disk>>
        /\ ctl' = ctl \/ \E p : ctl' = [ctl EXCEPT !.phase = p]
        /\ seen' = seen \/ \E w : seen' = [seen EXCEPT !.wanted = w]
    BY <1>8 DEF StartInstall, PollInstall, world
  <2>2. Numbered(ctl') /\ ctl'.attempt = ctl.attempt /\ ctl'.failures = ctl.failures
    BY <1>0, <2>1
  <2>3. "asked" \in DOMAIN seen' /\ seen'.asked = seen.asked
    BY <1>0, <2>1
  <2> QED
    BY <1>0, <2>1, <2>2, <2>3, RecordedKept
<1>9. CASE ClockSetBack
  <2>1. /\ UNCHANGED <<ctl, disk>> /\ time' = 1 /\ faults' \in Nat
        /\ "asked" \in DOMAIN seen' /\ seen'.asked = 0
    BY <1>0, <1>1, <1>9 DEF ClockSetBack
  <2> QED
    BY <1>0, <2>1 DEF Recorded
<1>10. CASE Crash \/ FileChanges
  <2>1. Fails(TRUE) /\ UNCHANGED <<ctl, disk, seen, time>>
    BY <1>10 DEF Crash, FileChanges, window
  <2>2. faults' \in Nat
    BY <1>1, <2>1
  <2> QED
    BY <1>0, <1>2, <2>1, <2>2
<1>11. CASE TimePasses
  BY <1>0, <1>2, <1>11 DEF TimePasses, window
<1>12. CASE StartRepair \/ OpenPicker \/ AsksToClose \/ PollRepair \/ EndImport \/ Close
            \/ ClosePicker \/ CheckAnswers \/ InstallAnswers \/ Publishes \/ HelperEnds
  BY <1>0, <1>2, <1>12 DEF StartRepair, OpenPicker, AsksToClose, PollRepair,
       EndImport, Close, ClosePicker, CheckAnswers, InstallAnswers, Publishes,
       HelperEnds, window, world
<1>13. CASE Repairs
  BY <1>0, <1>2, <1>13 DEF Repairs, RepairPlans, RepairReplaces, RepairVerifies,
       RepairRollsBack, window, world
<1>14. CASE UNCHANGED vars
  BY <1>0, <1>2, <1>14 DEF vars
<1> QED
  BY <1>3, <1>4, <1>5, <1>6, <1>7, <1>8, <1>9, <1>10, <1>11, <1>12, <1>13, <1>14
     DEF Next, User, Wish, Rest, Ticks, Environment

(* A step that ends no process, and neither begins a request nor a repair.   *)
LEMMA FreshKept ==
  ASSUME Fresh, "on" \in DOMAIN app', app.on => app'.on, check' = check \/ check' = Idle,
         repair' = repair \/ (/\ {"pc", "plan"} \subseteq DOMAIN repair'
                              /\ (repair'.pc # "query" \/ repair'.plan = <<>>))
  PROVE  Fresh'
BY DEF Fresh, Idle

LEMMA NextFresh == ASSUME ContainInv, [Next]_vars PROVE Fresh'
<1>0. Fresh /\ "on" \in DOMAIN app /\ {"pc", "plan"} \subseteq DOMAIN repair
  BY DEF ContainInv, Fresh
<1>1. CASE Boot
  <2>1. "on" \in DOMAIN app' /\ app'.on /\ repair' = repair
    BY <1>0, <1>1 DEF Boot, Stopped
  <2>2. check' = check \/ check' = [pc |-> "running", result |-> NoOffer]
    BY <1>1 DEF Boot, StartsCheck
  <2> QED
    BY <1>0, <2>1, <2>2 DEF Fresh
<1>2. CASE ManualCheck
  <2>1. app' = app /\ app.on /\ repair' = repair
    BY <1>2 DEF ManualCheck, Responsive
  <2>2. check' = check \/ check' = [pc |-> "running", result |-> NoOffer]
    BY <1>2 DEF ManualCheck, StartsCheck
  <2> QED
    BY <1>0, <2>1, <2>2 DEF Fresh
<1>3. CASE PollCheck \/ Dismiss \/ Ignore \/ ToggleAutomatic \/ StartInstall
  BY <1>0, <1>3, FreshKept DEF PollCheck, Dismiss, Ignore, ToggleAutomatic, StartInstall
<1>4. CASE PollInstall \/ OpenPicker \/ AsksToClose \/ PollRepair \/ EndImport
  <2>1. check' = check /\ (repair' = repair \/ repair' = NoRepair)
        /\ (app' = app \/ app' = [app EXCEPT !.closing = TRUE]
            \/ app' = [app EXCEPT !.picker = TRUE] \/ app' = CloseAgain(app))
    BY <1>4 DEF PollInstall, OpenPicker, AsksToClose, PollRepair, EndImport, window
  <2>2. "on" \in DOMAIN app' /\ app'.on = app.on
    BY <1>0, <2>1 DEF CloseAgain
  <2>3. repair' = repair \/ ({"pc", "plan"} \subseteq DOMAIN repair' /\ repair'.plan = <<>>)
    BY <2>1 DEF NoRepair
  <2> QED
    BY <1>0, <2>1, <2>2, <2>3, FreshKept
<1>5. CASE StartRepair \/ ClosePicker
  <2>1. check' = check /\ (app' = app \/ app' = [app EXCEPT !.picker = FALSE])
        /\ (repair' = repair \/ \E by : repair' = [NoRepair EXCEPT !.pc = "query", !.by = by])
    BY <1>5 DEF StartRepair, ClosePicker, window
  <2>2. "on" \in DOMAIN app' /\ app'.on = app.on
    BY <1>0, <2>1
  <2>3. repair' = repair \/ ({"pc", "plan"} \subseteq DOMAIN repair' /\ repair'.plan = <<>>)
    BY <2>1 DEF NoRepair
  <2> QED
    BY <1>0, <2>1, <2>2, <2>3, FreshKept
<1>6. CASE Close
  <2>1. repair' = repair
        /\ \/ app' = Stopped(app) /\ check' = Idle
           \/ app' = [app EXCEPT !.closing = FALSE, !.asked = TRUE] /\ check' = check
    BY <1>6 DEF Close, window
  <2>2. "on" \in DOMAIN app' /\ (check' = Idle \/ (check' = check /\ app'.on = app.on))
    BY <1>0, <2>1 DEF Stopped
  <2> QED
    BY <1>0, <2>1, <2>2 DEF Fresh, Idle
<1>7. CASE Crash
  <2>1. "on" \in DOMAIN app' /\ check' = Idle /\ repair' = NoRepair
    BY <1>0, <1>7 DEF Crash, Stopped
  <2> QED
    BY <2>1 DEF Fresh, Idle, NoRepair
<1>8. CASE CheckAnswers
  <2>1. app' = app /\ repair' = repair /\ "pc" \in DOMAIN check' /\ check.pc = "running"
    BY <1>8 DEF CheckAnswers, Answers
  <2> QED
    BY <1>0, <2>1 DEF Fresh
<1>9. CASE Repairs
  <2>1. app' = app /\ check' = check
    BY <1>9 DEF Repairs, RepairPlans, RepairReplaces, RepairVerifies, RepairRollsBack,
         window
  <2>2. {"pc", "plan"} \subseteq DOMAIN repair' /\ repair'.pc # "query"
    <3>1. CASE RepairPlans
      BY <1>0, <3>1 DEF RepairPlans
    <3>2. CASE RepairReplaces
      BY <1>0, <3>2 DEF RepairReplaces, RollingBack
    <3>3. CASE RepairVerifies
      BY <1>0, <3>3 DEF RepairVerifies, RollingBack
    <3>4. CASE RepairRollsBack
      BY <1>0, <3>4 DEF RepairRollsBack, RollbackEnd
    <3> QED
      BY <1>9, <3>1, <3>2, <3>3, <3>4 DEF Repairs
  <2> QED
    BY <1>0, <2>1, <2>2, FreshKept
<1>10. CASE InstallAnswers \/ Publishes \/ HelperEnds \/ FileChanges \/ TimePasses \/ ClockSetBack
  BY <1>0, <1>10, FreshKept DEF InstallAnswers, Publishes, HelperEnds, FileChanges,
       TimePasses, ClockSetBack, window
<1>11. CASE UNCHANGED vars
  BY <1>0, <1>11, FreshKept DEF vars
<1> QED
  BY <1>1, <1>2, <1>3, <1>4, <1>5, <1>6, <1>7, <1>8, <1>9, <1>10, <1>11
     DEF Next, User, Wish, Rest, Ticks, Environment

-----------------------------------------------------------------------------
(* A repair that fails has written nothing, or has put everything back.      *)
LEMMA FailsUndone ==
  ASSUME ContainInv, [Next]_vars, repair'.pc = "failed", repair.pc # "failed"
  PROVE  \A i \in DOMAIN repair.plan : files'[repair.plan[i].file] = repair.plan[i].was
<1>0. {"pc", "plan"} \subseteq DOMAIN repair /\ (repair.pc = "query" => repair.plan = <<>>)
  BY DEF ContainInv, Fresh
<1>1. RepairPlans \/ RepairReplaces \/ RepairVerifies \/ RepairRollsBack
  <2>1. ASSUME repair' = repair \/ repair' = NoRepair
               \/ \E by : repair' = [NoRepair EXCEPT !.pc = "query", !.by = by]
        PROVE  FALSE
    <3>1. CASE repair' = repair \/ repair' = NoRepair
      BY <3>1 DEF NoRepair
    <3>2. CASE \E by : repair' = [NoRepair EXCEPT !.pc = "query", !.by = by]
      <4>1. PICK by : repair' = [NoRepair EXCEPT !.pc = "query", !.by = by]
        BY <3>2
      <4>2. repair'.pc = "query"
        BY <4>1 DEF NoRepair
      <4> QED
        BY <4>2
    <3> QED
      BY <2>1, <3>1, <3>2
  <2>2. \/ RepairPlans \/ RepairReplaces \/ RepairVerifies \/ RepairRollsBack
        \/ repair' = repair \/ repair' = NoRepair
        \/ \E by : repair' = [NoRepair EXCEPT !.pc = "query", !.by = by]
    BY DEF Next, User, Wish, Rest, Ticks, Environment, Repairs, vars, world, window,
       Boot, ManualCheck, PollCheck, Dismiss, Ignore, ToggleAutomatic, StartInstall,
       PollInstall, StartRepair, PollRepair, OpenPicker, ClosePicker, EndImport,
       AsksToClose, Close, CheckAnswers, InstallAnswers, Publishes, HelperEnds, Crash,
       FileChanges, TimePasses, ClockSetBack
  <2> QED
    BY <2>1, <2>2
<1>2. CASE RepairPlans
  BY <1>0, <1>2 DEF RepairPlans
<1>3. CASE RepairReplaces
  BY <1>0, <1>3 DEF RepairReplaces, RollingBack
<1>4. CASE RepairVerifies
  BY <1>0, <1>4 DEF RepairVerifies, RollingBack
<1>5. CASE RepairRollsBack
  <2>1. CASE repair.done > 0
    <3>1. repair'.pc = "rollback"
      BY <1>0, <1>5, <2>1 DEF RepairRollsBack
    <3> QED
      BY <3>1
  <2>2. CASE ~(repair.done > 0)
    <3> DEFINE same == \A i \in DOMAIN repair.plan :
                         files[repair.plan[i].file] = repair.plan[i].was
    <3>1. files' = files
          /\ repair' = [repair EXCEPT !.pc = RollbackEnd(repair.undone /\ same)]
      BY <1>5, <2>2 DEF RepairRollsBack
    <3>2. RollbackEnd(repair.undone /\ same) = "failed"
      BY <1>0, <3>1
    <3>3. same
      BY <3>2 DEF RollbackEnd
    <3> QED
      BY <3>1, <3>3
  <2> QED
    BY <2>1, <2>2
<1> QED
  BY <1>1, <1>2, <1>3, <1>4, <1>5

(* A check begins in the constructor only, which waits for the retry delay of *)
(* what it read.                                                            *)
LEMMA BeginsLate ==
  ASSUME ContainInv, [Next]_vars, ~app.on, check'.pc = "running", seen.asked # 0,
         faults' = faults
  PROVE  time - seen.asked >= RetryInitial
<1>0. /\ "on" \in DOMAIN app /\ "pc" \in DOMAIN check /\ check.pc # "running"
      /\ time \in Nat /\ faults \in Nat /\ seen.asked \in Nat /\ Numbered(disk)
      /\ disk.attempt \in Nat /\ disk.failures \in Nat /\ Remembers(disk)
  BY DEF ContainInv, Recorded, Fresh, Numbered
<1>1. Boot
  <2>1. ASSUME check' = check \/ check' = Idle PROVE FALSE
    BY <1>0, <2>1 DEF Idle
  <2>2. CASE User
    BY <1>0, <2>1, <2>2 DEF User, Wish, ManualCheck, Dismiss, Ignore, ToggleAutomatic,
       StartInstall, StartRepair, OpenPicker, AsksToClose, Responsive, window
  <2>3. CASE Ticks \/ ClosePicker \/ CheckAnswers \/ InstallAnswers
    BY <1>0, <2>1, <2>3 DEF Ticks, PollCheck, PollInstall, PollRepair, EndImport, Close,
       ClosePicker, CheckAnswers, InstallAnswers, window
  <2>4. CASE Repairs
    BY <1>0, <2>1, <2>4 DEF Repairs, RepairPlans, RepairReplaces, RepairVerifies,
       RepairRollsBack, window
  <2>5. CASE Environment
    BY <1>0, <2>1, <2>5 DEF Environment, Publishes, HelperEnds, Crash, FileChanges,
       TimePasses, ClockSetBack, window
  <2>6. CASE UNCHANGED vars
    BY <2>1, <2>6 DEF vars
  <2> QED
    BY <2>2, <2>3, <2>4, <2>5, <2>6 DEF Next, Rest
<1>2. PICK readable \in BOOLEAN, saved \in BOOLEAN :
         /\ Fails(~readable \/ ~saved)
         /\ \/ Begins(Restored(Loaded(readable), ctl.auto), "automatic")
            \/ check' = check
  BY <1>1 DEF Boot
<1>3. readable
  BY <1>0, <1>2 DEF Fails
<1>4. Begins(Restored(disk, ctl.auto), "automatic")
  BY <1>0, <1>2, <1>3 DEF Loaded
<1> DEFINE c == Restored(disk, ctl.auto)
<1>5. c.attempt = disk.attempt /\ c.failures = IF disk.attempt > 0 THEN disk.failures ELSE 0
  BY <1>0, RestoredCounts
<1> HIDE DEF c
<1>6. ~Throttled(c)
  BY <1>4 DEF Begins, c
<1>7. /\ disk.attempt > 0 /\ disk.failures >= 1
      /\ disk.attempt >= seen.asked /\ disk.attempt <= time
  BY <1>0 DEF Remembers
<1>8. c.attempt = disk.attempt /\ c.failures = disk.failures
  BY <1>5, <1>7
<1>9. ~Within(disk.attempt, RetryAfter(disk.failures))
  BY <1>0, <1>6, <1>7, <1>8 DEF Throttled
<1>10. RetryAfter(disk.failures) \in Nat /\ RetryAfter(disk.failures) >= RetryInitial
  BY <1>0, RetryWaits
<1>11. time - disk.attempt >= RetryAfter(disk.failures)
  BY <1>0, <1>7, <1>9, <1>10 DEF Within
<1>12. RetryInitial \in Nat
  BY MaintenanceAssumption
<1> QED
  BY <1>0, <1>7, <1>10, <1>11, <1>12

(* FailureIsContained: a failed repair has left every file it replaced as it *)
(* found it (rollback_repair_changes), and the automatic checks of a failing *)
(* network keep their distance over restarts and crashes                     *)
(* (persist_update_snapshot before the request, restore_preferences).        *)
THEOREM FailureStaysContained == Spec => FailureIsContained
<1>1. Init => ContainInv
  BY InitContain
<1>2. ContainInv /\ [Next]_vars => ContainInv'
  BY NextRecorded, NextFresh DEF ContainInv
<1>3. ContainInv /\ [Next]_vars =>
        [repair'.pc = "failed" /\ repair.pc # "failed" =>
           \A i \in DOMAIN repair.plan :
              files'[repair.plan[i].file] = repair.plan[i].was]_vars
  BY FailsUndone
<1>4. ContainInv /\ [Next]_vars =>
        [~app.on /\ check'.pc = "running" /\ seen.asked # 0 /\ faults' = faults
         => time - seen.asked >= RetryInitial]_vars
  BY BeginsLate
<1> QED
  BY <1>1, <1>2, <1>3, <1>4, PTL
     DEF Spec, FailureIsContained, FailedRepairUndone, RetriesSpaced

(* What TypeOK says, by the part of the system it says it of, and what the    *)
(* parts need beyond it: a newest release and a position within the plan.     *)
AppTyped ==
    app \in [on : BOOLEAN, boots : 0 .. MaxBoots, closing : BOOLEAN,
             asked : BOOLEAN, picker : BOOLEAN]
Controllers ==
    [phase : {"idle", "checking", "available", "current", "error", "installing"},
     offer : Offers \cup {NoOffer}, completed : BOOLEAN,
     cached : Version0, ignored : Version0, dismissed : BOOLEAN,
     auto : BOOLEAN, last : Times, attempt : Times, failures : Nat]
States ==
    [last : Times, result : {"unknown", "current", "available"},
     version : Version0, ignored : Version0, attempt : Times, failures : Nat]
StateTyped == ctl \in Controllers /\ disk \in States
ClockTyped == time \in Times \ {0} /\ faults \in 0 .. MaxFaults
WishesTyped == wishes \in 0 .. MaxWishes
(* One of the releases is the newest.                                       *)
ReleasesTyped ==
    /\ published \subseteq Offers
    /\ \E r \in published : \A other \in published : other.version <= r.version
RequestsTyped ==
    /\ check \in [pc : {"none", "running", "found", "failed"},
                  result : Offers \cup {NoOffer}]
    /\ install \in [pc : {"none", "running", "prepared", "failed"},
                    result : Offers \cup {NoOffer}]
(* A repair has a plan of managed files and is somewhere in it.             *)
Replacements == [file : Managed, was : Contents]
Plans == Seq(Replacements)
RepairTyped ==
    /\ repair \in [pc : {"none", "query", "replace", "rollback", "done", "failed", "recovery"},
                   by : {"none", "auto", "import"}, plan : Plans, done : Nat,
                   undone : BOOLEAN]
    /\ repair.done <= Len(repair.plan)
    /\ repair.pc = "query" => repair.done = 0
PackageTyped ==
    files \in [Managed -> Contents] /\ installed \in Versions /\ helper \in Version0

MaintenanceTypes ==
    /\ AppTyped /\ StateTyped /\ ClockTyped /\ ReleasesTyped /\ RequestsTyped
    /\ RepairTyped /\ PackageTyped /\ WishesTyped

(* The parts give the type invariant.                                       *)
LEMMA TypesAre == MaintenanceTypes => TypeOK
  BY DEF MaintenanceTypes, TypeOK, AppTyped, StateTyped, ClockTyped, ReleasesTyped,
     RequestsTyped, RepairTyped, PackageTyped, WishesTyped, Controllers, States

(* What the constants give, told once.                                      *)
LEMMA ConstantsAre ==
  /\ Versions \subseteq Nat \ {0} /\ 1 \in Versions /\ Exe \in Files /\ IsFiniteSet(Files)
  /\ MaxTime \in Nat /\ MaxTime >= 1 /\ MaxBoots \in Nat /\ MaxFaults \in Nat /\ MaxWishes \in Nat
  /\ 0 \in Times /\ None \in Version0 /\ Versions \subseteq Version0
  /\ NoOffer \in Offers \cup {NoOffer} /\ NoOffer.version = None
  /\ \A r \in Offers : r.version \in Versions
  BY MaintenanceAssumption DEF Times, Version0, None, NoOffer, Offers

(* A package as it was found, nothing known and nothing asked for.           *)
LEMMA InitTypes == Init => MaintenanceTypes
<1> SUFFICES ASSUME Init PROVE MaintenanceTypes
  OBVIOUS
<1>1. AppTyped
  BY ConstantsAre DEF Init, AppTyped
<1>2. StateTyped
  BY ConstantsAre DEF Init, StateTyped, NewController, NoState, Controllers, States
<1>3. ClockTyped
  BY ConstantsAre DEF Init, ClockTyped, Times
<1>4. ReleasesTyped
  <2> DEFINE r == [version |-> 1, asset |-> TRUE]
  <2>1. published = {r} /\ r \in Offers /\ r.version <= r.version
    BY ConstantsAre DEF Init, Offers
  <2> HIDE DEF r
  <2> QED
    BY <2>1 DEF ReleasesTyped
<1>5. RequestsTyped
  BY ConstantsAre DEF Init, RequestsTyped, Idle
<1>6. RepairTyped
  <2>1. <<>> \in Plans /\ Len(<<>>) = 0
    BY DEF Plans
  <2> QED
    BY <2>1 DEF Init, RepairTyped, NoRepair
<1>7. PackageTyped
  BY ConstantsAre DEF Init, PackageTyped, Contents
<1>8. WishesTyped
  BY ConstantsAre DEF Init, WishesTyped
<1> QED
  BY <1>1, <1>2, <1>3, <1>4, <1>5, <1>6, <1>7, <1>8 DEF MaintenanceTypes

-----------------------------------------------------------------------------
(* Each operation on the controller yields a controller.                    *)
LEMMA ControllerTyped ==
  ASSUME NEW c \in Controllers, time \in Times
  PROVE  /\ \A trigger : Checking(c, trigger) \in Controllers
         /\ Persisted(c) \in States
         /\ \A offer \in Offers \cup {NoOffer} : Completed(c, offer) \in Controllers
         /\ \A saved \in BOOLEAN : Ignored(c, saved) \in Controllers
         /\ [c EXCEPT !.ignored = c.cached] \in Controllers
         /\ \A p \in {"error", "installing", "available"} : [c EXCEPT !.phase = p] \in Controllers
         /\ [c EXCEPT !.dismissed = TRUE] \in Controllers
         /\ [c EXCEPT !.auto = ~@] \in Controllers
<1>1. ASSUME NEW trigger PROVE Checking(c, trigger) \in Controllers
  <2> DEFINE failures == IF trigger = "automatic" THEN c.failures + 1 ELSE c.failures
  <2>1. failures \in Nat
    BY DEF Controllers
  <2>2. Checking(c, trigger) = [c EXCEPT !.phase = "checking", !.offer = NoOffer,
                                         !.attempt = time, !.failures = failures]
    BY DEF Checking, Controllers
  <2> HIDE DEF failures
  <2> QED
    BY <2>1, <2>2, ConstantsAre DEF Controllers
<1>2. Persisted(c) \in States
  BY ConstantsAre DEF Controllers, Persisted, States
<1>3. ASSUME NEW offer \in Offers \cup {NoOffer} PROVE Completed(c, offer) \in Controllers
  <2>1. offer.version \in Version0
    BY ConstantsAre
  <2> DEFINE dismissed == offer # NoOffer /\ offer.version = c.ignored
  <2>2. dismissed \in BOOLEAN
    OBVIOUS
  <2> HIDE DEF dismissed
  <2> QED
    BY <2>1, <2>2, ConstantsAre DEF Controllers, Completed, dismissed
<1>4. ASSUME NEW saved \in BOOLEAN PROVE Ignored(c, saved) \in Controllers
  BY DEF Controllers, Ignored
<1>5. [c EXCEPT !.ignored = c.cached] \in Controllers
  BY DEF Controllers
<1>6. ASSUME NEW p \in {"error", "installing", "available"}
      PROVE  [c EXCEPT !.phase = p] \in Controllers
  BY DEF Controllers
<1>7. [c EXCEPT !.dismissed = TRUE] \in Controllers /\ [c EXCEPT !.auto = ~@] \in Controllers
  BY DEF Controllers
<1> QED
  BY <1>1, <1>2, <1>3, <1>4, <1>5, <1>6, <1>7

(* A controller restored from the state file is one.                        *)
LEMMA RestoredTyped ==
  ASSUME NEW d \in States, NEW auto \in BOOLEAN PROVE Restored(d, auto) \in Controllers
<1> DEFINE completed == d.result # "unknown" /\ d.last > 0
           cached == IF completed /\ d.result = "available" THEN d.version ELSE None
           failures == IF d.attempt > 0 THEN d.failures ELSE 0
           dismissed == cached # None /\ cached = d.ignored
<1>1. completed \in BOOLEAN /\ dismissed \in BOOLEAN
  OBVIOUS
<1>2. cached \in Version0 /\ failures \in Nat
  BY ConstantsAre DEF States
<1>3. Restored(d, auto) = [NewController(auto) EXCEPT
            !.last = d.last, !.completed = completed, !.cached = cached,
            !.ignored = d.ignored, !.attempt = d.attempt,
            !.failures = failures, !.dismissed = dismissed]
  BY DEF Restored
<1> HIDE DEF completed, cached, failures, dismissed
<1> QED
  BY <1>1, <1>2, <1>3, ConstantsAre DEF States, Controllers, NewController

(* The newest of some releases is one of them.                              *)
LEMMA NewestTyped ==
  ASSUME ReleasesTyped, installed \in Versions PROVE Newest \in Offers \cup {NoOffer}
<1> DEFINE newer == {r \in published : r.version > installed}
<1>1. PICK r \in published : \A other \in published : other.version <= r.version
  BY DEF ReleasesTyped
<1>2. ASSUME newer # {} PROVE \E s \in newer : \A other \in newer : other.version <= s.version
  <2>1. PICK s \in newer : TRUE
    BY <1>2
  <2>2. s.version <= r.version /\ s.version > installed
    BY <1>1, <2>1
  <2>3. r.version \in Nat /\ s.version \in Nat /\ installed \in Nat
    BY <1>1, <2>1, ConstantsAre DEF ReleasesTyped
  <2>4. r.version > installed
    BY <2>2, <2>3
  <2> QED
    BY <1>1, <2>4
<1>3. newer \subseteq Offers
  BY DEF ReleasesTyped
<1>4. Newest = IF newer = {} THEN NoOffer
               ELSE CHOOSE s \in newer : \A other \in newer : other.version <= s.version
  BY DEF Newest
<1> HIDE DEF newer
<1> QED
  BY <1>2, <1>3, <1>4

(* The sequence of a finite set has elements of it: the choice of            *)
(* SetToSeq exists.                                                         *)
LEMMA SeqOfSet == ASSUME NEW S, IsFiniteSet(S) PROVE SetToSeq(S) \in Seq(S)
<1>1. \E f \in [1..Cardinality(S) -> S] : IsInjective(f)
  <2>1. PICK n \in Nat : ExistsBijection(1..n, S)
    BY FS_NatBijection
  <2>2. Cardinality(S) = n
    BY <2>1, FS_CountingElements
  <2>3. PICK f \in Bijection(1..n, S) : TRUE
    BY <2>1 DEF ExistsBijection
  <2>4. f \in [1..n -> S] /\ IsInjective(f)
    BY <2>3 DEF Bijection, Injection, IsInjective
  <2> QED
    BY <2>2, <2>4
<1>2. SetToSeq(S) \in [1..Cardinality(S) -> S]
  BY <1>1 DEF SetToSeq
<1>3. Cardinality(S) \in Nat
  BY FS_CardinalityType
<1> QED
  BY <1>2, <1>3

(* What a repair replaces are managed files.                                *)
LEMMA ChangedTyped == ASSUME PackageTyped PROVE Changed \in Seq(Managed)
<1> DEFINE S == {f \in Files : files[f] # "good"}
<1>1. IsFiniteSet(S)
  BY ConstantsAre, FS_Subset
<1>2. SetToSeq(S) \in Seq(S)
  BY <1>1, SeqOfSet
<1>3. SetToSeq(S) \in Seq(Managed)
  BY <1>2 DEF Managed
<1>4. <<>> \in Seq(Managed) /\ <<Manifest>> \in Seq(Managed)
  BY DEF Managed
<1> HIDE DEF S
<1> QED
  BY <1>3, <1>4 DEF Changed, S

(* Every operation of the window, the workers and the world keeps the types. *)
LEMMA NextTypes == ASSUME MaintenanceTypes, [Next]_vars PROVE MaintenanceTypes'
<1>I. AppTyped /\ StateTyped /\ ClockTyped /\ ReleasesTyped /\ RequestsTyped /\ RepairTyped
      /\ PackageTyped /\ WishesTyped
  BY DEF MaintenanceTypes
<1>C. /\ Versions \subseteq Nat \ {0} /\ 0 \in Times /\ None \in Version0
      /\ Versions \subseteq Version0 /\ \A r \in Offers : r.version \in Versions
      /\ {MaxTime, MaxBoots, MaxFaults, MaxWishes} \subseteq Nat
      /\ NoOffer \in Offers \cup {NoOffer} /\ NoOffer.version = None
  BY ConstantsAre
<1>W. WishesTyped'
  BY <1>I, <1>C DEF Next, User, vars, WishesTyped
<1>T. time \in Times /\ ctl \in Controllers /\ disk \in States
  BY <1>I DEF ClockTyped, StateTyped
<1>K. /\ \A p \in {"error", "installing", "available"} : [ctl EXCEPT !.phase = p] \in Controllers
      /\ [ctl EXCEPT !.dismissed = TRUE] \in Controllers /\ [ctl EXCEPT !.auto = ~@] \in Controllers
      /\ ctl.offer \in Offers \cup {NoOffer}
  <2>1. ctl.offer \in Offers \cup {NoOffer}
    BY <1>T DEF Controllers
  <2> QED
    BY <2>1, <1>T, ControllerTyped
<1>O. ctl.offer.version \in Version0
  BY <1>K, <1>C
<1>N. Newest \in Offers \cup {NoOffer}
  BY <1>I, NewestTyped DEF PackageTyped
<1>P. ASSUME repair' \in [pc : {"replace", "rollback"}, by : {"none", "auto", "import"},
                           plan : Plans, done : Nat, undone : BOOLEAN],
             repair'.done <= Len(repair'.plan)
      PROVE  RepairTyped'
  BY <1>P DEF RepairTyped
<1>R. ASSUME repair' \in {NoRepair, [NoRepair EXCEPT !.pc = "query", !.by = "auto"],
                          [NoRepair EXCEPT !.pc = "query", !.by = "import"]}
      PROVE  RepairTyped'
  <2> DEFINE plan == NoRepair.plan
  <2>1. plan \in Plans /\ Len(plan) = 0
    BY DEF NoRepair, Plans
  <2>2. NoRepair = [pc |-> "none", by |-> "none", plan |-> plan, done |-> 0, undone |-> TRUE]
    BY DEF NoRepair
  <2> HIDE DEF plan
  <2>3. PICK pc \in {"none", "query"}, by \in {"none", "auto", "import"} :
           repair' = [pc |-> pc, by |-> by, plan |-> plan, done |-> 0, undone |-> TRUE]
    <3>1. CASE repair' = NoRepair
      BY <2>2, <3>1
    <3>2. CASE repair' = [NoRepair EXCEPT !.pc = "query", !.by = "auto"]
      BY <2>2, <3>2
    <3>3. CASE repair' = [NoRepair EXCEPT !.pc = "query", !.by = "import"]
      BY <2>2, <3>3
    <3> QED
      BY <1>R, <3>1, <3>2, <3>3
  <2> QED
    BY <2>1, <2>3 DEF RepairTyped
<1>L. Len(repair.plan) \in Nat
  BY <1>I DEF RepairTyped, Plans
<1>B. ASSUME repair' = RollingBack PROVE RepairTyped'
  <2> DEFINE plan == SubSeq(repair.plan, 1, repair.done)
  <2>1. repair.plan \in Plans /\ repair.done \in Nat /\ repair.done <= Len(repair.plan)
    BY <1>I DEF RepairTyped
  <2>2. \A i \in 1 .. repair.done : repair.plan[i] \in Replacements
    BY <2>1, ElementOfSeq DEF Plans
  <2>3. plan \in Plans /\ Len(plan) = repair.done
    BY <2>1, <2>2, SubSeqProperties DEF Plans
  <2>4. repair' = [repair EXCEPT !.pc = "rollback", !.plan = plan]
    BY <1>B DEF RollingBack
  <2> HIDE DEF plan
  <2>5. /\ repair' \in [pc : {"replace", "rollback"}, by : {"none", "auto", "import"},
                         plan : Plans, done : Nat, undone : BOOLEAN]
        /\ repair'.plan = plan /\ repair'.done = repair.done
    BY <2>3, <2>4, <1>I DEF RepairTyped
  <2> QED
    BY <2>1, <2>3, <2>5, <1>P
<1>S. ASSUME NEW c \in Controllers, NEW trigger, NEW saved \in BOOLEAN, NEW launched \in BOOLEAN,
             StartsCheck(c, trigger, saved, launched)
      PROVE  StateTyped'
  <2>1. Checking(c, trigger) \in Controllers
    BY <1>T, ControllerTyped
  <2>2. /\ Persisted(Checking(c, trigger)) \in States
        /\ [Checking(c, trigger) EXCEPT !.phase = "error"] \in Controllers
    BY <2>1, <1>T, ControllerTyped
  <2> QED
    BY <1>S, <1>T, <2>1, <2>2 DEF StartsCheck, Saves, StateTyped
<1>1. CASE Boot
  <2>1. ReleasesTyped' /\ RepairTyped' /\ PackageTyped'
    BY <1>1, <1>I DEF Boot, world, window, ReleasesTyped, RepairTyped, PackageTyped
  <2>2. AppTyped'
    <3> DEFINE boots == app.boots + 1
    <3>1. boots \in 0 .. MaxBoots
      BY <1>1, <1>I, <1>C DEF Boot, AppTyped
    <3>2. app' = [Stopped(app) EXCEPT !.on = TRUE, !.boots = boots]
      BY <1>1, <1>I DEF Boot, Stopped, AppTyped
    <3> HIDE DEF boots
    <3> QED
      BY <3>1, <3>2, <1>I DEF Stopped, AppTyped
  <2>3. StateTyped'
    <3>1. PICK readable \in BOOLEAN, saved \in BOOLEAN, launched \in BOOLEAN :
             LET c == Restored(Loaded(readable), ctl.auto) IN
             \/ StartsCheck(c, "automatic", saved, launched)
             \/ ctl' = c /\ UNCHANGED disk
      BY <1>1 DEF Boot
    <3>2. Loaded(readable) \in States /\ ctl.auto \in BOOLEAN
      BY <1>I, <1>C DEF Loaded, NoState, States, StateTyped, Controllers
    <3> DEFINE c == Restored(Loaded(readable), ctl.auto)
    <3>3. c \in Controllers
      BY <3>2, RestoredTyped
    <3> HIDE DEF c
    <3>4. CASE StartsCheck(c, "automatic", saved, launched)
      BY <3>3, <3>4, <1>S
    <3>5. CASE ctl' = c /\ UNCHANGED disk
      BY <3>3, <3>5, <1>I DEF StateTyped
    <3> QED
      BY <3>1, <3>4, <3>5 DEF c
  <2>4. ClockTyped'
    BY <1>1, <1>I, <1>C DEF Boot, Fails, ClockTyped
  <2>5. RequestsTyped'
    BY <1>1, <1>I, <1>C DEF Boot, StartsCheck, RequestsTyped
  <2> QED
    BY <1>W, <2>1, <2>2, <2>3, <2>4, <2>5 DEF MaintenanceTypes
<1>2. CASE ManualCheck
  <2>1. AppTyped' /\ ReleasesTyped' /\ RepairTyped' /\ PackageTyped'
    BY <1>2, <1>I DEF ManualCheck, world, window, AppTyped, ReleasesTyped,
         RepairTyped, PackageTyped
  <2>2. StateTyped'
    <3>1. PICK saved \in BOOLEAN, launched \in BOOLEAN :
             StartsCheck(ctl, "manual", saved, launched)
      BY <1>2 DEF ManualCheck
    <3>2. ctl \in Controllers
      BY <1>I DEF StateTyped
    <3> QED
      BY <3>1, <3>2, <1>S
  <2>3. ClockTyped'
    BY <1>2, <1>I, <1>C DEF ManualCheck, Fails, ClockTyped
  <2>4. RequestsTyped'
    BY <1>2, <1>I, <1>C DEF ManualCheck, StartsCheck, RequestsTyped
  <2> QED
    BY <1>W, <2>1, <2>2, <2>3, <2>4 DEF MaintenanceTypes
<1>3. CASE PollCheck
  <2>1. AppTyped' /\ ReleasesTyped' /\ RepairTyped' /\ PackageTyped'
    BY <1>3, <1>I DEF PollCheck, world, window, AppTyped, ReleasesTyped, RepairTyped,
         PackageTyped
  <2>2. StateTyped'
    <3>1. ctl \in Controllers /\ disk \in States /\ check.result \in Offers \cup {NoOffer}
      BY <1>I DEF StateTyped, RequestsTyped
    <3>2. /\ Completed(ctl, check.result) \in Controllers
          /\ [ctl EXCEPT !.phase = "error"] \in Controllers
      BY <3>1, <1>T, ControllerTyped
    <3>3. ctl' \in Controllers
      BY <1>3, <3>1, <3>2 DEF PollCheck
    <3>4. Persisted(ctl') \in States
      BY <3>3, <1>T, ControllerTyped
    <3> QED
      BY <1>3, <3>1, <3>3, <3>4 DEF PollCheck, Saves, StateTyped
  <2>3. ClockTyped'
    BY <1>3, <1>I, <1>C DEF PollCheck, Fails, ClockTyped
  <2>4. RequestsTyped'
    BY <1>3, <1>I, <1>C DEF PollCheck, Idle, RequestsTyped
  <2> QED
    BY <1>W, <2>1, <2>2, <2>3, <2>4 DEF MaintenanceTypes
<1>4. CASE Dismiss
  <2>1. AppTyped' /\ ClockTyped' /\ ReleasesTyped' /\ RequestsTyped' /\ RepairTyped' /\ PackageTyped'
    BY <1>4, <1>I DEF Dismiss, world, window, AppTyped, ClockTyped, ReleasesTyped,
         RequestsTyped, RepairTyped, PackageTyped
  <2>2. StateTyped'
    BY <1>4, <1>I, <1>T, <1>K DEF Dismiss, StateTyped
  <2> QED
    BY <1>W, <2>1, <2>2 DEF MaintenanceTypes
<1>5. CASE Ignore
  <2>1. AppTyped' /\ ReleasesTyped' /\ RequestsTyped' /\ RepairTyped' /\ PackageTyped'
    BY <1>5, <1>I DEF Ignore, world, window, AppTyped, ReleasesTyped, RequestsTyped,
         RepairTyped, PackageTyped
  <2>2. StateTyped'
    <3>1. ctl \in Controllers /\ disk \in States
      BY <1>I DEF StateTyped
    <3>2. [ctl EXCEPT !.ignored = ctl.cached] \in Controllers
      BY <3>1, <1>T, ControllerTyped
    <3>3. Persisted([ctl EXCEPT !.ignored = ctl.cached]) \in States
      BY <3>2, <1>T, ControllerTyped
    <3>4. \A saved \in BOOLEAN : Ignored(ctl, saved) \in Controllers
      BY <3>1, <1>T, ControllerTyped
    <3> QED
      BY <1>5, <3>1, <3>3, <3>4 DEF Ignore, Saves, StateTyped
  <2>3. ClockTyped'
    BY <1>5, <1>I, <1>C DEF Ignore, Fails, ClockTyped
  <2> QED
    BY <1>W, <2>1, <2>2, <2>3 DEF MaintenanceTypes
<1>6. CASE ToggleAutomatic
  <2>1. AppTyped' /\ ClockTyped' /\ ReleasesTyped' /\ RequestsTyped' /\ RepairTyped' /\ PackageTyped'
    BY <1>6, <1>I DEF ToggleAutomatic, world, window, AppTyped, ClockTyped,
         ReleasesTyped, RequestsTyped, RepairTyped, PackageTyped
  <2>2. StateTyped'
    BY <1>6, <1>I, <1>T, <1>K DEF ToggleAutomatic, StateTyped
  <2> QED
    BY <1>W, <2>1, <2>2 DEF MaintenanceTypes
<1>7. CASE StartInstall
  <2>1. AppTyped' /\ ClockTyped' /\ ReleasesTyped' /\ RepairTyped' /\ PackageTyped'
    BY <1>7, <1>I DEF StartInstall, world, window, AppTyped, ClockTyped,
         ReleasesTyped, RepairTyped, PackageTyped
  <2>2. StateTyped'
    BY <1>7, <1>I, <1>T, <1>K DEF StartInstall, StateTyped
  <2>3. RequestsTyped'
    BY <1>7, <1>I, <1>K, <1>O DEF StartInstall, RequestsTyped
  <2> QED
    BY <1>W, <2>1, <2>2, <2>3 DEF MaintenanceTypes
<1>8. CASE PollInstall
  <2>1. ClockTyped' /\ ReleasesTyped' /\ RepairTyped'
    BY <1>8, <1>I DEF PollInstall, world, window, ClockTyped, ReleasesTyped, RepairTyped
  <2>2. AppTyped'
    BY <1>8, <1>I DEF PollInstall, AppTyped
  <2>3. StateTyped'
    BY <1>8, <1>I, <1>T, <1>K DEF PollInstall, StateTyped
  <2>4. RequestsTyped'
    BY <1>8, <1>I, <1>C DEF PollInstall, Idle, RequestsTyped
  <2>5. PackageTyped'
    BY <1>8, <1>I, <1>O, <1>C DEF PollInstall, PackageTyped
  <2> QED
    BY <1>W, <2>1, <2>2, <2>3, <2>4, <2>5 DEF MaintenanceTypes
<1>9. CASE StartRepair
  <2>1. AppTyped' /\ StateTyped' /\ ClockTyped' /\ ReleasesTyped' /\ RequestsTyped' /\ PackageTyped'
    BY <1>9, <1>I DEF StartRepair, world, window, AppTyped, StateTyped, ClockTyped,
         ReleasesTyped, RequestsTyped, PackageTyped
  <2>2. RepairTyped'
    BY <1>9, <1>I, <1>R DEF StartRepair
  <2> QED
    BY <1>W, <2>1, <2>2 DEF MaintenanceTypes
<1>10. CASE PollRepair
  <2>1. StateTyped' /\ ClockTyped' /\ ReleasesTyped' /\ RequestsTyped' /\ PackageTyped'
    BY <1>10, <1>I DEF PollRepair, world, window, StateTyped, ClockTyped,
         ReleasesTyped, RequestsTyped, PackageTyped
  <2>2. AppTyped'
    BY <1>10, <1>I DEF PollRepair, CloseAgain, AppTyped
  <2>3. RepairTyped'
    BY <1>10, <1>I, <1>R DEF PollRepair
  <2> QED
    BY <1>W, <2>1, <2>2, <2>3 DEF MaintenanceTypes
<1>11. CASE OpenPicker
  <2>1. StateTyped' /\ ClockTyped' /\ ReleasesTyped' /\ RequestsTyped' /\ RepairTyped' /\ PackageTyped'
    BY <1>11, <1>I DEF OpenPicker, world, window, StateTyped, ClockTyped,
         ReleasesTyped, RequestsTyped, RepairTyped, PackageTyped
  <2>2. AppTyped'
    BY <1>11, <1>I DEF OpenPicker, AppTyped
  <2> QED
    BY <1>W, <2>1, <2>2 DEF MaintenanceTypes
<1>12. CASE ClosePicker
  <2>1. StateTyped' /\ ClockTyped' /\ ReleasesTyped' /\ RequestsTyped' /\ PackageTyped'
    BY <1>12, <1>I DEF ClosePicker, world, window, StateTyped, ClockTyped,
         ReleasesTyped, RequestsTyped, PackageTyped
  <2>2. AppTyped'
    BY <1>12, <1>I DEF ClosePicker, AppTyped
  <2>3. RepairTyped'
    <3>1. CASE UNCHANGED repair
      BY <3>1, <1>I DEF RepairTyped
    <3>2. CASE ~UNCHANGED repair
      BY <1>12, <3>2, <1>R DEF ClosePicker
    <3> QED
      BY <3>1, <3>2
  <2> QED
    BY <1>W, <2>1, <2>2, <2>3 DEF MaintenanceTypes
<1>13. CASE EndImport
  <2>1. AppTyped' /\ StateTyped' /\ ClockTyped' /\ ReleasesTyped' /\ RequestsTyped' /\ PackageTyped'
    BY <1>13, <1>I DEF EndImport, world, window, AppTyped, StateTyped, ClockTyped,
         ReleasesTyped, RequestsTyped, PackageTyped
  <2>2. RepairTyped'
    BY <1>13, <1>I, <1>R DEF EndImport
  <2> QED
    BY <1>W, <2>1, <2>2 DEF MaintenanceTypes
<1>14. CASE AsksToClose
  <2>1. StateTyped' /\ ClockTyped' /\ ReleasesTyped' /\ RequestsTyped' /\ RepairTyped' /\ PackageTyped'
    BY <1>14, <1>I DEF AsksToClose, world, window, StateTyped, ClockTyped,
         ReleasesTyped, RequestsTyped, RepairTyped, PackageTyped
  <2>2. AppTyped'
    BY <1>14, <1>I DEF AsksToClose, AppTyped
  <2> QED
    BY <1>W, <2>1, <2>2 DEF MaintenanceTypes
<1>15. CASE Close
  <2>1. ClockTyped' /\ ReleasesTyped' /\ RepairTyped' /\ PackageTyped'
    BY <1>15, <1>I DEF Close, world, window, ClockTyped, ReleasesTyped, RepairTyped,
         PackageTyped
  <2>2. AppTyped'
    BY <1>15, <1>I DEF Close, Stopped, AppTyped
  <2>3. StateTyped'
    BY <1>15, <1>I DEF Close, StateTyped, window
  <2>4. RequestsTyped'
    BY <1>15, <1>I, <1>C DEF Close, Idle, RequestsTyped, window
  <2> QED
    BY <1>W, <2>1, <2>2, <2>3, <2>4 DEF MaintenanceTypes
<1>16. CASE CheckAnswers
  <2>1. AppTyped' /\ StateTyped' /\ ClockTyped' /\ ReleasesTyped' /\ RepairTyped' /\ PackageTyped'
    BY <1>16, <1>I DEF CheckAnswers, world, window, AppTyped, StateTyped, ClockTyped,
         ReleasesTyped, RepairTyped, PackageTyped
  <2>2. RequestsTyped'
    BY <1>16, <1>I, <1>N, <1>C DEF CheckAnswers, Answers, RequestsTyped
  <2> QED
    BY <1>W, <2>1, <2>2 DEF MaintenanceTypes
<1>17. CASE InstallAnswers
  <2>1. AppTyped' /\ StateTyped' /\ ClockTyped' /\ ReleasesTyped' /\ RepairTyped' /\ PackageTyped'
    BY <1>17, <1>I DEF InstallAnswers, world, window, AppTyped, StateTyped,
         ClockTyped, ReleasesTyped, RepairTyped, PackageTyped
  <2>2. RequestsTyped'
    BY <1>17, <1>I DEF InstallAnswers, RequestsTyped
  <2> QED
    BY <1>W, <2>1, <2>2 DEF MaintenanceTypes
<1>18. CASE RepairPlans
  <2>1. AppTyped' /\ StateTyped' /\ ClockTyped' /\ ReleasesTyped' /\ RequestsTyped' /\ PackageTyped'
    BY <1>18, <1>I DEF RepairPlans, world, window, AppTyped, StateTyped, ClockTyped,
         ReleasesTyped, RequestsTyped, PackageTyped
  <2>2. RepairTyped'
    <3> DEFINE plan == [i \in DOMAIN Changed |->
                           [file |-> Changed[i], was |-> files[Changed[i]]]]
    <3>1. plan \in Plans
      <4>1. Changed \in Seq(Managed)
        BY <1>I, ChangedTyped
      <4>2. /\ Len(Changed) \in Nat /\ DOMAIN Changed = 1 .. Len(Changed)
            /\ \A i \in DOMAIN Changed : Changed[i] \in Managed
        BY <4>1
      <4>3. \A f \in Managed : files[f] \in Contents
        BY <1>I DEF PackageTyped
      <4> QED
        BY <4>2, <4>3 DEF Plans, Replacements
    <3>2. Len(plan) \in Nat
      BY <3>1 DEF Plans
    <3>3. repair' \in {[repair EXCEPT !.pc = "failed"],
                       [repair EXCEPT !.pc = "replace", !.plan = plan]}
      BY <1>18 DEF RepairPlans
    <3>4. repair.done = 0
      BY <1>18, <1>I DEF RepairPlans, RepairTyped
    <3> HIDE DEF plan
    <3>5. CASE repair' = [repair EXCEPT !.pc = "failed"]
      BY <1>I, <3>5 DEF RepairTyped
    <3>6. CASE repair' = [repair EXCEPT !.pc = "replace", !.plan = plan]
      <4>1. /\ repair' \in [pc : {"replace", "rollback"}, by : {"none", "auto", "import"},
                             plan : Plans, done : Nat, undone : BOOLEAN]
            /\ repair'.plan = plan /\ repair'.done = repair.done
        BY <3>1, <3>6, <1>I DEF RepairTyped
      <4> QED
        BY <3>2, <3>4, <4>1, <1>P
    <3> QED
      BY <3>3, <3>5, <3>6
  <2> QED
    BY <1>W, <2>1, <2>2 DEF MaintenanceTypes
<1>19. CASE RepairReplaces
  <2>1. AppTyped' /\ StateTyped' /\ ClockTyped' /\ ReleasesTyped' /\ RequestsTyped'
    BY <1>19, <1>I DEF RepairReplaces, world, window, AppTyped, StateTyped,
         ClockTyped, ReleasesTyped, RequestsTyped
  <2>2. RepairTyped'
    <3>1. CASE repair' = [repair EXCEPT !.done = @ + 1]
      BY <1>19, <3>1, <1>I, <1>L DEF RepairReplaces, RepairTyped
    <3>2. CASE repair' = RollingBack
      BY <3>2, <1>B DEF RepairTyped
    <3> QED
      BY <1>19, <3>1, <3>2 DEF RepairReplaces
  <2>3. PackageTyped'
    BY <1>19, <1>I DEF RepairReplaces, PackageTyped, Contents
  <2> QED
    BY <1>W, <2>1, <2>2, <2>3 DEF MaintenanceTypes
<1>20. CASE RepairVerifies
  <2>1. AppTyped' /\ StateTyped' /\ ClockTyped' /\ ReleasesTyped' /\ RequestsTyped' /\ PackageTyped'
    BY <1>20, <1>I DEF RepairVerifies, world, window, AppTyped, StateTyped,
         ClockTyped, ReleasesTyped, RequestsTyped, PackageTyped
  <2>2. RepairTyped'
    <3>1. CASE repair' = [repair EXCEPT !.pc = "done"]
      BY <3>1, <1>I DEF RepairTyped
    <3>2. CASE repair' = RollingBack
      BY <3>2, <1>B DEF RepairTyped
    <3> QED
      BY <1>20, <3>1, <3>2 DEF RepairVerifies
  <2> QED
    BY <1>W, <2>1, <2>2 DEF MaintenanceTypes
<1>21. CASE RepairRollsBack
  <2>1. AppTyped' /\ StateTyped' /\ ClockTyped' /\ ReleasesTyped' /\ RequestsTyped'
    BY <1>21, <1>I DEF RepairRollsBack, world, window, AppTyped, StateTyped,
         ClockTyped, ReleasesTyped, RequestsTyped
  <2>2. RepairTyped'
    <3>1. CASE repair.done > 0
      <4>1. /\ repair.done - 1 \in Nat /\ repair.done - 1 <= Len(repair.plan)
            /\ repair.pc = "rollback"
            /\ repair \in [pc : {"rollback"}, by : {"none", "auto", "import"},
                           plan : Plans, done : Nat, undone : BOOLEAN]
        BY <1>21, <3>1, <1>I, <1>L DEF RepairRollsBack, RepairTyped
      <4>2. \/ repair' = [repair EXCEPT !.done = @ - 1]
            \/ repair' = [repair EXCEPT !.done = @ - 1, !.undone = FALSE]
        BY <1>21, <3>1 DEF RepairRollsBack
      <4> DEFINE before == repair.done - 1
      <4>3. \/ repair' = [repair EXCEPT !.done = before]
            \/ repair' = [repair EXCEPT !.done = before, !.undone = FALSE]
        BY <4>1, <4>2
      <4>4. before \in Nat /\ before <= Len(repair.plan)
        BY <4>1
      <4> HIDE DEF before
      <4> QED
        BY <4>1, <4>3, <4>4 DEF RepairTyped
    <3>2. CASE ~(repair.done > 0)
      <4>1. PICK end \in {"failed", "recovery"} : repair' = [repair EXCEPT !.pc = end]
        BY <1>21, <3>2 DEF RepairRollsBack, RollbackEnd
      <4> QED
        BY <4>1, <1>I DEF RepairTyped
    <3> QED
      BY <3>1, <3>2
  <2>3. PackageTyped'
    <3>1. CASE UNCHANGED files
      BY <1>21, <3>1, <1>I DEF RepairRollsBack, PackageTyped
    <3>2. CASE ~UNCHANGED files
      <4> DEFINE c == repair.plan[repair.done]
      <4>1. repair.done > 0 /\ files' = [files EXCEPT ![c.file] = c.was]
        BY <1>21, <3>2 DEF RepairRollsBack
      <4>2. repair.done \in 1 .. Len(repair.plan) /\ repair.plan \in Plans
        BY <4>1, <1>I DEF RepairTyped
      <4>3. c.was \in Contents
        <5>1. c \in Replacements
          BY <4>2, ElementOfSeq DEF Plans
        <5> QED
          BY <5>1 DEF Replacements
      <4> HIDE DEF c
      <4> QED
        BY <1>21, <4>1, <4>3, <1>I DEF RepairRollsBack, PackageTyped
    <3> QED
      BY <3>1, <3>2
  <2> QED
    BY <1>W, <2>1, <2>2, <2>3 DEF MaintenanceTypes
<1>22. CASE Publishes
  <2>1. AppTyped' /\ StateTyped' /\ ClockTyped' /\ RequestsTyped' /\ RepairTyped' /\ PackageTyped'
    BY <1>22, <1>I DEF Publishes, world, window, AppTyped, StateTyped, ClockTyped,
         RequestsTyped, RepairTyped, PackageTyped
  <2>2. ReleasesTyped'
    <3>1. PICK v \in Versions, asset \in BOOLEAN :
             /\ \A r \in published : r.version < v
             /\ published' = published \cup {[version |-> v, asset |-> asset]}
      BY <1>22 DEF Publishes
    <3> DEFINE new == [version |-> v, asset |-> asset]
    <3>2. new \in Offers /\ new.version = v /\ v \in Nat
      BY <1>C DEF Offers
    <3>3. \A r \in published : r.version \in Nat
      BY <1>I, <1>C DEF ReleasesTyped
    <3>4. published' = published \cup {new}
      BY <3>1
    <3> HIDE DEF new
    <3>5. \A other \in published' : other.version <= new.version
      BY <3>1, <3>2, <3>3, <3>4
    <3> QED
      BY <1>I, <3>2, <3>4, <3>5 DEF ReleasesTyped
  <2> QED
    BY <1>W, <2>1, <2>2 DEF MaintenanceTypes
<1>23. CASE HelperEnds
  <2>1. AppTyped' /\ StateTyped' /\ ClockTyped' /\ ReleasesTyped' /\ RequestsTyped' /\ RepairTyped'
    BY <1>23, <1>I DEF HelperEnds, world, window, AppTyped, StateTyped, ClockTyped,
         ReleasesTyped, RequestsTyped, RepairTyped
  <2>2. PackageTyped'
    BY <1>23, <1>I, <1>C DEF HelperEnds, PackageTyped, None, Version0, Contents
  <2> QED
    BY <1>W, <2>1, <2>2 DEF MaintenanceTypes
<1>24. CASE Crash
  <2>1. StateTyped' /\ ReleasesTyped' /\ PackageTyped'
    BY <1>24, <1>I DEF Crash, world, window, StateTyped, ReleasesTyped, PackageTyped
  <2>2. AppTyped'
    BY <1>24, <1>I DEF Crash, Stopped, AppTyped
  <2>3. ClockTyped'
    BY <1>24, <1>I, <1>C DEF Crash, Fails, ClockTyped
  <2>4. RequestsTyped'
    BY <1>24, <1>I, <1>C DEF Crash, Idle, RequestsTyped
  <2>5. RepairTyped'
    BY <1>24, <1>I, <1>R DEF Crash
  <2> QED
    BY <1>W, <2>1, <2>2, <2>3, <2>4, <2>5 DEF MaintenanceTypes
<1>25. CASE FileChanges
  <2>1. AppTyped' /\ StateTyped' /\ ReleasesTyped' /\ RequestsTyped' /\ RepairTyped'
    BY <1>25, <1>I DEF FileChanges, world, window, AppTyped, StateTyped,
         ReleasesTyped, RequestsTyped, RepairTyped
  <2>2. ClockTyped'
    BY <1>25, <1>I, <1>C DEF FileChanges, Fails, ClockTyped
  <2>3. PackageTyped'
    BY <1>25, <1>I DEF FileChanges, PackageTyped, Contents
  <2> QED
    BY <1>W, <2>1, <2>2, <2>3 DEF MaintenanceTypes
<1>26. CASE TimePasses
  <2>1. AppTyped' /\ StateTyped' /\ ReleasesTyped' /\ RequestsTyped' /\ RepairTyped' /\ PackageTyped'
    BY <1>26, <1>I DEF TimePasses, world, window, AppTyped, StateTyped, ReleasesTyped,
         RequestsTyped, RepairTyped, PackageTyped
  <2>2. ClockTyped'
    BY <1>26, <1>I, <1>C DEF TimePasses, ClockTyped, Times
  <2> QED
    BY <1>W, <2>1, <2>2 DEF MaintenanceTypes
<1>27. CASE ClockSetBack
  <2>1. AppTyped' /\ StateTyped' /\ ReleasesTyped' /\ RequestsTyped' /\ RepairTyped' /\ PackageTyped'
    BY <1>27, <1>I DEF ClockSetBack, world, window, AppTyped, StateTyped,
         ReleasesTyped, RequestsTyped, RepairTyped, PackageTyped
  <2>2. ClockTyped'
    BY <1>27, <1>I, <1>C DEF ClockSetBack, Fails, ClockTyped, Times
  <2> QED
    BY <1>W, <2>1, <2>2 DEF MaintenanceTypes
<1>28. CASE UNCHANGED vars
  BY <1>28, <1>I DEF vars, MaintenanceTypes, WishesTyped, AppTyped, StateTyped,
       ClockTyped, ReleasesTyped, RequestsTyped, RepairTyped, PackageTyped
<1> QED
  BY <1>1, <1>2, <1>3, <1>4, <1>5, <1>6, <1>7, <1>8, <1>9, <1>10, <1>11, <1>12, <1>13,
       <1>14, <1>15, <1>16, <1>17, <1>18, <1>19, <1>20, <1>21, <1>22, <1>23, <1>24,
       <1>25, <1>26, <1>27, <1>28 DEF Next, User, Wish, Rest, Ticks, Repairs,
       Environment

(* Types: a repair stays within the list of files it has to replace, on the   *)
(* way there and on the way back (repair_package_from_directory,              *)
(* rollback_repair_changes), and controller, state file and worker hold       *)
(* versions or none (UpdateController, load_update_state).                    *)
THEOREM MaintenanceTyped == Spec => []TypeOK
<1>1. Init => MaintenanceTypes
  BY InitTypes
<1>2. MaintenanceTypes /\ [Next]_vars => MaintenanceTypes'
  BY NextTypes
<1>3. MaintenanceTypes => TypeOK
  BY TypesAre
<1> QED
  BY <1>1, <1>2, <1>3, PTL DEF Spec
================================================================================
