-------------------------------- MODULE GameLog --------------------------------
(***************************************************************************)
(* What the optimizer knows of the running game it reads from KF2's log:    *)
(* GameLogSessionParser (src/game/game_log_session.cpp with                 *)
(* game_log_parsing.cpp and game_log_telemetry.cpp) turns its lines into a  *)
(* session, and the telemetry stage places the start of the FPS statistics  *)
(* by comparing the session with the one it saw last                        *)
(* (src/features/telemetry/telemetry_collection_stage.cpp).                 *)
(*                                                                         *)
(* The log is written by the game's current world.  A line is read as soon  *)
(* as it is written here; that reading may lag is what `history' says of a  *)
(* chunk.  A measurement is represented by the world that wrote it, so that *)
(* the model can tell a stale one.  Lines longer than 16 KiB are noise.     *)
(***************************************************************************)
EXTENDS Naturals, FiniteSets, TLC

CONSTANTS
    Maps,       \* the maps of the game
    None,       \* no value
    MaxWorlds,  \* bound of this model on the worlds the game enters
    MaxLines,   \* bound of this model on the lines it writes
    EntityMax,  \* the largest count a sample may name
    Freshness   \* chunks after which an observation is old

Online == {"client", "host"}

LogAssumption ==
    /\ MaxWorlds \in Nat \ {0} /\ MaxLines \in Nat /\ EntityMax \in Nat /\ Freshness \in Nat \ {0}
    /\ None \notin Nat \cup {"current", "history", "gameplay", "standalone"} \cup Online

VARIABLES
    world,      \* where the game is: number, map, net mode, told, ended
    lines,      \* lines written so far
    now,        \* the chunk that is being read
    reading,    \* the chunk being read: "current" or "history", or None;
                \* the session is handed on when it ends
    session,    \* current_ of the parser
    said,       \* the world of the last line that opened one
    scenes,     \* changes of scene that were read as current
    seen,       \* the session of the last drain, as far as it matters
    blind,      \* history wiped a load or a movie since `window' began
    window      \* the scene the FPS statistics began in

game == <<world, lines>>
parser == <<session, said, scenes>>
stats == <<seen, window>>
vars == <<game, now, reading, parser, blind, stats>>

NoValue == [v |-> None, obs |-> 0]
NoSample == [v |-> None, total |-> 0, awake |-> 0, detail |-> None, obs |-> 0]
NoUi == [state |-> None, map |-> None, gen |-> None]

\* A fresh GameLogSession.
Loaded(m, obs) ==
    [map |-> m, phase |-> IF m = "menu" THEN "main_menu" ELSE "map_loaded",
     mode |-> None, readOnly |-> FALSE, gen |-> None, port |-> None,
     pool |-> None, acted |-> FALSE, ui |-> NoUi, rev |-> 0, movie |-> FALSE,
     loadObs |-> IF m = "menu" THEN 0 ELSE obs, movieObs |-> 0,
     alive |-> NoValue, wave |-> NoValue, sample |-> NoSample]
NoSession == [Loaded("menu", 0) EXCEPT !.map = None]

TypeOK ==
    /\ session.map \in Maps \cup {"menu", None}
    /\ said \in 0..MaxWorlds
    /\ seen = None \/ DOMAIN seen = {"active", "map", "gen", "rev", "load",
                                     "movie"}
    /\ window = None \/ window \in 0..scenes

(***************************************************************************)
(* The lines, and what each does to a session s.                            *)
(***************************************************************************)

InGame(s) == s.map \notin {"menu", None}

ClearSample(s) == [s EXCEPT !.sample = NoSample]

\* clear_gameplay_snapshot: the listener belongs to the world too.
ClearGameplay(s) ==
    [ClearSample(s) EXCEPT !.port = None, !.ui = NoUi, !.alive = NoValue,
                           !.wave = NoValue]

NetModeRead(s, l) ==
    IF s = NoSession \/ s.mode = l.mode THEN s
    ELSE LET t == [s EXCEPT !.mode = l.mode, !.readOnly = FALSE, !.gen = None]
         IN  IF l.mode # "standalone" THEN ClearGameplay(t) ELSE t

\* Mutant: a new world on the same map keeps what was measured in the old one.
ReceiptOfMap(s, l) ==
    IF s = NoSession \/ s.mode \notin {None, "standalone", l.mode} THEN s
    ELSE LET t == IF s.map # l.map THEN ClearGameplay(s) ELSE s
             u == IF s.map # l.map
                  THEN [t EXCEPT !.map = l.map, !.phase = "map_loaded",
                                 !.movie = FALSE, !.pool = None,
                                 !.acted = FALSE]
                  ELSE t
         IN  [u EXCEPT !.mode = l.mode, !.readOnly = TRUE, !.gen = l.gen]

\* The provider's receipt of an online session: it replaces a net mode that
\* was left over from the menu, but not one that says otherwise.
ReceiptRead(s, l) ==
    IF s = NoSession \/ s.mode \notin {None, "standalone", l.mode} THEN s
    ELSE LET t == IF s.map # l.map \/ s.gen # l.gen THEN ClearGameplay(s) ELSE s
             u == IF s.map # l.map
                  THEN [t EXCEPT !.map = l.map, !.phase = "map_loaded",
                                 !.movie = FALSE, !.pool = None,
                                 !.acted = FALSE]
                  ELSE t
         IN  [u EXCEPT !.mode = l.mode, !.readOnly = TRUE, !.gen = l.gen]

BridgeRead(s, l) ==
    IF InGame(s) /\ s.phase # "match_ended" THEN [s EXCEPT !.port = l.port]
    ELSE s

\* apply_online_corpse_line: what the corpse pool can hold, and that it acts.
CorpseRead(s, l) ==
    IF InGame(s) /\ s.readOnly
    THEN IF l.state = "populated" THEN [s EXCEPT !.pool = l.pool]
         ELSE [s EXCEPT !.acted = TRUE]
    ELSE s

\* An online receipt must name this session; a change counts as a revision.
UiRead(s, l) ==
    IF InGame(s) /\ s.phase # "match_ended"
       /\ (s.readOnly => /\ l.ui.map = s.map /\ l.ui.gen = s.gen
                         /\ l.mode = s.mode)
       /\ s.ui # l.ui
    THEN [s EXCEPT !.ui = l.ui, !.rev = @ + 1]
    ELSE s

MovieStartRead(s) == IF InGame(s) THEN [s EXCEPT !.movie = TRUE] ELSE s

\* The end of a movie counts if one was running or it took another time.
MovieEndRead(s, l, obs) ==
    IF InGame(s) /\ (s.movie \/ l.other) THEN [s EXCEPT !.movie = FALSE, !.movieObs = obs]
    ELSE s

\* The counters of the stock game are read offline only.
Offline(s) == InGame(s) /\ s.mode = "standalone"

CountRead(s, l, obs) ==
    IF Offline(s) THEN [s EXCEPT !.alive = [v |-> l.v, obs |-> obs]] ELSE s

WaveRead(s, l, obs) ==
    IF Offline(s) THEN [s EXCEPT !.wave = [v |-> l.v, obs |-> obs]] ELSE s

\* A sample is taken only if every field is there and within its limit ...
InRange(l) == {l.total, l.awake} \subseteq 0..EntityMax

\* ... and the parts fit the totals they are parts of.
Consistent(l) == l.awake <= l.total /\ (l.detail # None => l.detail <= l.total)

\* What a line counts in every tick.
Counted(l, obs) ==
    [v |-> l.v, total |-> l.total, awake |-> l.awake, detail |-> None, obs |-> obs]

\* apply_offline_telemetry_snapshot: a sample without a scan has no detail.
Apply(s, l) == l.detail

SampleRead(s, l, obs) ==
    IF Offline(s) /\ InRange(l) /\ Consistent(l)
    THEN [s EXCEPT !.sample = [Counted(l, obs) EXCEPT !.detail = Apply(s, l)]]
    ELSE s

EndedRead(s) ==
    IF InGame(s) /\ s.phase # "match_ended"
    THEN [ClearGameplay(s) EXCEPT !.phase = "match_ended"] ELSE s

\* One line of a chunk that is read at obs.
LineRead(s, l, obs) ==
    CASE l.kind = "load" -> Loaded(l.map, obs)
      [] l.kind = "netmode" -> NetModeRead(s, l)
      [] l.kind = "receipt" -> ReceiptRead(s, l)
      [] l.kind = "bridge" -> BridgeRead(s, l)
      [] l.kind = "corpse" -> CorpseRead(s, l)
      [] l.kind = "ui" -> UiRead(s, l)
      [] l.kind = "movie_start" -> MovieStartRead(s)
      [] l.kind = "movie_end" -> MovieEndRead(s, l, obs)
      [] l.kind = "alive" -> CountRead(s, l, obs)
      [] l.kind = "wave" -> WaveRead(s, l, obs)
      [] l.kind = "sample" -> SampleRead(s, l, obs)
      [] l.kind = "ended" -> EndedRead(s)

(***************************************************************************)
(* The game.  Its lines tell of the world it is in; the provider speaks in  *)
(* an online world only after its receipt.                                  *)
(***************************************************************************)

Init ==
    /\ world = [id |-> 0, map |-> "menu", mode |-> "standalone", told |-> TRUE,
                ended |-> FALSE]
    /\ lines = 0 /\ now = 1 /\ reading = None /\ blind = FALSE
    /\ session = NoSession /\ said = 0 /\ scenes = 0
    /\ seen = None /\ window = None

\* The parser takes the next line; a chunk is opened by its first.
Read(l) ==
    /\ lines < MaxLines /\ lines' = lines + 1
    /\ reading' \in IF reading = None THEN {"current", "history"} ELSE {reading}
    /\ session' = LineRead(session, l, now)
    /\ said' = IF \/ l.kind = "load"
                  \/ l.kind = "receipt" /\ session'.gen # session.gen
               THEN world'.id ELSE said
    /\ scenes' = IF \/ l.kind = "load" \/ session'.gen # session.gen
                    \/ session'.ui # session.ui
                    \/ session'.movieObs # session.movieObs
                 THEN scenes + 1 ELSE scenes
    /\ UNCHANGED <<now, blind, stats>>

Enter(m, mode, told) ==
    /\ world.id < MaxWorlds
    /\ world' = [id |-> world.id + 1, map |-> m, mode |-> mode, told |-> told,
                 ended |-> FALSE]

\* A map is loaded, alone or as the client or host of an online game.
LoadMap(m, mode) ==
    /\ Enter(m, mode, mode \notin Online)
    /\ m = "menu" => mode = "standalone"
    /\ Read([kind |-> "load", map |-> m])

\* An online game travels on without a line of the engine.
Travel(m) ==
    /\ world.mode \in Online /\ session # NoSession
    /\ Enter(m, world.mode, FALSE)
    /\ UNCHANGED <<lines, now, reading, parser, blind, stats>>

NetModeLine ==
    /\ session # NoSession /\ UNCHANGED world
    /\ Read([kind |-> "netmode", mode |-> world.mode])

ReceiptLine ==
    /\ session # NoSession /\ world.mode \in Online /\ world.map # "menu"
    /\ world' = [world EXCEPT !.told = TRUE]
    /\ Read([kind |-> "receipt", mode |-> world.mode, map |-> world.map,
             gen |-> world.id])

\* A listener that could not be opened says so.
BridgeLine ==
    /\ session # NoSession /\ world.told /\ UNCHANGED world
    /\ \E port \in {world.id, None} : Read([kind |-> "bridge", port |-> port])

CorpseLine ==
    /\ session # NoSession /\ world.told /\ world.mode \in Online
    /\ UNCHANGED world
    /\ \E state \in {"populated", "action"} :
         Read([kind |-> "corpse", state |-> state, pool |-> world.id])

UiLine ==
    /\ session # NoSession /\ UNCHANGED world
    /\ \E state \in {"gameplay", "menu"} :
         Read([kind |-> "ui", mode |-> world.mode,
               ui |-> IF world.mode \in Online
                      THEN [state |-> state, map |-> world.map,
                            gen |-> world.id]
                      ELSE [NoUi EXCEPT !.state = state]])

MovieLine ==
    /\ session # NoSession /\ UNCHANGED world
    /\ \/ Read([kind |-> "movie_start"])
       \/ \E other \in BOOLEAN : Read([kind |-> "movie_end", other |-> other])

CountLine ==
    /\ session # NoSession /\ world.mode # "client" /\ UNCHANGED world
    /\ \E kind \in {"alive", "wave"} : Read([kind |-> kind, v |-> world.id])

\* The provider samples offline, with or without its diagnostic scan.
SampleLine ==
    /\ session # NoSession /\ world.mode = "standalone" /\ UNCHANGED world
    /\ \E total, awake \in 0..EntityMax + 1, detail \in {None, 0, 1} :
         Read([kind |-> "sample", v |-> world.id, total |-> total,
               awake |-> awake, detail |-> detail])

EndedLine ==
    /\ session # NoSession /\ world.mode # "client" /\ ~world.ended
    /\ world' = [world EXCEPT !.ended = TRUE]
    /\ Read([kind |-> "ended"])

(***************************************************************************)
(* The end of a chunk, old observations, and the drain of the frames.       *)
(***************************************************************************)

\* Reading history brings the map up to date, but no measurement.
WithoutMeasurements(s) ==
    [ClearSample(s) EXCEPT !.alive = NoValue, !.wave = NoValue,
                           !.loadObs = 0, !.movieObs = 0]

EndChunk ==
    /\ reading # None /\ reading' = None
    /\ session' = IF reading = "history" THEN WithoutMeasurements(session)
                  ELSE session
    /\ blind' = (\/ blind
                 \/ reading = "history" /\ session.loadObs + session.movieObs > 0)
    /\ now' = now + 1
    /\ UNCHANGED <<game, said, scenes, stats>>

Old(value) == value.obs # 0 /\ now - value.obs > Freshness

\* expire_observations, between chunks.
Expire ==
    /\ reading = None /\ session # NoSession
    /\ Old(session.alive) \/ Old(session.wave) \/ Old(session.sample)
    /\ session' = [session EXCEPT
         !.alive = IF Old(@) THEN NoValue ELSE @,
         !.wave = IF Old(@) THEN NoValue ELSE @,
         !.sample = IF Old(@) THEN NoSample ELSE @]
    /\ UNCHANGED <<game, now, reading, said, scenes, blind, stats>>

\* game_log_is_active_gameplay
Active(s) ==
    /\ InGame(s) /\ s.phase = "map_loaded" /\ ~s.movie
    /\ s.ui.state = "gameplay"
    /\ s.readOnly => s.ui.map = s.map /\ s.gen # None /\ s.ui.gen = s.gen

Seen == IF session = NoSession THEN None
        ELSE [active |-> Active(session), map |-> session.map,
              gen |-> session.gen, rev |-> session.rev,
              load |-> session.loadObs, movie |-> session.movieObs]

\* The session is not where the last drain left it.
Moved(p, c) ==
    \/ ~p.active \/ c.map # p.map \/ c.gen # p.gen \/ c.rev # p.rev
    \/ c.load # 0 /\ c.load # p.load
    \/ c.movie # 0 /\ c.movie # p.movie

Drain ==
    /\ reading = None /\ seen # Seen
    /\ window' = IF ~Active(session) THEN None
                 ELSE IF seen = None THEN scenes
                 ELSE IF Moved(seen, Seen) THEN scenes ELSE window
    /\ seen' = Seen
    /\ blind' = (blind /\ window' = window)
    /\ UNCHANGED <<game, now, reading, parser>>

Lines == NetModeLine \/ ReceiptLine \/ BridgeLine \/ CorpseLine \/ UiLine
             \/ MovieLine \/ CountLine \/ SampleLine \/ EndedLine

Next ==
    \/ \E m \in Maps \cup {"menu"}, mode \in {"standalone"} \cup Online :
         LoadMap(m, mode)
    \/ \E m \in Maps : Travel(m)
    \/ Lines
    \/ EndChunk \/ Expire \/ Drain

Spec == Init /\ [][Next]_vars

--------------------------------------------------------------------------------
(***************************************************************************)
(* Properties.                                                              *)
(***************************************************************************)

\* Nothing that was measured or announced in an earlier world is part of the
\* session: neither a count, a wave or a sample, nor the control port, also
\* when the next world is on the same map.
NothingOfAnEarlierWorld ==
    session # NoSession =>
        \A v \in {session.alive.v, session.wave.v, session.sample.v,
                  session.port} : v \in {None, said}

\* A sample in the session is one line of the provider: its totals and its
\* diagnostic detail were counted in the same tick.
SampleIsOneLine ==
    session # NoSession /\ session.sample.v # None =>
        /\ session.sample.awake <= session.sample.total
        /\ session.sample.detail # None =>
             session.sample.detail <= session.sample.total

\* After a drain the FPS statistics cover one scene: they began after the last
\* map, generation, menu or loading movie, unless history wiped the time of a load.
StatisticsAreOfOneScene ==
    reading = None /\ ~blind /\ seen # None /\ seen = Seen /\ window # None =>
        window = scenes

\* What is shown together belongs together: the counts, the wave, the sample and
\* the control port of the session to one world, the sample to one line, the
\* statistics to one scene.  The phase of an ended match is not claimed, it
\* survives a receipt for the same map (NewWorldIsNew).
SessionIsOneWorld ==
    NothingOfAnEarlierWorld /\ SampleIsOneLine /\ StatisticsAreOfOneScene

\* What the test of the parser says of a travel to the same map ("still a new
\* World"): once its receipt is read, the session is not at the end of the
\* match of the world before.
NewWorldIsNew ==
    session.readOnly /\ session.gen = world.id /\ ~world.ended =>
        session.phase # "match_ended"
================================================================================
