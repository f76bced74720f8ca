----------------------------- MODULE VideoSettings -----------------------------
(***************************************************************************)
(* KF2's graphics settings (src/src/game/video_settings.cpp and             *)
(* src/src/app/application_video_state.cpp, with the document editing of    *)
(* src/src/config/ini_document.cpp).  The choices of KF2's graphics menu    *)
(* are spread over keys of three INI files that KF2 and the player rewrite  *)
(* at any moment.  The program reads the files into choices, lets the       *)
(* player change one, rereads and rebases the change on what the files now  *)
(* hold, and writes back only the keys of the choices that changed.         *)
(*                                                                          *)
(* A document maps each key the program reads back to the values of its     *)
(* lines, in order.  Keys that are written and never read, labels and       *)
(* number formats are left out; percentages and scales are in hundredths.   *)
(* A resolution is its value and not its place in the list of the menu.     *)
(***************************************************************************)
EXTENDS Integers, Sequences, FiniteSets, SequencesExt

CONSTANTS
    None,
    Odd,            \* a value the menu never writes: no number, no choice of an option
    Menus,          \* the sets of options the player and KF2 change, one per behaviour
    MaxChanges,     \* bound: changes the player makes
    MaxForeign      \* bound: writes of the files by KF2 or the player

Resolutions == {1280, 1920, 2560}
Grains == {0, 50, 99, 100}

(* The number of choices of an option (video_choice_count).                 *)
Count == [display |-> 3, environment |-> 4, fx |-> 4, texture_resolution |-> 4,
          texture_filtering |-> 4, shadow |-> 4, character |-> 3, bloom |-> 3,
          ambient_occlusion |-> 3, flex |-> 3, vsync |-> 2, variable_rate |-> 2,
          reflections |-> 2, anti_aliasing |-> 2, motion_blur |-> 2, depth_of_field |-> 2,
          volumetric |-> 2, lens_flares |-> 2, light_shafts |-> 2]

Listed == DOMAIN Count
Options == Listed \cup {"resolution", "grain"}
ValuesOf(o) == CASE o = "resolution" -> Resolutions [] o = "grain" -> Grains
                [] OTHER -> 0..(Count[o] - 1)

(* The presets of the "Graphics quality" option.                            *)
PresetOptions ==
    <<"environment", "character", "fx", "texture_resolution", "texture_filtering", "shadow",
      "reflections", "anti_aliasing", "bloom", "motion_blur", "ambient_occlusion",
      "depth_of_field", "volumetric", "lens_flares", "light_shafts">>
Presets == << <<0,0,0,0,0,0,0,0,0,0,0,0,0,0,0>>, <<1,0,1,1,1,1,0,1,1,0,0,0,0,0,0>>,
              <<2,1,2,2,2,2,0,1,2,0,1,1,1,1,1>>, <<3,2,3,3,3,3,1,1,2,1,2,1,1,1,1>> >>
Preset(p, o, otherwise) ==
    LET at == {i \in DOMAIN PresetOptions : PresetOptions[i] = o}
    IN  IF at = {} THEN otherwise ELSE Presets[p + 1][CHOOSE i \in at : TRUE]
WithPreset(s, p) == [o \in Options |-> Preset(p, o, s[o])]

Defaults(s) == [WithPreset(s, 1) EXCEPT !.vsync = 0, !.variable_rate = 1, !.grain = 0]

(***************************************************************************)
(* The documents                                                            *)
(***************************************************************************)

(* Two of the texture groups: one whose mip filter the menu never raises,   *)
(* and one of the others.                                                   *)
Groups == {"UI", "Character"}
Bias(g) == IF g = "UI" THEN <<0,0,0,0>> ELSE <<3,2,1,0>>
MinMag == <<"linear", "linear", "aniso", "aniso">>
Mip(g) == IF g = "UI" THEN <<"point", "point", "point", "point">>
                ELSE <<"point", "linear", "linear", "linear">>
Anisotropy == <<1, 1, 4, 16>>
Lifetime == <<25, 50, 100, 120>>
Pool == <<25, 50, 100, 200>>
Texels == <<50, 100, 130, 200>>

Files == {"system", "game", "engine"}
SystemKeys == {"Fullscreen", "Borderless", "Res", "UseVsync", "ImageGrainScaler", "DetailMode",
    "Lifetime", "SkeletalMeshLODBias", "AllowSubsurfaceScattering", "DistanceFogQuality",
    "EmitterPool", "WholeSceneShadows", "MaxShadowResolution", "ShadowTexels", "Reflections",
    "PostProcessAA", "Bloom", "BloomQuality", "MotionBlur", "AmbientOcclusion", "HBAO",
    "DepthOfField", "LightCones", "LensFlares", "LightShafts", "MaxAnisotropy"} \cup Groups
GameKeys == {"SmoothFrameRate", "WorldLifetime", "WorldEmitterPool"}
EngineKeys == {"PhysXLevel"}
Keys == SystemKeys \cup GameKeys \cup EngineKeys
FileOf(k) == IF k \in SystemKeys THEN "system" ELSE IF k \in GameKeys THEN "game" ELSE "engine"

(* IniDocument::find: the last line of the key counts.                      *)
Find(d, k) == IF d[k] = <<>> THEN None ELSE Last(d[k])
Is(d, k) == Find(d, k) = TRUE
Num(d, k, default) == IF d[k] = <<>> THEN default ELSE Find(d, k)

(* The keys and values one choice is written as.                            *)
Flag(k, v) == [key \in {k} |-> v # 0]
Keyed(o, v) ==
    CASE o = "display" -> [Fullscreen |-> v = 2, Borderless |-> v = 1]
      [] o = "resolution" -> [Res |-> v]
      [] o = "vsync" -> Flag("UseVsync", v)
      [] o = "grain" -> [ImageGrainScaler |-> 50 + 37 * v]
      [] o = "character" -> [SkeletalMeshLODBias |-> IF v = 0 THEN 1 ELSE 0,
                             AllowSubsurfaceScattering |-> v = 2]
      [] o = "shadow" -> [WholeSceneShadows |-> v # 0,
                          MaxShadowResolution |-> IF v = 3 THEN 1536 ELSE 1024,
                          ShadowTexels |-> Texels[v + 1]]
      [] o = "reflections" -> Flag("Reflections", v)
      [] o = "anti_aliasing" -> Flag("PostProcessAA", v)
      [] o = "bloom" -> [Bloom |-> v # 0, BloomQuality |-> v]
      [] o = "motion_blur" -> Flag("MotionBlur", v)
      [] o = "ambient_occlusion" -> [AmbientOcclusion |-> v # 0, HBAO |-> v = 2]
      [] o = "depth_of_field" -> Flag("DepthOfField", v)
      [] o = "volumetric" -> Flag("LightCones", v)
      [] o = "lens_flares" -> Flag("LensFlares", v)
      [] o = "light_shafts" -> Flag("LightShafts", v)
      [] o = "environment" -> [DetailMode |-> IF v < 2 THEN v ELSE 2,
                               Lifetime |-> Lifetime[v + 1], WorldLifetime |-> Lifetime[v + 1]]
      [] o = "fx" -> [DistanceFogQuality |-> IF v < 2 THEN 0 ELSE 1,
                      EmitterPool |-> Pool[v + 1], WorldEmitterPool |-> Pool[v + 1]]
      [] o = "texture_filtering" -> [MaxAnisotropy |-> Anisotropy[v + 1]]
      [] o = "texture_resolution" -> [key \in {} |-> 0]
      [] o = "flex" -> [PhysXLevel |-> v]
      [] o = "variable_rate" -> [SmoothFrameRate |-> v = 0]

Texture == {"texture_resolution", "texture_filtering"}
KeysOf(o) == DOMAIN Keyed(o, CHOOSE v \in ValuesOf(o) : TRUE) \cup (IF o \in Texture THEN Groups ELSE {})
Owner == [k \in Keys \ Groups |-> CHOOSE o \in Options : k \in KeysOf(o)]

Tuples == [bias : 0..3, minmag : {"linear", "aniso"}, mip : {"point", "linear"}]

(* A texture group keeps the fields of the options that are not written.    *)
Grouped(tuple, g, wish, S) ==
    [bias   |-> IF "texture_resolution" \in S THEN Bias(g)[wish["texture_resolution"] + 1]
                ELSE tuple.bias,
     minmag |-> IF "texture_filtering" \in S THEN MinMag[wish["texture_filtering"] + 1]
                ELSE tuple.minmag,
     mip    |-> IF "texture_filtering" \in S THEN Mip(g)[wish["texture_filtering"] + 1]
                ELSE tuple.mip]

(* A document with the choices of the options in S written: their keys have *)
(* one line, added where there was none (IniDocument::upsert), and a group  *)
(* that is no tuple stays.                                                  *)
Written(d, wish, S) ==
    [k \in Keys |->
       IF k \in Groups
       THEN IF S \cap Texture = {} \/ Find(d, k) = Odd THEN d[k]
            ELSE [i \in DOMAIN d[k] |-> Grouped(d[k][i], k, wish, S)]
       ELSE IF Owner[k] \in S THEN <<Keyed(Owner[k], wish[Owner[k]])[k]>> ELSE d[k]]

(* Keys that must hold a number within its range, if they are there at all. *)
Numbers == {"Res", "ImageGrainScaler", "DetailMode", "Lifetime", "WorldLifetime", "EmitterPool",
    "WorldEmitterPool", "SkeletalMeshLODBias", "DistanceFogQuality", "MaxAnisotropy",
    "MaxShadowResolution", "BloomQuality", "ShadowTexels", "PhysXLevel"}

(* One key that is not a number fails the whole reading; FleX must be there.*)
Legible(d) == (\A k \in Numbers : Find(d, k) # Odd) /\ d["PhysXLevel"] # <<>>

TupleIs(d, g, bias) == Find(d, g) # Odd /\ Find(d, g).bias = bias
FilterIs(d, g, i) == /\ Find(d, g) # Odd
                     /\ Find(d, g).minmag = MinMag[i] /\ Find(d, g).mip = Mip(g)[i]
FirstLevel(S) == IF S = {} THEN -1 ELSE (CHOOSE i \in S : \A j \in S : i <= j) - 1

TextureResolution(d) == FirstLevel({i \in 1..4 : \A g \in Groups : TupleIs(d, g, Bias(g)[i])})

(* A degree of anisotropy the menu does not know is shown as the next one.  *)
TextureFiltering(d) ==
    LET aniso == Num(d, "MaxAnisotropy", 16)
        known == {i \in 1..4 : Anisotropy[i] = aniso}
    IN IF known = {} THEN (IF aniso >= 16 THEN 3 ELSE IF aniso >= 4 THEN 2 ELSE 1)
       ELSE FirstLevel({i \in known : \A g \in Groups : FilterIs(d, g, i)})

Environment(d) ==
    LET mode == Num(d, "DetailMode", 2)
        life == Num(d, "WorldLifetime", Num(d, "Lifetime", 100))
    IN IF mode = 2 /\ life >= 115 THEN 3 ELSE mode

Fx(d) ==
    LET pool == Num(d, "WorldEmitterPool", Num(d, "EmitterPool", 100))
    IN IF Num(d, "DistanceFogQuality", 1) <= 0 THEN (IF pool <= 35 THEN 0 ELSE 1)
                                              ELSE (IF pool <= 110 THEN 2 ELSE 3)

Shadow(d) ==
    CASE Num(d, "MaxShadowResolution", 1024) >= 1536 -> 3
      [] OTHER -> IF Num(d, "ShadowTexels", 100) >= 130 THEN 2
                  ELSE IF Is(d, "WholeSceneShadows") THEN 1 ELSE 0

Clamped(x, low, high) == IF x < low THEN low ELSE IF x > high THEN high ELSE x
Bit(d, k) == IF Is(d, k) THEN 1 ELSE 0

(* The choice of one option a document stands for ...                       *)
Chosen(d, o) ==
    CASE o = "display" -> IF Is(d, "Fullscreen") THEN 2 ELSE Bit(d, "Borderless")
      [] o = "resolution" -> Num(d, "Res", 1920)
      [] o = "vsync" -> Bit(d, "UseVsync")
      [] o = "variable_rate" -> 1 - Bit(d, "SmoothFrameRate")
      [] o = "grain" -> Clamped((2 * (Num(d, "ImageGrainScaler", 50) - 50) + 37) \div 74, 0, 100)
      [] o = "environment" -> Environment(d)
      [] o = "character" -> IF Num(d, "SkeletalMeshLODBias", 0) > 0 THEN 0
                               ELSE 1 + Bit(d, "AllowSubsurfaceScattering")
      [] o = "fx" -> Fx(d)
      [] o = "texture_resolution" -> TextureResolution(d)
      [] o = "texture_filtering" -> TextureFiltering(d)
      [] o = "shadow" -> Shadow(d)
      [] o = "reflections" -> Bit(d, "Reflections")
      [] o = "anti_aliasing" -> Bit(d, "PostProcessAA")
      [] o = "bloom" -> IF Is(d, "Bloom") THEN Clamped(Num(d, "BloomQuality", 1), 1, 2) ELSE 0
      [] o = "motion_blur" -> Bit(d, "MotionBlur")
      [] o = "ambient_occlusion" -> IF Is(d, "HBAO") THEN 2 ELSE Bit(d, "AmbientOcclusion")
      [] o = "depth_of_field" -> Bit(d, "DepthOfField")
      [] o = "volumetric" -> Bit(d, "LightCones")
      [] o = "lens_flares" -> Bit(d, "LensFlares")
      [] o = "light_shafts" -> Bit(d, "LightShafts")
      [] o = "flex" -> Find(d, "PhysXLevel")

(* ... and of all of them (read_video_settings).                            *)
Read(d) == [o \in Options |-> Chosen(d, o)]

(* Mutant: the wish replaces what KF2 wrote since.                          *)
Rebase_Whole(original, base, desired) == desired

(* The changes from one reading to the wish, made to another reading.       *)
Rebase(original, base, desired) ==
    [o \in Options |-> IF desired[o] = base[o] THEN original[o] ELSE desired[o]]

Differing(wish, base) == {o \in Options : wish[o] # base[o]}

(* Mutant: a texture group that is no tuple is skipped.                     *)
Editable_Skipping(d, wish, base) ==
    \A o \in Differing(wish, base) : \A k \in KeysOf(o) : Len(d[k]) <= 1

(* build_video_preview edits the keys of the choices that differ, and       *)
(* refuses when one of those keys has two lines or a group is no tuple.     *)
Editable(d, wish, base) ==
    \A o \in Differing(wish, base) : \A k \in KeysOf(o) :
        Len(d[k]) <= 1 /\ (k \in Groups => Find(d, k) # Odd)
Edited(d, wish, base) == Written(d, wish, Differing(wish, base))

(***************************************************************************)
(* The program, KF2 and the player                                          *)
(***************************************************************************)

VARIABLES
    menu,           \* the options this behaviour changes
    doc,            \* the three files
    stamp,          \* their write times
    held,           \* the files the program holds open, closed to writers
    writing,        \* the file KF2 or the player is writing, or None
    running,        \* KF2 runs
    pc,             \* where the program stands
    purpose,        \* what the reading under way is for
    before,         \* the write times taken before it
    snap,           \* the documents it read
    saved, pending, \* the choices read last, and the ones the player wants; or None
    times,          \* the write times saved was read at, or None
    plan,           \* the documents the preview proposes
    asked,          \* ghost: the choices the player made that are not written yet; one put
                    \* back to what was read is none
    changes, foreign

vars == <<menu, doc, stamp, held, writing, running, pc, purpose, before, snap, saved, pending,
          times, plan, asked, changes, foreign>>
disk == <<menu, doc, stamp, writing, running, foreign>>

VideoAssumption == None \notin [Files -> Nat] /\ Odd \notin Tuples

Nothing == [o \in {} |-> 0]
Order == <<"system", "game", "engine">>
Closed == held' = {}

(* The files as the graphics menu of KF2 left them, at its Medium preset.   *)
Medium ==
    LET blank == [k \in Keys |-> IF k \in Groups
                                 THEN <<[bias |-> 0, minmag |-> "linear", mip |-> "linear"]>>
                                 ELSE <<>>]
        choice == WithPreset([o \in Options |-> IF o = "resolution" THEN 1920 ELSE 0], 1)
    IN Written(blank, choice, Options)

Init ==
    /\ menu \in Menus /\ doc = Medium /\ stamp = [f \in Files |-> 0]
    /\ held = {} /\ writing = None /\ running \in BOOLEAN
    /\ pc = "reload" /\ purpose = "reload" /\ before = stamp /\ snap = None
    /\ saved = None /\ pending = None /\ times = None /\ plan = None
    /\ asked = Nothing /\ changes = 0 /\ foreign = 0

StartReading(p) ==
    /\ pc' = "open" /\ purpose' = p /\ before' = stamp /\ snap' = None
    /\ UNCHANGED <<disk, held, saved, pending, times, plan, asked, changes>>

(* What a failed reading means to who asked for it: no settings to show, or *)
(* a save refused for now with the player's wish kept.                      *)
Unread ==
    /\ pc' = "idle" /\ held' = {}
    /\ IF purpose = "reload" THEN saved' = None /\ pending' = None /\ asked' = Nothing
                             ELSE UNCHANGED <<saved, pending, asked>>
    /\ UNCHANGED <<disk, purpose, before, snap, times, plan, changes>>

(* open_video_snapshot: the three files in turn, each closed to writers     *)
(* until all are read.                                                      *)
Open ==
    /\ pc = "open"
    /\ LET f == Order[Cardinality(held) + 1] IN
       IF f = writing THEN Unread
       ELSE /\ held' = held \cup {f} /\ pc' = IF held' = Files THEN "read" ELSE "open"
            /\ UNCHANGED <<disk, purpose, before, snap, saved, pending, times, plan, asked, changes>>

ReadAll ==
    /\ pc = "read" /\ Closed
    /\ pc' = "after" /\ snap' = doc
    /\ UNCHANGED <<disk, purpose, before, saved, pending, times, plan, asked, changes>>

(* reload_video_settings: the write times are kept only when they did not   *)
(* move during the reading.                                                 *)
Reloaded ==
    /\ pc = "after" /\ purpose = "reload"
    /\ IF Legible(snap)
       THEN /\ saved' = Read(snap) /\ pending' = saved' /\ asked' = Nothing /\ pc' = "idle"
            /\ times' = IF stamp = before THEN stamp ELSE None
            /\ UNCHANGED <<disk, held, purpose, before, snap, plan, changes>>
       ELSE Unread

(* synchronize_video_settings_from_game: a reading during which the files   *)
(* moved counts for nothing; otherwise the player's wish is rebased on it.  *)
Synchronized ==
    /\ pc = "after" /\ purpose \in {"save", "poll"}
    /\ IF Legible(snap) /\ stamp = before
       THEN /\ saved' = Read(snap) /\ pending' = Rebase(Read(snap), saved, pending)
            /\ times' = before /\ pc' = IF purpose = "save" THEN "check" ELSE "idle"
            /\ asked' = [o \in {o \in DOMAIN asked : pending'[o] # saved'[o]} |-> asked[o]]
            /\ UNCHANGED <<disk, held, purpose, before, snap, plan, changes>>
       ELSE Unread

(* build_video_preview: the edits of a fresh reading.                       *)
Built ==
    /\ pc = "after" /\ purpose = "build"
    /\ IF Editable(snap, pending, saved)
       THEN /\ plan' = Edited(snap, pending, saved) /\ pc' = "apply"
            /\ UNCHANGED <<disk, held, purpose, before, snap, saved, pending, times, asked, changes>>
       ELSE Unread

(* The timer of the Graphics page rereads files whose write times moved.    *)
Poll ==
    /\ pc = "idle" /\ saved # None /\ times # stamp
    /\ StartReading("poll")

Reload == pc = "reload" /\ StartReading("reload")

(* The player changes one option to the next choice, or all of them to a    *)
(* preset or to the defaults, and the change is saved at once; without      *)
(* settings to change they are read again.                                  *)
Nexts(o) ==
    IF o = "resolution" THEN Resolutions \ {pending[o]}
    ELSE IF o = "grain" THEN Grains \ {pending[o]}
    ELSE {IF pending[o] \in 0..(Count[o] - 2) THEN pending[o] + 1 ELSE 0}

Wishes(o) ==
    IF o = "overall" THEN {WithPreset(pending, p) : p \in 0..3} \cup {Defaults(pending)}
    ELSE {[pending EXCEPT ![o] = v] : v \in Nexts(o)}

Choose(o) ==
    /\ pc = "idle" /\ ~running /\ pending # None /\ changes < MaxChanges
    /\ \E wish \in Wishes(o) :
        /\ wish # pending
        /\ pending' = wish
        /\ LET chosen == Differing(wish, pending) \cup DOMAIN asked IN
           asked' = [x \in {x \in chosen : wish[x] # saved[x]} |-> wish[x]]
    /\ pc' = "save" /\ changes' = changes + 1
    /\ UNCHANGED <<disk, held, purpose, before, snap, saved, times, plan>>

ChooseUnread ==
    /\ pc = "idle" /\ pending = None /\ changes < MaxChanges
    /\ pc' = "reload" /\ changes' = changes + 1
    /\ UNCHANGED <<disk, held, purpose, before, snap, saved, pending, times, plan, asked>>

(* apply_video_settings: the wish is first rebased if the files moved ...   *)
Save ==
    /\ pc = "save"
    /\ IF times = stamp
       THEN /\ pc' = "check"
            /\ UNCHANGED <<disk, held, purpose, before, snap, saved, pending, times, plan, asked,
                           changes>>
       ELSE StartReading("save")

(* ... vertical sync and variable rate are turned off whatever was asked,   *)
(* and nothing is written for KF2 running or a wish that changes nothing.   *)
Forced(s) == [s EXCEPT !.vsync = 0, !.variable_rate = 0]

Check ==
    /\ pc = "check" /\ pending' = Forced(pending)
    /\ asked' = [o \in DOMAIN asked \ {"vsync", "variable_rate"} |-> asked[o]]
    /\ IF pending' = saved \/ running
       THEN pc' = "reload" /\ UNCHANGED <<purpose, before>>
       ELSE pc' = "open" /\ purpose' = "build" /\ before' = stamp
    /\ UNCHANGED <<disk, held, snap, saved, times, plan, changes>>

(* apply_preview: all three files must still be what the preview was built  *)
(* from; a write that fails otherwise is rolled back and the settings are   *)
(* read again.                                                              *)
Apply ==
    /\ pc = "apply"
    /\ \/ /\ doc = snap /\ writing = None /\ pc' = "reload"
          /\ doc' = plan
          /\ stamp' = [f \in Files |->
                         IF \E k \in Keys : FileOf(k) = f /\ plan[k] # doc[k]
                         THEN stamp[f] + 1 ELSE stamp[f]]
          /\ asked' = Nothing
       \/ doc # snap /\ pc' = "idle" /\ UNCHANGED <<doc, stamp, asked>>
       \/ doc = snap /\ pc' = "reload" /\ UNCHANGED <<doc, stamp, asked>>
    /\ UNCHANGED <<menu, writing, running, foreign, held, purpose, before, snap, saved, pending,
                   times, plan, changes>>

(* KF2's menu, or the player's editor, writes one file: a choice of one     *)
(* option as far as it lives there, or a key removed, repeated or spoilt.   *)
Program == <<held, running, pc, purpose, before, snap, saved, pending, times, plan, asked, changes>>

BeginWrite(f) ==
    /\ writing = None /\ f \notin held /\ foreign < MaxForeign
    /\ writing' = f /\ foreign' = foreign + 1
    /\ UNCHANGED <<menu, doc, stamp, Program>>

EndWrite(o) ==
    /\ writing # None
    /\ LET here == {k \in KeysOf(o) : FileOf(k) = writing} IN
       /\ here # {}
       /\ \/ \E v \in ValuesOf(o) :
               doc' = [k \in Keys |-> IF k \in here THEN Written(doc, [x \in {o} |-> v], {o})[k] ELSE doc[k]]
          \/ \E k \in here : doc' \in {[doc EXCEPT ![k] = <<Odd>>], [doc EXCEPT ![k] = @ \o @]}
          \/ \E k \in here \ Groups : doc' = [doc EXCEPT ![k] = <<>>]
    /\ stamp' = [stamp EXCEPT ![writing] = @ + 1] /\ writing' = None
    /\ UNCHANGED <<menu, foreign, Program>>

(* KF2 is started or closed.                                                *)
Toggle ==
    /\ running' = ~running
    /\ UNCHANGED <<menu, doc, stamp, held, writing, pc, purpose, before, snap, saved, pending, times,
                   plan, asked, changes, foreign>>

Next ==
    \/ Reload \/ Poll \/ Open \/ ReadAll \/ Reloaded \/ Synchronized \/ Built
    \/ (\E o \in menu : Choose(o)) \/ ChooseUnread \/ Save \/ Check \/ Apply
    \/ (\E f \in Files : BeginWrite(f)) \/ (\E o \in menu \cap Options : EndWrite(o)) \/ Toggle

Spec == Init /\ [][Next]_vars

TypeOK ==
    /\ menu \in Menus /\ DOMAIN doc = Keys /\ stamp \in [Files -> Nat]
    /\ held \subseteq Files /\ writing \in Files \cup {None} /\ running \in BOOLEAN
    /\ pc \in {"idle", "reload", "open", "read", "after", "save", "check", "apply"}
    /\ purpose \in {"reload", "poll", "save", "build"}
    /\ (saved = None) = (pending = None)
    /\ times = None \/ times \in [Files -> Nat]
    /\ changes \in 0..MaxChanges /\ foreign \in 0..MaxForeign

(***************************************************************************)
(* Properties                                                               *)
(***************************************************************************)

Saves == pc = "apply" /\ pc' = "reload" /\ doc' # doc

(* Saved graphics read back as what the player asked for, whichever of the  *)
(* three files KF2 rewrote meanwhile and however often the save had to be   *)
(* retried (read_video_settings, build_video_preview).                      *)
SavedIsAsked == [][Saves => \A o \in DOMAIN asked : Chosen(doc', o) = asked[o]]_vars

(* Saving changes nothing the player did not ask for: no key of another     *)
(* option, whatever KF2 wrote there since it was read, and no field of a    *)
(* texture group but those of the option asked for                          *)
(* (rebase_video_changes, update_texture_groups).                           *)
OthersKept ==
    [][Saves =>
        LET mine == DOMAIN asked \cup {"vsync", "variable_rate"} IN
        /\ \A k \in Keys \ UNION {KeysOf(o) : o \in mine} : doc'[k] = doc[k]
        /\ \A g \in Groups : doc'[g] # doc[g] =>
             /\ "texture_resolution" \in mine \/ doc'[g][1].bias = doc[g][1].bias
             /\ "texture_filtering" \in mine \/ /\ doc'[g][1].mip = doc[g][1].mip
                                                /\ doc'[g][1].minmag = doc[g][1].minmag]_vars

(* The choices on the Graphics page are never taken for current when they   *)
(* are not: while the write times of the files are the remembered ones, the *)
(* page shows what the files hold (reload_video_settings,                   *)
(* synchronize_video_settings_from_game).                                   *)
ShownIsCurrent ==
    saved # None /\ times = stamp /\ writing = None => Legible(doc) /\ saved = Read(doc)
=============================================================================
