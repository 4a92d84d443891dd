----------------------------- MODULE RobotFace -----------------------------
(***************************************************************************)
(* What the robot shows: the companion app's main loop, the pool of        *)
(* modifiers that animate face and head, and the two modify locks that the *)
(* modifiers share.                                                        *)
(*                                                                         *)
(* Commands are executed in the main loop too, between two passes of the   *)
(* app; gestures and shakes come from tasks of their own and only leave    *)
(* flags. Times are left to chance, as far as the code's constants do not  *)
(* order them; a quiet time is longer than a pass. The four base modifiers *)
(* live in slots that are never freed: two of them have no state that      *)
(* matters here, and the pool starts after them. What a modifier draws,    *)
(* and where it moves the head, is left out.                               *)
(***************************************************************************)
EXTENDS Naturals, SequencesExt

CONSTANT MaxEvents             \* bound on commands, gestures and shakes

ASSUME FaceAssumption == MaxEvents \in Nat

VARIABLES
  mode,                        \* _local_state
  tracking,                    \* _face_tracking_target: "free", "held" or "target"
  quiet,                       \* millis() < _idle_suppress_until: "no", "yes", or "new"
  panel,                       \* _pairing_panel is open
  pending,                     \* _ws_react_data: "none", "preset" or "json"
  flags,                       \* events the base modifiers have not looked at yet
  face,                        \* modifiers, locks, emotion: see FaceType
  mishaps,                     \* history: what modifiers have done to each other
  events

faceVars == <<mode, tracking, quiet, panel, pending, flags, face, mishaps, events>>

Modes    == {"Idle", "Thinking", "Speaking"}
Emotions == {"Neutral", "Doubt", "Happy", "Sad"}
Kinds    == {"preset", "dance", "speech", "speaking", "idleMotion", "idleExpression"}
Mishaps  == {"presetLost", "locksCrossed", "overlaid"}

\* restore, lock and motion are the values that a preset puts back.
NoModifier == [kind |-> "none", started |-> FALSE, over |-> FALSE, moves |-> FALSE,
               restore |-> "Neutral", lock |-> FALSE, motion |-> FALSE]
Modifier(kind) == [NoModifier EXCEPT !.kind = kind]

ModifierType == {NoModifier} \cup
  [kind : Kinds, started : BOOLEAN, over : BOOLEAN, moves : BOOLEAN,
   restore : Emotions, lock : BOOLEAN, motion : BOOLEAN]

IdKinds == Kinds \ {"speech", "speaking"}

\* Slot numbers start at 1; an id is 0 where the code has -1.
FaceType ==
  [slots : Seq(ModifierType), free : Seq(Nat), id : [IdKinds -> Nat],
   emotion : Emotions, shown : Modes \cup {"none"}, avatarLock : BOOLEAN, motionLock : BOOLEAN,
   restore : Emotions, presetTime : BOOLEAN,
   happy : BOOLEAN, waiting : BOOLEAN, before : Emotions, reacting : BOOLEAN]

\* The free slots are those that hold nothing, each of them once.
PoolOK(f) ==
  /\ ToSet(f.free) = {i \in DOMAIN f.slots : f.slots[i] = NoModifier}
  /\ IsInjective(f.free)
  /\ \A kind \in IdKinds : f.id[kind] <= Len(f.slots)

FaceTypeOK ==
  /\ mode \in Modes /\ tracking \in {"free", "held", "target"}
  /\ quiet \in {"no", "yes", "new"} /\ panel \in BOOLEAN
  /\ pending \in {"none", "preset", "json"}
  /\ flags \subseteq {"swipe", "release", "shake"}
  /\ face \in FaceType /\ PoolOK(face)
  /\ mishaps \subseteq Mishaps /\ events \in 0..MaxEvents

FaceInit ==
  /\ mode = "Idle" /\ tracking = "free" /\ quiet = "new" /\ panel = FALSE
  /\ pending = "none" /\ flags = {} /\ mishaps = {} /\ events = 0
  /\ face = [slots |-> <<>>, free |-> <<>>, id |-> [kind \in IdKinds |-> 0],
             emotion |-> "Neutral",
             shown |-> "none",                    \* _last_visual_state
             avatarLock |-> FALSE, motionLock |-> FALSE,
             restore |-> "Neutral",               \* _expression_restore_emotion
             presetTime |-> FALSE,                \* now < _expression_preset_active_until
             happy |-> FALSE, waiting |-> FALSE, before |-> "Neutral",   \* HeadPetModifier
             reacting |-> FALSE]                  \* ImuEventModifier

-----------------------------------------------------------------------------
(***************************************************************************)
(* The pool.                                                               *)
(***************************************************************************)
Held(f, id) == IF id \in DOMAIN f.slots THEN f.slots[id] ELSE NoModifier

Has(f, kind) == \E i \in DOMAIN f.slots : f.slots[i].kind = kind

\* The slot that was freed last is used first, a new one when none is free.
NextSlot(f) == IF f.free = <<>> THEN Len(f.slots) + 1 ELSE Last(f.free)

Create(f, modifier) ==
  [f EXCEPT !.slots = [i \in DOMAIN @ \cup {NextSlot(f)} |-> IF i = NextSlot(f) THEN modifier ELSE @[i]],
            !.free = Front(@)]

Destroy(f, id) ==
  IF Held(f, id) = NoModifier THEN f
  ELSE [f EXCEPT !.slots[id] = NoModifier, !.free = Append(@, id)]

\* Mutant: an id outlives its modifier's removal.
RemoveKeepsId(f, kind) == Destroy(f, f.id[kind])

\* remove_modifier: whatever the slot of the id holds by now is destroyed.
RemoveModifier(f, kind) == [Destroy(f, f.id[kind]) EXCEPT !.id[kind] = 0]

\* Mutant: the slots of modifiers that are over are not offered again.
CleanupForgetsFree(f) ==
  [f EXCEPT !.slots = [i \in DOMAIN @ |-> IF @[i].over THEN NoModifier ELSE @[i]]]

\* The elements of S, the smallest first.
Ascending(S) ==
  [k \in 1..Cardinality(S) |-> CHOOSE x \in S : Cardinality({y \in S : y <= x}) = k]

Cleanup(f) ==
  [f EXCEPT !.slots = [i \in DOMAIN @ |-> IF @[i].over THEN NoModifier ELSE @[i]],
            !.free = @ \o Ascending({i \in DOMAIN f.slots : f.slots[i].over})]

-----------------------------------------------------------------------------
(***************************************************************************)
(* Expression presets.                                                     *)
(***************************************************************************)
ClearFinishedPreset(f) ==
  IF f.id["preset"] # 0 /\ Held(f, f.id["preset"]) = NoModifier
  THEN [f EXCEPT !.id["preset"] = 0, !.presetTime = FALSE]
  ELSE f

Finish(f, id) ==
  LET m == f.slots[id] IN
  IF ~m.started \/ m.over THEN [f EXCEPT !.slots[id].over = TRUE]
  ELSE [f EXCEPT !.slots[id].over = TRUE, !.emotion = m.restore, !.avatarLock = m.lock,
                 !.motionLock = IF m.moves THEN m.motion ELSE @]

\* Another modifier in the slot of the preset is taken for a preset; what its
\* memory says of a preset is any `junk`.
Miscast(f) == Held(f, f.id["preset"]).kind \notin {"none", "preset"}

FinishExpressionPreset(f, junk) ==
  IF f.id["preset"] = 0 THEN f
  ELSE RemoveModifier(IF Miscast(f)
              THEN [f EXCEPT !.emotion = junk.emotion, !.avatarLock = junk.lock,
                             !.motionLock = junk.motion]
              ELSE IF Held(f, f.id["preset"]) = NoModifier THEN f
              ELSE Finish(f, f.id["preset"]), "preset")

\* Mutant: the preset that runs is left to itself.
ShowPresetBesides(f, junk) ==
  LET g == [f EXCEPT !.restore = IF f.presetTime THEN @ ELSE f.emotion]
      preset == [Modifier("preset") EXCEPT !.moves = tracking = "free", !.restore = g.restore]
  IN  [Create(g, preset) EXCEPT !.id["preset"] = NextSlot(g), !.presetTime = TRUE]

ShowPreset(f, junk) ==
  LET finished == FinishExpressionPreset(f, junk)
      g == [finished EXCEPT !.restore = IF f.presetTime THEN @ ELSE finished.emotion]
      preset == [Modifier("preset") EXCEPT !.moves = tracking = "free", !.restore = g.restore]
  IN  [Create(g, preset) EXCEPT !.id["preset"] = NextSlot(g), !.presetTime = TRUE]

React(f, junk) ==
  CASE pending = "none"   -> f
    [] pending = "json"   -> [FinishExpressionPreset(ClearFinishedPreset(f), junk)
                                EXCEPT !.presetTime = FALSE]
    [] pending = "preset" -> ShowPreset(ClearFinishedPreset(f), junk)

-----------------------------------------------------------------------------
(***************************************************************************)
(* One pass of the modifiers.                                              *)
(***************************************************************************)
EmotionOf(m) == CASE m = "Idle" -> "Neutral" [] m = "Thinking" -> "Doubt" [] m = "Speaking" -> "Happy"

ShowMode(f) ==
  IF mode = f.shown THEN f
  ELSE LET g == [f EXCEPT !.shown = mode, !.emotion = EmotionOf(mode)]
       IN  IF mode = "Speaking" THEN Create(g, Modifier("speaking")) ELSE g

Swipe(f) ==
  IF "swipe" \notin flags THEN f
  ELSE [f EXCEPT !.before = IF f.happy THEN @ ELSE f.emotion,
                 !.happy = TRUE, !.emotion = "Happy", !.waiting = FALSE]

Release(f) ==
  IF "release" \in flags /\ f.happy THEN [f EXCEPT !.waiting = TRUE] ELSE f

\* Mutant: the face from before the first swipe is not put back.
PetWithoutRestoring(f, time) ==
  LET g == Release(Swipe(f)) IN
  IF g.waiting /\ "pet" \in time
  THEN [g EXCEPT !.waiting = FALSE, !.happy = FALSE] ELSE g

UpdateHeadPet(f, time) ==
  LET g == Release(Swipe(f)) IN
  IF g.waiting /\ "pet" \in time
  THEN [g EXCEPT !.waiting = FALSE, !.happy = FALSE, !.emotion = g.before] ELSE g

\* Mutant: a reaction ends and leaves the avatar locked.
ShakeKeepsLock(f, time) ==
  LET started == "shake" \in flags /\ ~f.reacting
      g == [f EXCEPT !.reacting = @ \/ started, !.avatarLock = @ \/ started]
  IN  IF ~g.reacting THEN g
      ELSE IF "shake" \in time /\ "shake" \notin flags
      THEN [g EXCEPT !.reacting = FALSE, !.motionLock = FALSE]
      ELSE [g EXCEPT !.motionLock = TRUE]

UpdateImu(f, time) ==
  LET started == "shake" \in flags /\ ~f.reacting
      g == [f EXCEPT !.reacting = @ \/ started, !.avatarLock = @ \/ started]
  IN  IF ~g.reacting THEN g
      ELSE IF "shake" \in time /\ "shake" \notin flags
      THEN [g EXCEPT !.reacting = FALSE, !.avatarLock = FALSE, !.motionLock = FALSE]
      ELSE [g EXCEPT !.motionLock = TRUE]

StartPreset(f, i) ==
  [f EXCEPT !.slots[i] = [@ EXCEPT !.started = TRUE, !.lock = f.avatarLock, !.motion = f.motionLock],
            !.avatarLock = TRUE, !.motionLock = @ \/ f.slots[i].moves, !.emotion = "Sad"]

UpdatePreset(f, ended) ==
  IF ~Has(f, "preset") THEN f
  ELSE LET i == CHOOSE i \in DOMAIN f.slots : f.slots[i].kind = "preset" IN
       IF ~f.slots[i].started THEN StartPreset(f, i)
       ELSE IF i \in ended THEN Finish(f, i) ELSE f

\* A dance and a moving mouth are over when their time is `up`, a speech after its start.
UpdateTimed(m, up) ==
  CASE m.kind \in {"dance", "speaking"} -> [m EXCEPT !.over = m.over \/ up]
    [] m.kind = "speech" -> [m EXCEPT !.over = m.started /\ up, !.started = TRUE]
    [] OTHER -> m

UpdateOthers(f, ended) ==
  [f EXCEPT !.slots = [i \in DOMAIN @ |-> UpdateTimed(@[i], i \in ended)]]

Start(f, kind) ==
  IF f.id[kind] # 0 THEN f ELSE [Create(f, Modifier(kind)) EXCEPT !.id[kind] = NextSlot(f)]

ShouldRunIdle == ~panel /\ quiet = "no" /\ tracking = "free" /\ mode = "Idle"

SyncIdle(f, toggled) ==
  IF ShouldRunIdle /\ ~toggled THEN Start(Start(f, "idleMotion"), "idleExpression")
  ELSE RemoveModifier(RemoveModifier(f, "idleMotion"), "idleExpression")

-----------------------------------------------------------------------------
(***************************************************************************)
(* History. A preset is lost when it is removed without being finished.    *)
(* Locks cross when a shake and a preset hold them at once, and an overlay *)
(* is overlaid when the emotion changes below or above it.                 *)
(***************************************************************************)
PresetRuns(f) == \E i \in DOMAIN f.slots : f.slots[i].kind = "preset" /\ f.slots[i].started

Lost(f, kind) ==
  IF kind # "preset" /\ Held(f, f.id[kind]).kind = "preset" THEN {"presetLost"} ELSE {}

Crossed(f, g) ==
  IF (Has(g, "preset") \/ Has(f, "preset")) /\ (f.reacting \/ g.reacting)
  THEN {"locksCrossed"} ELSE {}

Overlaid(f, g) ==
  LET preset == Has(f, "preset") \/ Has(g, "preset")
      happy  == f.happy \/ g.happy
  IN  IF (preset /\ happy) \/ ((preset \/ happy) /\ f.shown # mode) THEN {"overlaid"} ELSE {}

-----------------------------------------------------------------------------
(***************************************************************************)
(* Events.                                                                 *)
(***************************************************************************)
Event == events < MaxEvents /\ events' = events + 1

PlayAnimation ==
  /\ Event /\ quiet' = "new"
  /\ face' = LET f == RemoveModifier(face, "dance")
             IN  [Create(f, Modifier("dance")) EXCEPT !.id["dance"] = NextSlot(f)]
  /\ mishaps' = mishaps \cup Lost(face, "dance")
  /\ UNCHANGED <<mode, tracking, panel, pending, flags>>

Say ==
  /\ Event /\ quiet' = "new"
  /\ face' = Create(Create(face, Modifier("speech")), Modifier("speaking"))
  /\ UNCHANGED <<mode, tracking, panel, pending, flags, mishaps>>

ReactCommand ==
  /\ Event /\ quiet' = "new"
  /\ pending' \in {"preset", "json"}
  /\ UNCHANGED <<mode, tracking, panel, flags, face, mishaps>>

SetMode ==
  /\ Event /\ quiet' = "new"
  /\ mode' \in Modes \ {mode}
  /\ UNCHANGED <<tracking, panel, pending, flags, face, mishaps>>

\* trackFace and the start of the camera stream: neither counts as activity.
TrackFace ==
  /\ Event /\ tracking' \in {"held", "target"}
  /\ UNCHANGED <<mode, quiet, panel, pending, flags, face, mishaps>>

Gesture ==
  /\ Event
  /\ \E flag \in {"swipe", "release", "shake"} : flags' = flags \cup {flag}
  /\ UNCHANGED <<mode, tracking, quiet, panel, pending, face, mishaps>>

\* A long press on the screen, in the display's task.
ScreenLongPress ==
  /\ Event /\ quiet' = "new" /\ panel' = ~panel
  /\ UNCHANGED <<mode, tracking, pending, flags, face, mishaps>>

-----------------------------------------------------------------------------
(***************************************************************************)
(* Time. Speech and the motion that goes with it end before the quiet time *)
(* of the command that started them.                                       *)
(***************************************************************************)
QuietEnds ==
  /\ quiet = "yes" /\ ~Has(face, "speech") /\ ~Has(face, "speaking") /\ quiet' = "no"
  /\ UNCHANGED <<mode, tracking, panel, pending, flags, face, mishaps, events>>

HoldEnds ==
  /\ tracking = "held" /\ tracking' = "free"
  /\ UNCHANGED <<mode, quiet, panel, pending, flags, face, mishaps, events>>

PresetTimeEnds ==
  /\ face.presetTime /\ ~Has(face, "preset")
  /\ face' = [face EXCEPT !.presetTime = FALSE]
  /\ UNCHANGED <<mode, tracking, quiet, panel, pending, flags, mishaps, events>>

-----------------------------------------------------------------------------
(***************************************************************************)
(* One pass of the app. `ended` are the slots whose modifier's time is up, *)
(* `time` tells which of the base modifiers' times are.                    *)
(***************************************************************************)
Timed == {i \in DOMAIN face.slots : face.slots[i].kind \in {"preset", "dance", "speech", "speaking"}}

Junk == [emotion : Emotions, lock : BOOLEAN, motion : BOOLEAN]
SomeJunk == [emotion |-> "Neutral", lock |-> FALSE, motion |-> FALSE]

\* A long press on the head is looked at after the modifiers, and makes a quiet time.
Pass(ended, time, junk, toggled) ==
  \E reacted \in {React(face, junk)} : \E shown \in {ShowMode(reacted)} :
  \E based \in {UpdateImu(UpdateHeadPet(shown, time), time)} :
  \E others \in {UpdateOthers(UpdatePreset(based, ended), ended)} :
  \E updated \in {ClearFinishedPreset(Cleanup(others))} :
    /\ face' = SyncIdle(updated, toggled)
    /\ mishaps' = mishaps \cup Crossed(reacted, updated) \cup Overlaid(reacted, updated)
         \cup (IF ShouldRunIdle /\ ~toggled THEN {} ELSE
               UNION {Lost(updated, kind) : kind \in {"idleMotion", "idleExpression"}})
    /\ flags' = {} /\ pending' = "none" /\ panel' = (panel # toggled)
    /\ quiet' = IF toggled THEN "new" ELSE IF quiet = "new" THEN "yes" ELSE quiet
    /\ UNCHANGED <<mode, tracking>>

SomePass(toggled) ==
  \E ended \in SUBSET Timed, time \in SUBSET {"pet", "shake"} :
  \E junk \in (IF pending # "none" /\ Miscast(face) THEN Junk ELSE {SomeJunk}) :
    Pass(ended, time, junk, toggled)

OnRunning == SomePass(FALSE) /\ UNCHANGED events

HeadLongPress == Event /\ SomePass(TRUE)

FaceNext ==
  \/ PlayAnimation \/ Say \/ ReactCommand \/ SetMode \/ TrackFace \/ Gesture \/ ScreenLongPress
  \/ QuietEnds \/ HoldEnds \/ PresetTimeEnds
  \/ OnRunning \/ HeadLongPress

FaceSpec == FaceInit /\ [][FaceNext]_faceVars

(***************************************************************************)
(* The main loop runs on, and the time of everything timed comes.          *)
(***************************************************************************)
AllOver == Pass(Timed, {"pet", "shake"}, SomeJunk, FALSE) /\ UNCHANGED events

FairFaceSpec ==
  /\ FaceSpec /\ WF_faceVars(QuietEnds) /\ WF_faceVars(HoldEnds) /\ WF_faceVars(AllOver)

-----------------------------------------------------------------------------
(***************************************************************************)
(* Blinking, idle motion and idle expressions stop while the avatar is     *)
(* locked. A lock has a holder, a preset that runs or a reaction to a      *)
(* shake; two ways to lose the holder and keep the lock are in the code,   *)
(* and these are the only ones: the two overlap, and each puts back what   *)
(* it found, or a preset is removed in the place of an animation that has  *)
(* ended.                                                                  *)
(***************************************************************************)
LockHasHolder ==
  (face.avatarLock \/ face.motionLock) =>
    \/ PresetRuns(face) \/ face.reacting
    \/ mishaps \cap {"locksCrossed", "presetLost"} # {}

(***************************************************************************)
(* The face shows the mode (apply_mode_visuals) unless a preset or a pet   *)
(* is shown over it; afterwards the emotion below comes back, unless it    *)
(* changed in the meantime or there were two overlays.                     *)
(***************************************************************************)
FaceShowsMode ==
  \/ face.shown = "none" \/ face.emotion = EmotionOf(face.shown)
  \/ PresetRuns(face) \/ face.happy
  \/ mishaps \cap {"overlaid", "presetLost"} # {}

(***************************************************************************)
(* Two animations, two presets or two idle motions would fight for the     *)
(* head: whatever ids are stale, there is at most one of each in the pool. *)
(***************************************************************************)
OneOfEach ==
  \A i, j \in DOMAIN face.slots :
    /\ face.slots[i].kind = face.slots[j].kind
    /\ face.slots[i].kind \in {"preset", "dance", "idleMotion", "idleExpression"}
    => i = j

(***************************************************************************)
(* README.md:170 keeps idle behaviour on the device: when nothing is going *)
(* on any more and the robot is free, both idle modifiers come back,       *)
(* whatever was removed in their place before.                             *)
(***************************************************************************)
IdleReturns ==
  []<>(ShouldRunIdle => Has(face, "idleMotion") /\ Has(face, "idleExpression"))
=============================================================================
