-------------------------- MODULE RobotSoundProofs --------------------------
(***************************************************************************)
(* Proofs about RobotSound, for every number of tasks, every queue length  *)
(* and every volume: its types; that the power timer costs a silence at    *)
(* most one frame; that the user's volume comes back; that clips follow    *)
(* each other whole, are played when they end, and are heard at the volume *)
(* asked for, as far as the model's histories do not excuse it.            *)
(***************************************************************************)
EXTENDS RobotSound, SequenceTheorems, TLAPS

-----------------------------------------------------------------------------
(***************************************************************************)
(* Types. A task that sets a volume has been asked to.                     *)
(***************************************************************************)
Records ==
  [step : Steps, asked : Requests, saved : Volumes, persisted : Volumes,
   restoring : BOOLEAN, frames : 0..Frames]

AskedToSet == \A p \in Tasks : task[p].step \in {"read", "set", "unset"} => task[p].asked # NoRequest

TypeInv == TypeOK /\ AskedToSet

\* The tasks' part of TypeInv, and what the rest of it says of the queues and the timer.
TasksOK == task \in [Tasks -> Records] /\ AskedToSet

VolumesOK == volume \in Volumes /\ stored \in Volumes /\ collided \in BOOLEAN

QueuesOK ==
  /\ decodeQueue \in Seq(Tasks) /\ Len(decodeQueue) <= DecodeSlots
  /\ playbackQueue \in Seq(Tasks) /\ Len(playbackQueue) <= PlaybackSlots
  /\ writing \in Tasks \cup {Nobody}

OutputOK ==
  /\ outputOn \in BOOLEAN /\ timerOn \in BOOLEAN /\ stopRaced \in BOOLEAN
  /\ opening \subseteq Openers
  /\ power \in {"waits", "checks", "closes", "ends", "stops"}

LossOK == stale \in BOOLEAN /\ lost \in Nat

HistoryOK ==
  /\ overlapped \subseteq Tasks /\ behind \subseteq Tasks /\ offVolume \subseteq Tasks
  /\ creator \in Tasks \cup {Nobody}

RestOK == audioMutex \in Tasks \cup {Nobody} /\ created \in BOOLEAN /\ restarts \in 0..MaxRestarts

LEMMA TypeParts ==
  TypeInv <=> TasksOK /\ VolumesOK /\ QueuesOK /\ OutputOK /\ LossOK /\ HistoryOK /\ RestOK
BY DEF TypeInv, TypeOK, TasksOK, VolumesOK, QueuesOK, OutputOK, LossOK, HistoryOK, RestOK, Records

LEMMA TypePartsNext ==
  TypeInv' <=> TasksOK' /\ VolumesOK' /\ QueuesOK' /\ OutputOK' /\ LossOK' /\ HistoryOK' /\ RestOK'
BY DEF TypeInv, TypeOK, TasksOK, VolumesOK, QueuesOK, OutputOK, LossOK, HistoryOK, RestOK, Records

\* A task's step is only ever one of these, and its volumes are volumes.
LEMMA Numbers ==
  /\ 0 \in Volumes /\ 10 \in Volumes /\ Default \in Volumes /\ UserVolume \in Volumes
  /\ 0 \in 0..Frames /\ 0 \in 0..MaxRestarts /\ 0 \in Nat
  /\ AskedVolumes \subseteq Volumes
  /\ \A f \in 0..Frames : (f < Frames => f + 1 \in 0..Frames) /\ (f > 0 => f - 1 \in 0..Frames)
  /\ \A v \in Volumes : Audible(v) \in Volumes
  /\ Audible(UserVolume) = UserVolume
BY SoundAssumption DEF Volumes, Default, Audible

LEMMA NewOK == New \in Records /\ [New EXCEPT !.step = "gone"] \in Records
BY Numbers DEF New, Records, Steps, Requests

LEMMA StepNames == {"play", "push", "delay", "read", "set", "unset", "gone"} \subseteq Steps
BY DEF Steps

LEMMA StepTo ==
  ASSUME NEW r \in Records, NEW s \in Steps
  PROVE  /\ [r EXCEPT !.step = s] \in Records
         /\ [r EXCEPT !.step = s].step = s /\ [r EXCEPT !.step = s].asked = r.asked
BY DEF Records

\* The records that a task's steps make of its record.
LEMMA RecordSteps ==
  ASSUME NEW r \in Records
  PROVE  /\ \A s \in Steps : [r EXCEPT !.step = s] \in Records
         /\ \A v \in Requests, s \in Steps : [r EXCEPT !.asked = v, !.step = s] \in Records
         /\ \A v, w \in Volumes, s \in Steps :
              [r EXCEPT !.saved = v, !.persisted = w, !.step = s] \in Records
         /\ \A f \in 0..Frames : [r EXCEPT !.frames = f] \in Records
         /\ \A f \in 0..Frames, b \in BOOLEAN, s \in Steps :
              [r EXCEPT !.frames = f, !.restoring = b, !.step = s] \in Records
BY DEF Records

\* One task's record is replaced by another.
LEMMA TaskReplaced ==
  ASSUME TasksOK, NEW p \in Tasks, NEW r \in Records, task' = [task EXCEPT ![p] = r],
         r.step \in {"read", "set", "unset"} => r.asked # NoRequest
  PROVE  TasksOK'
<1>1. task' \in [Tasks -> Records]
  BY DEF TasksOK
<1>2. ASSUME NEW q \in Tasks, task'[q].step \in {"read", "set", "unset"}
      PROVE  task'[q].asked # NoRequest
  <2>1. CASE q = p
    BY <1>2, <2>1 DEF TasksOK
  <2>2. CASE q # p
    BY <1>2, <2>2 DEF TasksOK, AskedToSet
  <2> QED
    BY <2>1, <2>2
<1> QED
  BY <1>1, <1>2 DEF TasksOK, AskedToSet

\* Tasks whose step and request stay.
LEMMA TasksKept ==
  ASSUME TasksOK, task' \in [Tasks -> Records],
         \A p \in Tasks : task'[p].step = task[p].step /\ task'[p].asked = task[p].asked
  PROVE  TasksOK'
BY DEF TasksOK, AskedToSet

-----------------------------------------------------------------------------
(***************************************************************************)
(* The types are kept.                                                     *)
(***************************************************************************)
LEMMA InitTypes == Init => TypeInv
<1> SUFFICES ASSUME Init PROVE TypeInv
  OBVIOUS
<1>1. TasksOK
  BY NewOK DEF Init, TasksOK, AskedToSet, New
<1>2. QueuesOK
  <2>1. <<>> \in Seq(Tasks) /\ Len(<<>>) = 0
    BY EmptySeq
  <2> QED
    BY <2>1, SoundAssumption DEF Init, QueuesOK
<1>3. VolumesOK /\ OutputOK /\ LossOK /\ HistoryOK /\ RestOK
  BY Numbers DEF Init, VolumesOK, OutputOK, LossOK, HistoryOK, RestOK
<1> QED
  BY <1>1, <1>2, <1>3, TypeParts

\* Every step of a task, except for what it does to the queues and the output.
LEMMA StartPlaybackTypes ==
  ASSUME TypeInv, NEW p \in Tasks, NEW v \in Requests, StartPlayback(p, v)
  PROVE  TypeInv'
<1> USE DEF volumeVars, queueVars, outputVars, lossVars
<1>1. TasksOK /\ VolumesOK /\ QueuesOK /\ OutputOK /\ LossOK /\ HistoryOK /\ RestOK
  BY TypeParts
<1> DEFINE s == IF v = NoRequest THEN "play" ELSE "read"
           r == [task[p] EXCEPT !.asked = v, !.step = s]
<1>2. task[p] \in Records
  BY <1>1 DEF TasksOK
<1>3. s \in Steps /\ (s = "read" => v # NoRequest) /\ s \notin {"set", "unset"}
  BY DEF Steps
<1>4. r \in Records /\ r.step = s /\ r.asked = v
  BY <1>2, <1>3, RecordSteps DEF Records
<1>5. task' = [task EXCEPT ![p] = r]
  BY <1>1 DEF StartPlayback, TasksOK
<1> HIDE DEF r, s
<1>6. TasksOK'
  BY <1>1, <1>3, <1>4, <1>5, TaskReplaced
<1>7. HistoryOK'
  BY <1>1 DEF StartPlayback, HistoryOK
<1>8. VolumesOK' /\ QueuesOK' /\ OutputOK' /\ LossOK' /\ RestOK'
  BY <1>1 DEF StartPlayback, VolumesOK, QueuesOK, OutputOK, LossOK, RestOK
<1> QED
  BY <1>6, <1>7, <1>8, TypePartsNext

LEMMA SettingVolumeTypes ==
  ASSUME TypeInv, NEW p \in Tasks, SettingVolume(p)
  PROVE  TypeInv'
<1> USE DEF queueVars, outputVars, lossVars, historyVars
<1>1. TasksOK /\ VolumesOK /\ QueuesOK /\ OutputOK /\ LossOK /\ HistoryOK /\ RestOK
  BY TypeParts
<1>2. /\ task[p] \in Records /\ task[p].saved \in Volumes /\ task[p].persisted \in Volumes
      /\ task[p].asked \in Requests
      /\ task[p].step \in {"read", "set", "unset"} => task[p].asked \in Volumes /\ task[p].asked # NoRequest
  BY <1>1, Numbers DEF TasksOK, AskedToSet, Records, Requests
<1>3. TasksOK' /\ VolumesOK'
  <2>1. CASE ReadVolume(p)
    <3> DEFINE v == IF task[p].restoring THEN task[p].saved ELSE Audible(stored)
               r == [task[p] EXCEPT !.saved = v, !.persisted = stored, !.step = "set"]
    <3>1. v \in Volumes /\ "set" \in Steps
      BY <1>1, <1>2, Numbers DEF VolumesOK, Steps
    <3>2. r \in Records /\ r.asked = task[p].asked /\ r.asked # NoRequest
      BY <1>1, <1>2, <2>1, <3>1, RecordSteps DEF VolumesOK, Records, ReadVolume, At
    <3>3. task' = [task EXCEPT ![p] = r]
      BY <1>1, <2>1 DEF ReadVolume, TasksOK
    <3> HIDE DEF r, v
    <3>4. TasksOK'
      BY <1>1, <3>2, <3>3, TaskReplaced
    <3>5. VolumesOK'
      BY <1>1, <2>1 DEF ReadVolume, VolumesOK
    <3> QED
      BY <3>4, <3>5
  <2>2. CASE SetOutputVolume(p)
    <3> DEFINE r == [task[p] EXCEPT !.step = "unset"]
    <3>1. r \in Records /\ r.asked = task[p].asked /\ r.asked # NoRequest
      <4>1. "unset" \in Steps /\ task[p].step = "set"
        BY <2>2, StepNames DEF SetOutputVolume, At
      <4> QED
        BY <1>2, <4>1, StepTo
    <3>2. task' = [task EXCEPT ![p] = r]
      BY <1>1, <2>2 DEF SetOutputVolume, Goes, TasksOK
    <3> HIDE DEF r
    <3>3. TasksOK'
      BY <1>1, <3>1, <3>2, TaskReplaced
    <3>4. VolumesOK'
      BY <1>1, <1>2, <2>2 DEF SetOutputVolume, VolumesOK, At
    <3> QED
      BY <3>3, <3>4
  <2>3. CASE WriteBack(p)
    <3> DEFINE s == IF task[p].restoring THEN "gone" ELSE "play"
               r == [task[p] EXCEPT !.step = s]
    <3>1. s \in Steps /\ s \notin {"read", "set", "unset"}
      BY DEF Steps
    <3>2. r \in Records /\ r.step = s
      BY <1>2, <3>1, RecordSteps DEF Records
    <3>3. task' = [task EXCEPT ![p] = r]
      BY <1>1, <2>3 DEF WriteBack, Goes, TasksOK
    <3> HIDE DEF r, s
    <3>4. TasksOK'
      BY <1>1, <3>1, <3>2, <3>3, TaskReplaced
    <3>5. VolumesOK'
      BY <1>1, <1>2, <2>3 DEF WriteBack, VolumesOK
    <3> QED
      BY <3>4, <3>5
  <2> QED
    BY <2>1, <2>2, <2>3 DEF SettingVolume
<1>4. QueuesOK' /\ OutputOK' /\ LossOK' /\ HistoryOK' /\ RestOK'
  BY <1>1 DEF SettingVolume, QueuesOK, OutputOK, LossOK, HistoryOK, RestOK
<1> QED
  BY <1>3, <1>4, TypePartsNext

LEMMA PlayTypes ==
  ASSUME TypeInv, NEW p \in Tasks, Play(p)
  PROVE  TypeInv'
<1> USE DEF queueVars, outputVars, lossVars
<1>1. TasksOK /\ VolumesOK /\ QueuesOK /\ OutputOK /\ LossOK /\ HistoryOK /\ RestOK
  BY TypeParts
<1> DEFINE r == [task[p] EXCEPT !.step = "push"]
<1>2. r \in Records /\ r.step = "push"
  <2>1. task[p] \in Records /\ "push" \in Steps
    BY <1>1, StepNames DEF TasksOK
  <2> QED
    BY <2>1, StepTo
<1>3. task' = [task EXCEPT ![p] = r]
  BY <1>1 DEF Play, Goes, TasksOK
<1> HIDE DEF r
<1>4. TasksOK'
  BY <1>1, <1>2, <1>3, TaskReplaced
<1>5. VolumesOK'
  BY <1>1, Numbers DEF Play, VolumesOK
<1>6. HistoryOK'
  BY <1>1 DEF Play, HistoryOK
<1>7. OutputOK' /\ RestOK'
  BY <1>1 DEF Play, TakeAudio, RestartTimer, Openers, OutputOK, RestOK
<1>8. QueuesOK' /\ LossOK'
  BY <1>1 DEF Play, QueuesOK, LossOK
<1> QED
  BY <1>4, <1>5, <1>6, <1>7, <1>8, TypePartsNext

LEMMA PushTypes ==
  ASSUME TypeInv, NEW p \in Tasks, PushPacketToDecodeQueue(p)
  PROVE  TypeInv'
<1> USE DEF volumeVars, outputVars, lossVars, historyVars
<1>1. TasksOK /\ VolumesOK /\ QueuesOK /\ OutputOK /\ LossOK /\ HistoryOK /\ RestOK
  BY TypeParts
<1> DEFINE r == [task[p] EXCEPT !.frames = task[p].frames + 1]
<1>2. task[p] \in Records /\ task[p].frames + 1 \in 0..Frames
  BY <1>1, Numbers DEF TasksOK, Records, PushPacketToDecodeQueue
<1>3. r \in Records /\ r.step = task[p].step /\ r.asked = task[p].asked
  BY <1>2, RecordSteps DEF Records
<1>4. task' = [task EXCEPT ![p] = r]
  BY <1>1 DEF PushPacketToDecodeQueue, TasksOK
<1> HIDE DEF r
<1>5. TasksOK'
  BY <1>1, <1>3, <1>4, TaskReplaced DEF TasksOK, AskedToSet
<1>6. QueuesOK'
  <2>1. decodeQueue' \in Seq(Tasks) /\ Len(decodeQueue') = Len(decodeQueue) + 1
    BY <1>1, AppendProperties DEF QueuesOK, PushPacketToDecodeQueue
  <2>2. Len(decodeQueue) \in Nat /\ Len(decodeQueue) < DecodeSlots
    BY <1>1, LenProperties DEF QueuesOK, PushPacketToDecodeQueue, HasSpace
  <2> QED
    BY <1>1, <2>1, <2>2, SoundAssumption DEF QueuesOK, PushPacketToDecodeQueue
<1>7. VolumesOK' /\ OutputOK' /\ LossOK' /\ HistoryOK' /\ RestOK'
  BY <1>1 DEF PushPacketToDecodeQueue, VolumesOK, OutputOK, LossOK, HistoryOK, RestOK
<1> QED
  BY <1>5, <1>6, <1>7, TypePartsNext

LEMMA EndOfPlaySoundTypes ==
  ASSUME TypeInv, NEW p \in Tasks, EndOfPlaySound(p) \/ DelayEnds(p)
  PROVE  TypeInv'
<1> USE DEF volumeVars, queueVars, outputVars, lossVars, historyVars
<1>1. TasksOK /\ VolumesOK /\ QueuesOK /\ OutputOK /\ LossOK /\ HistoryOK /\ RestOK
  BY TypeParts
<1>2. task[p] \in Records
  BY <1>1 DEF TasksOK
<1>3. TasksOK'
  <2>1. CASE EndOfPlaySound(p)
    <3> DEFINE r == [task[p] EXCEPT !.step = "delay"]
    <3>1. r \in Records /\ r.step = "delay"
      <4>1. "delay" \in Steps
        BY StepNames
      <4> QED
        BY <1>2, <4>1, StepTo
    <3>2. task' = [task EXCEPT ![p] = r]
      BY <1>1, <2>1 DEF EndOfPlaySound, Release, Goes, TasksOK
    <3> HIDE DEF r
    <3> QED
      BY <1>1, <3>1, <3>2, TaskReplaced
  <2>2. CASE DelayEnds(p)
    <3> DEFINE b == (task[p].asked # NoRequest)
               s == IF task[p].asked = NoRequest THEN "gone" ELSE "read"
               r == [task[p] EXCEPT !.frames = 0, !.restoring = b, !.step = s]
    <3>1. b \in BOOLEAN /\ s \in Steps /\ (s \in {"read", "set", "unset"} => task[p].asked # NoRequest)
      BY DEF Steps
    <3>2. r \in Records /\ r.step = s /\ r.asked = task[p].asked
      BY <1>2, <3>1, Numbers, RecordSteps DEF Records
    <3>3. task' = [task EXCEPT ![p] = r]
      BY <1>1, <2>2 DEF DelayEnds, TasksOK
    <3> HIDE DEF r, s, b
    <3> QED
      BY <1>1, <3>1, <3>2, <3>3, TaskReplaced
  <2> QED
    BY <2>1, <2>2
<1>4. VolumesOK' /\ QueuesOK' /\ OutputOK' /\ LossOK' /\ HistoryOK' /\ RestOK'
  BY <1>1 DEF EndOfPlaySound, Release, DelayEnds, VolumesOK, QueuesOK, OutputOK, LossOK,
     HistoryOK, RestOK
<1> QED
  BY <1>3, <1>4, TypePartsNext

\* What is taken off a queue.
LEMMA TailTyped ==
  ASSUME NEW S, NEW s \in Seq(S), s # <<>>
  PROVE  Head(s) \in S /\ Tail(s) \in Seq(S) /\ Len(Tail(s)) = Len(s) - 1 /\ Len(s) \in Nat
<1>1. Len(s) \in Nat \ {0}
  BY EmptySeq
<1> QED
  BY <1>1, HeadTailProperties

LEMMA OutputTypes ==
  ASSUME TypeInv, (\E ok \in BOOLEAN : Decode(ok)) \/ TakeFrame
  PROVE  TypeInv'
<1> USE DEF volumeVars, outputVars, lossVars, historyVars
<1>1. TasksOK /\ VolumesOK /\ QueuesOK /\ OutputOK /\ LossOK /\ HistoryOK /\ RestOK
  BY TypeParts
<1>2. QueuesOK'
  <2>1. /\ decodeQueue \in Seq(Tasks) /\ playbackQueue \in Seq(Tasks)
        /\ Len(decodeQueue) \in Nat /\ Len(playbackQueue) \in Nat
        /\ Len(decodeQueue) <= DecodeSlots /\ Len(playbackQueue) <= PlaybackSlots
    BY <1>1, LenProperties DEF QueuesOK
  <2>2. ASSUME NEW ok \in BOOLEAN, Decode(ok) PROVE QueuesOK'
    <3>1. Head(decodeQueue) \in Tasks /\ decodeQueue' \in Seq(Tasks) /\ Len(decodeQueue') = Len(decodeQueue) - 1
      BY <2>1, <2>2, TailTyped DEF Decode
    <3>2. Len(decodeQueue') <= DecodeSlots
      BY <2>1, <3>1, SoundAssumption
    <3>3. playbackQueue' \in Seq(Tasks) /\ Len(playbackQueue') <= PlaybackSlots
      <4>1. CASE ok
        <5>1. playbackQueue' = Append(playbackQueue, Head(decodeQueue)) /\ Len(playbackQueue) < PlaybackSlots
          BY <2>2, <4>1 DEF Decode
        <5>2. playbackQueue' \in Seq(Tasks) /\ Len(playbackQueue') = Len(playbackQueue) + 1
          BY <2>1, <3>1, <5>1, AppendProperties
        <5> QED
          BY <2>1, <5>1, <5>2, SoundAssumption
      <4>2. CASE ~ok
        BY <2>1, <2>2, <4>2 DEF Decode
      <4> QED
        BY <4>1, <4>2
    <3> QED
      BY <1>1, <2>2, <3>1, <3>2, <3>3 DEF QueuesOK, Decode
  <2>3. ASSUME TakeFrame PROVE QueuesOK'
    <3>1. writing' \in Tasks /\ playbackQueue' \in Seq(Tasks) /\ Len(playbackQueue') = Len(playbackQueue) - 1
      BY <2>1, <2>3, TailTyped DEF TakeFrame
    <3>2. Len(playbackQueue') <= PlaybackSlots
      BY <2>1, <3>1, SoundAssumption
    <3> QED
      BY <1>1, <2>3, <3>1, <3>2 DEF QueuesOK, TakeFrame
  <2> QED
    BY <2>2, <2>3
<1>3. OutputOK'
  BY <1>1 DEF Decode, TakeFrame, RestartTimer, Openers, OutputOK
<1>4. TasksOK' /\ VolumesOK' /\ LossOK' /\ HistoryOK' /\ RestOK'
  BY <1>1 DEF Decode, TakeFrame, TasksOK, AskedToSet, VolumesOK, LossOK, HistoryOK, RestOK
<1> QED
  BY <1>2, <1>3, <1>4, TypePartsNext

LEMMA WriteTypes ==
  ASSUME TypeInv, Write
  PROVE  TypeInv'
<1> USE DEF volumeVars, outputVars
<1>1. TasksOK /\ VolumesOK /\ QueuesOK /\ OutputOK /\ LossOK /\ HistoryOK /\ RestOK
  BY TypeParts
<1>2. TasksOK'
  <2> DEFINE r(q) == IF At(q, "delay") /\ task[q].frames > 0
                     THEN [task[q] EXCEPT !.frames = task[q].frames - 1] ELSE task[q]
  <2>1. task' = task \/ task' = [q \in Tasks |-> r(q)]
    BY DEF Write
  <2>2. ASSUME NEW q \in Tasks
        PROVE  r(q) \in Records /\ r(q).step = task[q].step /\ r(q).asked = task[q].asked
    <3>1. task[q] \in Records /\ task[q].frames \in 0..Frames
      BY <1>1 DEF TasksOK, Records
    <3>2. task[q].frames > 0 => task[q].frames - 1 \in 0..Frames
      BY <3>1, Numbers
    <3> QED
      BY <3>1, <3>2, RecordSteps DEF Records
  <2> HIDE DEF r
  <2>3. task' \in [Tasks -> Records]
    BY <1>1, <2>1, <2>2 DEF TasksOK
  <2>4. \A q \in Tasks : task'[q].step = task[q].step /\ task'[q].asked = task[q].asked
    BY <2>1, <2>2
  <2> QED
    BY <1>1, <2>3, <2>4, TasksKept
<1>3. QueuesOK'
  BY <1>1 DEF Write, QueuesOK
<1>4. HistoryOK'
  <2>1. writing \in Tasks
    BY <1>1 DEF Write, QueuesOK
  <2>2. offVolume' = offVolume \/ offVolume' = offVolume \cup {writing}
    BY DEF Write
  <2> QED
    BY <1>1, <2>1, <2>2 DEF Write, HistoryOK
<1>5. LossOK'
  <2>1. stale' = FALSE /\ (lost' = lost \/ lost' = lost + 1)
    BY DEF Write, UpdateLastOutputTime
  <2>2. lost' \in Nat
    BY <1>1, <2>1 DEF LossOK
  <2> QED
    BY <2>1, <2>2 DEF LossOK
<1>6. VolumesOK' /\ OutputOK' /\ RestOK'
  BY <1>1 DEF Write, VolumesOK, OutputOK, RestOK
<1> QED
  BY <1>2, <1>3, <1>4, <1>5, <1>6, TypePartsNext

LEMMA TimerTypes ==
  ASSUME TypeInv, PowerSteps \/ Silence \/ \E who \in Openers : OutputComesOn(who)
  PROVE  TypeInv'
<1> USE DEF volumeVars, queueVars, outputVars, lossVars, historyVars
<1>1. TasksOK /\ VolumesOK /\ QueuesOK /\ OutputOK /\ LossOK /\ HistoryOK /\ RestOK
  BY TypeParts
<1> USE DEF PowerSteps, PowerFires, PowerChecks, PowerCloses, PowerEnds, PowerStops, Silence,
   OutputComesOn
<1>2. TasksOK' /\ VolumesOK' /\ QueuesOK' /\ HistoryOK' /\ RestOK'
  BY <1>1 DEF TasksOK, AskedToSet, VolumesOK, QueuesOK, HistoryOK, RestOK
<1>3. OutputOK'
  BY <1>1 DEF OutputOK
<1>4. LossOK'
  BY <1>1, Numbers DEF LossOK
<1> QED
  BY <1>2, <1>3, <1>4, TypePartsNext

LEMMA RestartTypes ==
  ASSUME TypeInv, Restart
  PROVE  TypeInv'
<1>1. TasksOK /\ VolumesOK /\ QueuesOK /\ OutputOK /\ LossOK /\ HistoryOK /\ RestOK
  BY TypeParts
<1>2. TasksOK'
  <2> DEFINE gone == [New EXCEPT !.step = "gone"]
  <2>1. gone \in Records /\ gone.step = "gone"
    BY NewOK DEF New
  <2>2. task' = [q \in Tasks |-> IF Active(q) THEN gone ELSE task[q]]
    BY DEF Restart
  <2> HIDE DEF gone
  <2>3. task' \in [Tasks -> Records]
    BY <1>1, <2>1, <2>2 DEF TasksOK
  <2>4. AskedToSet'
    BY <1>1, <2>1, <2>2 DEF TasksOK, AskedToSet
  <2> QED
    BY <2>3, <2>4 DEF TasksOK
<1>3. VolumesOK'
  BY <1>1, Numbers DEF Restart, VolumesOK
<1>4. QueuesOK'
  <2>1. <<>> \in Seq(Tasks) /\ Len(<<>>) = 0
    BY EmptySeq
  <2> QED
    BY <2>1, SoundAssumption DEF Restart, QueuesOK
<1>5. OutputOK' /\ LossOK' /\ HistoryOK'
  BY Numbers DEF Restart, OutputOK, LossOK, HistoryOK
<1>6. RestOK'
  <2>1. restarts' \in 0..MaxRestarts
    BY <1>1, SoundAssumption DEF Restart, RestOK
  <2> QED
    BY <2>1 DEF Restart, RestOK
<1> QED
  BY <1>2, <1>3, <1>4, <1>5, <1>6, TypePartsNext

LEMMA NextTypes == TypeInv /\ [Next]_vars => TypeInv'
<1> SUFFICES ASSUME TypeInv, [Next]_vars PROVE TypeInv'
  OBVIOUS
<1>1. ASSUME NEW p \in Tasks, TaskSteps(p) PROVE TypeInv'
  BY <1>1, SettingVolumeTypes, PlayTypes, PushTypes, EndOfPlaySoundTypes DEF TaskSteps
<1>2. ASSUME Work PROVE TypeInv'
  BY <1>1, <1>2, OutputTypes, WriteTypes, TimerTypes DEF Work
<1>3. ASSUME UNCHANGED vars PROVE TypeInv'
  BY <1>3 DEF vars, volumeVars, queueVars, outputVars, lossVars, historyVars, TypeInv, TypeOK,
     AskedToSet
<1> QED
  BY <1>2, <1>3, StartPlaybackTypes, TimerTypes, RestartTypes DEF Next

LEMMA SpecTypes == Spec => []TypeInv
BY InitTypes, NextTypes, PTL DEF Spec

\* The variables keep their types, and the queues their lengths.
THEOREM TypeCorrect == Spec => []TypeOK
<1>1. TypeInv => TypeOK
  BY DEF TypeInv
<1> QED
  BY <1>1, SpecTypes, PTL

-----------------------------------------------------------------------------
(***************************************************************************)
(* The power timer. It is at its check or at its switch only when the last *)
(* output was long ago; then the output task has no frame in hand that     *)
(* finds the codec off, and none has been lost.                            *)
(***************************************************************************)
Closing == power \in {"checks", "closes"}

\* The output is on, or the output task is switching it on.
Comes == outputOn \/ "output" \in opening

PowerInv ==
  /\ writing # Nobody => Comes \/ ~Closing
  /\ lost # 0 => lost = 1 /\ ~stale /\ ~Closing /\ (writing # Nobody => Comes)

LEMMA InitPower == Init => PowerInv
BY DEF Init, PowerInv

\* Steps that leave the output, the timer and the frame in hand alone.
LEMMA PowerKept ==
  ASSUME PowerInv, UNCHANGED <<writing, outputOn, opening, power, stale, lost>>
  PROVE  PowerInv'
BY DEF PowerInv, Closing, Comes

LEMMA NextPower == TypeInv /\ PowerInv /\ [Next]_vars => PowerInv'
<1> SUFFICES ASSUME TypeInv, PowerInv, [Next]_vars PROVE PowerInv'
  OBVIOUS
<1> USE DEF queueVars, outputVars, lossVars
<1>1. ASSUME NEW p \in Tasks, TaskSteps(p) PROVE PowerInv'
  <2>1. CASE Play(p)
    BY <2>1 DEF Play, RestartTimer, PowerInv, Closing, Comes
  <2>2. CASE SettingVolume(p) \/ PushPacketToDecodeQueue(p) \/ EndOfPlaySound(p) \/ DelayEnds(p)
    BY <2>2, PowerKept DEF SettingVolume, PushPacketToDecodeQueue, EndOfPlaySound, DelayEnds
  <2> QED
    BY <1>1, <2>1, <2>2 DEF TaskSteps
<1>2. ASSUME NEW p \in Tasks, NEW v \in Requests, StartPlayback(p, v) PROVE PowerInv'
  BY <1>2, PowerKept DEF StartPlayback
<1>3. ASSUME NEW ok \in BOOLEAN, Decode(ok) PROVE PowerInv'
  BY <1>3, PowerKept DEF Decode
<1>4. CASE TakeFrame
  BY <1>4 DEF TakeFrame, RestartTimer, PowerInv, Closing, Comes
<1>5. CASE Write
  <2>1. writing' = Nobody /\ ~stale' /\ UNCHANGED <<outputOn, opening, power>>
    BY <1>5 DEF Write, UpdateLastOutputTime
  <2>2. CASE outputOn
    BY <1>5, <2>1, <2>2 DEF Write, PowerInv, Closing, Comes
  <2>3. CASE ~outputOn
    <3>1. lost = 0 /\ ~Closing
      BY <1>5, <2>3 DEF Write, PowerInv, Comes
    <3>2. lost' = 1
      BY <1>5, <2>3, <3>1 DEF Write
    <3> QED
      BY <2>1, <3>1, <3>2 DEF PowerInv, Closing, Comes
  <2> QED
    BY <2>2, <2>3
<1>6. CASE Silence
  BY <1>6 DEF Silence, Quiet, PowerInv
<1>7. CASE PowerFires
  BY <1>7 DEF PowerFires, PowerInv, Closing, Comes
<1>8. CASE PowerChecks
  BY <1>8 DEF PowerChecks, PowerInv, Closing, Comes
<1>9. CASE PowerCloses
  BY <1>9 DEF PowerCloses, PowerInv, Closing, Comes
<1>10. CASE PowerEnds \/ PowerStops
  BY <1>10 DEF PowerEnds, PowerStops, PowerInv, Closing, Comes
<1>11. CASE Restart
  BY <1>11 DEF Restart, PowerInv
<1>12. CASE UNCHANGED vars
  BY <1>12, PowerKept DEF vars
<1>13. ASSUME NEW who \in Openers, OutputComesOn(who) PROVE PowerInv'
  BY <1>13 DEF OutputComesOn, PowerInv, Closing, Comes
<1> QED
  BY <1>1, <1>2, <1>3, <1>4, <1>5, <1>6, <1>7, <1>8, <1>9, <1>10, <1>11, <1>12, <1>13
     DEF Next, Work, PowerSteps

\* The timer that switches the codec off (CheckAndUpdateAudioPowerState) costs at
\* most one frame per silence, whatever the playback and output tasks do beside it.
THEOREM TimerCostsOneFrame == Spec => []OneFramePerSilence
<1>1. TypeInv /\ PowerInv => OneFramePerSilence
  BY DEF PowerInv, TypeInv, TypeOK, OneFramePerSilence
<1>2. Spec => []PowerInv
  BY InitPower, NextPower, SpecTypes, PTL DEF Spec
<1> QED
  BY <1>1, <1>2, SpecTypes, PTL

-----------------------------------------------------------------------------
(***************************************************************************)
(* The user's volume. While no task has collided with another in           *)
(* board_set_speaker_volume, flash holds the user's volume whenever no     *)
(* task is between the two writes; a task writes that volume back, and     *)
(* restores it; and as long as the codec plays at another volume, some     *)
(* task still owes the restoration.                                        *)
(***************************************************************************)
NobodySets == \A p \in Tasks : task[p].step # "unset"

Owes(p) == /\ task[p].step \notin {"new", "gone"} /\ task[p].asked # NoRequest
           /\ ~(task[p].restoring /\ task[p].step = "unset")

WritesBack(p) == task[p].step \in {"set", "unset"} => task[p].persisted = UserVolume

Restores(p) ==
  task[p].asked # NoRequest /\ task[p].step \notin {"new", "gone"}
  /\ (task[p].step # "read" \/ task[p].restoring) => task[p].saved = UserVolume

\* What holds of a task however the tasks collide.
Ordered(p) ==
  /\ task[p].step = "new" => ~task[p].restoring
  /\ task[p].step \notin {"new", "gone"} /\ (task[p].restoring \/ task[p].step \in {"push", "delay"})
       => created

VolumeInv ==
  /\ \A p \in Tasks : Ordered(p)
  /\ ~collided =>
       /\ NobodySets => stored = UserVolume
       /\ \A p \in Tasks : WritesBack(p) /\ Restores(p)
       /\ created => volume = UserVolume \/ \E p \in Tasks : Owes(p)

LEMMA InitVolume == Init => VolumeInv
BY DEF Init, New, VolumeInv, NobodySets, Ordered, WritesBack, Restores

\* Steps that leave alone what VolumeInv speaks of.
LEMMA VolumeKept ==
  ASSUME VolumeInv, UNCHANGED <<task, created, volume, stored, collided>>
  PROVE  VolumeInv'
BY DEF VolumeInv, NobodySets, Owes, Ordered, WritesBack, Restores

\* A step of one task, when nothing collides: its own obligations are met, and the
\* other tasks' are as they were.
LEMMA OneTask ==
  ASSUME TypeInv, VolumeInv, NEW p \in Tasks,
         task' \in [Tasks -> Records], \A q \in Tasks \ {p} : task'[q] = task[q],
         created => created', Ordered(p)',
         ~collided' => ~collided /\ (NobodySets' => stored' = UserVolume) /\ WritesBack(p)' /\ Restores(p)'
                       /\ (created' => volume' = UserVolume \/ \E q \in Tasks : Owes(q)')
  PROVE  VolumeInv'
<1>1. ASSUME NEW q \in Tasks PROVE Ordered(q)'
  <2>1. CASE q = p
    BY <2>1
  <2>2. CASE q # p
    BY <2>2 DEF VolumeInv, Ordered
  <2> QED
    BY <2>1, <2>2
<1>2. ASSUME ~collided', NEW q \in Tasks PROVE WritesBack(q)' /\ Restores(q)'
  <2>1. CASE q = p
    BY <1>2, <2>1
  <2>2. CASE q # p
    BY <1>2, <2>2 DEF VolumeInv, WritesBack, Restores
  <2> QED
    BY <2>1, <2>2
<1> QED
  BY <1>1, <1>2 DEF VolumeInv

\* The tasks other than the one that steps still owe what they owed.
LEMMA OthersOwe ==
  ASSUME NEW p \in Tasks, \A q \in Tasks \ {p} : task'[q] = task[q], Owes(p) => Owes(p)',
         \E q \in Tasks : Owes(q)
  PROVE  \E q \in Tasks : Owes(q)'
<1>1. PICK q \in Tasks : Owes(q)
  OBVIOUS
<1>2. Owes(q)'
  <2>1. CASE q = p
    BY <1>1, <2>1
  <2>2. CASE q # p
    BY <1>1, <2>2 DEF Owes
  <2> QED
    BY <2>1, <2>2
<1> QED
  BY <1>2

LEMMA TaskVolume ==
  ASSUME TypeInv, TypeInv', VolumeInv, NEW p \in Tasks, TaskSteps(p) \/ \E v \in Requests : StartPlayback(p, v)
  PROVE  VolumeInv'
<1> USE DEF volumeVars, queueVars, outputVars, lossVars, historyVars
<1>1. /\ task \in [Tasks -> Records] /\ task' \in [Tasks -> Records]
      /\ \A q \in Tasks : task[q].step \in {"read", "set", "unset"} => task[q].asked # NoRequest
  BY TypeParts, TypePartsNext DEF TasksOK, AskedToSet
<1>2. task[p] \in Records /\ Ordered(p)
  BY <1>1 DEF VolumeInv
<1>3. ~collided => /\ NobodySets => stored = UserVolume
                   /\ WritesBack(p) /\ Restores(p)
                   /\ created => volume = UserVolume \/ \E q \in Tasks : Owes(q)
  BY DEF VolumeInv
<1>4. CASE \E v \in Requests : StartPlayback(p, v)
  <2>1. PICK v \in Requests : StartPlayback(p, v)
    BY <1>4
  <2>2. /\ task[p].step = "new" /\ UNCHANGED <<created, volume, stored, collided>>
        /\ task' = [task EXCEPT ![p].asked = v, ![p].step = IF v = NoRequest THEN "play" ELSE "read"]
    BY <2>1 DEF StartPlayback, At
  <2>3. /\ \A q \in Tasks \ {p} : task'[q] = task[q]
        /\ task'[p].step \in {"play", "read"} /\ task'[p].restoring = task[p].restoring
        /\ task'[p].asked = v /\ (v = NoRequest => task'[p].step = "play")
        /\ (v # NoRequest => task'[p].step = "read")
    BY <1>1, <1>2, <2>2 DEF Records
  <2>4. ~task'[p].restoring
    BY <1>2, <2>2, <2>3 DEF Ordered
  <2>5. Ordered(p)' /\ WritesBack(p)' /\ Restores(p)'
    BY <2>3, <2>4 DEF Ordered, WritesBack, Restores
  <2>6. NobodySets' => NobodySets
    BY <2>2, <2>3 DEF NobodySets
  <2>7. (\E q \in Tasks : Owes(q)) => \E q \in Tasks : Owes(q)'
    BY <2>2, <2>3, OthersOwe DEF Owes
  <2> QED
    BY <1>1, <1>3, <2>2, <2>3, <2>5, <2>6, <2>7, OneTask
<1>5. CASE SettingVolume(p) /\ ReadVolume(p)
  <2>1. /\ task[p].step = "read" /\ UNCHANGED <<created, volume, stored>>
        /\ task' = [task EXCEPT ![p].saved = IF task[p].restoring THEN task[p].saved ELSE Audible(stored),
                                ![p].persisted = stored, ![p].step = "set"]
        /\ collided' = (collided \/ ~NobodySets)
    BY <1>1, <1>5 DEF SettingVolume, ReadVolume, At, NobodySets
  <2>2. /\ \A q \in Tasks \ {p} : task'[q] = task[q]
        /\ task'[p].step = "set" /\ task'[p].restoring = task[p].restoring
        /\ task'[p].asked = task[p].asked /\ task'[p].persisted = stored
        /\ task'[p].saved = IF task[p].restoring THEN task[p].saved ELSE Audible(stored)
    BY <1>1, <1>2, <2>1 DEF Records
  <2>3. Ordered(p)'
    BY <1>2, <2>1, <2>2 DEF Ordered
  <2>4. ASSUME ~collided'
        PROVE  ~collided /\ stored = UserVolume
    BY <1>3, <2>1, <2>4
  <2>5. ASSUME ~collided' PROVE WritesBack(p)' /\ Restores(p)'
    <3>1. Audible(stored) = UserVolume
      BY <2>4, <2>5, Numbers
    <3>2. task[p].restoring => task[p].saved = UserVolume
      BY <1>1, <1>3, <2>1, <2>4, <2>5 DEF Restores
    <3> QED
      BY <2>2, <2>4, <2>5, <3>1, <3>2 DEF WritesBack, Restores
  <2>6. (\E q \in Tasks : Owes(q)) => \E q \in Tasks : Owes(q)'
    BY <2>1, <2>2, OthersOwe DEF Owes
  <2> QED
    BY <1>1, <1>3, <2>1, <2>2, <2>3, <2>4, <2>5, <2>6, OneTask
<1>6. CASE SettingVolume(p) /\ SetOutputVolume(p)
  <2>1. /\ task[p].step = "set" /\ UNCHANGED <<created, collided>>
        /\ task' = [task EXCEPT ![p].step = "unset"]
        /\ volume' = IF task[p].restoring THEN task[p].saved ELSE task[p].asked
    BY <1>6 DEF SettingVolume, SetOutputVolume, At, Goes
  <2>2. /\ \A q \in Tasks \ {p} : task'[q] = task[q]
        /\ task'[p].step = "unset" /\ task'[p].restoring = task[p].restoring
        /\ task'[p].asked = task[p].asked /\ task'[p].persisted = task[p].persisted
        /\ task'[p].saved = task[p].saved
    BY <1>1, <1>2, <2>1 DEF Records
  <2>3. Ordered(p)'
    BY <1>2, <2>1, <2>2 DEF Ordered
  <2>4. ~NobodySets'
    BY <2>2 DEF NobodySets
  <2>5. ASSUME ~collided' PROVE WritesBack(p)' /\ Restores(p)'
    BY <1>3, <2>1, <2>2, <2>5 DEF WritesBack, Restores
  <2>6. ASSUME ~collided' PROVE volume' = UserVolume \/ \E q \in Tasks : Owes(q)'
    <3>1. CASE task[p].restoring
      BY <1>1, <1>3, <2>1, <2>6, <3>1 DEF Restores
    <3>2. CASE ~task[p].restoring
      BY <1>1, <2>1, <2>2, <3>2 DEF Owes
    <3> QED
      BY <3>1, <3>2
  <2> QED
    BY <1>1, <2>1, <2>2, <2>3, <2>4, <2>5, <2>6, OneTask
<1>7. CASE SettingVolume(p) /\ WriteBack(p)
  <2>1. /\ task[p].step = "unset" /\ UNCHANGED <<created, volume, collided>>
        /\ task' = [task EXCEPT ![p].step = IF task[p].restoring THEN "gone" ELSE "play"]
        /\ stored' = task[p].persisted
    BY <1>7 DEF SettingVolume, WriteBack, At, Goes
  <2>2. /\ \A q \in Tasks \ {p} : task'[q] = task[q]
        /\ task'[p].step = IF task[p].restoring THEN "gone" ELSE "play"
        /\ task'[p].restoring = task[p].restoring /\ task'[p].asked = task[p].asked
        /\ task'[p].saved = task[p].saved
    BY <1>1, <1>2, <2>1 DEF Records
  <2>3. Ordered(p)'
    BY <1>2, <2>1, <2>2 DEF Ordered
  <2>4. ASSUME ~collided' PROVE stored' = UserVolume /\ WritesBack(p)' /\ Restores(p)'
    BY <1>3, <2>1, <2>2, <2>4 DEF WritesBack, Restores
  <2>5. (\E q \in Tasks : Owes(q)) => \E q \in Tasks : Owes(q)'
    BY <2>1, <2>2, OthersOwe DEF Owes
  <2> QED
    BY <1>1, <1>3, <2>1, <2>2, <2>3, <2>4, <2>5, OneTask
<1>8. CASE Play(p)
  <2>1. /\ task[p].step = "play" /\ UNCHANGED <<stored, collided>> /\ created'
        /\ task' = [task EXCEPT ![p].step = "push"]
        /\ volume' = IF created THEN volume ELSE Audible(stored)
    BY <1>8 DEF Play, TakeAudio, At, Goes
  <2>2. /\ \A q \in Tasks \ {p} : task'[q] = task[q]
        /\ task'[p].step = "push"
        /\ task'[p].restoring = task[p].restoring /\ task'[p].asked = task[p].asked
        /\ task'[p].saved = task[p].saved
    BY <1>1, <1>2, <2>1 DEF Records
  <2>3. Ordered(p)'
    BY <2>1, <2>2 DEF Ordered
  <2>4. NobodySets' => NobodySets
    BY <2>1, <2>2 DEF NobodySets
  <2>5. ASSUME ~collided' PROVE WritesBack(p)' /\ Restores(p)'
    BY <1>3, <2>1, <2>2, <2>5 DEF WritesBack, Restores
  <2>6. (\E q \in Tasks : Owes(q)) => \E q \in Tasks : Owes(q)'
    BY <2>1, <2>2, OthersOwe DEF Owes
  <2>7. ASSUME ~collided', ~\E q \in Tasks : Owes(q) PROVE volume' = UserVolume
    <3>1. CASE created
      BY <1>3, <2>1, <2>7, <3>1
    <3>2. CASE ~created
      <4>1. NobodySets
        <5> SUFFICES ASSUME NEW q \in Tasks, task[q].step = "unset" PROVE FALSE
          BY DEF NobodySets
        <5>1. task[q].restoring
          BY <1>1, <2>7 DEF Owes
        <5>2. Ordered(q)
          BY DEF VolumeInv
        <5> QED
          BY <3>2, <5>1, <5>2 DEF Ordered
      <4>2. stored = UserVolume
        BY <1>3, <2>1, <2>7, <4>1
      <4> QED
        BY <2>1, <3>2, <4>2, Numbers
    <3> QED
      BY <3>1, <3>2
  <2> QED
    BY <1>1, <1>3, <2>1, <2>2, <2>3, <2>4, <2>5, <2>6, <2>7, OneTask
<1>9. CASE PushPacketToDecodeQueue(p) \/ EndOfPlaySound(p)
  <2>1. /\ task[p].step = "push" /\ UNCHANGED <<created, volume, stored, collided>>
        /\ \/ task' = [task EXCEPT ![p].frames = task[p].frames + 1]
           \/ task' = [task EXCEPT ![p].step = "delay"]
    BY <1>1, <1>9 DEF PushPacketToDecodeQueue, EndOfPlaySound, Release, At, Goes
  <2>2. /\ \A q \in Tasks \ {p} : task'[q] = task[q]
        /\ task'[p].step \in {"push", "delay"}
        /\ task'[p].restoring = task[p].restoring /\ task'[p].asked = task[p].asked
        /\ task'[p].saved = task[p].saved
    BY <1>1, <1>2, <2>1 DEF Records
  <2>3. Ordered(p)'
    BY <1>2, <2>1, <2>2 DEF Ordered
  <2>4. NobodySets' => NobodySets
    BY <2>1, <2>2 DEF NobodySets
  <2>5. ASSUME ~collided' PROVE WritesBack(p)' /\ Restores(p)'
    BY <1>3, <2>1, <2>2, <2>5 DEF WritesBack, Restores
  <2>6. (\E q \in Tasks : Owes(q)) => \E q \in Tasks : Owes(q)'
    BY <2>1, <2>2, OthersOwe DEF Owes
  <2> QED
    BY <1>1, <1>3, <2>1, <2>2, <2>3, <2>4, <2>5, <2>6, OneTask
<1>10. CASE DelayEnds(p)
  <2>1. /\ task[p].step = "delay" /\ UNCHANGED <<created, volume, stored, collided>>
        /\ task' = [task EXCEPT ![p].frames = 0, ![p].restoring = (task[p].asked # NoRequest),
                      ![p].step = IF task[p].asked = NoRequest THEN "gone" ELSE "read"]
    BY <1>10 DEF DelayEnds, At
  <2>2. /\ \A q \in Tasks \ {p} : task'[q] = task[q]
        /\ task'[p].step = IF task[p].asked = NoRequest THEN "gone" ELSE "read"
        /\ task'[p].asked = task[p].asked /\ task'[p].saved = task[p].saved
    BY <1>1, <1>2, <2>1 DEF Records
  <2>3. created
    BY <1>2, <2>1 DEF Ordered
  <2>4. Ordered(p)'
    BY <2>1, <2>2, <2>3 DEF Ordered
  <2>5. NobodySets' => NobodySets
    BY <2>1, <2>2 DEF NobodySets
  <2>6. ASSUME ~collided' PROVE WritesBack(p)' /\ Restores(p)'
    BY <1>3, <2>1, <2>2, <2>6 DEF WritesBack, Restores
  <2>7. Owes(p) => Owes(p)'
    BY <2>1, <2>2 DEF Owes
  <2>8. (\E q \in Tasks : Owes(q)) => \E q \in Tasks : Owes(q)'
    BY <2>2, <2>7, OthersOwe
  <2> QED
    BY <1>1, <1>3, <2>1, <2>2, <2>4, <2>5, <2>6, <2>8, OneTask
<1> QED
  BY <1>4, <1>5, <1>6, <1>7, <1>8, <1>9, <1>10 DEF TaskSteps, SettingVolume

\* The codec takes a frame: only what is left of the delays changes.
LEMMA WriteVolume ==
  ASSUME TypeInv, VolumeInv, Write
  PROVE  VolumeInv'
<1>1. UNCHANGED <<created, volume, stored, collided>>
  BY DEF Write, volumeVars
<1>2. ASSUME NEW q \in Tasks
      PROVE  /\ task'[q].step = task[q].step /\ task'[q].asked = task[q].asked
             /\ task'[q].saved = task[q].saved /\ task'[q].persisted = task[q].persisted
             /\ task'[q].restoring = task[q].restoring
  <2>1. task[q] \in Records
    BY TypeParts DEF TasksOK
  <2>2. task'[q] = task[q] \/ task'[q] = [task[q] EXCEPT !.frames = task[q].frames - 1]
    BY DEF Write
  <2> QED
    BY <2>1, <2>2 DEF Records
<1>3. \A q \in Tasks : /\ Ordered(q)' <=> Ordered(q)
                       /\ WritesBack(q)' <=> WritesBack(q)
                       /\ Restores(q)' <=> Restores(q)
                       /\ Owes(q)' <=> Owes(q)
  BY <1>1, <1>2 DEF Ordered, WritesBack, Restores, Owes
<1>4. NobodySets' <=> NobodySets
  BY <1>2 DEF NobodySets
<1> QED
  BY <1>1, <1>3, <1>4 DEF VolumeInv

LEMMA RestartVolume ==
  ASSUME TypeInv, VolumeInv, Restart
  PROVE  VolumeInv'
<1>1. ~created' /\ stored' = stored
      /\ collided' = (collided \/ \E p \in Tasks : At(p, "unset"))
  BY DEF Restart
<1>2. ASSUME NEW q \in Tasks
      PROVE  /\ task'[q].step \in {"new", "gone"}
             /\ task'[q].step = "new" => ~task'[q].restoring
  <2>1. CASE Active(q)
    BY <2>1 DEF Restart, New
  <2>2. CASE ~Active(q)
    <3>1. task'[q] = task[q] /\ task[q].step \in {"new", "gone"}
      BY <2>2 DEF Restart, Active
    <3> QED
      BY <3>1 DEF VolumeInv, Ordered
  <2> QED
    BY <2>1, <2>2
<1>3. \A q \in Tasks : Ordered(q)' /\ WritesBack(q)' /\ Restores(q)'
  BY <1>2 DEF Ordered, WritesBack, Restores
<1>4. ~collided' => stored' = UserVolume
  BY <1>1 DEF VolumeInv, NobodySets, At
<1> QED
  BY <1>1, <1>3, <1>4 DEF VolumeInv

LEMMA NextVolume == TypeInv /\ TypeInv' /\ VolumeInv /\ [Next]_vars => VolumeInv'
<1> SUFFICES ASSUME TypeInv, TypeInv', VolumeInv, [Next]_vars PROVE VolumeInv'
  OBVIOUS
<1> USE DEF volumeVars
<1>1. ASSUME NEW ok \in BOOLEAN, Decode(ok) PROVE VolumeInv'
  BY <1>1, VolumeKept DEF Decode
<1>2. CASE TakeFrame \/ Silence \/ \E who \in Openers : OutputComesOn(who)
  BY <1>2, VolumeKept DEF TakeFrame, Silence, OutputComesOn
<1>3. CASE PowerSteps
  BY <1>3, VolumeKept DEF PowerSteps, PowerFires, PowerChecks, PowerCloses, PowerEnds, PowerStops
<1>4. CASE UNCHANGED vars
  BY <1>4, VolumeKept DEF vars
<1> QED
  BY <1>1, <1>2, <1>3, <1>4, TaskVolume, WriteVolume, RestartVolume DEF Next, Work

\* When nothing is played any more the volume is the user's, in the codec and in
\* flash (playback_task and board_set_speaker_volume), however many playbacks
\* overlapped or were cut off by a restart, unless two tasks collided there.
THEOREM UserVolumeComesBack == Spec => []VolumeComesBack
<1>1. TypeInv /\ VolumeInv => VolumeComesBack
  <2> SUFFICES ASSUME VolumeInv, NobodyPlays, ~collided
               PROVE  stored = UserVolume /\ (created => volume = UserVolume)
    BY DEF VolumeComesBack
  <2>1. NobodySets
    BY DEF NobodyPlays, Active, NobodySets
  <2>2. ~\E p \in Tasks : Owes(p)
    BY DEF NobodyPlays, Active, Owes
  <2> QED
    BY <2>1, <2>2 DEF VolumeInv
<1>2. Spec => []VolumeInv
  BY InitVolume, NextVolume, SpecTypes, PTL DEF Spec
<1> QED
  BY <1>1, <1>2, SpecTypes, PTL

-----------------------------------------------------------------------------
(***************************************************************************)
(* What waits, position by position, and what the steps do to it.          *)
(***************************************************************************)
InHand == IF writing = Nobody THEN 0 ELSE 1

Queued(p) == \E i \in 1..Len(Waiting) : Waiting[i] = p

Sizes ==
  /\ Len(Waiting) = InHand + Len(playbackQueue) + Len(decodeQueue)
  /\ Len(playbackQueue) \in Nat /\ Len(decodeQueue) \in Nat /\ InHand \in {0, 1}

Places ==
  \A i \in 1..Len(Waiting) :
    Waiting[i] = IF i <= InHand THEN writing
                 ELSE IF i <= InHand + Len(playbackQueue) THEN playbackQueue[i - InHand]
                 ELSE decodeQueue[i - InHand - Len(playbackQueue)]

LaidOut == Waiting \in Seq(Tasks) /\ Sizes /\ Places

LEMMA WaitingAt == QueuesOK => LaidOut
<1> SUFFICES ASSUME QueuesOK PROVE LaidOut
  OBVIOUS
<1> DEFINE hand == IF writing = Nobody THEN <<>> ELSE <<writing>>
<1>1. hand \in Seq(Tasks) /\ Len(hand) = InHand /\ InHand \in {0, 1}
      /\ \A i \in 1..InHand : hand[i] = writing
  BY DEF QueuesOK, InHand
<1>2. /\ decodeQueue \in Seq(Tasks) /\ playbackQueue \in Seq(Tasks)
      /\ Len(playbackQueue) \in Nat /\ Len(decodeQueue) \in Nat
  BY LenProperties DEF QueuesOK
<1>3. Waiting = hand \o playbackQueue \o decodeQueue
  BY DEF Waiting
<1> HIDE DEF hand
<1>4. /\ hand \o playbackQueue \in Seq(Tasks)
      /\ Len(hand \o playbackQueue) = InHand + Len(playbackQueue)
      /\ \A i \in 1..InHand + Len(playbackQueue) :
           (hand \o playbackQueue)[i] = IF i <= InHand THEN hand[i] ELSE playbackQueue[i - InHand]
  BY <1>1, <1>2, ConcatProperties
<1> DEFINE front == hand \o playbackQueue
<1> HIDE DEF front
<1>5. /\ front \o decodeQueue \in Seq(Tasks)
      /\ Len(front \o decodeQueue) = Len(front) + Len(decodeQueue)
      /\ \A i \in 1..Len(front) + Len(decodeQueue) :
           (front \o decodeQueue)[i] = IF i <= Len(front) THEN front[i] ELSE decodeQueue[i - Len(front)]
  BY <1>2, <1>4, ConcatProperties DEF front
<1>6. Waiting = front \o decodeQueue
  BY <1>3 DEF front
<1>7. Len(front) = InHand + Len(playbackQueue)
      /\ \A i \in 1..InHand + Len(playbackQueue) :
           front[i] = IF i <= InHand THEN writing ELSE playbackQueue[i - InHand]
  BY <1>1, <1>2, <1>4 DEF front
<1>8. Waiting \in Seq(Tasks)
  BY <1>5, <1>6
<1>9. Sizes
  BY <1>1, <1>2, <1>5, <1>6, <1>7 DEF Sizes
<1>10. Places
  <2> SUFFICES ASSUME NEW i \in 1..Len(Waiting)
               PROVE  Waiting[i] = IF i <= InHand THEN writing
                                   ELSE IF i <= InHand + Len(playbackQueue) THEN playbackQueue[i - InHand]
                                   ELSE decodeQueue[i - InHand - Len(playbackQueue)]
    BY DEF Places
  <2>1. i \in 1..Len(front) + Len(decodeQueue)
    BY <1>5, <1>6
  <2>2. Waiting[i] = IF i <= Len(front) THEN front[i] ELSE decodeQueue[i - Len(front)]
    BY <1>5, <1>6, <2>1
  <2>3. CASE i <= Len(front)
    <3>1. i \in 1..InHand + Len(playbackQueue) /\ i <= InHand + Len(playbackQueue)
      BY <1>7, <2>1, <2>3
    <3> QED
      BY <1>7, <2>2, <2>3, <3>1
  <2>4. CASE ~(i <= Len(front))
    <3>1. /\ ~(i <= InHand + Len(playbackQueue)) /\ ~(i <= InHand)
          /\ i - Len(front) = i - InHand - Len(playbackQueue)
      BY <1>1, <1>2, <1>7, <2>1, <2>4
    <3> QED
      BY <2>2, <2>4, <3>1
  <2> QED
    BY <2>3, <2>4
<1> QED
  BY <1>8, <1>9, <1>10 DEF LaidOut

Read ==
  /\ Len(Waiting) \in Nat /\ DOMAIN Waiting = 1..Len(Waiting)
  /\ \A i \in 1..Len(Waiting) : Waiting[i] \in Tasks
  /\ \A p \in Tasks : InQueues(p) <=> Queued(p)
  /\ Quiet => Len(Waiting) = 0

LEMMA WaitingFacts == QueuesOK => Read
<1> SUFFICES ASSUME QueuesOK PROVE Read
  OBVIOUS
<1>1. /\ Waiting \in Seq(Tasks) /\ Len(Waiting) = InHand + Len(playbackQueue) + Len(decodeQueue)
      /\ Len(playbackQueue) \in Nat /\ Len(decodeQueue) \in Nat /\ InHand \in {0, 1}
      /\ \A i \in 1..Len(Waiting) :
              Waiting[i] = IF i <= InHand THEN writing
                           ELSE IF i <= InHand + Len(playbackQueue) THEN playbackQueue[i - InHand]
                           ELSE decodeQueue[i - InHand - Len(playbackQueue)]
  BY WaitingAt DEF LaidOut, Sizes, Places
<1>2. /\ DOMAIN decodeQueue = 1..Len(decodeQueue) /\ DOMAIN playbackQueue = 1..Len(playbackQueue)
      /\ DOMAIN Waiting = 1..Len(Waiting)
  BY <1>1, LenProperties DEF QueuesOK
<1>3. ASSUME NEW p \in Tasks, InQueues(p) PROVE Queued(p)
  <2>1. CASE p = writing
    <3>1. InHand = 1 /\ 1 \in 1..Len(Waiting)
      BY <1>1, <2>1, SoundAssumption DEF InHand, Tasks, Nobody
    <3> QED
      BY <1>1, <2>1, <3>1 DEF Queued
  <2>2. CASE \E i \in DOMAIN playbackQueue : playbackQueue[i] = p
    <3>1. PICK i \in 1..Len(playbackQueue) : playbackQueue[i] = p
      BY <1>2, <2>2
    <3>2. /\ i + InHand \in 1..Len(Waiting) /\ ~(i + InHand <= InHand)
          /\ i + InHand <= InHand + Len(playbackQueue) /\ (i + InHand) - InHand = i
      BY <1>1
    <3>3. Waiting[i + InHand] = playbackQueue[i]
      BY <1>1, <3>2
    <3> QED
      BY <3>1, <3>2, <3>3 DEF Queued
  <2>3. CASE \E i \in DOMAIN decodeQueue : decodeQueue[i] = p
    <3>1. PICK i \in 1..Len(decodeQueue) : decodeQueue[i] = p
      BY <1>2, <2>3
    <3> DEFINE j == i + InHand + Len(playbackQueue)
    <3>2. /\ j \in 1..Len(Waiting) /\ ~(j <= InHand)
          /\ ~(j <= InHand + Len(playbackQueue)) /\ j - InHand - Len(playbackQueue) = i
      BY <1>1
    <3>3. Waiting[j] = decodeQueue[i]
      BY <1>1, <3>2
    <3> QED
      BY <3>1, <3>2, <3>3 DEF Queued
  <2> QED
    BY <1>3, <2>1, <2>2, <2>3 DEF InQueues
<1>4. ASSUME NEW p \in Tasks, Queued(p) PROVE InQueues(p)
  <2>1. PICK i \in 1..Len(Waiting) : Waiting[i] = p
    BY <1>4 DEF Queued
  <2>2. CASE i <= InHand
    BY <1>1, <2>1, <2>2 DEF InQueues
  <2>3. CASE ~(i <= InHand) /\ i <= InHand + Len(playbackQueue)
    <3>1. i - InHand \in 1..Len(playbackQueue)
      BY <1>1, <2>3
    <3> QED
      BY <1>1, <1>2, <2>1, <2>3, <3>1 DEF InQueues
  <2>4. CASE ~(i <= InHand + Len(playbackQueue))
    <3>1. i - InHand - Len(playbackQueue) \in 1..Len(decodeQueue) /\ ~(i <= InHand)
      BY <1>1, <2>4
    <3> QED
      BY <1>1, <1>2, <2>1, <2>4, <3>1 DEF InQueues
  <2> QED
    BY <2>2, <2>3, <2>4
<1>5. Quiet => Len(Waiting) = 0
  <2> SUFFICES ASSUME Quiet PROVE Len(Waiting) = 0
    OBVIOUS
  <2>1. InHand = 0 /\ playbackQueue = <<>> /\ decodeQueue = <<>>
    BY DEF Quiet, InHand
  <2>2. Len(playbackQueue) = 0 /\ Len(decodeQueue) = 0
    BY <2>1, EmptySeq
  <2> QED
    BY <1>1, <2>1, <2>2
<1> QED
  BY <1>1, <1>2, <1>3, <1>4, <1>5, ElementOfSeq DEF Read

\* What waits is what waited, without the frame at k.
Without(k) ==
  /\ Len(Waiting') = Len(Waiting) - 1
  /\ \A i \in 1..Len(Waiting') : Waiting'[i] = IF i < k THEN Waiting[i] ELSE Waiting[i + 1]

LEMMA SameWaiting ==
  ASSUME QueuesOK, QueuesOK', Len(Waiting') = Len(Waiting),
         \A i \in 1..Len(Waiting) : Waiting'[i] = Waiting[i]
  PROVE  Waiting' = Waiting
<1>1. Waiting \in Seq(Tasks) /\ Waiting' \in Seq(Tasks)
  <2>1. Waiting \in Seq(Tasks)
    BY WaitingAt DEF LaidOut
  <2>2. LaidOut'
    BY WaitingAt, PTL
  <2> QED
    BY <2>1, <2>2 DEF LaidOut
<1> QED
  BY <1>1, SeqEqual

\* A packet is decoded: the frame takes its place, or nothing does.
LEMMA DecodeWaiting ==
  ASSUME QueuesOK, QueuesOK', NEW ok \in BOOLEAN, Decode(ok)
  PROVE  Waiting' = Waiting \/ \E k \in 1..Len(Waiting) : Without(k)
<1>1. Sizes /\ Sizes' /\ Places /\ Places'
  <2>1. LaidOut /\ LaidOut'
    BY WaitingAt, PTL
  <2> QED
    BY <2>1 DEF LaidOut
<1>2. writing' = writing /\ InHand' = InHand
  BY DEF Decode, InHand
<1>3. /\ Head(decodeQueue) = decodeQueue[1] /\ decodeQueue[1] \in Tasks
      /\ Len(decodeQueue') = Len(decodeQueue) - 1 /\ Len(decodeQueue) \in Nat
      /\ \A i \in 1..Len(decodeQueue') : decodeQueue'[i] = decodeQueue[i + 1]
  <2>1. decodeQueue \in Seq(Tasks) /\ decodeQueue # <<>>
    BY DEF QueuesOK, Decode
  <2>2. Len(decodeQueue) \in Nat \ {0}
    BY <2>1, EmptySeq
  <2> QED
    BY <2>1, <2>2, HeadTailProperties, ElementOfSeq DEF Decode
<1>4. CASE ok
  <2>1. /\ Len(playbackQueue') = Len(playbackQueue) + 1
        /\ playbackQueue'[Len(playbackQueue) + 1] = decodeQueue[1]
        /\ \A i \in 1..Len(playbackQueue) : playbackQueue'[i] = playbackQueue[i]
    <3>1. playbackQueue' = Append(playbackQueue, Head(decodeQueue))
      BY <1>4 DEF Decode
    <3> QED
      BY <1>3, <3>1, AppendProperties DEF QueuesOK
  <2>2. Len(Waiting') = Len(Waiting)
    BY <1>1, <1>2, <1>3, <2>1 DEF Sizes
  <2>3. ASSUME NEW i \in 1..Len(Waiting) PROVE Waiting'[i] = Waiting[i]
    <3>1. CASE i <= InHand
      BY <1>1, <1>2, <2>2, <3>1 DEF Sizes, Places
    <3>2. CASE ~(i <= InHand) /\ i <= InHand + Len(playbackQueue)
      <4>1. i - InHand \in 1..Len(playbackQueue) /\ i <= InHand + Len(playbackQueue')
        BY <1>1, <2>1, <3>2 DEF Sizes
      <4> QED
        BY <1>1, <1>2, <2>1, <2>2, <3>2, <4>1 DEF Sizes, Places
    <3>3. CASE i = InHand + Len(playbackQueue) + 1
      <4>1. Waiting'[i] = playbackQueue'[Len(playbackQueue) + 1]
        <5>1. ~(i <= InHand) /\ i <= InHand + Len(playbackQueue') /\ i - InHand = Len(playbackQueue) + 1
          BY <1>1, <2>1, <3>3 DEF Sizes
        <5>2. Waiting'[i] = playbackQueue'[i - InHand]
          BY <1>1, <1>2, <2>2, <5>1 DEF Sizes, Places
        <5> QED
          BY <5>1, <5>2
      <4>2. Waiting[i] = decodeQueue[1]
        <5>1. ~(i <= InHand) /\ ~(i <= InHand + Len(playbackQueue)) /\ i - InHand - Len(playbackQueue) = 1
          BY <1>1, <3>3 DEF Sizes
        <5> QED
          BY <1>1, <5>1 DEF Places
      <4> QED
        BY <2>1, <4>1, <4>2
    <3>4. CASE i > InHand + Len(playbackQueue) + 1
      <4> DEFINE j == i - InHand - Len(playbackQueue)
      <4>1. j - 1 \in 1..Len(decodeQueue') /\ (j - 1) + 1 = j
        BY <1>1, <1>3, <3>4 DEF Sizes
      <4>2. Waiting[i] = decodeQueue[j]
        <5>1. ~(i <= InHand) /\ ~(i <= InHand + Len(playbackQueue))
          BY <1>1, <3>4 DEF Sizes
        <5> QED
          BY <1>1, <5>1 DEF Places
      <4>3. Waiting'[i] = decodeQueue'[j - 1]
        <5>1. /\ ~(i <= InHand) /\ ~(i <= InHand + Len(playbackQueue'))
              /\ i - InHand - Len(playbackQueue') = j - 1
          BY <1>1, <2>1, <3>4 DEF Sizes
        <5> QED
          BY <1>1, <1>2, <2>2, <5>1 DEF Places
      <4>4. decodeQueue'[j - 1] = decodeQueue[j]
        BY <1>3, <4>1
      <4> QED
        BY <4>2, <4>3, <4>4
    <3> QED
      BY <1>1, <3>1, <3>2, <3>3, <3>4 DEF Sizes
  <2> QED
    BY <2>2, <2>3, SameWaiting
<1>5. CASE ~ok
  <2> DEFINE k == InHand + Len(playbackQueue) + 1
  <2>1. playbackQueue' = playbackQueue
    BY <1>5 DEF Decode
  <2>2. k \in 1..Len(Waiting) /\ Len(Waiting') = Len(Waiting) - 1
    BY <1>1, <1>2, <1>3, <2>1 DEF Sizes
  <2>3. ASSUME NEW i \in 1..Len(Waiting')
        PROVE  Waiting'[i] = IF i < k THEN Waiting[i] ELSE Waiting[i + 1]
    <3>1. i \in 1..Len(Waiting) /\ i + 1 \in 1..Len(Waiting)
      BY <1>1, <2>2 DEF Sizes
    <3>2. CASE i < k
      <4>1. i <= InHand + Len(playbackQueue)
        BY <1>1, <3>2 DEF Sizes
      <4>2. Waiting'[i] = IF i <= InHand THEN writing ELSE playbackQueue[i - InHand]
        BY <1>1, <1>2, <2>1, <4>1 DEF Sizes, Places
      <4>3. Waiting[i] = IF i <= InHand THEN writing ELSE playbackQueue[i - InHand]
        BY <1>1, <3>1, <4>1 DEF Sizes, Places
      <4> QED
        BY <3>2, <4>2, <4>3
    <3>3. CASE ~(i < k)
      <4> DEFINE j == i - InHand - Len(playbackQueue)
      <4>1. j \in 1..Len(decodeQueue') /\ ~(i <= InHand) /\ ~(i <= InHand + Len(playbackQueue))
        BY <1>1, <1>2, <2>1, <3>3 DEF Sizes
      <4>2. Waiting'[i] = decodeQueue'[j]
        BY <1>1, <1>2, <2>1, <4>1 DEF Sizes, Places
      <4>3. Waiting[i + 1] = decodeQueue[j + 1]
        <5>1. /\ ~(i + 1 <= InHand) /\ ~(i + 1 <= InHand + Len(playbackQueue))
              /\ i + 1 - InHand - Len(playbackQueue) = j + 1
          BY <1>1, <4>1 DEF Sizes
        <5> QED
          BY <1>1, <3>1, <5>1 DEF Sizes, Places
      <4> QED
        BY <1>3, <3>3, <4>1, <4>2, <4>3
    <3> QED
      BY <3>2, <3>3
  <2> QED
    BY <2>2, <2>3 DEF Without
<1> QED
  BY <1>4, <1>5

\* The output task takes a frame in hand.
LEMMA TakeFrameWaiting ==
  ASSUME QueuesOK, QueuesOK', TakeFrame
  PROVE  Waiting' = Waiting
<1>1. Sizes /\ Sizes' /\ Places /\ Places'
  <2>1. LaidOut /\ LaidOut'
    BY WaitingAt, PTL
  <2> QED
    BY <2>1 DEF LaidOut
<1>2. /\ playbackQueue \in Seq(Tasks) /\ playbackQueue # <<>> /\ decodeQueue' = decodeQueue
      /\ playbackQueue' = Tail(playbackQueue) /\ writing' = Head(playbackQueue) /\ InHand = 0
  BY DEF QueuesOK, TakeFrame, InHand
<1>3. Len(playbackQueue) \in Nat \ {0}
  BY <1>2, EmptySeq
<1>4. /\ writing' = playbackQueue[1] /\ playbackQueue[1] \in Tasks
      /\ Len(playbackQueue') = Len(playbackQueue) - 1
      /\ \A i \in 1..Len(playbackQueue') : playbackQueue'[i] = playbackQueue[i + 1]
  BY <1>2, <1>3, HeadTailProperties, ElementOfSeq
<1>5. InHand' = 1
  BY <1>4, SoundAssumption DEF InHand, Tasks, Nobody
<1>6. Len(Waiting') = Len(Waiting)
  BY <1>1, <1>2, <1>4, <1>5 DEF Sizes
<1>7. ASSUME NEW i \in 1..Len(Waiting) PROVE Waiting'[i] = Waiting[i]
  <2>1. CASE i = 1
    <3>1. Waiting'[1] = writing' /\ Waiting[1] = playbackQueue[1]
      BY <1>1, <1>2, <1>3, <1>5, <1>6, <2>1 DEF Sizes, Places
    <3> QED
      BY <1>4, <2>1, <3>1
  <2>2. CASE i # 1 /\ i <= Len(playbackQueue)
    <3>1. i - 1 \in 1..Len(playbackQueue') /\ (i - 1) + 1 = i
      BY <1>1, <1>4, <2>2 DEF Sizes
    <3>2. Waiting[i] = playbackQueue[i]
      BY <1>1, <1>2, <2>2 DEF Sizes, Places
    <3>3. Waiting'[i] = playbackQueue'[i - 1]
      BY <1>1, <1>4, <1>5, <1>6, <2>2, <3>1 DEF Sizes, Places
    <3> QED
      BY <1>4, <3>1, <3>2, <3>3
  <2>3. CASE i > Len(playbackQueue)
    <3> DEFINE j == i - Len(playbackQueue)
    <3>1. Waiting[i] = decodeQueue[j]
      BY <1>1, <1>2, <2>3 DEF Sizes, Places
    <3>2. i - InHand' - Len(playbackQueue') = j /\ ~(i <= InHand') /\ ~(i <= InHand' + Len(playbackQueue'))
      BY <1>1, <1>3, <1>4, <1>5, <2>3 DEF Sizes
    <3>3. Waiting'[i] = decodeQueue'[j]
      BY <1>1, <1>6, <3>2 DEF Sizes, Places
    <3> QED
      BY <1>2, <3>1, <3>3
  <2> QED
    BY <1>1, <2>1, <2>2, <2>3 DEF Sizes
<1> QED
  BY <1>6, <1>7, SameWaiting

\* The codec takes the frame in hand.
LEMMA WriteWaiting ==
  ASSUME QueuesOK, QueuesOK', Write
  PROVE  1 \in 1..Len(Waiting) /\ Without(1) /\ writing = Waiting[1]
<1>1. Sizes /\ Sizes' /\ Places /\ Places'
  <2>1. LaidOut /\ LaidOut'
    BY WaitingAt, PTL
  <2> QED
    BY <2>1 DEF LaidOut
<1>2. UNCHANGED <<playbackQueue, decodeQueue>> /\ InHand = 1 /\ InHand' = 0
  BY DEF Write, InHand
<1>3. Len(Waiting') = Len(Waiting) - 1 /\ 1 \in 1..Len(Waiting) /\ writing = Waiting[1]
  BY <1>1, <1>2 DEF Sizes, Places
<1>4. ASSUME NEW i \in 1..Len(Waiting') PROVE Waiting'[i] = Waiting[i + 1]
  <2>1. i + 1 \in 1..Len(Waiting)
    BY <1>1, <1>3 DEF Sizes
  <2>2. CASE i <= Len(playbackQueue)
    <3>1. Waiting'[i] = playbackQueue[i]
      BY <1>1, <1>2, <2>2 DEF Sizes, Places
    <3>2. Waiting[i + 1] = playbackQueue[i]
      BY <1>1, <1>2, <2>1, <2>2 DEF Sizes, Places
    <3> QED
      BY <3>1, <3>2
  <2>3. CASE i > Len(playbackQueue)
    <3>1. Waiting'[i] = decodeQueue[i - Len(playbackQueue)]
      BY <1>1, <1>2, <2>3 DEF Sizes, Places
    <3>2. (i + 1) - 1 - Len(playbackQueue) = i - Len(playbackQueue)
          /\ ~(i + 1 <= 1) /\ ~(i + 1 <= 1 + Len(playbackQueue))
      BY <1>1, <2>3 DEF Sizes
    <3>3. Waiting[i + 1] = decodeQueue[(i + 1) - 1 - Len(playbackQueue)]
      BY <1>1, <1>2, <2>1, <3>2 DEF Sizes, Places
    <3> QED
      BY <3>1, <3>2, <3>3
  <2> QED
    BY <1>1, <2>2, <2>3 DEF Sizes
<1> QED
  BY <1>3, <1>4 DEF Without

\* A packet is queued.
LEMMA PushWaiting ==
  ASSUME QueuesOK, QueuesOK', NEW p \in Tasks, PushPacketToDecodeQueue(p)
  PROVE  /\ Len(Waiting') = Len(Waiting) + 1 /\ Waiting'[Len(Waiting) + 1] = p
         /\ \A i \in 1..Len(Waiting) : Waiting'[i] = Waiting[i]
<1>1. Sizes /\ Sizes' /\ Places /\ Places'
  <2>1. LaidOut /\ LaidOut'
    BY WaitingAt, PTL
  <2> QED
    BY <2>1 DEF LaidOut
<1>2. UNCHANGED <<playbackQueue, writing>> /\ InHand' = InHand
  BY DEF PushPacketToDecodeQueue, InHand
<1>3. /\ Len(decodeQueue') = Len(decodeQueue) + 1 /\ decodeQueue'[Len(decodeQueue) + 1] = p
      /\ \A i \in 1..Len(decodeQueue) : decodeQueue'[i] = decodeQueue[i]
  BY AppendProperties DEF QueuesOK, PushPacketToDecodeQueue
<1>4. Len(Waiting') = Len(Waiting) + 1
  BY <1>1, <1>2, <1>3 DEF Sizes
<1>5. Waiting'[Len(Waiting) + 1] = p
  <2> DEFINE n == Len(Waiting) + 1
  <2>1. n \in 1..Len(Waiting') /\ n - InHand - Len(playbackQueue) = Len(decodeQueue) + 1
        /\ ~(n <= InHand) /\ ~(n <= InHand + Len(playbackQueue))
    BY <1>1, <1>4 DEF Sizes
  <2>2. Waiting'[n] = decodeQueue'[n - InHand - Len(playbackQueue)]
    BY <1>1, <1>2, <2>1 DEF Sizes, Places
  <2> QED
    BY <1>3, <2>1, <2>2
<1>6. ASSUME NEW i \in 1..Len(Waiting) PROVE Waiting'[i] = Waiting[i]
  <2>1. i \in 1..Len(Waiting')
    BY <1>1, <1>4 DEF Sizes
  <2>2. CASE i <= InHand + Len(playbackQueue)
    BY <1>1, <1>2, <2>1, <2>2 DEF Sizes, Places
  <2>3. CASE ~(i <= InHand + Len(playbackQueue))
    <3>1. i - InHand - Len(playbackQueue) \in 1..Len(decodeQueue) /\ ~(i <= InHand)
      BY <1>1, <2>3 DEF Sizes
    <3> QED
      BY <1>1, <1>2, <1>3, <2>1, <2>3, <3>1 DEF Sizes, Places
  <2> QED
    BY <2>2, <2>3
<1> QED
  BY <1>4, <1>5, <1>6

-----------------------------------------------------------------------------
(***************************************************************************)
(* The order of the clips. A task queues packets only while it holds the   *)
(* lock, behind everything else; before that nothing of it waits. If       *)
(* nothing else waited when it got the lock, its clip is at the front, and *)
(* each frame that the codec takes shortens both what waits of it and its  *)
(* delay, so nothing is left when the delay is over.                       *)
(***************************************************************************)
Setting(p) == task[p].step \in {"read", "set", "unset"}
Early(p)   == task[p].step \in {"new", "play"} \/ (Setting(p) /\ ~task[p].restoring)
Late(p)    == task[p].step = "gone" \/ (Setting(p) /\ task[p].restoring)

InOrder(p) ==
  /\ task[p].step = "new" => ~task[p].restoring
  /\ Early(p) => ~Queued(p)
  /\ task[p].step = "push" =>
       /\ audioMutex = p
       /\ \A i, j \in 1..Len(Waiting) : i < j /\ Waiting[i] = p => Waiting[j] = p
       /\ p \notin behind => Len(Waiting) <= task[p].frames
  /\ p \notin behind =>
       /\ task[p].step = "delay" => \A i \in 1..Len(Waiting) : Waiting[i] = p => i <= task[p].frames
       /\ Late(p) => ~Queued(p)

OrderInv ==
  /\ \A p \in Tasks : InOrder(p)
  /\ \A i, j, k \in 1..Len(Waiting) :
       i < j /\ j < k /\ Waiting[i] = Waiting[k] => Waiting[j] = Waiting[i]
  /\ ~created => Len(Waiting) = 0

LEMMA InitOrder == Init => OrderInv
<1> SUFFICES ASSUME Init PROVE OrderInv
  OBVIOUS
<1>1. \A p \in Tasks : task[p] = New
  BY DEF Init
<1>2. Len(Waiting) = 0
  <2>1. QueuesOK
    BY InitTypes, TypeParts
  <2>2. Quiet
    BY <1>1 DEF Init, Quiet, At, New
  <2> QED
    BY <2>1, <2>2, WaitingFacts DEF Read
<1> QED
  BY <1>1, <1>2 DEF OrderInv, InOrder, Early, Late, Setting, Queued, New

\* Nothing that concerns the order changes.
LEMMA OrderKept ==
  ASSUME OrderInv, Waiting' = Waiting, UNCHANGED <<task, audioMutex, created, behind>>
  PROVE  OrderInv'
BY DEF OrderInv, InOrder, Early, Late, Setting, Queued

LEMMA QueuesKept ==
  ASSUME UNCHANGED queueVars
  PROVE  Waiting' = Waiting
BY DEF queueVars, Waiting

\* A frame leaves the queues.
LEMMA OrderWithout ==
  ASSUME TypeInv, Read, OrderInv, NEW k \in 1..Len(Waiting), Without(k),
         UNCHANGED <<audioMutex, created, behind>>,
         \A p \in Tasks :
           /\ task'[p].step = task[p].step /\ task'[p].restoring = task[p].restoring
           /\ \/ task'[p].frames = task[p].frames
              \/ k = 1 /\ task[p].step = "delay" /\ task[p].frames > 0
                 /\ task'[p].frames = task[p].frames - 1
  PROVE  OrderInv'
<1> DEFINE from(i) == IF i < k THEN i ELSE i + 1
<1>1. Len(Waiting) \in Nat /\ Len(Waiting') = Len(Waiting) - 1
  BY DEF Read, Without
<1>2. \A i \in 1..Len(Waiting') :
        from(i) \in 1..Len(Waiting) /\ i <= from(i) /\ Waiting'[i] = Waiting[from(i)]
  BY <1>1 DEF Without
<1>3. \A i, j \in 1..Len(Waiting') : i < j => from(i) < from(j)
  BY <1>1
<1> HIDE DEF from
<1>4. \A p \in Tasks : Queued(p)' => Queued(p)
  BY <1>2 DEF Queued
<1>5. ASSUME NEW p \in Tasks PROVE InOrder(p)'
  <2>1. InOrder(p) /\ task[p].frames \in Nat
    BY SoundAssumption, TypeParts DEF OrderInv, TasksOK, Records
  <2>2. /\ task[p].step = "new" => ~task'[p].restoring
        /\ Early(p)' => ~Queued(p)'
        /\ p \notin behind => (Late(p)' => ~Queued(p)')
    BY <1>4, <2>1 DEF InOrder, Early, Late, Setting
  <2>3. ASSUME task[p].step = "push"
        PROVE  /\ audioMutex = p
               /\ \A i, j \in 1..Len(Waiting') : i < j /\ Waiting'[i] = p => Waiting'[j] = p
               /\ p \notin behind => Len(Waiting') <= task'[p].frames
    BY <1>1, <1>2, <1>3, <2>1, <2>3 DEF InOrder
  <2>4. ASSUME task[p].step = "delay", p \notin behind, NEW i \in 1..Len(Waiting'), Waiting'[i] = p
        PROVE  i <= task'[p].frames
    <3>1. from(i) <= task[p].frames
      BY <1>2, <2>1, <2>4 DEF InOrder
    <3>2. k = 1 => from(i) = i + 1
      BY <1>1 DEF from
    <3>3. from(i) \in Nat /\ i \in Nat
      BY <1>1, <1>2
    <3> QED
      BY <1>2, <2>1, <3>1, <3>2, <3>3
  <2> QED
    BY <2>2, <2>3, <2>4 DEF InOrder
<1>6. ASSUME NEW i \in 1..Len(Waiting'), NEW j \in 1..Len(Waiting'), NEW m \in 1..Len(Waiting'),
             i < j, j < m, Waiting'[i] = Waiting'[m]
      PROVE  Waiting'[j] = Waiting'[i]
  <2>1. /\ from(i) < from(j) /\ from(j) < from(m) /\ Waiting[from(i)] = Waiting[from(m)]
        /\ from(i) \in 1..Len(Waiting) /\ from(j) \in 1..Len(Waiting) /\ from(m) \in 1..Len(Waiting)
    BY <1>2, <1>3, <1>6
  <2>2. Waiting[from(j)] = Waiting[from(i)]
    BY <2>1 DEF OrderInv
  <2> QED
    BY <1>2, <2>2
<1>7. ~created => Len(Waiting') = 0
  BY DEF OrderInv
<1> QED
  BY <1>5, <1>6, <1>7 DEF OrderInv

\* A task steps, and queues nothing: the others are where they were.
LEMMA OrderOneTask ==
  ASSUME OrderInv, NEW p \in Tasks, InOrder(p)', UNCHANGED Waiting, created => created',
         \A q \in Tasks \ {p} : /\ task'[q] = task[q] /\ (q \in behind' <=> q \in behind)
                                /\ task[q].step = "push" => audioMutex' = audioMutex
  PROVE  OrderInv'
<1>1. ASSUME NEW q \in Tasks PROVE InOrder(q)'
  <2>1. CASE q = p
    BY <2>1
  <2>2. CASE q # p
    <3>1. InOrder(q) /\ task'[q] = task[q] /\ (q \in behind' <=> q \in behind)
          /\ (task[q].step = "push" => audioMutex' = audioMutex)
      BY <2>2 DEF OrderInv
    <3> QED
      BY <3>1 DEF InOrder, Early, Late, Setting, Queued
  <2> QED
    BY <2>1, <2>2
<1> QED
  BY <1>1 DEF OrderInv

LEMMA PushOrder ==
  ASSUME TypeInv, TypeInv', Read, OrderInv, VolumeInv, NEW p \in Tasks, PushPacketToDecodeQueue(p)
  PROVE  OrderInv'
<1> DEFINE n == Len(Waiting) + 1
<1>1. Len(Waiting') = Len(Waiting) + 1 /\ Waiting'[n] = p
      /\ \A i \in 1..Len(Waiting) : Waiting'[i] = Waiting[i]
  BY PushWaiting, TypeParts, TypePartsNext
<1>2. Len(Waiting) \in Nat
  BY DEF Read
<1>3. \A i \in 1..Len(Waiting') : i \in 1..Len(Waiting) \/ i = n
  BY <1>1, <1>2
<1>4. /\ task[p].step = "push" /\ UNCHANGED <<audioMutex, created, behind>>
      /\ task \in [Tasks -> Records]
      /\ task' = [task EXCEPT ![p].frames = task[p].frames + 1]
  BY TypeParts DEF PushPacketToDecodeQueue, At, historyVars, TasksOK
<1>5. /\ \A q \in Tasks \ {p} : task'[q] = task[q]
      /\ task'[p].step = "push" /\ task'[p].frames = task[p].frames + 1 /\ task[p].frames \in Nat
  BY <1>4, SoundAssumption DEF Records
<1>6. created /\ InOrder(p)
  BY <1>4 DEF VolumeInv, Ordered, OrderInv
<1> HIDE DEF n
<1>7. InOrder(p)'
  <2>1. audioMutex' = p
    BY <1>4, <1>6 DEF InOrder
  <2>2. ASSUME NEW i \in 1..Len(Waiting'), NEW j \in 1..Len(Waiting'), i < j, Waiting'[i] = p
        PROVE  Waiting'[j] = p
    <3>1. CASE j = n
      BY <1>1, <3>1
    <3>2. CASE j \in 1..Len(Waiting)
      <4>1. i \in 1..Len(Waiting)
        BY <1>2, <2>2, <3>2
      <4> QED
        BY <1>1, <1>4, <1>6, <2>2, <3>2, <4>1 DEF InOrder
    <3> QED
      BY <1>3, <3>1, <3>2
  <2>3. p \notin behind => Len(Waiting') <= task'[p].frames
    BY <1>1, <1>2, <1>4, <1>5, <1>6 DEF InOrder
  <2> QED
    BY <1>4, <1>5, <2>1, <2>2, <2>3 DEF InOrder, Early, Late, Setting
<1>8. ASSUME NEW q \in Tasks, q # p PROVE InOrder(q)'
  <2>1. InOrder(q) /\ task'[q] = task[q] /\ task[q].step # "push"
    BY <1>4, <1>5, <1>6, <1>8 DEF OrderInv, InOrder
  <2>2. \A i \in 1..Len(Waiting') : Waiting'[i] = q => i \in 1..Len(Waiting) /\ Waiting[i] = q
    BY <1>1, <1>3, <1>8
  <2>3. Queued(q)' => Queued(q)
    BY <2>2 DEF Queued
  <2> QED
    BY <1>4, <2>1, <2>2, <2>3 DEF InOrder, Early, Late, Setting
<1>9. ASSUME NEW i \in 1..Len(Waiting'), NEW j \in 1..Len(Waiting'), NEW k \in 1..Len(Waiting'),
             i < j, j < k, Waiting'[i] = Waiting'[k]
      PROVE  Waiting'[j] = Waiting'[i]
  <2>1. CASE k = n
    BY <1>1, <1>4, <1>5, <1>7, <1>9, <2>1 DEF InOrder
  <2>2. CASE k \in 1..Len(Waiting)
    <3>1. i \in 1..Len(Waiting) /\ j \in 1..Len(Waiting)
      BY <1>2, <1>9, <2>2
    <3> QED
      BY <1>1, <1>9, <2>2, <3>1 DEF OrderInv
  <2> QED
    BY <1>3, <2>1, <2>2
<1> QED
  BY <1>4, <1>6, <1>7, <1>8, <1>9 DEF OrderInv

LEMMA TaskOrder ==
  ASSUME TypeInv, TypeInv', Read, OrderInv, VolumeInv, NEW p \in Tasks,
         \/ \E v \in Requests : StartPlayback(p, v)
         \/ SettingVolume(p) \/ Play(p) \/ EndOfPlaySound(p) \/ DelayEnds(p)
  PROVE  OrderInv'
<1>1. task \in [Tasks -> Records] /\ task[p] \in Records /\ InOrder(p)
      /\ (task[p].step = "new" => ~task[p].restoring) /\ task[p].frames \in Nat
  BY TypeParts, SoundAssumption DEF TasksOK, Records, OrderInv, InOrder
<1>2. Waiting' = Waiting /\ (Queued(p)' <=> Queued(p))
  <2>1. UNCHANGED queueVars
    BY DEF StartPlayback, SettingVolume, Play, EndOfPlaySound, DelayEnds
  <2>2. Waiting' = Waiting
    BY <2>1, QueuesKept
  <2> QED
    BY <2>2 DEF Queued
<1>3. CASE \E v \in Requests : StartPlayback(p, v)
  <2>1. PICK v \in Requests : StartPlayback(p, v)
    BY <1>3
  <2>2. /\ task[p].step = "new" /\ UNCHANGED <<created, audioMutex, behind>>
        /\ task' = [task EXCEPT ![p].asked = v, ![p].step = IF v = NoRequest THEN "play" ELSE "read"]
    BY <2>1 DEF StartPlayback, At
  <2>3. /\ \A q \in Tasks \ {p} : task'[q] = task[q]
        /\ task'[p].step \in {"play", "read"} /\ task'[p].restoring = task[p].restoring
    BY <1>1, <2>2 DEF Records
  <2>4. InOrder(p)'
    BY <1>1, <1>2, <2>2, <2>3 DEF InOrder, Early, Late, Setting
  <2> QED
    BY <1>2, <2>2, <2>3, <2>4, OrderOneTask
<1>4. CASE SettingVolume(p)
  <2>1. /\ UNCHANGED <<created, audioMutex, behind>>
        /\ \/ /\ task[p].step = "read"
              /\ task' = [task EXCEPT ![p].saved = IF task[p].restoring THEN task[p].saved ELSE Audible(stored),
                                      ![p].persisted = stored, ![p].step = "set"]
           \/ task[p].step = "set" /\ task' = [task EXCEPT ![p].step = "unset"]
           \/ /\ task[p].step = "unset"
              /\ task' = [task EXCEPT ![p].step = IF task[p].restoring THEN "gone" ELSE "play"]
    BY <1>1, <1>4 DEF SettingVolume, ReadVolume, SetOutputVolume, WriteBack, At, Goes, historyVars
  <2>2. /\ \A q \in Tasks \ {p} : task'[q] = task[q]
        /\ task[p].step \in {"read", "set", "unset"}
        /\ \/ task'[p].step \in {"set", "unset"} /\ task'[p].restoring = task[p].restoring
           \/ task'[p].step = "gone" /\ task[p].restoring
           \/ task'[p].step = "play" /\ ~task[p].restoring
    BY <1>1, <2>1 DEF Records
  <2>3. InOrder(p)'
    BY <1>1, <1>2, <2>1, <2>2 DEF InOrder, Early, Late, Setting
  <2> QED
    BY <1>2, <2>1, <2>2, <2>3, OrderOneTask
<1>5. CASE Play(p)
  <2>1. /\ task[p].step = "play" /\ audioMutex = Nobody /\ audioMutex' = p /\ created'
        /\ task' = [task EXCEPT ![p].step = "push"]
        /\ behind' = IF \E q \in Tasks \ {p} : InQueues(q) THEN behind \cup {p} ELSE behind
    BY <1>5 DEF Play, TakeAudio, At, Goes
  <2>2. /\ \A q \in Tasks \ {p} : task'[q] = task[q]
        /\ task'[p].step = "push" /\ task'[p].frames = task[p].frames
    BY <1>1, <2>1 DEF Records
  <2>3. ~Queued(p)
    BY <1>1, <2>1 DEF InOrder, Early
  <2>4. p \notin behind' => Len(Waiting) = 0
    <3> SUFFICES ASSUME Len(Waiting) # 0 PROVE \E q \in Tasks \ {p} : InQueues(q)
      BY <2>1
    <3>1. 1 \in 1..Len(Waiting) /\ Waiting[1] \in Tasks
      BY DEF Read
    <3>2. Queued(Waiting[1])
      BY <3>1 DEF Queued
    <3> QED
      BY <2>3, <3>1, <3>2 DEF Read
  <2>5. InOrder(p)'
    BY <1>1, <1>2, <2>1, <2>2, <2>3, <2>4 DEF InOrder, Early, Late, Setting, Queued
  <2>6. \A q \in Tasks \ {p} : task[q].step # "push"
    BY <2>1, SoundAssumption DEF OrderInv, InOrder, Tasks, Nobody
  <2> QED
    BY <1>2, <2>1, <2>2, <2>5, <2>6, OrderOneTask
<1>6. CASE EndOfPlaySound(p)
  <2>1. /\ task[p].step = "push" /\ UNCHANGED <<created, behind>>
        /\ task' = [task EXCEPT ![p].step = "delay"]
    BY <1>6 DEF EndOfPlaySound, Release, At, Goes, historyVars
  <2>2. /\ \A q \in Tasks \ {p} : task'[q] = task[q]
        /\ task'[p].step = "delay" /\ task'[p].frames = task[p].frames
    BY <1>1, <2>1 DEF Records
  <2>3. p \notin behind => \A i \in 1..Len(Waiting) : i <= task[p].frames
    BY <1>1, <2>1 DEF InOrder, Read
  <2>4. InOrder(p)'
    BY <1>2, <2>1, <2>2, <2>3 DEF InOrder, Early, Late, Setting
  <2>5. \A q \in Tasks \ {p} : task[q].step # "push"
    BY <1>1, <2>1 DEF OrderInv, InOrder
  <2> QED
    BY <1>2, <2>1, <2>2, <2>4, <2>5, OrderOneTask
<1>7. CASE DelayEnds(p)
  <2>1. /\ task[p].step = "delay" /\ UNCHANGED <<created, audioMutex, behind>>
        /\ task[p].frames = 0 \/ Quiet
        /\ task' = [task EXCEPT ![p].frames = 0, ![p].restoring = (task[p].asked # NoRequest),
                      ![p].step = IF task[p].asked = NoRequest THEN "gone" ELSE "read"]
    BY <1>7 DEF DelayEnds, Delayed, At, historyVars
  <2>2. /\ \A q \in Tasks \ {p} : task'[q] = task[q]
        /\ \/ task'[p].step = "gone"
           \/ task'[p].step = "read" /\ task'[p].restoring
    BY <1>1, <2>1 DEF Records
  <2>3. p \notin behind => ~Queued(p)
    <3> SUFFICES ASSUME p \notin behind, NEW i \in 1..Len(Waiting), Waiting[i] = p PROVE FALSE
      BY DEF Queued
    <3>1. i <= task[p].frames
      BY <1>1, <2>1 DEF InOrder
    <3> QED
      BY <2>1, <3>1 DEF Read
  <2>4. InOrder(p)'
    BY <1>2, <2>1, <2>2, <2>3 DEF InOrder, Early, Late, Setting
  <2> QED
    BY <1>2, <2>1, <2>2, <2>4, OrderOneTask
<1> QED
  BY <1>3, <1>4, <1>5, <1>6, <1>7

LEMMA WriteOrder ==
  ASSUME TypeInv, TypeInv', Read, OrderInv, Write
  PROVE  OrderInv'
<1>1. 1 \in 1..Len(Waiting) /\ Without(1)
  BY WriteWaiting, TypeParts, TypePartsNext
<1>2. UNCHANGED <<audioMutex, created, behind>>
  BY DEF Write
<1>3. ASSUME NEW p \in Tasks
      PROVE  /\ task'[p].step = task[p].step /\ task'[p].restoring = task[p].restoring
             /\ \/ task'[p].frames = task[p].frames
                \/ task[p].step = "delay" /\ task[p].frames > 0
                   /\ task'[p].frames = task[p].frames - 1
  <2>1. task[p] \in Records
    BY TypeParts DEF TasksOK
  <2>2. \/ task'[p] = task[p]
        \/ task[p].step = "delay" /\ task[p].frames > 0
           /\ task'[p] = [task[p] EXCEPT !.frames = task[p].frames - 1]
    BY DEF Write, At
  <2> QED
    BY <2>1, <2>2 DEF Records
<1> QED
  BY <1>1, <1>2, <1>3, OrderWithout

LEMMA RestartOrder ==
  ASSUME TypeInv, TypeInv', VolumeInv, Restart
  PROVE  OrderInv'
<1>1. Len(Waiting') = 0
  <2>1. ASSUME NEW p \in Tasks PROVE task'[p].step # "push"
    BY DEF Restart, New, Active
  <2>2. Quiet'
    BY <2>1 DEF Quiet, Restart, At
  <2>3. Read'
    BY TypePartsNext, WaitingFacts, PTL
  <2> QED
    BY <2>2, <2>3 DEF Read
<1>2. ASSUME NEW p \in Tasks
      PROVE  /\ task'[p].step \in {"new", "gone"}
             /\ task'[p].step = "new" => ~task'[p].restoring
  <2>1. CASE Active(p)
    BY <2>1 DEF Restart, New
  <2>2. CASE ~Active(p)
    BY <2>2 DEF Restart, Active, VolumeInv, Ordered
  <2> QED
    BY <2>1, <2>2
<1> QED
  BY <1>1, <1>2 DEF OrderInv, InOrder, Early, Late, Setting, Queued

LEMMA NextOrder == TypeInv /\ TypeInv' /\ VolumeInv /\ OrderInv /\ [Next]_vars => OrderInv'
<1> SUFFICES ASSUME TypeInv, TypeInv', VolumeInv, OrderInv, [Next]_vars PROVE OrderInv'
  OBVIOUS
<1>1. QueuesOK /\ QueuesOK' /\ Read
  BY TypeParts, TypePartsNext, WaitingFacts
<1>2. ASSUME NEW ok \in BOOLEAN, Decode(ok) PROVE OrderInv'
  <2>1. UNCHANGED <<task, audioMutex, created, behind>>
    BY <1>2 DEF Decode, historyVars
  <2>2. Waiting' = Waiting \/ \E k \in 1..Len(Waiting) : Without(k)
    BY <1>1, <1>2, DecodeWaiting
  <2> QED
    BY <1>1, <2>1, <2>2, OrderKept, OrderWithout
<1>3. CASE TakeFrame
  <2>1. UNCHANGED <<task, audioMutex, created, behind>>
    BY <1>3 DEF TakeFrame, historyVars
  <2> QED
    BY <1>1, <1>3, <2>1, TakeFrameWaiting, OrderKept
<1>4. CASE Silence \/ PowerSteps \/ (\E who \in Openers : OutputComesOn(who)) \/ UNCHANGED vars
  <2>1. UNCHANGED <<task, audioMutex, created, behind>> /\ UNCHANGED queueVars
    BY <1>4 DEF Silence, PowerSteps, PowerFires, PowerChecks, PowerCloses, PowerEnds, PowerStops,
       OutputComesOn, vars, historyVars
  <2> QED
    BY <2>1, QueuesKept, OrderKept
<1> QED
  BY <1>1, <1>2, <1>3, <1>4, TaskOrder, PushOrder, WriteOrder, RestartOrder
     DEF Next, Work, TaskSteps

LEMMA SpecOrder == Spec => [](TypeInv /\ VolumeInv /\ OrderInv)
BY InitTypes, NextTypes, InitVolume, NextVolume, InitOrder, NextOrder, PTL DEF Spec

\* The end of a clip is reported when nothing of it waits any more (playback_task),
\* unless the clip was queued behind another one.
THEOREM FinishedClipsArePlayed == Spec => []FinishedMeansPlayed
<1>1. TypeInv /\ OrderInv => FinishedMeansPlayed
  BY TypeParts, WaitingFacts DEF Read, OrderInv, InOrder, Late, FinishedMeansPlayed, At
<1> QED
  BY <1>1, SpecOrder, PTL

\* What waits of a clip is not interrupted by another: PlaySound keeps the lock until
\* the whole clip is queued.
THEOREM NoClipInterrupted == Spec => []ClipsStayWhole
<1>1. TypeInv /\ OrderInv => ClipsStayWhole
  BY TypeParts, WaitingFacts DEF Read, OrderInv, ClipsStayWhole
<1> QED
  BY <1>1, SpecOrder, PTL

-----------------------------------------------------------------------------
(***************************************************************************)
(* The volume a clip is heard at. A task that has not overlapped with      *)
(* another is alone, from its start until nothing of it waits: nobody else *)
(* sets the volume it has set, but for the start of the codec by its own   *)
(* first clip; and nothing can wait before its clip.                       *)
(***************************************************************************)
Busy(p)  == Active(p) \/ Queued(p)
Alone(p) == Busy(p) => \A q \in Tasks \ {p} : ~Busy(q)

Loud(p) == \/ task[p].step \in {"play", "push", "delay"}
           \/ task[p].step = "unset" /\ ~task[p].restoring

AsAsked(p) == Loud(p) /\ p # creator /\ task[p].asked # NoRequest => volume = task[p].asked

HeardInv ==
  /\ \A p \in Tasks \ overlapped : Alone(p) /\ AsAsked(p)
  /\ behind \subseteq overlapped
  /\ PlaysAtAskedVolume
  /\ ~created => offVolume = {}

LEMMA InitHeard == Init => HeardInv
<1> SUFFICES ASSUME Init PROVE HeardInv
  OBVIOUS
<1>1. \A p \in Tasks : task[p] = New
  BY DEF Init
<1>2. \A p \in Tasks : ~Queued(p)
  BY <1>1, InitOrder DEF OrderInv, InOrder, Early, New
<1> QED
  BY <1>1, <1>2 DEF Init, HeardInv, Alone, Busy, Active, AsAsked, Loud, PlaysAtAskedVolume, New

\* Nobody becomes busy.
LEMMA HeardKept ==
  ASSUME HeardInv, \A q \in Tasks : Busy(q)' => Busy(q), overlapped' = overlapped,
         behind' \subseteq overlapped, PlaysAtAskedVolume', ~created' => offVolume' = {},
         \A p \in Tasks \ overlapped : AsAsked(p)'
  PROVE  HeardInv'
BY DEF HeardInv, Alone

LEMMA TaskHeard ==
  ASSUME TypeInv, TypeInv', Read, Read', HeardInv, NEW p \in Tasks, TaskSteps(p)
  PROVE  HeardInv'
<1> USE DEF volumeVars, queueVars, historyVars
<1>1. task \in [Tasks -> Records] /\ task[p] \in Records
  BY TypeParts DEF TasksOK
<1>2. /\ \/ SettingVolume(p) \/ PushPacketToDecodeQueue(p) \/ EndOfPlaySound(p) \/ DelayEnds(p)
           => UNCHANGED <<created, overlapped, behind, offVolume, creator>>
      /\ Play(p) => created' /\ UNCHANGED <<overlapped, offVolume>>
  BY DEF SettingVolume, PushPacketToDecodeQueue, EndOfPlaySound, DelayEnds, Play
<1>3. /\ Active(p)
      /\ \/ /\ task[p].step = "read" /\ UNCHANGED volume
            /\ task' = [task EXCEPT ![p].saved = IF task[p].restoring THEN task[p].saved ELSE Audible(stored),
                                    ![p].persisted = stored, ![p].step = "set"]
         \/ /\ task[p].step = "set" /\ task' = [task EXCEPT ![p].step = "unset"]
            /\ volume' = IF task[p].restoring THEN task[p].saved ELSE task[p].asked
         \/ /\ task[p].step = "unset" /\ UNCHANGED volume
            /\ task' = [task EXCEPT ![p].step = IF task[p].restoring THEN "gone" ELSE "play"]
         \/ /\ task[p].step = "play" /\ task' = [task EXCEPT ![p].step = "push"]
            /\ IF created THEN UNCHANGED <<volume, creator>> ELSE creator' = p
         \/ /\ task[p].step = "push" /\ UNCHANGED volume
            /\ \/ task' = [task EXCEPT ![p].frames = task[p].frames + 1]
               \/ task' = [task EXCEPT ![p].step = "delay"]
         \/ /\ task[p].step = "delay" /\ UNCHANGED volume
            /\ task' = [task EXCEPT ![p].frames = 0, ![p].restoring = (task[p].asked # NoRequest),
                          ![p].step = IF task[p].asked = NoRequest THEN "gone" ELSE "read"]
  <2>1. CASE SettingVolume(p)
    BY <1>1, <2>1 DEF SettingVolume, ReadVolume, SetOutputVolume, WriteBack, At, Goes, Active
  <2>2. CASE Play(p)
    BY <1>1, <2>2 DEF Play, TakeAudio, At, Goes, Active
  <2>3. CASE PushPacketToDecodeQueue(p) \/ EndOfPlaySound(p) \/ DelayEnds(p)
    BY <1>1, <2>3 DEF PushPacketToDecodeQueue, EndOfPlaySound, Release, DelayEnds, At, Goes, Active
  <2> QED
    BY <2>1, <2>2, <2>3 DEF TaskSteps
<1>4. \A q \in Tasks \ {p} : task'[q] = task[q]
  BY <1>1, <1>3
<1>5. ASSUME NEW q \in Tasks, Busy(q)' PROVE Busy(q)
  <2>1. CASE q = p
    BY <1>3, <2>1 DEF Busy
  <2>2. CASE q # p
    <3>1. Active(q)' => Active(q)
      BY <1>4, <2>2 DEF Active
    <3>2. Queued(q)' => Queued(q)
      <4>1. CASE PushPacketToDecodeQueue(p)
        <5>1. Len(Waiting') = Len(Waiting) + 1 /\ Waiting'[Len(Waiting) + 1] = p
              /\ \A i \in 1..Len(Waiting) : Waiting'[i] = Waiting[i]
          BY <4>1, PushWaiting, TypeParts, TypePartsNext
        <5>2. \A i \in 1..Len(Waiting') : i \in 1..Len(Waiting) \/ i = Len(Waiting) + 1
          BY <5>1 DEF Read
        <5> QED
          BY <2>2, <5>1, <5>2 DEF Queued
      <4>2. CASE SettingVolume(p) \/ Play(p) \/ EndOfPlaySound(p) \/ DelayEnds(p)
        <5>1. Waiting' = Waiting
          BY <4>2, QueuesKept DEF SettingVolume, Play, EndOfPlaySound, DelayEnds
        <5> QED
          BY <5>1 DEF Queued
      <4> QED
        BY <4>1, <4>2 DEF TaskSteps
    <3> QED
      BY <1>5, <3>1, <3>2 DEF Busy
  <2> QED
    BY <2>1, <2>2
<1>6. \A q \in Tasks \ overlapped : q # p => ~Busy(q)
  BY <1>3 DEF HeardInv, Alone, Busy
<1>7. ASSUME NEW q \in Tasks \ overlapped PROVE AsAsked(q)'
  <2>1. CASE q # p
    BY <1>4, <1>6, <2>1 DEF AsAsked, Loud, Busy, Active
  <2>2. CASE q = p
    <3>1. AsAsked(p)
      BY <2>2 DEF HeardInv
    <3>2. CASE task[p].step = "play"
      <4>1. /\ task'[p].asked = task[p].asked /\ task'[p].step = "push"
            /\ UNCHANGED <<volume, creator>> \/ creator' = p
        BY <1>1, <1>3, <3>2 DEF Records
      <4> QED
        BY <2>2, <3>1, <3>2, <4>1 DEF AsAsked, Loud
    <3>3. CASE task[p].step # "play"
      <4>1. creator' = creator
        BY <1>2, <3>3 DEF TaskSteps, Play, TakeAudio, At
      <4>2. /\ task'[p].asked = task[p].asked
            /\ Loud(p)' => \/ Loud(p) /\ UNCHANGED volume
                           \/ volume' = task[p].asked
        BY <1>1, <1>3, <3>3 DEF Records, Loud
      <4> QED
        BY <2>2, <3>1, <4>1, <4>2 DEF AsAsked
    <3> QED
      BY <3>2, <3>3
  <2> QED
    BY <2>1, <2>2
<1>8. behind' \subseteq overlapped
  <2>1. CASE Play(p)
    <3>1. behind' = IF \E q \in Tasks \ {p} : InQueues(q) THEN behind \cup {p} ELSE behind
      BY <2>1 DEF Play
    <3>2. (\E q \in Tasks \ {p} : InQueues(q)) => p \in overlapped
      BY <1>3 DEF HeardInv, Alone, Busy, Read
    <3> QED
      BY <3>1, <3>2 DEF HeardInv
  <2>2. CASE ~Play(p)
    BY <1>2, <2>2 DEF HeardInv, TaskSteps
  <2> QED
    BY <2>1, <2>2
<1>9. PlaysAtAskedVolume' /\ (~created' => offVolume' = {}) /\ overlapped' = overlapped
  <2>1. CASE Play(p)
    <3>1. created' /\ UNCHANGED <<overlapped, offVolume>> /\ (created => UNCHANGED creator)
      BY <1>2, <2>1 DEF Play
    <3>2. offVolume = {} \/ creator' = creator
      BY <3>1 DEF HeardInv
    <3> QED
      BY <3>1, <3>2 DEF HeardInv, PlaysAtAskedVolume
  <2>2. CASE ~Play(p)
    BY <1>2, <2>2 DEF HeardInv, TaskSteps, PlaysAtAskedVolume
  <2> QED
    BY <2>1, <2>2
<1> QED
  BY <1>5, <1>7, <1>8, <1>9, HeardKept

LEMMA StartHeard ==
  ASSUME TypeInv, Read, HeardInv, NEW p \in Tasks, NEW v \in Requests, StartPlayback(p, v)
  PROVE  HeardInv'
<1> DEFINE others == {q \in Tasks \ {p} : Active(q) \/ InQueues(q)}
<1>1. /\ task \in [Tasks -> Records]
      /\ task' = [task EXCEPT ![p].asked = v, ![p].step = IF v = NoRequest THEN "play" ELSE "read"]
      /\ UNCHANGED <<created, behind, offVolume, creator>> /\ UNCHANGED queueVars
      /\ overlapped' = overlapped \cup others \cup (IF others = {} THEN {} ELSE {p})
  BY TypeParts DEF TasksOK, StartPlayback
<1>2. others = {q \in Tasks \ {p} : Busy(q)}
  BY DEF Busy, Read
<1> HIDE DEF others
<1>3. /\ \A q \in Tasks \ {p} : task'[q] = task[q]
      /\ task'[p].step = IF v = NoRequest THEN "play" ELSE "read"
      /\ task'[p].asked = v
  BY <1>1 DEF Records
<1>4. Waiting' = Waiting
  BY <1>1, QueuesKept
<1>5. \A q \in Tasks \ {p} : Busy(q)' <=> Busy(q)
  BY <1>3, <1>4 DEF Busy, Active, Queued
<1>6. ASSUME NEW q \in Tasks \ overlapped' PROVE Alone(q)' /\ AsAsked(q)'
  <2>1. CASE q = p
    <3>1. others = {}
      BY <1>1, <1>6, <2>1
    <3>2. Alone(p)'
      BY <1>2, <1>5, <3>1 DEF Alone
    <3>3. AsAsked(p)'
      BY <1>3 DEF AsAsked, Loud
    <3> QED
      BY <2>1, <3>2, <3>3
  <2>2. CASE q # p
    <3>1. ~Busy(q)' /\ ~Active(q)
      BY <1>1, <1>2, <1>5, <1>6, <2>2 DEF Busy
    <3>2. AsAsked(q)'
      BY <1>3, <2>2, <3>1 DEF AsAsked, Loud, Active
    <3> QED
      BY <3>1, <3>2 DEF Alone
  <2> QED
    BY <2>1, <2>2
<1>7. behind' \subseteq overlapped' /\ PlaysAtAskedVolume' /\ (~created' => offVolume' = {})
  BY <1>1 DEF HeardInv, PlaysAtAskedVolume
<1> QED
  BY <1>6, <1>7 DEF HeardInv

\* The codec and the output task at work.
LEMMA OutputHeard ==
  ASSUME TypeInv, TypeInv', Read, OrderInv, HeardInv,
         Write \/ TakeFrame \/ \E ok \in BOOLEAN : Decode(ok)
  PROVE  HeardInv'
<1> USE DEF volumeVars, historyVars
<1>1. /\ UNCHANGED <<created, volume, overlapped, behind, creator>>
      /\ ~Write => UNCHANGED <<task, offVolume>>
  BY DEF Write, TakeFrame, Decode
<1>2. ASSUME NEW q \in Tasks
      PROVE  /\ task'[q].step = task[q].step /\ task'[q].asked = task[q].asked
             /\ task'[q].restoring = task[q].restoring
  <2>1. task[q] \in Records
    BY TypeParts DEF TasksOK
  <2>2. task'[q] = task[q] \/ task'[q] = [task[q] EXCEPT !.frames = task[q].frames - 1]
    BY <1>1 DEF Write
  <2> QED
    BY <2>1, <2>2 DEF Records
<1>3. Waiting' = Waiting \/ \E k \in 1..Len(Waiting) : Without(k)
  BY DecodeWaiting, TakeFrameWaiting, WriteWaiting, TypeParts, TypePartsNext
<1>4. \A q \in Tasks : Queued(q)' => Queued(q)
  <2>1. CASE Waiting' = Waiting
    BY <2>1 DEF Queued
  <2>2. ASSUME NEW k \in 1..Len(Waiting), Without(k), NEW i \in 1..Len(Waiting')
        PROVE  \E j \in 1..Len(Waiting) : Waiting[j] = Waiting'[i]
    <3>1. i \in 1..Len(Waiting) /\ i + 1 \in 1..Len(Waiting)
      BY <2>2 DEF Without, Read
    <3>2. Waiting'[i] = IF i < k THEN Waiting[i] ELSE Waiting[i + 1]
      BY <2>2 DEF Without
    <3> QED
      BY <3>1, <3>2
  <2> QED
    BY <1>3, <2>1, <2>2 DEF Queued
<1>5. \A q \in Tasks : Busy(q)' => Busy(q)
  BY <1>2, <1>4 DEF Busy, Active
<1>6. \A q \in Tasks \ overlapped : AsAsked(q)'
  BY <1>1, <1>2 DEF HeardInv, AsAsked, Loud
<1>7. PlaysAtAskedVolume' /\ (~created' => offVolume' = {})
  <2>1. CASE offVolume' = offVolume
    BY <1>1, <2>1 DEF HeardInv, PlaysAtAskedVolume
  <2>2. CASE offVolume' # offVolume
    <3>1. /\ Write /\ offVolume' = offVolume \cup {writing}
          /\ task[writing].asked \notin {NoRequest, volume} /\ writing \notin overlapped
      BY <1>1, <2>2 DEF Write
    <3>2. 1 \in 1..Len(Waiting) /\ writing = Waiting[1] /\ writing \in Tasks
      BY <3>1, WriteWaiting, TypeParts, TypePartsNext DEF Read
    <3>3. Queued(writing) /\ created
      BY <3>2 DEF Queued, OrderInv
    <3>4. ~Early(writing) /\ ~Late(writing)
      BY <3>1, <3>2, <3>3 DEF OrderInv, InOrder, HeardInv
    <3>5. task[writing].step \in Steps /\ task[writing].restoring \in BOOLEAN
      BY <3>2, TypeParts DEF TasksOK, Records
    <3>6. Loud(writing)
      BY <3>4, <3>5 DEF Early, Late, Setting, Loud, Steps
    <3>7. writing = creator
      BY <3>1, <3>2, <3>6 DEF HeardInv, AsAsked
    <3> QED
      BY <1>1, <3>1, <3>3, <3>7 DEF HeardInv, PlaysAtAskedVolume
  <2> QED
    BY <2>1, <2>2
<1> QED
  BY <1>1, <1>5, <1>6, <1>7, HeardKept DEF HeardInv

LEMMA RestartHeard ==
  ASSUME TypeInv, VolumeInv, OrderInv', Restart
  PROVE  HeardInv'
<1>1. /\ ~created' /\ overlapped' = {} /\ behind' = {} /\ offVolume' = {}
  BY DEF Restart
<1>2. Len(Waiting') = 0
  BY <1>1 DEF OrderInv
<1>3. \A q \in Tasks : task'[q].step \in {"new", "gone"}
  BY DEF Restart, New, Active
<1> QED
  BY <1>1, <1>2, <1>3
     DEF HeardInv, Alone, Busy, Active, Queued, AsAsked, Loud, PlaysAtAskedVolume

LEMMA NextHeard ==
  TypeInv /\ TypeInv' /\ VolumeInv /\ OrderInv /\ OrderInv' /\ HeardInv /\ [Next]_vars => HeardInv'
<1> SUFFICES ASSUME TypeInv, TypeInv', VolumeInv, OrderInv, OrderInv', HeardInv, [Next]_vars
             PROVE  HeardInv'
  OBVIOUS
<1>1. Read /\ Read'
  BY TypeParts, TypePartsNext, WaitingFacts, PTL
<1>2. CASE Silence \/ PowerSteps \/ (\E who \in Openers : OutputComesOn(who)) \/ UNCHANGED vars
  <2>1. UNCHANGED <<task, created, volume, overlapped, behind, offVolume, creator>> /\ UNCHANGED queueVars
    BY <1>2 DEF Silence, PowerSteps, PowerFires, PowerChecks, PowerCloses, PowerEnds, PowerStops,
       OutputComesOn, vars, volumeVars, historyVars
  <2>2. Waiting' = Waiting
    BY <2>1, QueuesKept
  <2> QED
    BY <2>1, <2>2 DEF HeardInv, Alone, Busy, Active, Queued, AsAsked, Loud, PlaysAtAskedVolume
<1> QED
  BY <1>1, <1>2, TaskHeard, StartHeard, OutputHeard, RestartHeard DEF Next, Work

\* A clip is heard at the volume its command asks for (playback_task and Write of the
\* codec), unless another one overlapped with it, or it started the codec.
THEOREM HeardAsAsked == Spec => []PlaysAtAskedVolume
<1>1. HeardInv => PlaysAtAskedVolume
  BY DEF HeardInv
<1>2. Spec => []HeardInv
  BY InitHeard, NextHeard, SpecOrder, PTL DEF Spec
<1> QED
  BY <1>1, <1>2, PTL
=============================================================================
