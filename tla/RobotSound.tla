----------------------------- MODULE RobotSound -----------------------------
(***************************************************************************)
(* How the robot plays a clip: the playback tasks, the audio service's     *)
(* codec and output tasks and their two bounded queues, the temporary      *)
(* volume, and the timer that switches an unused codec off.                *)
(*                                                                         *)
(* A packet, and the frame it decodes to, is named by the task whose clip  *)
(* it belongs to. Time is counted in frames: a frame's time passes when    *)
(* the codec has taken a frame. The tail of a playback's delay is slack    *)
(* for what the tasks themselves need, and is left out.                    *)
(***************************************************************************)
EXTENDS Integers, Sequences, FiniteSets

CONSTANTS MaxTasks,                   \* bound on playback tasks
          AskedVolumes,               \* the volumes a command may ask for
          Frames,                     \* frames of a clip
          DecodeSlots, PlaybackSlots, \* MAX_DECODE_PACKETS_IN_QUEUE, MAX_PLAYBACK_TASKS_IN_QUEUE
          UserVolume,                 \* the volume the user has set
          MaxRestarts                 \* bound on restarts of the robot

NoRequest == -1
Requests  == AskedVolumes \cup {NoRequest}
Default   == 70                       \* output_volume_ before the codec is started

ASSUME SoundAssumption ==
  /\ MaxTasks \in Nat /\ AskedVolumes \subseteq 0..100 /\ UserVolume \in 1..100
  /\ Frames \in Nat \ {0} /\ DecodeSlots \in Nat \ {0} /\ PlaybackSlots \in Nat \ {0}
  /\ MaxRestarts \in Nat

Tasks  == 1..MaxTasks                 \* in the order in which they are started
Nobody == 0

VARIABLES
  task,                               \* the playback tasks
  audioMutex, created,                \* _audio_mutex; whether there is a _local_audio_service
  volume, stored,                     \* output_volume_, and "output_volume" in flash
  decodeQueue, playbackQueue,
  writing,                            \* the frame the output task holds
  outputOn,                           \* output_enabled_
  opening,                            \* who is in EnableOutput(true): PlaySound, the output task
  timerOn, power,                     \* audio_power_timer_ and its callback
  stale,                              \* last_output_time_ is AUDIO_POWER_TIMEOUT_MS ago
  lost,                               \* history: frames that no codec took since a silence
  collided, stopRaced,                \* history: see ReadVolume and PowerStops
  overlapped, behind, offVolume,      \* history: tasks, see StartPlayback, Play and Write
  creator, restarts

volumeVars  == <<volume, stored, collided>>
queueVars   == <<decodeQueue, playbackQueue, writing>>
outputVars  == <<outputOn, opening, timerOn, power, stopRaced>>
lossVars    == <<stale, lost>>
historyVars == <<overlapped, behind, offVolume, creator>>
vars == <<task, audioMutex, created, volumeVars, queueVars, outputVars, lossVars, historyVars,
          restarts>>

Volumes == 0..100
Openers == {"clip", "output"}
Steps == {"new", "read", "set", "unset", "play", "push", "delay", "gone"}

TypeOK ==
  /\ task \in [Tasks -> [step : Steps, asked : Requests, saved : Volumes, persisted : Volumes,
                         restoring : BOOLEAN, frames : 0..Frames]]
  /\ audioMutex \in Tasks \cup {Nobody} /\ created \in BOOLEAN
  /\ volume \in Volumes /\ stored \in Volumes
  /\ decodeQueue \in Seq(Tasks) /\ Len(decodeQueue) <= DecodeSlots
  /\ playbackQueue \in Seq(Tasks) /\ Len(playbackQueue) <= PlaybackSlots
  /\ writing \in Tasks \cup {Nobody}
  /\ outputOn \in BOOLEAN /\ opening \subseteq Openers
  /\ timerOn \in BOOLEAN /\ power \in {"waits", "checks", "closes", "ends", "stops"}
  /\ stale \in BOOLEAN /\ lost \in Nat
  /\ collided \in BOOLEAN /\ stopRaced \in BOOLEAN
  /\ overlapped \subseteq Tasks /\ behind \subseteq Tasks /\ offVolume \subseteq Tasks
  /\ creator \in Tasks \cup {Nobody}
  /\ restarts \in 0..MaxRestarts

New == [step |-> "new", asked |-> NoRequest, saved |-> 0, persisted |-> 0,
        restoring |-> FALSE, frames |-> 0]

Init ==
  /\ task = [p \in Tasks |-> New]
  /\ audioMutex = Nobody /\ created = FALSE
  /\ volume = Default /\ stored = UserVolume
  /\ decodeQueue = <<>> /\ playbackQueue = <<>>
  /\ writing = Nobody
  /\ outputOn = FALSE /\ opening = {}
  /\ timerOn = FALSE /\ power = "waits"
  /\ stale = TRUE /\ lost = 0
  /\ collided = FALSE /\ stopRaced = FALSE
  /\ overlapped = {} /\ behind = {} /\ offVolume = {} /\ creator = Nobody
  /\ restarts = 0

-----------------------------------------------------------------------------
(***************************************************************************)
(* A playback task. board_set_speaker_volume writes the volume to flash    *)
(* with SetOutputVolume and then writes back what was there: it is three   *)
(* steps, and two tasks may be in it at once.                              *)
(***************************************************************************)
At(p, step) == task[p].step = step

Goes(p, step) == task' = [task EXCEPT ![p].step = step]

Active(p) == task[p].step \notin {"new", "gone"}

\* Codec and board alike take a stored volume of 0 for 10.
Audible(v) == IF v = 0 THEN 10 ELSE v

InQueues(p) == \/ \E i \in DOMAIN decodeQueue : decodeQueue[i] = p
               \/ \E i \in DOMAIN playbackQueue : playbackQueue[i] = p
               \/ p = writing

StartPlayback(p, v) ==
  /\ At(p, "new") /\ \A q \in 1..p - 1 : ~At(q, "new")
  /\ task' = [task EXCEPT ![p].asked = v, ![p].step = IF v = NoRequest THEN "play" ELSE "read"]
  /\ LET others == {q \in Tasks \ {p} : Active(q) \/ InQueues(q)} IN
       overlapped' = overlapped \cup others \cup (IF others = {} THEN {} ELSE {p})
  /\ UNCHANGED <<audioMutex, created, volumeVars, queueVars, outputVars, lossVars, behind,
                 offVolume, creator, restarts>>

\* Mutant: the volume to come back to is the codec's, not the stored one.
ReadCodecVolume(p) ==
  /\ At(p, "read")
  /\ task' = [task EXCEPT ![p].saved = IF task[p].restoring THEN @ ELSE Audible(volume),
                          ![p].persisted = stored, ![p].step = "set"]
  /\ UNCHANGED volumeVars

\* board_get_speaker_volume, and what board_set_speaker_volume begins with.
ReadVolume(p) ==
  /\ At(p, "read")
  /\ task' = [task EXCEPT ![p].saved = IF task[p].restoring THEN @ ELSE Audible(stored),
                          ![p].persisted = stored, ![p].step = "set"]
  /\ UNCHANGED <<volume, stored>>
  /\ collided' = (collided \/ \E q \in Tasks : At(q, "unset"))

SetOutputVolume(p) ==
  /\ At(p, "set") /\ Goes(p, "unset")
  /\ volume' = IF task[p].restoring THEN task[p].saved ELSE task[p].asked
  /\ stored' = volume'
  /\ UNCHANGED collided

WriteBack(p) ==
  /\ At(p, "unset")
  /\ Goes(p, IF task[p].restoring THEN "gone" ELSE "play")
  /\ stored' = task[p].persisted
  /\ UNCHANGED <<volume, collided>>

SettingVolume(p) ==
  /\ ReadVolume(p) \/ SetOutputVolume(p) \/ WriteBack(p)
  /\ UNCHANGED <<audioMutex, created, queueVars, outputVars, lossVars, historyVars,
                 restarts>>

\* Mutant: PlaySound is called without the lock.
PlayUnlocked(p) == At(p, "play") /\ UNCHANGED audioMutex

TakeAudio(p) == At(p, "play") /\ audioMutex = Nobody /\ audioMutex' = p

\* Mutant: an output that is to be switched on does not restart the timer.
OpenWithoutTimer(who, starting) ==
  /\ timerOn' = (timerOn \/ starting)
  /\ opening' = IF outputOn THEN opening ELSE opening \cup {who}

\* What finds the output off restarts the timer first, and then goes into
\* EnableOutput(true), which takes as long as the codec needs.
RestartTimer(who, starting) ==
  /\ timerOn' = (timerOn \/ starting \/ ~outputOn)
  /\ opening' = IF outputOn THEN opening ELSE opening \cup {who}

OutputComesOn(who) ==
  /\ who \in opening /\ opening' = opening \ {who} /\ outputOn' = TRUE
  /\ UNCHANGED <<task, audioMutex, created, volumeVars, queueVars, timerOn, power, stopRaced,
                 lossVars, historyVars, restarts>>

\* The first clip creates the service, which starts the codec and the timer.
Play(p) ==
  /\ TakeAudio(p) /\ Goes(p, "push")
  /\ created' = TRUE
  /\ IF created THEN UNCHANGED <<volume, creator>> ELSE volume' = Audible(stored) /\ creator' = p
  /\ RestartTimer("clip", ~created)
  /\ behind' = IF \E q \in Tasks \ {p} : InQueues(q) THEN behind \cup {p} ELSE behind
  /\ UNCHANGED <<stored, collided, queueVars, outputOn, power, stopRaced, lossVars, overlapped,
                 offVolume, restarts>>

\* Mutant: the queue takes one packet too many.
HasSpaceForOneMore == Len(decodeQueue) <= DecodeSlots
HasSpace == Len(decodeQueue) < DecodeSlots

PushPacketToDecodeQueue(p) ==
  /\ At(p, "push") /\ "clip" \notin opening /\ task[p].frames < Frames /\ HasSpace
  /\ decodeQueue' = Append(decodeQueue, p)
  /\ task' = [task EXCEPT ![p].frames = @ + 1]
  /\ UNCHANGED <<audioMutex, created, volumeVars, playbackQueue, writing, outputVars,
                 lossVars, historyVars, restarts>>

\* Mutants: the lock is kept; the delay is a frame too short.
KeepsAudio(p) ==
  /\ At(p, "push") /\ task[p].frames = Frames /\ Goes(p, "delay")
  /\ UNCHANGED audioMutex
ReleaseTooShort(p) ==
  /\ At(p, "push") /\ task[p].frames = Frames
  /\ task' = [task EXCEPT ![p].frames = Frames - 1, ![p].step = "delay"]
  /\ audioMutex' = Nobody

\* The whole clip is queued; from here on `frames` is what is left of the delay.
Release(p) ==
  /\ At(p, "push") /\ task[p].frames = Frames /\ Goes(p, "delay")
  /\ audioMutex' = Nobody

EndOfPlaySound(p) ==
  /\ Release(p)
  /\ UNCHANGED <<created, volumeVars, queueVars, outputVars, lossVars, historyVars,
                 restarts>>

Quiet == /\ decodeQueue = <<>> /\ playbackQueue = <<>> /\ writing = Nobody
         /\ \A p \in Tasks : ~At(p, "push")

\* Mutant: the volume is restored, and the end reported, without the delay.
NoDelay(p) == TRUE
Delayed(p) == task[p].frames = 0 \/ Quiet

DelayEnds(p) ==
  /\ At(p, "delay") /\ Delayed(p)
  /\ task' = [task EXCEPT ![p].frames = 0,
                ![p].restoring = (task[p].asked # NoRequest),
                ![p].step = IF task[p].asked = NoRequest THEN "gone" ELSE "read"]
  /\ UNCHANGED <<audioMutex, created, volumeVars, queueVars, outputVars, lossVars,
                 historyVars, restarts>>

-----------------------------------------------------------------------------
(***************************************************************************)
(* OpusCodecTask and AudioOutputTask.                                      *)
(***************************************************************************)
\* A packet that cannot be decoded is dropped. The codec task holds no lock while it
\* decodes, but nothing depends on the packet in its hands.
Decode(ok) ==
  /\ decodeQueue # <<>> /\ Len(playbackQueue) < PlaybackSlots
  /\ decodeQueue' = Tail(decodeQueue)
  /\ playbackQueue' = IF ok THEN Append(playbackQueue, Head(decodeQueue)) ELSE playbackQueue
  /\ UNCHANGED <<task, audioMutex, created, volumeVars, writing, outputVars, lossVars,
                 historyVars, restarts>>

TakeFrame ==
  /\ writing = Nobody /\ playbackQueue # <<>>
  /\ writing' = Head(playbackQueue) /\ playbackQueue' = Tail(playbackQueue)
  /\ RestartTimer("output", FALSE)
  /\ UNCHANGED <<task, audioMutex, created, volumeVars, decodeQueue, outputOn, power, stopRaced,
                 lossVars, historyVars, restarts>>

\* Mutant: the time of the last output is never set.
TimeNotSet == UNCHANGED stale

UpdateLastOutputTime == stale' = FALSE

\* A codec that is off takes nothing, and at once.
Write ==
  /\ writing # Nobody /\ "output" \notin opening /\ writing' = Nobody
  /\ UpdateLastOutputTime
  /\ IF outputOn
     THEN /\ task' = [p \in Tasks |-> IF At(p, "delay") /\ task[p].frames > 0
                                      THEN [task[p] EXCEPT !.frames = @ - 1] ELSE task[p]]
          /\ offVolume' = IF task[writing].asked \in {NoRequest, volume} \/ writing \in overlapped
                          THEN offVolume ELSE offVolume \cup {writing}
          /\ UNCHANGED lost
     ELSE lost' = lost + 1 /\ UNCHANGED <<task, offVolume>>
  /\ UNCHANGED <<audioMutex, created, volumeVars, decodeQueue, playbackQueue, outputVars,
                 overlapped, behind, creator, restarts>>

-----------------------------------------------------------------------------
(***************************************************************************)
(* CheckAndUpdateAudioPowerState, in the timer task. The input, which only *)
(* the telemetry's level meter enables, is left out: nothing here sets     *)
(* last_input_time_, and the first check disables it again.                *)
(***************************************************************************)
\* Between two firings the output task gets past a codec that takes nothing. An
\* output that is in use is left on.
PowerFires ==
  /\ power = "waits" /\ timerOn /\ (writing # Nobody => outputOn \/ "output" \in opening)
  /\ power' = IF stale THEN "checks" ELSE IF outputOn THEN "waits" ELSE "ends"
  /\ UNCHANGED <<task, audioMutex, created, volumeVars, queueVars, outputOn, opening, timerOn,
                 stopRaced, lossVars, historyVars, restarts>>

PowerChecks ==
  /\ power = "checks" /\ power' = IF outputOn THEN "closes" ELSE "ends"
  /\ UNCHANGED <<task, audioMutex, created, volumeVars, queueVars, outputOn, opening, timerOn,
                 stopRaced, lossVars, historyVars, restarts>>

PowerCloses ==
  /\ power = "closes" /\ power' = "ends" /\ outputOn' = FALSE
  /\ UNCHANGED <<task, audioMutex, created, volumeVars, queueVars, opening, timerOn, stopRaced,
                 lossVars, historyVars, restarts>>

PowerEnds ==
  /\ power = "ends" /\ power' = IF outputOn THEN "waits" ELSE "stops"
  /\ UNCHANGED <<task, audioMutex, created, volumeVars, queueVars, outputOn, opening, timerOn,
                 stopRaced, lossVars, historyVars, restarts>>

\* The output may have come on since the timer saw it off, or be coming on.
PowerStops ==
  /\ power = "stops" /\ power' = "waits" /\ timerOn' = FALSE
  /\ stopRaced' = (stopRaced \/ outputOn \/ opening # {})
  /\ UNCHANGED <<task, audioMutex, created, volumeVars, queueVars, outputOn, opening, lossVars,
                 historyVars, restarts>>

Silence ==
  /\ Quiet /\ ~stale /\ stale' = TRUE /\ lost' = 0
  /\ UNCHANGED <<task, audioMutex, created, volumeVars, queueVars, outputVars, historyVars,
                 restarts>>

-----------------------------------------------------------------------------
\* Flash keeps what was written last.
Restart ==
  /\ restarts < MaxRestarts /\ restarts' = restarts + 1
  /\ collided' = (collided \/ \E p \in Tasks : At(p, "unset"))
  /\ task' = [p \in Tasks |-> IF Active(p) THEN [New EXCEPT !.step = "gone"] ELSE task[p]]
  /\ audioMutex' = Nobody /\ created' = FALSE /\ volume' = Default
  /\ decodeQueue' = <<>> /\ playbackQueue' = <<>>
  /\ writing' = Nobody /\ outputOn' = FALSE /\ opening' = {} /\ timerOn' = FALSE
  /\ power' = "waits" /\ stopRaced' = FALSE
  /\ stale' = TRUE /\ lost' = 0
  /\ overlapped' = {} /\ behind' = {} /\ offVolume' = {} /\ creator' = Nobody
  /\ UNCHANGED stored

-----------------------------------------------------------------------------
TaskSteps(p) ==
  \/ SettingVolume(p) \/ Play(p) \/ PushPacketToDecodeQueue(p) \/ EndOfPlaySound(p)
  \/ DelayEnds(p)

Work ==
  \/ \E p \in Tasks : TaskSteps(p)
  \/ \E ok \in BOOLEAN : Decode(ok)
  \/ \E who \in Openers : OutputComesOn(who)
  \/ TakeFrame \/ Write \/ Silence

PowerSteps == PowerFires \/ PowerChecks \/ PowerCloses \/ PowerEnds \/ PowerStops

Next ==
  \/ \E p \in Tasks, v \in Requests : StartPlayback(p, v)
  \/ Work \/ PowerSteps
  \/ Restart

Spec == Init /\ [][Next]_vars

\* The scheduler runs some task that can go on, and there is only so much to play;
\* the timer task has the highest priority, and its timer is periodic.
Fairness == WF_vars(Work) /\ WF_vars(PowerSteps)

FairSpec == Spec /\ Fairness

-----------------------------------------------------------------------------
(***************************************************************************)
(* Properties.                                                             *)
(***************************************************************************)
NobodyPlays == \A p \in Tasks : ~Active(p)

\* When nothing is played any more the volume is the one the user has set, in the
\* codec and in flash, however the playbacks overlapped and whether or not the robot
\* restarted during one; unless a task read the stored volume, or the robot
\* restarted, between the two writes of board_set_speaker_volume.
VolumeComesBack ==
  NobodyPlays /\ ~collided => stored = UserVolume /\ (created => volume = UserVolume)

\* A clip is heard at the volume its command asks for, unless another clip is played
\* at the same time, or it is the first one: the service it creates starts the codec,
\* which loads the stored volume over the one just set.
PlaysAtAskedVolume == offVolume \subseteq {creator}

\* The end of a clip is reported when it has been played to its end, unless it
\* was queued behind another one, whose rest its delay does not count.
FinishedMeansPlayed == \A p \in Tasks : At(p, "gone") /\ p \notin behind => ~InQueues(p)

\* Clips are played one after the other: what waits of one clip is not
\* interrupted by another.
Waiting == (IF writing = Nobody THEN <<>> ELSE <<writing>>) \o playbackQueue
           \o decodeQueue
ClipsStayWhole ==
  \A i, j, k \in DOMAIN Waiting :
     i < j /\ j < k /\ Waiting[i] = Waiting[k] => Waiting[j] = Waiting[i]

\* The timer that switches the codec off costs at most one frame per silence: the
\* output task may find the codec on just before the timer closes it, once.
OneFramePerSilence == lost <= 1

\* Every clip that is started is reported as finished, unless the robot restarts:
\* it is always reached again that nobody plays, so the bounded queues, the lock and
\* a codec that comes on slowly never keep everyone waiting.
EveryClipEnds == []<>NobodyPlays

\* The codec's output is switched off in the end, unless the timer, which had just
\* seen it off, stopped itself after or while the output was enabled again.
PowersDown == <>[](~outputOn \/ stopRaced)
=============================================================================
