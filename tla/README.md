# StackChan Local in TLA+

A verification development of StackChan Local: a desktop daemon in TypeScript
and the ESP-IDF firmware of one robot, joined by a WebSocket. The modules model
what the two sides *decide and in which order*; what the camera sees, the
microphone hears or a message spells is data and left out.

Paths are relative to the repository root. `LCS` stands for
`firmware/main/services/local_companion/local_companion_service.cpp`.

## 1. The system

### Components

| Component | State it keeps | Operations | What makes it correct |
| --- | --- | --- | --- |
| **Codex session watcher** `desktop/src/codex` | the state machine's turn, the pending change, last sent and last attempted mode, two timers | apply an entry, dispatch, retry, resume, stop | the robot ends in the machine's mode; a change that waits is looked at again |
| **Codex log tail** `desktop/src/codex` | the file followed, offset, unfinished line, scan time | poll, scan, attach, read, report completions | no completed line is missed, reported twice or under a wrong id |
| **Robot controller, motion arbitrator** `desktop/src/robot` | pending acks and completions, motion reservations | dispatch a command, settle or time out its ack, reserve and release, the motion gate | every dispatch settles once; tracking never fights audio, animation or a manual move |
| **Completion announcer** `desktop/src/tts` | in-flight flag, announced ids, pending playbacks | announce, synthesize, play, wait for the playback | one announcement at a time; the mode is reset afterwards |
| **Vision tracking** `desktop/src/vision` | who wants the stream, stream command in flight, outstanding credit, failures, detection in flight | switch consumers, retry, grant credit, take or drop a frame, recover, track | frames flow while wanted, and stop when not; the robot is never flooded; tracking yields and ends |
| **Face detector sidecar** `desktop/src/vision/detector.ts`, `face_detector.py` | child process, requests by frame number | request, answer, time out, exit, start again | an answer goes to its frame; detection comes back after a failure |
| **Device registry, WebSocket server** `desktop/src/device`, `desktop/src/ws` | a session per device id, sockets | handshake, replace, record, time out, close, send | commands go to the live socket; an old socket changes nothing |
| **MCP, preview and console, TTS client, config, log buffer** `desktop/src/mcp`, `preview`, ... | settings | call the components above | — |
| **Local companion service** (robot) `LCS` | three outbound queues, inbound queue, socket state, credit, audio transfer, playback events | connect, handshake, receive, execute, capture, send | handshake first; nothing stale; bounded queues; complete audio |
| **Companion app and modifiers** (robot) `firmware/main/app`, `services/expression_motion` | mode, face-tracking target, a pool of modifiers and ids into it, two modify locks, emotion | a pass of the main loop, commands, gestures, shakes | the face shows the mode; a lock has a holder; idle behaviour comes back |
| **Sound output** (robot) `services/audio` | playback tasks, audio lock, decode and playback queues, volume in codec and flash, codec output, power timer | play, decode, output, switch off | clips are whole, end, and are heard at their volume; the volume comes back |
| **Sensors, network, display, power** (robot) `firmware/main/services` | samples, settings | sample, connect, draw | — |
| **Drivers, boot, provisioning, vendored code** | — | — | not part of the protocol |

### How they interact

- Codex log → watcher → `RobotController.setMode` → registry → socket → robot;
  the ack comes back as an event that the registry hands to every listener.
- A completion in the log → announcer → synthesis → `playAudio`: start, chunks,
  end, each after the previous ack → playback task → `finished` event → controller
  (releases the motion gate) and announcer (sends `setMode idle`).
- UI or MCP → vision → `cameraStream` command and `mediaFlowControl` grants →
  the robot's camera task → camera queue → tx task → frame → detector →
  `trackFace` command through the motion gate, and the next grant.
- On the robot, the main loop, the WebSocket client's own task, the sensor task,
  the camera task, the touch screen and playback tasks share the queues under a
  mutex; one tx task empties them by priority.

### What is hard

The daemon is single-threaded, but every `await` lets log entries, acks,
timeouts and closes in; the robot is preemptive. Between them, a connection can
break with commands half received: the robot's `_msg_queue` and audio transfer
survive it, its outbound queues and credit do not. Acks can be late, and a late
command is executed although the daemon has given up on it. `PROJECT.json` lists
each hazard at its line with the properties that cover it, or what is planned.

## 2. Modules

| Module | Models | Kind |
| --- | --- | --- |
| `CodexWatcher` | watcher and state machine, the controller's ack for `setMode`, the announcer's `setMode`, the robot's mode | system |
| `CodexTail` | how the watcher follows the logs: ticks, scans, reads, completions | component |
| `LossyChannel` | a channel that may lose messages, and neither repeats nor reorders them | abstract specification |
| `FirmwareLink` | the robot's tasks and outbound queues over successive connections | system, implements `LossyChannel` |
| `CameraLink` | what daemon and robot exchange about the camera | shared by the next two |
| `FirmwareCamera` | stream switch, credit, camera task, tx task | component |
| `DesktopVision` | consumers, stream command, retries, recovery, credit, detector | component |
| `CameraFlow` | both joined, with outages and late acks | composition |
| `SpeechPlayback` | announcer, `playAudio`, motion gate, face tracking, audio transfer and playback tasks | system |
| `DeviceSessions` | the daemon's sockets and sessions, and several robots that connect to it | system |
| `RobotFace` | the app's main loop, the pool of modifiers, presets, idle behaviour, pets and shakes | component |
| `RobotSound` | playback tasks, audio service, temporary volume, power timer | component |
| `DetectorSidecar` | the detector's requests, the process and its end | component |
| `FaceTracking` | `DetectorSidecar` with the tracker, the motion gate, the robot's target and its steps | composition |
| `CodexWatcherProofs`, `CodexTailProofs`, `FirmwareLinkProofs`, `SpeechPlaybackProofs`, `DeviceSessionsProofs`, `RobotSoundProofs`, `FaceTrackingProofs` | inductive invariants and theorems of the module they are named after | proofs |
| `RobotProofs` | the same for `CameraFlow` and `RobotFace`, which share no state | proofs |

`PROJECT.json` maps every definition to the lines it models. Some conventions:

- **Command ids.** A command carries a fresh id, and the controller only asks
  whether an ack's id is still in `pendingAcks`. The models keep that answer as
  the flag `live` on the command and its ack; a timeout clears it.
- **Time.** A timer is an action. What the code compares with a duration is a
  flag: `cooldown` (less than `MODE_RETRY_MS` since the last attempt), `stale`
  (no frame for 8 s), `recoveryReady`.
- **Handlers.** One action is one run of a handler up to its next `await` or
  unlock, with everything it calls. Where the code of the robot checks under one
  lock and acts under another, there are two actions (`CaptureChecks` and
  `CaptureSends`, `StartCapture` and `CaptureDone`, `TxTakesFrame`, `TxSendsFrame`
  and `TxRecords`).
- **Mutants.** A definition whose comment begins with "Mutant" is a plausible
  wrong version of the one after it. `PROJECT.json` names the property that each
  violates.

### CodexWatcher

`LogEntry` and `AttachFile` apply an entry's mode; `ApplyChange`,
`DispatchPendingModeChange` and `ScheduleRetry` are the functions of the same
name. The change in flight is `lastAttemptedMode`, for only a dispatch changes
either. A retry timer is `early` if it was armed before the latest attempt: such a
timer may fire within the cooldown, a `late` one may not. The robot shows
`connected` after each `daemon.hello`, `disconnected` when it loses the connection
(`ConnectionLost`), and one of the `Unconnected` modes while `Connect` tries again. An
outage drops what was under way, except a prefix of the commands, which the robot had
received: `taken` of them belong to the batch that `process_messages` is working
through, which it finishes without a connection; its answers reach nobody, and the
next `connect` waits for its end. `AnnouncerSetsIdle` is the
`setMode idle` the announcer sends at the end of a playback, of which the watcher
knows nothing; `idled` remembers that one has been sent since the watcher's latest
attempt.

### CodexTail

`tick()` is asynchronous and the poll interval does not wait for it: `Stat`,
`Compare`, `Open`, `Read`, `Scan`, `ReadWhole` and `Attach` are its code between
two awaits, and two ticks may be under way. A line is three bytes long: a character
of two bytes, which stands for every character of several bytes, and LF, or, in the
logs `CrlfFiles`, one of a single byte and CR LF. A read, or the attaching, can end
after any of them. Each read is decoded by itself (line 168): `Decode` turns the
bytes of a character that the end of a read cuts into U+FFFD (`torn`), and
`ByteLength` measures these with three bytes each. So `LineOffset`, which adds up
decoded lengths and one byte for a line end of two, can differ from the place the
line has in the log, and `WholeSize`, the offset after attaching, can be two larger
than the log: the next tick attaches again, or reads from there if the log has grown
past it. A line in which a character was cut
is still JSON, so it is parsed and reported: an event's `exact` says that nothing
shifted its offset. What U+FFFD changes in the text of a message is not modelled.
A failed read inside the guarded part forgets the file, one after it ends the
daemon (`Fail` sets `crashed`). `clean` is a history variable: since the read of the
whole log before the watcher attached, ticks took turns and no log was truncated. It
counts from that read (`seen`) and not from `Attach`, because a log that is
truncated between the two is attached at an offset that it does not have.

### FirmwareLink

The client task opens the socket (`SocketOpens`), and only then runs
`OnConnected`: clear, then handshake. Other tasks look at `open` and enqueue
later. `EnqueueOutbound` is the eviction rule of `enqueue_outbound` (LCS:505),
`DequeueOutbound` the priority order of `dequeue_outbound`. `first` and `last`
record what the daemon receives. `ReconnectBegins/Starts/Fails` is `connect()`
with the mDNS query in its middle, during which the old client lives on.

### CameraFlow

`EnsureCameraStream`, `CountGrant` and `GrantMessages` are
`ensureCameraStream` and `grantCameraMediaCredit`. They run inside many handlers,
so each is a formula over the new state that a handler conjoins last. The robot's
side is `FirmwareCamera`. `Lose`, `Return` and `Recover` are the composition's
own steps: the connection affects both sides at once.

Two assumptions about durations, both visible in the module:

- `Stale`: eight seconds without a frame are longer than messages, captures and
  sends take, though not longer than a detection or a reconnection.
- A command that found no session is answered (in the same turn of the event
  loop) before the robot's return.

### SpeechPlayback

`PlayAudio` reserves the gate, tells face tracking to stop and sends the start.
`Accepted` is one turn of the transfer's loop. The end of a transfer ends the
announcer's `inFlight`, so the next announcement may begin while this one is
played: that is the code's behaviour, and `StillUnlessOverlapped` excepts it.
`overlapped` and `settled` are history variables. Assumed about durations: the
20 s reservation outlasts an announcement (`HoldExpires`). The announcer's
debounce only forbids behaviours and is left out, because its length is a setting.
`pendingPlayback` is set with the last ack, a few microtasks early; the
announcer's timer makes up for an event that falls in between.

### DeviceSessions

The other modules have one robot and one connection that is up or down. This one
keeps the daemon's sockets apart: a robot may open a new one while the daemon
takes the last for alive, and what the old one still holds is read in any order
with the new one's messages. A session id is the number of its socket, because a
socket registers at most once. `Register`, `MarkOffline`, `Record`, `MarkTimedOut`
and `Active` are the registry's methods; `Handshake`, `Refuse` and `SessionMessage`
are what a message can lead to. A socket that the daemon is closing still delivers
(`Receive`), as the WebSocket library does. `seenAfter` orders devices by
`lastSeenAt`; two devices seen in the same millisecond are ordered by the order of
the calls, where the code would take the one whose id was first put into the map.

`DeadlinePasses` is for robots that no longer use their session's socket: a robot
on a live connection sends a heartbeat in time, as it takes the interval from
`daemon.hello` and the deadline is three intervals or 30 s. `MarkTimedOut` is not
fair, for nothing in the daemon looks at the sessions regularly; `Active` does
what the look in `getActiveSession` would do.

### RobotFace

A pass (`Pass`) is one `onRunning`: react, show the mode, update the base
modifiers and the pool's, free what is over, and start or stop idle behaviour, in
the code's order. `face` holds the pool's slots, the free slots in the order of
their reuse, and the ids the app keeps. The pool is a sequence that grows when no slot
is free, as `ObjectPool` does, and a pass frees what is over from the first slot to the
last (`Ascending`). `RemoveModifier` destroys whatever is in an
id's slot by then, and `Miscast` is the case in which the app takes another modifier
for a preset, whose fields are then any `junk`. `mishaps` records what modifiers
have done to each other: `presetLost` (a preset was removed in another's place),
`locksCrossed` (a preset and the reaction to a shake overlapped), `overlaid` (a
preset and a pet overlapped, or the mode changed below one of them). The properties
say that nothing else breaks the robot's face.

### RobotSound

One action per step of a task between two waits or locks. `SettingVolume` is
three steps, since `board_set_speaker_volume` writes the temporary volume to flash
through the codec and then writes the old one back. Queues are bounded
(`DecodeSlots`, `PlaybackSlots`), so a producer waits. Time is counted in frames: a
task's delay runs while the codec takes frames. `PowerFires`, `PowerChecks`,
`PowerCloses`, `PowerEnds` and `PowerStops` are the timer callback's look at the
clock and what it does after it. Whoever finds the output off restarts the timer
first (`RestartTimer`) and then waits until the codec has come on
(`OutputComesOn`); `opening` says who is between the two, and the callback may pass
there. History variables: `collided` (a volume was read,
or the robot restarted, between the two writes), `stopRaced` (the timer stopped
itself after the output had come on again, or while it was coming on), `overlapped`,
`behind`, `offVolume`, `creator` (tasks: played beside another, queued behind another, heard at another
volume, started the audio service).

### DetectorSidecar and FaceTracking

A frame is an id and a boot, because the robot numbers its frames from its start
and the detector matches answers by the number alone. `DetectorSidecar` has the
detector's `Request`, `SpawnFails`, `ReadLine`, `Timeout` and `ExitEvent`, and what
the process does; a frame that timed out stays before the process.
`FaceTracking` adds who asks: `FrameArrives`, `AnswerArrives` with the `trackFace`
it sends through the gate, `Enable` and `Disable`, `MoveHead` for every command that
reserves the head, and on the robot `HandleCommand`, one command that has arrived,
and `SyncFaceTracking`, the main loop's look at the target with its one step of the
head; any number of commands may come between two looks. `stepper` tells whether
the angle that steps start from is known and still the head's. `moveHead`s are
numbered, and `moved` is the latest that the robot has executed. Further history
variables: `mistaken` (an answer was taken for another frame's), `seized` and `jumped`
(a step while the executed `moveHead`'s reservation lasts, or from a wrong angle),
`loose` (tracking was switched off during a detection, or while `audio = "alone"`).
`PlayAudio` reserves and suspends; `PlaybackStarted`, the robot's event, reserves and
suspends nothing (`audio = "alone"` if nothing else had closed the gate);
`AudioReleased` is any of the ends of such a reservation. Pets, shakes and the later
keyframes of an animation move the head too, while the angle of the steps is kept
(`head_pet.h:104`, `imu.h:60`): they are not modelled, and `StepsFromTheHead` is about
`moveHead` alone.

## 3. Runs

| Run | Question | Bounds |
| --- | --- | --- |
| `codex_watcher` | Is a waiting change always retried, does it settle, and does a quiet robot show what the watcher believes? | 2 entries, 1 late ack, 1 outage, 1 announcement |
| `codex_watcher_mirror` ✗ | Does the robot end in the machine's mode? | 2 entries, no faults |
| `codex_tail` | Is no completion missed, repeated or misnamed, and does the watcher catch up? | 2 files, 2 lines, 1 overlapping tick, 1 truncation or failed read |
| `firmware_link` | Are the queues lossy channels of fresh messages, within their limits? | limits 1/2/1, 4 messages, 2 connections |
| `camera_flow` | Does credit stay within its limit, do frames come back after faults? | 1 change, 1 outage, 1 late ack |
| `camera_flow_live` | Is a stream that nobody wants switched off, whatever the detector drops? | 2 changes, no faults |
| `speech_playback` | Is the head still while one announcement is played; does a transfer after faults play? | 3 announcements of 2 chunks, 1 outage, 1 late ack |
| `device_sessions` | Do old sockets leave new sessions alone, does each robot end up served, do commands reach robots that are there? | 2 robots, 4 sockets, 1 fault |
| `robot_face` | Do face, locks and idle behaviour survive stale ids and overlapping modifiers? | 3 commands, gestures, shakes or long presses |
| `robot_sound` | Are clips whole, complete and at their volume; does the volume come back and the codec go off? | 2 tasks of 2 frames, volume 30 against the user's 50, queues of 1, 1 restart |
| `face_tracking` | Do answers reach their frames, does detection come back, does tracking yield and end? | 3 frame numbers, 2 faults of any kind, 2 switches, 1 manual move or clip, 3 commands under way |
| `face_tracking_off` ✗ | Does tracking end when it is switched off? | the same without moves and clips |

✗ marks a run that is expected to find a violation.

**Why the bounds are enough.** Each fault is of a kind whose effect one
occurrence shows: a stale command, a cut prefix, a reset. Two log entries let a
change wait behind a dispatch, and a late ack, an outage or an announcement's
`setMode` come between them; the theorems hold for any number of each. Two
lines of three bytes, in one of two files, are the least in which a read can cut a
line that another tick reads, and a truncated log can grow past the old offset. Two
connections are the least in which a message can be stale, and queue limits of 1
and 2 make every branch of the eviction rule run. The camera needs two changes to
be switched on and off again. `HelloMax = 12` and `DefaultMax = 2` are the code's
values. `MaxTransit = 1` frames on the network and `MaxPending = 2` messages to the
robot bound the network. `MaxPending` is needed: as one credit can bring two frames,
a robot that reads slowly is granted credit faster than it takes it. Three
announcements let a third meet what a first left behind across a second. Four
sockets are what two robots and one fault can use up: a fault can cost a robot
two further connections, when the late handshake of a lost socket replaces its
present one. Three events let a robot start a preset, reuse its slot and start
another. Two playback tasks through queues of one slot make each wait for the other;
with two frames a clip can be cut in its middle, and with queues longer than a clip
they would never fill. Three frame numbers are one at work, one timed out and a new
one; two faults let one hit the recovery from the other.

**Fairness.** Timers fire; messages under way on a live connection arrive; tasks
that can run, run; synthesis and detection end (the sidecar's requests time out
after 2 s); the robot reconnects (`reconnect_if_needed` runs in the main loop
every 5 s). In `DeviceSessions` a close that the daemon has begun is completed
(the library's timer), but nothing makes it notice a dead connection. In `CodexTail`
the poll timer fires and the file system answers some tick, hence each of them, since
overlaps are bounded. In `RobotFace` the main loop
runs on, and again and again it runs with the time of everything timed being over
(`AllOver`). In `RobotSound` the scheduler runs *some* task that can go on, not
every one, and the periodic timer has the highest priority. In `FaceTracking` a
running process answers, the main loop works through what has arrived, and the
robot's hold ends. Strong fairness is assumed of two steps of the robot's camera: a
capture and a send do not fail every time. Nothing is assumed to make the user or
the log change anything, a connection break, or a fault end. The safety runs that
share a configuration with a liveness property use the fair specification, which has
the same reachable states.

**Deadlock** is checked except in `CodexWatcher`, `CodexTail`, `SpeechPlayback`,
`RobotSound` and `FaceTracking`, which stop when nothing is asked of them any more
and the bounds are used up.

**Type invariants** of `CameraFlow`, `SpeechPlayback`, `CodexTail` and
`FaceTracking` are not checked by the runs, which spend their time on other
properties. That of `FaceTracking` is proved (`TypesCorrect`); of the other three the
proofs use the parts that they need.

### What the failing runs show

1. `codex_watcher_mirror` — an accepted dispatch erases whatever change waits by
   then (`session-watcher.ts:290`); the robot keeps the older mode.
2. `face_tracking_off` — a detection that is under way when tracking is switched
   off is handled like any other (`tracking.ts:635`), and starts the tracking
   again on the robot, where nothing ends it.

### What the passing properties except

Some properties carry a condition, because without it the code's behaviour
violates them. Each condition is a fact about the code:

| Behaviour | Where | Property that names it |
| --- | --- | --- |
| between the client's "connected" and its `OnConnected`, another task's message can be sent before the handshake | `LCS:725` | `NothingStale` |
| a full critical queue evicts from another queue and grows | `LCS:513` | `BoundedQueues`, which bounds the other two |
| credit is looked at before the capture and paid after the send, so one credit can bring two frames | `LCS:1228` | `CreditWithinLimit`, `FramesFlow` |
| a start acknowledged too late is never followed by a stop | `tracking.ts:451` | `StopsWhenIdle`, run without late acks |
| the end of one announcement opens the motion gate for the next | `controller.ts:407` | `StillUnlessOverlapped` |
| the announcer's `setMode idle` is not known to the watcher | `completion-announcer.ts:318` | `QuietRobotShowsLastSent` |
| a character cut by a read, or a CR LF before a line in the same text, shifts the offset in the line's id | `session-watcher.ts:167` | `NamedRightly` (`exact`) |
| a log that ends within a character is measured too long when it is attached to | `session-watcher.ts:127` | `CatchesUp` (`WholeSize`) |
| two overlapping ticks process a line twice | `session-watcher.ts:61` | `NothingMissed`, `NamedRightly` (`clean`) |
| an id of the app outlives its modifier and removes what is in its slot now | `local_companion_app.cpp:178` | `LockHasHolder`, `FaceShowsMode` (`mishaps`) |
| a preset and a shake, or a pet, each put back what they found | `imu.h:105`, `head_pet.h:103` | `LockHasHolder`, `FaceShowsMode` |
| the first clip is heard at the stored volume, as the codec loads it after the volume was set | `audio_playback_service.cpp:61` | `PlaysAtAskedVolume` (`creator`) |
| a clip queued behind another is reported finished too early | `audio_playback_service.cpp:66` | `FinishedMeansPlayed` (`behind`) |
| a restart, or another task, between the two writes of the volume | `board_profile.cpp:463` | `VolumeComesBack` (`collided`) |
| the power timer stops itself after the output has come on, or while it is coming on | `audio_service.cc:735` | `PowersDown` (`stopRaced`) |
| frame numbers start again with the robot | `detector.ts:147` | `AnswersItsFrame` (`boot = 0`) |
| a sidecar that could not be spawned is never started again | `detector.ts:127` | `DetectorComesBack` (`child`) |
| a playback event closes the gate to the stop of switching off, without having suspended the tracking | `controller.ts:404` | `TrackingEndsQuietly` (`loose`) |
| a pet, a shake or an animation moves the head while the angle of the steps is kept | `head_pet.h:104`, `imu.h:60` | `StepsFromTheHead`, about `moveHead` only |
| an outage can put a move and the tracking after it into one pass | `local_companion_app.cpp:514` | `StepsFromTheHead` (`outages = 0`) |

## 4. Theorems

All hold for every value of the constants, under the named assumptions of the
modules (limits are positive, bounds are natural numbers).

**CodexWatcher.** `TypeCorrect`, `NeverStranded`, `QuietShowsLastSent`. The last
is not inductive: it says nothing of the commands under way. `IInv` adds what links
the two ends. A command that is still awaited carries the mode of the attempt in
flight, and only session greetings and the announcer's commands (`Others`) follow it
(`AwaitedCommand`); an awaited ack was sent by a robot that has applied every command
of the watcher (`AwaitedAck`); without a connection no ack is under way
(`OfflineLink`); and with no change waiting, no command of the watcher is under way
and the robot `Shows` the mode last sent, save for what the announcer or an outage did
since (`Quiet`). The last conjunct is what an accepted dispatch establishes, from the first
two.

**CodexTail.** `NothingIsMissed`, `CompletionsNamedRightly`. `NothingMissed` says nothing of the line that a
read has cut, nor of what a tick carries across an await. The invariant adds both:
a log is lines of three bytes (`Logs`); while ticks take turns only one is under way
(`Turns`); the watcher's `pending` is exactly the bytes before its offset since the
last line end or the size it attached at, torn or not (`Attached`); and the tick's
size, position and previous size fit that offset (`Following`). `ReadText` shows that
the text of a read continues the log from there byte for byte, `ReadReports` that it
parses every line that ends in it, and `ReadRest` what is kept of it. `NamesInv`, for
the second theorem, remembers more: a line starts once in a log; of the lines behind
the size the watcher attached at, only those before its offset are announced; and
nothing behind the size a tick is about to attach at is announced yet. With no torn
character in the text, its measured length is its length, and with no CR LF before
the line the sum of the lengths is the line's place (`ReadNames`).

**FirmwareLink.** `TypeCorrect`; `ChannelsImplemented`, the refinement of
`LossyChannel` by each priority class; `NeverStale`; `NeverOverfull`. `OrderInv`
says that each queue is increasing, that the tx task's message is older than its
queue, and that both are newer than what was sent last; an eviction or a clear
keeps a subsequence, so each step maps to a step of the channel or a stutter.
`FreshInv` says that from the clear of `OnConnected` on everything queued carries
the present connection, that nothing carries a later one, and that before the clear
this connection's handshake is neither queued nor sent: a message held across the
clear is sent, if at all, before the handshake.

**CameraFlow** (in `RobotProofs`). `CreditBounded`. The robot's credit is a minimum with the limit of
the message it handles, so the invariant is about what may be on the link: every
message is typed, a grant carries natural numbers whatever the daemon's count says,
and no step of the robot raises the credit otherwise. The full type invariant is
not inductive by itself: an awaited ack must pair with the command in flight.

**SpeechPlayback.** `StillWhilePlaying`. The invariant speaks of calm behaviours
(no overlap, no loss, no late ack): while `playAudio` awaits an ack, either its
command is the last message under way, with the stop of the tracking just before it
or handled already (`Sent`), or it has been handled, the head is still and the ack is
the first message back (`Answered`); otherwise no command and no ack is under way
(`Quiet`); and while an announcement is played, nothing but its start has been
reported, so the gate is closed and no `trackFace` follows (`Still`).

**DeviceSessions.** `TypeCorrect`, `NeverOrphaned`, `HeardIsOnline`, from `Inv`,
which is the conjunction of the three properties and is inductive as it stands: a
handshake closes the socket it replaces, and the close of a socket takes a session
offline only if it is that session's.

**RobotSound.** `TypeCorrect` (with the bounds of both queues);
`TimerCostsOneFrame`: the timer is at its check or its switch only when the last
output was long ago, and then the output task has no frame in hand that finds the
codec off and is not being switched on, and none has been lost; a lost frame is output too, and ends the silence;
`UserVolumeComesBack`: while nothing has collided, flash holds the user's volume
whenever no task is between the two writes, each task writes back and restores that
volume, and as long as the codec plays at another one some task still owes the
restoration; `NoClipInterrupted`, `FinishedClipsArePlayed` and `HeardAsAsked`. The
first two follow from `OrderInv`, about the packets that wait in both queues and at
the speaker: those of one clip are an interval; a task that is pushing holds the audio
mutex, and nothing of another follows its packets; and a clip that is not `behind`
another has no more waiting than its task has pushed, lies within what is left of
its delay, and is gone when the delay is over. The third needs `HeardInv`: a
task outside `overlapped` is alone from its start until nothing of it waits, and the
volume is the one asked for while it is audible, except for the `creator`.

**RobotFace** (in `RobotProofs`). `PoolConsistent` (the type invariant),
`OneModifierOfEach`, `LocksHaveHolders`, `EmotionsFollowMode`. A pass is seven stages,
each a function of the face, so the invariant `FaceInv` is a property of a face at any of
them, and each stage has a lemma that says which part of it it keeps. A modifier that
has an id is in the slot its id names (`Tracked`), which leaves room for one of each
kind. Between passes nothing is over and the preset has started (`Settled`). While no
preset is lost, the app's id of a preset leads to it (`Reached`). Unless a preset
and a shake overlapped, a lock that is set belongs to the reaction or to the running
preset, and the preset will put back "unlocked" (`LocksOK`). Unless overlays met or
the mode changed below one, whatever is to be put back is the emotion of the mode
shown (`EmotionsOK`). The
histories in `mishaps` are exactly the conditions under which a stage breaks one of
these, so the theorems say that nothing else does.

**FaceTracking.** `SidecarTypeCorrect`, `AnswersTheirFrames`, `BacklogFromOverruns`,
`TypesCorrect`, `TrackingYields`, `StepsFromMeasuredAngle`.
The detector's invariant: the tracker waits for one frame at most; every frame under way is of
this boot or an earlier one; a frame is before the process once, and has no answer
then; and what is before the process, but for the frame at work, has timed out. The
head's, `HInv`: a `moveHead` is preceded by the command that suspends the tracking, on
the link or handled (`Suspended`); while its reservation lasts nothing behind it
tracks, and once it is executed the robot has no target (`Yielding`); the angle of
the steps is known only while there is a target, or until the robot looks again
(`AngleKept`); and before the first outage the reservation outlasts the command's way
and the stale angle (`Undisturbed`), which is why the last theorem has that
condition and `TrackingYields` has none.

**Only model-checked.** All liveness, which the prover cannot express under
fairness; and the two disagreements of section 3, which need one counterexample each. Every
invariant and every action property of a passing run is proved.

## 5. Plan

1. Proofs of the whole type invariants of `CameraFlow`, `SpeechPlayback` and
   `CodexTail`, in which an awaited ack must pair with the command in flight.
2. Extensions of `DeviceSessions`: a rejected pairing token and the client's own
   reconnect; the refinement to the on/off connection that the other modules use.
3. Transfers with two robots online, whose chunks may go to both
   (`registry.ts:224`).
4. `waitForCompletion`: command status events of the robot against the daemon's
   timeouts.

## 6. Not modelled

The map covers about 7 % of the implementation. Most of the rest
has no decisions that a state machine could get wrong, or decisions about numbers
that TLC cannot enumerate:

- Drivers of camera, servos, display and power chips, JPEG encoding, Bluetooth
  examples and other vendored code (`firmware/main/hardware`, `runtime/jpg`).
- The console (`desktop/preview-ui`), drawing and layout of the face
  (`avatar_display.cpp`), HTTP, SSE, MJPEG and MCP, except the calls they make.
- Building and parsing of messages: JSON schemas, the binary frame, Ogg, base64, the
  telemetry of sensors. A frame and a chunk are tokens; a message that does not
  parse is not sent by either side.
- Floating point: which face is selected, smoothing, PID arithmetic, adaptive
  thresholds (a free change of settings in `DesktopVision`), servo trajectories, the
  recognition of gestures and shakes from samples (events in `RobotFace`).
- Schedules of the sensor and telemetry tasks, Wi-Fi and its provisioning, settings
  and boot, which run before or beside the parts above. The recording half of the
  audio service is never started by this firmware.
- The WebSocket library: it delivers in order or breaks the connection.
- A restart of the daemon, which keeps nothing; `FaceTracking` has its end. A restart
  of the robot is a lost connection for `DeviceSessions`, and explicit in
  `RobotSound` and `FaceTracking`.

Hazards without a property. States that nothing in the code leaves: the unhandled
rejection of a tick (`CodexTail` has it as `crashed`), a sidecar that cannot be
spawned (`DetectorSidecar`'s `failed`), a target without a deadline when the daemon
is lost, and a preset that puts back the lock of a shake (`locksCrossed`). Behaviour
that a property excepts or whose run does not have it: an answer taken for a new
frame after the robot's restart, and a stream that is not stopped because its start
was acknowledged too late. And the chunks of one transfer that go to two robots.
