---------------------------- MODULE FaceTracking ----------------------------
(***************************************************************************)
(* From a camera frame to the robot's head: VisionTrackingService and its  *)
(* detector (DetectorSidecar), the motion gate of RobotController, and the *)
(* robot's face-tracking target with its servo steps.                      *)
(*                                                                         *)
(* moveHead stands for every command that reserves the head, except        *)
(* playAudio: how its transfer and the playback go is in SpeechPlayback,   *)
(* and here are its reservation and suspension, the reservation that a     *)
(* playback event makes by itself, and their release. The flow of frames   *)
(* is in CameraFlow. Where a face is and how far the head moves are left   *)
(* out, and so is what else moves the head: pets, shakes and a long        *)
(* animation, of which the tracking's steps know nothing.                  *)
(***************************************************************************)
EXTENDS DetectorSidecar, SequencesExt

CONSTANTS MaxSwitches,   \* bound on switching tracking on or off
          MaxMoves,      \* bound on moveHead and playAudio commands, together
          MaxPending     \* bound on commands under way

ASSUME TrackingAssumption ==
  MaxSwitches \in Nat /\ MaxMoves \in Nat /\ MaxPending \in Nat

VARIABLES
  enabled, detecting,    \* enabled, inFlight of VisionTrackingService
  held,                  \* the manual reservation of the motion arbitrator
  audio,                 \* its audio reservation: none, one with the tracking suspended,
                         \* or one that came without a suspension
  online, toRobot,
  robot,                 \* what the robot knows: see Robots
  boot,
  moved,                 \* history: the latest moveHead that has been executed
  seized, jumped,        \* history: steps that tracking should not have made
  loose,                 \* history: tracking was switched off during a detection, or
                         \* while a reservation without a suspension kept the stop back
  switches, moves, clips, starts, outages

trackerVars == <<enabled, detecting, switches, loose>>
gateVars    == <<held, moves, audio, clips, starts>>
linkVars    == <<online, toRobot, outages>>
robotVars   == <<robot, boot, moved, seized, jumped>>
vars == <<sidecarVars, trackerVars, gateVars, linkVars, robotVars>>

\* target: not reserved, reserved until the hold is over, or detected; `fresh` when
\* it is not processed yet. stepper: whether the angle that steps start from is
\* known, and still the head's.
Robots ==
  [target : {"free", "held", "detected"}, fresh : BOOLEAN, streaming : BOOLEAN,
   stepper : {"unset", "set", "outdated"}]

Booted == [target |-> "free", fresh |-> FALSE, streaming |-> FALSE, stepper |-> "unset"]

\* A moveHead is numbered; `move` is 0 otherwise.
Command(kind)       == [kind |-> kind, move |-> 0]
Stream(on)          == Command(IF on THEN "streamOn" ELSE "streamOff")
TrackFace(detected) == Command(IF detected THEN "track" ELSE "suspend")
HeadTo(move)        == [kind |-> "moveHead", move |-> move]
Commands ==
  {Command(kind) : kind \in {"streamOn", "streamOff", "track", "suspend"}}
  \cup {HeadTo(move) : move \in 1..MaxMoves}

TypeOK ==
  /\ SidecarTypeOK
  /\ enabled \in BOOLEAN /\ held \in BOOLEAN /\ audio \in {"none", "suspended", "alone"}
  /\ online \in BOOLEAN /\ toRobot \in Seq(Commands) /\ robot \in Robots
  /\ boot \in 0..MaxFaults /\ moved \in 0..moves
  /\ detecting = (pending # {})
  /\ seized \in BOOLEAN /\ jumped \in BOOLEAN /\ loose \in BOOLEAN
  /\ switches \in 0..MaxSwitches /\ moves \in 0..MaxMoves /\ outages \in 0..MaxFaults
  /\ clips \in 0..MaxMoves /\ starts \in 0..clips

Init ==
  /\ SidecarInit
  /\ enabled = FALSE /\ detecting = FALSE /\ held = FALSE /\ audio = "none"
  /\ online = TRUE /\ toRobot = <<>> /\ robot = Booted /\ boot = 0
  /\ moved = 0 /\ seized = FALSE /\ jumped = FALSE /\ loose = FALSE
  /\ switches = 0 /\ moves = 0 /\ clips = 0 /\ starts = 0 /\ outages = 0

FaultPossible == overruns + exits + failedStarts + boot + outages < MaxFaults

-----------------------------------------------------------------------------
(***************************************************************************)
(* The daemon.                                                             *)
(***************************************************************************)

\* sendToActiveDevice: without a session nothing is sent.
Send(commands) ==
  \/ ~online /\ UNCHANGED toRobot
  \/ /\ online /\ Len(toRobot) + Len(commands) <= MaxPending
     /\ toRobot' = toRobot \o commands

\* Mutant: the gate is not asked.
Ungated(detected) == <<TrackFace(detected)>>

\* trackFace behind the gate: nothing is sent while another owner holds the head.
Gated(detected) == IF held \/ audio # "none" THEN <<>> ELSE <<TrackFace(detected)>>

Enable ==
  /\ ~enabled /\ switches < MaxSwitches
  /\ enabled' = TRUE /\ switches' = switches + 1 /\ loose' = FALSE
  /\ Send(<<Stream(TRUE)>>)
  /\ UNCHANGED <<sidecarVars, detecting, gateVars, online, outages, robotVars>>

\* Mutant: only the stream is stopped.
DisableStream ==
  /\ enabled /\ switches < MaxSwitches
  /\ enabled' = FALSE /\ switches' = switches + 1
  /\ loose' = (detecting \/ audio = "alone")
  /\ Send(<<Stream(FALSE)>>)
  /\ UNCHANGED <<sidecarVars, detecting, gateVars, online, outages, robotVars>>

\* The stream is stopped now or, as DesktopVision says, by a later tick or not at
\* all. The stop of the tracking goes through the gate like any other trackFace.
Disable ==
  /\ enabled /\ switches < MaxSwitches
  /\ enabled' = FALSE /\ switches' = switches + 1
  /\ loose' = (detecting \/ audio = "alone")
  /\ \E stop \in {<<>>, <<Stream(FALSE)>>} : Send(stop \o Gated(FALSE))
  /\ UNCHANGED <<sidecarVars, detecting, gateVars, online, outages, robotVars>>

\* The retry timer of DesktopVision.
StreamRetried ==
  /\ enabled /\ online /\ ~robot.streaming
  /\ \A i \in 1..Len(toRobot) : toRobot[i] # Stream(TRUE)
  /\ Send(<<Stream(TRUE)>>)
  /\ UNCHANGED <<sidecarVars, trackerVars, gateVars, online, outages, robotVars>>

UnusedIds ==
  {id \in 1..MaxIds :
     LET frame == [id |-> id, boot |-> boot] IN
     frame \notin ToSet(pipe) /\ \A i \in 1..Len(answers) : answers[i].frame # frame}

NewId == CHOOSE id \in UnusedIds : TRUE

\* Mutant: a frame goes to the detector although it works on another one.
FrameArrivesAnyway ==
  /\ enabled /\ online /\ robot.streaming
  /\ UnusedIds # {} /\ Request([id |-> NewId, boot |-> boot]) /\ detecting' = TRUE
  /\ UNCHANGED <<enabled, switches, loose, gateVars, linkVars, robotVars>>

\* A frame that the detector is to see. While it works on another one, frames are
\* dropped.
FrameArrives ==
  /\ enabled /\ online /\ robot.streaming /\ ~detecting
  /\ \/ UnusedIds # {} /\ Request([id |-> NewId, boot |-> boot]) /\ detecting' = TRUE
     \/ FaultPossible /\ SpawnFails /\ UNCHANGED detecting
     \/ NotRunning /\ UNCHANGED detecting
  /\ UNCHANGED <<enabled, switches, loose, gateVars, linkVars, robotVars>>

\* The result is taken for what the camera sees, whether or not anyone still wants
\* to know.
HandleDetection(found) ==
  IF found = "face" THEN Send(Gated(TRUE)) ELSE UNCHANGED toRobot

AnswerArrives ==
  /\ ReadLine
  /\ IF Awaited(Head(answers)) # {}
     THEN detecting' = FALSE /\ HandleDetection(Head(answers).found)
     ELSE UNCHANGED <<detecting, toRobot>>
  /\ UNCHANGED <<enabled, switches, loose, gateVars, online, outages, robotVars>>

RequestTimesOut ==
  /\ FaultPossible /\ \E frame \in pending : Timeout(frame)
  /\ detecting' = FALSE
  /\ UNCHANGED <<enabled, switches, loose, gateVars, linkVars, robotVars>>

\* Mutant: the requests are cleared without being rejected.
SidecarGoneSilently ==
  /\ ExitEvent
  /\ UNCHANGED <<detecting, enabled, switches, loose, gateVars, linkVars, robotVars>>

SidecarGone ==
  /\ ExitEvent
  /\ detecting' = FALSE
  /\ UNCHANGED <<enabled, switches, loose, gateVars, linkVars, robotVars>>

Sidecar ==
  /\ ProcessAnswers \/ (FaultPossible /\ ProcessExits)
  /\ UNCHANGED <<trackerVars, gateVars, linkVars, robotVars>>

\* moveHead: reserve, suspendFaceTracking (past the gate), then the command.
MoveHead ==
  /\ moves + clips < MaxMoves /\ moves' = moves + 1
  /\ held' = TRUE /\ audio' = IF audio = "alone" THEN "suspended" ELSE audio
  /\ Send(<<TrackFace(FALSE), HeadTo(moves')>>)
  /\ UNCHANGED <<sidecarVars, trackerVars, clips, starts, online, outages, robotVars>>

\* playAudio: reserve and suspendFaceTracking. The clip that it transfers may start.
PlayAudio ==
  /\ moves + clips < MaxMoves /\ clips' = clips + 1
  /\ audio' = "suspended"
  /\ Send(<<TrackFace(FALSE)>>)
  /\ UNCHANGED <<sidecarVars, trackerVars, held, moves, starts, online, outages, robotVars>>

\* A playback event "started" reserves, and suspends nothing.
PlaybackStarted ==
  /\ online /\ starts < clips /\ starts' = starts + 1
  /\ audio' = IF held \/ audio = "suspended" THEN "suspended" ELSE "alone"
  /\ UNCHANGED <<sidecarVars, trackerVars, held, moves, clips, linkVars, robotVars>>

\* The end of this or of another playback, a transfer that fails, or 20 s.
AudioReleased ==
  /\ audio # "none" /\ audio' = "none"
  /\ UNCHANGED <<sidecarVars, trackerVars, held, moves, clips, starts, linkVars, robotVars>>

\* The reservation outlasts what is under way, and the pass of the robot's main loop
\* that handles it, except what an outage holds up.
HoldExpires ==
  /\ held /\ held' = FALSE
  /\ online => toRobot = <<>> /\ ~(robot.target = "held" /\ robot.fresh)
  /\ UNCHANGED <<sidecarVars, trackerVars, moves, audio, clips, starts, linkVars, robotVars>>

-----------------------------------------------------------------------------
(***************************************************************************)
(* The robot.                                                              *)
(***************************************************************************)

\* What a command changes.
Handled(r, kind) ==
  CASE kind = "streamOn"  -> IF r.streaming THEN r
                             ELSE [r EXCEPT !.streaming = TRUE, !.target = "held", !.fresh = TRUE]
    [] kind = "streamOff" -> [r EXCEPT !.streaming = FALSE]
    [] kind = "track"     -> [r EXCEPT !.target = "detected", !.fresh = TRUE]
    [] kind = "suspend"   -> [r EXCEPT !.target = "held", !.fresh = TRUE]
    [] kind = "moveHead"  -> [r EXCEPT !.stepper = IF @ = "set" THEN "outdated" ELSE @]

\* process_messages, one message at a time. A pass of the main loop handles those that
\* have been received, and then looks at the target (SyncFaceTracking); without a
\* connection messages wait.
HandleCommand ==
  /\ online /\ toRobot # <<>> /\ toRobot' = Tail(toRobot)
  /\ robot' = Handled(robot, Head(toRobot).kind)
  /\ moved' = IF Head(toRobot).kind = "moveHead" THEN Head(toRobot).move ELSE moved
  /\ UNCHANGED <<sidecarVars, trackerVars, gateVars, online, outages, boot, seized, jumped>>

\* Mutant: the angle of the steps survives a suspension.
NoTargetKeepsAngle(r) == [r EXCEPT !.fresh = FALSE]

NoTarget(r) == [r EXCEPT !.fresh = FALSE, !.stepper = "unset"]

Measured(r) == [r EXCEPT !.fresh = FALSE, !.stepper = IF @ = "unset" THEN "set" ELSE @]

\* What sync_face_tracking may do: nothing new or too early; a stale target or a
\* pause after refused steps; no step needed; the servos take the step or refuse it.
Synced(r) ==
  IF r.target # "detected" THEN {[robot |-> NoTarget(r), step |-> "none"]}
  ELSE {[robot |-> r, step |-> "none"]} \cup
       IF ~r.fresh THEN {}
       ELSE {[robot |-> [r EXCEPT !.fresh = FALSE], step |-> "none"],
             [robot |-> Measured(r), step |-> "none"],
             [robot |-> Measured(r), step |-> "refused"],
             [robot |-> [Measured(r) EXCEPT !.stepper = "set"], step |-> "taken"]}

SyncFaceTracking ==
  \E sync \in Synced(robot) :
    /\ robot' = sync.robot
    /\ seized' = (seized \/ (sync.step # "none" /\ held /\ moved = moves))
    /\ jumped' = (jumped \/ (sync.step = "taken" /\ robot.stepper = "outdated"))
    /\ UNCHANGED <<sidecarVars, trackerVars, gateVars, linkVars, boot, moved>>

\* getLocalFaceTrackingTarget, 3.5 s after the latest command.
ReservationEnds ==
  /\ robot.target = "held" /\ ~robot.fresh
  /\ robot' = [robot EXCEPT !.target = "free"]
  /\ UNCHANGED <<sidecarVars, trackerVars, gateVars, linkVars, boot, moved, seized, jumped>>

-----------------------------------------------------------------------------
(***************************************************************************)
(* Outages.                                                                *)
(***************************************************************************)
Disconnected ==
  /\ FaultPossible /\ outages' = outages + 1
  /\ online' = FALSE
  /\ \E received \in 0..Len(toRobot) : toRobot' = SubSeq(toRobot, 1, received)

ConnectionLost ==
  /\ online /\ Disconnected
  /\ UNCHANGED <<sidecarVars, trackerVars, gateVars, robotVars>>

Reconnected ==
  /\ ~online /\ online' = TRUE
  /\ UNCHANGED <<sidecarVars, trackerVars, gateVars, toRobot, outages, robotVars>>

RobotRestarts ==
  /\ FaultPossible /\ boot' = boot + 1
  /\ robot' = Booted
  /\ online' = FALSE /\ toRobot' = <<>>
  /\ UNCHANGED <<sidecarVars, trackerVars, gateVars, outages, moved, seized, jumped>>

\* A line is still being written when its process is gone: nobody listens to the
\* error event of its stdin, and the daemon ends. It comes back as configured.
DaemonEnds ==
  /\ child = "exited" /\ pipe # <<>>
  /\ SidecarEnds /\ Disconnected
  /\ enabled' \in BOOLEAN /\ detecting' = FALSE /\ held' = FALSE /\ audio' = "none"
  /\ UNCHANGED <<switches, loose, moves, clips, starts, robotVars>>

Next ==
  \/ Enable \/ Disable \/ StreamRetried \/ MoveHead \/ HoldExpires
  \/ PlayAudio \/ PlaybackStarted \/ AudioReleased
  \/ FrameArrives \/ AnswerArrives \/ RequestTimesOut \/ SidecarGone \/ Sidecar
  \/ HandleCommand \/ SyncFaceTracking \/ ReservationEnds
  \/ ConnectionLost \/ Reconnected \/ RobotRestarts \/ DaemonEnds

(***************************************************************************)
(* Messages and events arrive, frames come while they are wanted, a        *)
(* running process answers, the robot's main loop runs and its hold ends.  *)
(***************************************************************************)
SyncsTarget == SyncFaceTracking /\ ~robot'.fresh

Fairness ==
  /\ WF_vars(FrameArrives) /\ WF_vars(AnswerArrives) /\ WF_vars(SidecarGone)
  /\ WF_vars(Sidecar /\ ProcessAnswers)
  /\ WF_vars(HandleCommand) /\ WF_vars(SyncsTarget) /\ WF_vars(ReservationEnds)

Spec     == Init /\ [][Next]_vars
FairSpec == Spec /\ Fairness

-----------------------------------------------------------------------------
(***************************************************************************)
(* Properties.                                                             *)
(***************************************************************************)

\* An answer is taken for the frame it is about, unless the robot restarted and
\* numbers its frames anew (PythonSidecarFaceDetector.handleLine goes by frameId).
AnswersItsFrame == boot = 0 => ~mistaken

\* What piles up before the process is no more than its overruns: the tracker has
\* one frame at work, and a frame that timed out is not withdrawn. (An answer taken
\* for another's leaves that one's frame behind, too.)
BacklogBounded == ~mistaken => Len(pipe) <= overruns + 1

\* Tracking makes no step of the head between a moveHead command and the end of its
\* reservation (moveHead, trackFace and suspendFaceTracking of RobotController).
YieldsToMoveHead == ~seized

\* A step starts from where moveHead commands have left the head: after one of them
\* the angle is measured again. Only an outage can bring the command, and the tracking
\* after it, into one pass of the robot's main loop. Pets, shakes and the later
\* keyframes of an animation move the head as well while the angle is kept; the
\* property is not about them.
StepsFromTheHead == outages = 0 => ~jumped

\* While tracking stays on and the camera on, answers keep being accepted, whatever
\* exits and overruns there were, unless a process could not be spawned once.
DetectorComesBack ==
  <>[](enabled /\ online /\ robot.streaming /\ child # "failed") =>
    []<><<AnswerArrives /\ detecting /\ ~detecting'>>_vars

\* Once tracking is off, the robot stops looking for a target
\* (docs/face-tracking-pipeline.md:240).
TrackingEnds == <>[](~enabled /\ online) => <>[](robot.target # "detected")

\* It does, when the connection holds, no detection was under way, and the gate was
\* not closed to the stop by a playback event alone.
TrackingEndsQuietly ==
  <>[](~enabled /\ ~loose /\ outages = 0 /\ boot = 0) => <>[](robot.target = "free")
=============================================================================
