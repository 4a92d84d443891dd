----------------------------- MODULE CameraFlow -----------------------------
(***************************************************************************)
(* The camera stream end to end: DesktopVision and FirmwareCamera joined   *)
(* by CameraLink, with lost connections and late acks. The robot's state   *)
(* survives a lost connection, except what FirmwareCamera resets.          *)
(***************************************************************************)
EXTENDS FirmwareCamera, DesktopVision

CONSTANTS MaxOutages,    \* bound on lost connections
          MaxTimeouts,   \* bound on acks that come too late
          MaxPending     \* bound: messages to the robot before the daemon goes on

ASSUME FaultsAssumption ==
  MaxOutages \in Nat /\ MaxTimeouts \in Nat /\ MaxPending \in Nat \ {0}

VARIABLES outages, timeouts

faultVars == <<outages, timeouts>>
vars == <<linkVars, cameraVars, visionVars, faultVars>>

TypeOK ==
  /\ LinkTypeOK /\ CameraTypeOK /\ VisionTypeOK
  /\ outages \in 0..MaxOutages /\ timeouts \in 0..MaxTimeouts

Init == LinkInit /\ CameraInit /\ VisionInit /\ outages = 0 /\ timeouts = 0

-----------------------------------------------------------------------------
\* A stream command or its ack is still under way.
Answerable ==
  \/ \E i \in 1..Len(toRobot) : toRobot[i] \in {Stream(TRUE), Stream(FALSE)}
  \/ \E i \in 1..Len(toDesktop) : toDesktop[i] = Ack

Daemon(step) == step /\ UNCHANGED <<cameraVars, faultVars>>
Robot(step)  == step /\ UNCHANGED <<visionVars, faultVars>>

Changes == Daemon(SetEnabled \/ SetRawPreview \/ SetControl)
Tick    == Len(toRobot) < MaxPending /\ Daemon(RetryTick)
Receive == Len(toRobot) < MaxPending /\ Daemon(AckArrives \/ FrameIgnored \/ FrameTaken)
Detect  == Len(toRobot) < MaxPending /\ Daemon(DetectorDone)
NotSent == Daemon(CommandNotSent)
Ready   == Daemon(RecoveryAgain)

\* Something other than the detector is at work on the stream.
UnderWay == toRobot # <<>> \/ toDesktop # <<>> \/ capturing \/ slot \/ sending # "none"

\* Eight seconds without a frame: messages, captures and sends are faster than
\* that; the detector and a reconnection need not be.
Stale == (online => ~UnderWay) /\ Daemon(FramesStop)

\* An ack is late because a message was lost, or because the network was slow;
\* only the latter counts.
CountLate ==
  /\ timeouts' = IF Answerable THEN timeouts + 1 ELSE timeouts
  /\ timeouts' <= MaxTimeouts
  /\ UNCHANGED outages

TimesOut == AckTimesOut /\ CountLate /\ UNCHANGED cameraVars

Recover == RecoversByReconnect /\ OnDisconnected /\ CountLate

Lose ==
  /\ outages < MaxOutages /\ outages' = outages + 1
  /\ ConnectionLost /\ OnDisconnected
  /\ UNCHANGED <<visionVars, timeouts>>

\* The robot reconnects; its session has a new id. A command that found no session
\* is answered before the daemon turns to the next event.
Return ==
  /\ inFlight = NoCommand \/ inFlight.sent
  /\ Reconnected /\ OnConnected /\ creditSession' = FALSE
  /\ UNCHANGED <<wantVars, streamVars, inFlight, retryVars, outstanding, detecting, faultVars>>

Next ==
  \/ Changes \/ Tick \/ Receive \/ Detect \/ NotSent \/ Stale \/ Ready
  \/ TimesOut \/ Recover \/ Lose \/ Return
  \/ Robot(RobotCameraStep)

(***************************************************************************)
(* Timers fire, tasks run, messages arrive, the detector answers, the      *)
(* robot reconnects, and not every capture or send fails. Nothing makes    *)
(* the user change what is wanted, and nothing makes a connection break.   *)
(***************************************************************************)
Fairness ==
  /\ WF_vars(Tick) /\ WF_vars(Receive) /\ WF_vars(Detect)
  /\ WF_vars(TimesOut) /\ WF_vars(Recover) /\ WF_vars(NotSent) /\ WF_vars(Stale)
  /\ WF_vars(Return)
  /\ WF_vars(Robot(RobotReceives)) /\ WF_vars(Robot(StartCapture))
  /\ SF_vars(Robot(CaptureDone))
  /\ WF_vars(Robot(TxTakesFrame)) /\ SF_vars(Robot(TxSendsFrame))
  /\ WF_vars(Robot(TxFailsFrame)) /\ WF_vars(Robot(TxRecords))

Spec     == Init /\ [][Next]_vars
FairSpec == Spec /\ Fairness

-----------------------------------------------------------------------------
(***************************************************************************)
(* Properties.                                                             *)
(***************************************************************************)

\* The robot never holds more credit than the limit of the latest message about
\* it (handle_media_flow_control, handle_daemon_hello).
CreditWithinLimit == credit <= maxInFlight

\* While the stream stays wanted and the robot connected, frames keep arriving,
\* whatever credit was lost, reset or charged to the wrong frame before
\* (ensureCameraStream repeats the start command and the grant).
FramesFlow == <>[](Wanted /\ online) => []<><<Receive /\ Head(toDesktop) = Frame>>_vars

\* Once nobody wants it, the robot's stream is switched off, when every start was
\* acknowledged in time (docs/face-tracking-pipeline.md:79).
StopsWhenIdle == <>[]~Wanted => <>[]~streaming
=============================================================================
