--------------------------- MODULE DesktopVision ---------------------------
(***************************************************************************)
(* The daemon's side of the camera stream (VisionTrackingService): which   *)
(* consumer wants the stream, the stream command in flight, the media      *)
(* credit it has granted, and the detector that works on one frame.        *)
(*                                                                         *)
(* The settings of the camera are one of two versions, changed by          *)
(* setControl, setRawPreview and the adaptive levels alike. The times of   *)
(* the retry rules are the flags `stale` (no frame for                     *)
(* CAMERA_STREAM_STALE_MS) and `recoveryReady`                             *)
(* (CAMERA_STREAM_RECONNECT_COOLDOWN_MS has passed).                       *)
(***************************************************************************)
EXTENDS CameraLink

CONSTANT MaxChanges     \* bound on changes of consumers and settings

ASSUME ChangesAssumption == MaxChanges \in Nat

Owners == {"idle", "faceTracking", "rawPreview"}

VARIABLES enabled, rawPreview, settings,
          streamEnabled, streamOwner, streamSettings,
          inFlight,                  \* the stream command awaited, or NoCommand
          failures,                  \* cameraStreamAckFailures, up to 3
          stale, recoveryReady,
          outstanding,               \* mediaCreditOutstandingFrames
          creditSession,             \* mediaCreditSessionId is the active session's
          detecting,                 \* inFlight of the detector
          changes                    \* counts towards MaxChanges

wantVars   == <<enabled, rawPreview, settings, changes>>
streamVars == <<streamEnabled, streamOwner, streamSettings>>
mediaVars  == <<outstanding, creditSession>>
retryVars  == <<failures, stale, recoveryReady>>
visionVars == <<wantVars, streamVars, inFlight, retryVars, mediaVars, detecting>>

Commands  == [owner : Owners, settings : 0..1, stale : BOOLEAN, sent : BOOLEAN]
NoCommand == [owner |-> "none", settings |-> 0, stale |-> FALSE, sent |-> FALSE]

VisionTypeOK ==
  /\ enabled \in BOOLEAN /\ rawPreview \in BOOLEAN
  /\ settings \in 0..1 /\ changes \in 0..MaxChanges
  /\ streamEnabled \in BOOLEAN /\ streamOwner \in Owners /\ streamSettings \in 0..1
  /\ inFlight \in Commands \cup {NoCommand}
  /\ failures \in 0..3 /\ stale \in BOOLEAN /\ recoveryReady \in BOOLEAN
  /\ outstanding \in Nat /\ creditSession \in BOOLEAN
  /\ detecting \in BOOLEAN

VisionInit ==
  /\ enabled = FALSE /\ rawPreview = FALSE /\ settings = 0 /\ changes = 0
  /\ streamEnabled = FALSE /\ streamOwner = "idle" /\ streamSettings = 0
  /\ inFlight = NoCommand /\ failures = 0
  /\ stale = TRUE /\ recoveryReady = TRUE
  /\ outstanding = 0 /\ creditSession = FALSE
  /\ detecting = FALSE

\* desiredCameraStream: the raw preview comes first.
Desired == IF rawPreview THEN "rawPreview" ELSE IF enabled THEN "faceTracking" ELSE "idle"
Wanted  == Desired # "idle"

CameraChanged == ~streamEnabled \/ streamOwner # Desired \/ streamSettings # settings

-----------------------------------------------------------------------------
(***************************************************************************)
(* The three things a step may do after it has set what it sets: grant     *)
(* credit, then send a stream command (ensureCameraStream), and send the   *)
(* messages of both. Each sees the new values of everything before it.     *)
(***************************************************************************)
StreamDue(force) == IF Wanted THEN force \/ CameraChanged \/ stale ELSE streamEnabled

Command == [owner |-> Desired, settings |-> settings, stale |-> stale, sent |-> online]

\* Mutant: a stop is sent only when the stream was just switched off.
EnsureStopsOnlyForced(force, before) ==
  IF inFlight = NoCommand /\ StreamDue(force)' /\ (force \/ Wanted')
  THEN inFlight' = Command' /\ toRobot' = ToRobot(before \o <<Stream(Wanted')>>)
  ELSE toRobot' = ToRobot(before) /\ UNCHANGED inFlight

\* Mutant: frames that stop coming are not noticed.
EnsureWithoutStale(force, before) ==
  IF inFlight = NoCommand /\ StreamDue(force)' /\ (force \/ ~Wanted' \/ CameraChanged')
  THEN inFlight' = Command' /\ toRobot' = ToRobot(before \o <<Stream(Wanted')>>)
  ELSE toRobot' = ToRobot(before) /\ UNCHANGED inFlight

\* `before` is what the step has sent already.
EnsureCameraStream(force, before) ==
  IF inFlight = NoCommand /\ StreamDue(force)'
  THEN inFlight' = Command' /\ toRobot' = ToRobot(before \o <<Stream(Wanted')>>)
  ELSE toRobot' = ToRobot(before) /\ UNCHANGED inFlight

Change ==
  /\ changes < MaxChanges /\ changes' = changes + 1
  /\ UNCHANGED <<streamVars, retryVars, mediaVars, detecting, online, toDesktop>>
  /\ EnsureCameraStream(TRUE, <<>>)

SetEnabled    == enabled' = ~enabled /\ UNCHANGED <<rawPreview, settings>> /\ Change
SetRawPreview == rawPreview' = ~rawPreview /\ UNCHANGED <<enabled, settings>> /\ Change
SetControl    == Wanted /\ settings' = 1 - settings /\ UNCHANGED <<enabled, rawPreview>> /\ Change

RetryTick ==
  /\ UNCHANGED <<wantVars, streamVars, retryVars, mediaVars, detecting, online, toDesktop>>
  /\ EnsureCameraStream(FALSE, <<>>)

(***************************************************************************)
(* grantCameraMediaCredit, when `out` frames are outstanding and `asked`   *)
(* more are offered.                                                       *)
(***************************************************************************)
MaxInFlight          == IF rawPreview THEN 4 ELSE 2
RefillThreshold      == IF rawPreview THEN 3 ELSE 1
InitialCredit(owner) == IF owner = "rawPreview" THEN 4 ELSE 2

Counted(out) == IF creditSession THEN out ELSE 0

Granted(asked, out) ==
  IF ~Wanted \/ ~online \/ Counted(out) > RefillThreshold THEN 0
  ELSE IF asked <= MaxInFlight - Counted(out) THEN asked
  ELSE MaxInFlight - Counted(out)

GrantMessages(asked, out) ==
  IF Granted(asked, out) > 0 THEN <<Grant(Granted(asked, out), MaxInFlight)>> ELSE <<>>

CountGrant(asked, out) ==
  \/ ~Wanted /\ outstanding' = out /\ UNCHANGED creditSession
  \/ Wanted /\ ~online /\ outstanding' = 0 /\ creditSession' = FALSE
  \/ Wanted /\ online /\ outstanding' = Counted(out) + Granted(asked, out) /\ creditSession' = TRUE

\* evaluateAdaptiveBackpressure: the adaptive level, and so the settings of the
\* face-tracking stream, may change; the command for them goes after `before`.
EvaluateBackpressure(before) ==
  \/ UNCHANGED <<wantVars, inFlight>> /\ toRobot' = ToRobot(before)
  \/ /\ enabled /\ changes < MaxChanges /\ changes' = changes + 1
     /\ settings' = 1 - settings
     /\ UNCHANGED <<enabled, rawPreview>>
     /\ EnsureCameraStream(TRUE, before)

(***************************************************************************)
(* The result of the stream command in flight.                             *)
(***************************************************************************)
StreamAccepted ==
  /\ inFlight' = NoCommand
  /\ IF inFlight.owner = "idle"
     THEN /\ streamEnabled' = FALSE /\ streamOwner' = "idle"
          /\ outstanding' = 0 /\ creditSession' = FALSE
          /\ UNCHANGED <<streamSettings, failures, toRobot>>
     ELSE /\ streamEnabled' = TRUE /\ streamOwner' = inFlight.owner
          /\ streamSettings' = inFlight.settings
          /\ failures' = 0
          /\ CountGrant(InitialCredit(inFlight.owner), 0)
          /\ toRobot' = toRobot \o GrantMessages(InitialCredit(inFlight.owner), 0)
  /\ UNCHANGED <<wantVars, stale, recoveryReady, detecting, online>>

Recovers ==
  inFlight.owner # "idle" /\ inFlight.stale /\ failures >= 2 /\ recoveryReady

StreamNotAccepted ==
  /\ inFlight' = NoCommand
  /\ failures' = IF inFlight.owner = "idle" \/ failures = 3 THEN failures ELSE failures + 1
  /\ recoveryReady' = (recoveryReady /\ ~Recovers)
  /\ UNCHANGED <<wantVars, streamVars, stale, mediaVars, detecting>>

AckArrives ==
  /\ toDesktop # <<>> /\ Head(toDesktop).kind = "ack"
  /\ toDesktop' = Tail(toDesktop)
  /\ IF Head(toDesktop).live THEN StreamAccepted ELSE UNCHANGED <<visionVars, online, toRobot>>

\* The ack does not come in time; the command may still arrive.
AckTimesOut ==
  /\ inFlight # NoCommand /\ inFlight.sent /\ ~(Recovers /\ online)
  /\ ForgetCommand /\ StreamNotAccepted
  /\ UNCHANGED online

\* There was no session to send it to.
CommandNotSent ==
  /\ inFlight # NoCommand /\ ~inFlight.sent /\ ~(Recovers /\ online)
  /\ StreamNotAccepted
  /\ UNCHANGED linkVars

\* After three failures without frames the device is asked to reconnect.
RecoversByReconnect ==
  /\ inFlight # NoCommand /\ Recovers
  /\ StreamNotAccepted
  /\ ConnectionClosed

(***************************************************************************)
(* Frames, the detector and time.                                          *)
(***************************************************************************)
Frames == toDesktop # <<>> /\ Head(toDesktop) = Frame /\ toDesktop' = Tail(toDesktop)

FrameIgnored == Frames /\ ~Wanted /\ UNCHANGED <<visionVars, online, toRobot>>

FrameTaken ==
  /\ Frames /\ Wanted
  /\ failures' = 0 /\ stale' = FALSE
  /\ UNCHANGED <<streamVars, recoveryReady, online>>
  /\ LET out == IF outstanding > 0 THEN outstanding - 1 ELSE 0 IN
       \/ /\ CountGrant(1, out) /\ toRobot' = toRobot \o GrantMessages(1, out)  \* not sampled
          /\ UNCHANGED <<wantVars, inFlight, detecting>>
       \/ /\ enabled /\ detecting                                              \* dropped
          /\ outstanding' = out /\ UNCHANGED <<detecting, creditSession>>
          /\ EvaluateBackpressure(<<>>)
       \/ /\ enabled /\ ~detecting /\ detecting' = TRUE
          /\ outstanding' = out
          /\ UNCHANGED <<wantVars, inFlight, creditSession, toRobot>>

DetectorDone ==
  /\ detecting /\ detecting' = FALSE
  /\ CountGrant(1, outstanding)
  /\ UNCHANGED <<streamVars, retryVars, online, toDesktop>>
  /\ EvaluateBackpressure(GrantMessages(1, outstanding))

FramesStop ==
  /\ ~stale /\ stale' = TRUE
  /\ UNCHANGED <<wantVars, streamVars, inFlight, failures, recoveryReady, mediaVars, detecting, linkVars>>

RecoveryAgain ==
  /\ ~recoveryReady /\ inFlight = NoCommand /\ recoveryReady' = TRUE
  /\ UNCHANGED <<wantVars, streamVars, inFlight, failures, stale, mediaVars, detecting, linkVars>>
=============================================================================
