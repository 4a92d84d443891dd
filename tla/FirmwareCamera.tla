--------------------------- MODULE FirmwareCamera ---------------------------
(***************************************************************************)
(* The robot's side of the camera stream: the stream switch, the media     *)
(* credit, the camera task that captures a frame, the queue of one frame   *)
(* and the tx task that sends it. The camera task looks at the credit when *)
(* it starts a capture; the tx task pays for the frame after sending it.   *)
(*                                                                         *)
(* A frame is a token: its content plays no part. What the tx task sends   *)
(* besides frames is left to FirmwareLink.                                 *)
(***************************************************************************)
EXTENDS CameraLink

CONSTANTS HelloMax,     \* maxCreditFrames of daemon.hello, after clamping
          DefaultMax,   \* kDefaultCameraCreditFrames
          MaxTransit    \* bound: frames the network holds

ASSUME CameraAssumption ==
  HelloMax \in Nat \ {0} /\ DefaultMax \in Nat \ {0} /\ MaxTransit \in Nat

VARIABLES streaming,      \* _camera_stream.enabled
          creditEnabled,  \* _camera_credit_enabled
          credit,         \* _camera_credit_frames
          maxInFlight,    \* _camera_max_in_flight
          capturing,      \* the camera task is between its check and its enqueue
          slot,           \* a frame waits in _tx_camera
          sending         \* the tx task: no frame, frame taken, frame sent

creditVars == <<creditEnabled, credit, maxInFlight>>
frameVars  == <<capturing, slot, sending>>
cameraVars == <<streaming, creditVars, frameVars>>

CameraTypeOK ==
  /\ streaming \in BOOLEAN /\ creditEnabled \in BOOLEAN
  /\ credit \in Nat /\ maxInFlight \in Nat \ {0}
  /\ capturing \in BOOLEAN /\ slot \in BOOLEAN
  /\ sending \in {"none", "taken", "sent"}

CameraInit ==
  /\ streaming = FALSE
  /\ creditEnabled = FALSE /\ credit = 0 /\ maxInFlight = DefaultMax
  /\ capturing = FALSE /\ slot = FALSE /\ sending = "none"

Smaller(a, b) == IF a <= b THEN a ELSE b

-----------------------------------------------------------------------------
(***************************************************************************)
(* What the connection and the daemon's messages do.                       *)
(***************************************************************************)
OnConnected ==
  /\ creditEnabled' = FALSE /\ credit' = 0 /\ maxInFlight' = DefaultMax
  /\ slot' = FALSE
  /\ UNCHANGED <<streaming, capturing, sending>>

OnDisconnected == slot' = FALSE /\ UNCHANGED <<streaming, creditVars, capturing, sending>>

DaemonHello ==
  /\ creditEnabled' = TRUE /\ credit' = 0 /\ maxInFlight' = HelloMax
  /\ UNCHANGED <<streaming, toDesktop>>

CameraStreamCommand(on, live) ==
  /\ streaming' = on
  /\ toDesktop' = Append(toDesktop, [kind |-> "ack", live |-> live])
  /\ UNCHANGED creditVars

\* Mutant: the credit is added without its limit.
FlowControlUnlimited(frames, max) ==
  /\ maxInFlight' = max
  /\ credit' = credit + frames
  /\ UNCHANGED <<streaming, creditEnabled, toDesktop>>

MediaFlowControl(frames, max) ==
  /\ maxInFlight' = max
  /\ credit' = Smaller(credit + frames, max)
  /\ UNCHANGED <<streaming, creditEnabled, toDesktop>>

\* process_messages, while the socket is connected.
RobotReceives ==
  /\ online /\ toRobot # <<>> /\ toRobot' = Tail(toRobot)
  /\ LET message == Head(toRobot) IN
       \/ message.kind = "hello" /\ DaemonHello
       \/ message.kind = "stream" /\ CameraStreamCommand(message.on, message.live)
       \/ message.kind = "grant" /\ MediaFlowControl(message.frames, message.max)
  /\ UNCHANGED <<online, frameVars>>

(***************************************************************************)
(* The camera task and the tx task.                                        *)
(***************************************************************************)

StartCapture ==
  /\ streaming /\ online
  /\ creditEnabled => credit > 0
  /\ ~capturing /\ capturing' = TRUE
  /\ UNCHANGED <<streaming, creditVars, slot, sending, linkVars>>

\* The frame replaces one that still waits.
CaptureDone ==
  /\ capturing /\ capturing' = FALSE
  /\ slot' = TRUE
  /\ UNCHANGED <<streaming, creditVars, sending, linkVars>>

CaptureFails ==
  /\ capturing /\ capturing' = FALSE
  /\ UNCHANGED <<streaming, creditVars, slot, sending, linkVars>>

TxTakesFrame ==
  /\ slot /\ sending = "none"
  /\ slot' = FALSE /\ sending' = "taken"
  /\ UNCHANGED <<streaming, creditVars, capturing, linkVars>>

FramesInTransit == Len(SelectSeq(toDesktop, LAMBDA message : message = Frame))

TxSendsFrame ==
  /\ sending = "taken" /\ online /\ FramesInTransit < MaxTransit
  /\ sending' = "sent"
  /\ toDesktop' = Append(toDesktop, Frame)
  /\ UNCHANGED <<streaming, creditVars, capturing, slot, online, toRobot>>

\* The payload cannot be built or the send fails: the frame costs nothing.
TxFailsFrame ==
  /\ sending = "taken" /\ sending' = "none"
  /\ UNCHANGED <<streaming, creditVars, capturing, slot, linkVars>>

\* record_camera_tx_result
TxRecords ==
  /\ sending = "sent" /\ sending' = "none"
  /\ credit' = IF creditEnabled /\ credit > 0 THEN credit - 1 ELSE credit
  /\ UNCHANGED <<streaming, creditEnabled, maxInFlight, capturing, slot, linkVars>>

RobotCameraStep ==
  \/ RobotReceives \/ StartCapture \/ CaptureDone \/ CaptureFails
  \/ TxTakesFrame \/ TxSendsFrame \/ TxFailsFrame \/ TxRecords
=============================================================================
