---------------------------- MODULE FirmwareLink ----------------------------
(***************************************************************************)
(* The robot's end of the connection (LocalCompanionSocket): the WebSocket *)
(* client task with its callbacks, the main loop, the sensor and camera    *)
(* tasks and the touch screen that produce messages, the three outbound    *)
(* queues, and the tx task that sends what they hold.                      *)
(*                                                                         *)
(* A message is its kind, its number in the order of production and the    *)
(* connection that was the latest when it was queued. Every message of     *)
(* kind "critical" stands for an ack, a command status, a playback event,  *)
(* an error or a heartbeat. The network is the atomic send of one message. *)
(***************************************************************************)
EXTENDS Naturals, Sequences

CONSTANTS CriticalMax, NormalMax, CameraMax,   \* kCriticalTxQueueMax, ...
          MaxMessages, MaxConnections          \* bounds: no task but the client
                                               \* produces beyond MaxMessages

ASSUME CapacityAssumption ==
  /\ CriticalMax \in Nat \ {0} /\ NormalMax \in Nat \ {0} /\ CameraMax \in Nat \ {0}
ASSUME BoundsAssumption == MaxMessages \in Nat /\ MaxConnections \in Nat

Classes == {"critical", "camera", "normal"}            \* OutboundPriority
Kinds   == Classes \cup {"handshake"}
Message == [kind : Kinds, number : Nat \ {0}, conn : Nat]
Nothing == [kind |-> "nothing", number |-> 0, conn |-> 0]

ClassOf(kind) == IF kind = "handshake" THEN "critical" ELSE kind

VARIABLES
  queue,      \* _tx_critical, _tx_camera and _tx_normal
  holding,    \* the message the tx task has dequeued
  open,       \* IsConnected of the WebSocket client
  client,     \* the client task: no client, waiting or inside OnConnected
  closing,    \* OnDisconnected is still to run
  main,       \* the main loop: between ticks, past its check, inside connect
  sensor,     \* the sensor task has seen a connected socket
  capture,    \* the camera task has seen a connected socket
  conn,       \* how many times the socket has opened
  produced,   \* how many messages have been produced
  first,      \* what the daemon received first on this connection
  last        \* per class, the number of the last message sent

taskVars == <<main, sensor, capture>>
sockVars == <<open, client, closing, conn>>
sentVars == <<first, last>>
vars == <<queue, holding, sockVars, taskVars, produced, sentVars>>

TypeOK ==
  /\ queue \in [Classes -> Seq(Message)]
  /\ holding \in Message \cup {Nothing}
  /\ open \in BOOLEAN /\ closing \in BOOLEAN
  /\ client \in {"none", "waiting", "opened", "cleared"}
  /\ main \in {"idle", "sending", "connecting"}
  /\ sensor \in BOOLEAN /\ capture \in BOOLEAN
  /\ conn \in Nat /\ produced \in Nat
  /\ first \in Kinds \cup {"none", "stale"}
  /\ last \in [Classes -> Nat]

Empty == [class \in Classes |-> <<>>]

\* init() calls connect() on the main task.
Init ==
  /\ queue = Empty /\ holding = Nothing
  /\ open = FALSE /\ client = "none" /\ closing = FALSE /\ conn = 0
  /\ main = "connecting" /\ sensor = FALSE /\ capture = FALSE
  /\ produced = 0
  /\ first = "none" /\ last = [class \in Classes |-> 0]

-----------------------------------------------------------------------------
(***************************************************************************)
(* The queues. Each operation holds _tx_mutex.                             *)
(***************************************************************************)
ClearTxQueue == queue' = Empty

\* Mutant: one message too many is kept.
TrimLate(messages, max) ==
  IF Len(messages) > max
  THEN SubSeq(messages, Len(messages) - max + 1, Len(messages))
  ELSE messages

\* A full camera or normal queue gives up its oldest messages.
Trim(messages, max) ==
  IF Len(messages) >= max
  THEN SubSeq(messages, Len(messages) - max + 2, Len(messages))
  ELSE messages

\* What a critical message pushes out of the queues when its own is full.
Victim ==
  IF queue["camera"] # <<>> THEN "camera"
  ELSE IF queue["normal"] # <<>> THEN "normal"
  ELSE "critical"

\* The queues with room for one more message of a class.
RoomFor(class) ==
  IF class = "critical"
  THEN IF Len(queue["critical"]) >= CriticalMax
       THEN [queue EXCEPT ![Victim] = Tail(@)]
       ELSE queue
  ELSE [queue EXCEPT ![class] = Trim(@, IF class = "camera" THEN CameraMax ELSE NormalMax)]

\* Mutant: messages are numbered before the counter moves.
EnqueueFromZero(kind) ==
  /\ produced' = produced + 1
  /\ queue' = [RoomFor(ClassOf(kind)) EXCEPT
                 ![ClassOf(kind)] =
                   Append(@, [kind |-> kind, number |-> produced, conn |-> conn])]

EnqueueOutbound(kind) ==
  /\ produced' = produced + 1
  /\ queue' = [RoomFor(ClassOf(kind)) EXCEPT
                 ![ClassOf(kind)] =
                   Append(@, [kind |-> kind, number |-> produced + 1, conn |-> conn])]

\* The class the tx task serves next.
Served ==
  IF queue["critical"] # <<>> THEN "critical"
  ELSE IF queue["camera"] # <<>> THEN "camera"
  ELSE "normal"

DequeueOutbound ==
  /\ queue[Served] # <<>>
  /\ holding' = Head(queue[Served])
  /\ queue' = [queue EXCEPT ![Served] = Tail(@)]

-----------------------------------------------------------------------------
(***************************************************************************)
(* The WebSocket client task. IsConnected is already true when OnConnected *)
(* starts, and between clearing the queues and queueing the handshake it   *)
(* waits for the telemetry mutex.                                          *)
(***************************************************************************)
SocketOpens ==
  /\ client = "waiting" /\ ~open /\ ~closing /\ conn < MaxConnections
  /\ open' = TRUE /\ conn' = conn + 1 /\ client' = "opened"
  /\ first' = "none"
  /\ UNCHANGED <<queue, holding, closing, taskVars, produced, last>>

\* Mutant: the queues are left to OnDisconnected.
OnConnectedKeeps ==
  /\ client = "opened" /\ client' = "cleared"
  /\ UNCHANGED <<queue, holding, open, closing, conn, taskVars, produced, sentVars>>

OnConnectedClears ==
  /\ client = "opened" /\ client' = "cleared"
  /\ ClearTxQueue
  /\ UNCHANGED <<holding, open, closing, conn, taskVars, produced, sentVars>>

SendHandshake ==
  /\ client = "cleared" /\ client' = "waiting"
  /\ EnqueueOutbound("handshake")
  /\ UNCHANGED <<holding, open, closing, conn, taskVars, sentVars>>

\* The connection is lost or the daemon closes it; the client reopens by itself.
SocketCloses ==
  /\ open /\ open' = FALSE /\ closing' = TRUE
  /\ UNCHANGED <<queue, holding, client, conn, taskVars, produced, sentVars>>

OnDisconnected ==
  /\ closing /\ closing' = FALSE
  /\ ClearTxQueue
  /\ UNCHANGED <<holding, open, client, conn, taskVars, produced, sentVars>>

(***************************************************************************)
(* The main loop: update() checks the socket, then handles the received    *)
(* commands and the due heartbeat, or reconnects.                          *)
(***************************************************************************)
MainChecks ==
  /\ main = "idle" /\ open /\ main' = "sending"
  /\ UNCHANGED <<queue, holding, sockVars, sensor, capture, produced, sentVars>>

MainSends(kind) ==
  /\ main = "sending" /\ produced < MaxMessages
  /\ EnqueueOutbound(kind)
  /\ UNCHANGED <<holding, sockVars, taskVars, sentVars>>

MainEnds ==
  /\ main = "sending" /\ main' = "idle"
  /\ UNCHANGED <<queue, holding, sockVars, sensor, capture, produced, sentVars>>

\* connect() up to the mDNS query.
ReconnectBegins ==
  /\ main = "idle" /\ ~open /\ main' = "connecting"
  /\ ClearTxQueue
  /\ UNCHANGED <<holding, sockVars, sensor, capture, produced, sentVars>>

\* The old client, which may have reconnected meanwhile, is closed and a new
\* one started; destroying it waits for its callbacks.
ReconnectStarts ==
  /\ main = "connecting" /\ main' = "idle"
  /\ client \in {"none", "waiting"} /\ client' = "waiting"
  /\ open' = FALSE /\ closing' = (closing \/ open)
  /\ UNCHANGED <<queue, holding, conn, sensor, capture, produced, sentVars>>

\* The client cannot be created or started.
ReconnectFails ==
  /\ main = "connecting" /\ main' = "idle"
  /\ client \in {"none", "waiting"} /\ client' = "none"
  /\ open' = FALSE /\ closing' = FALSE
  /\ ClearTxQueue
  /\ UNCHANGED <<holding, conn, sensor, capture, produced, sentVars>>

(***************************************************************************)
(* The tasks that check the socket and later queue what they produced, and *)
(* the touch screen, whose events are queued whatever the socket does.     *)
(***************************************************************************)
SensorChecks ==
  /\ ~sensor /\ open /\ sensor' = TRUE
  /\ UNCHANGED <<queue, holding, sockVars, main, capture, produced, sentVars>>

SensorSends ==
  /\ sensor /\ sensor' = FALSE /\ produced < MaxMessages
  /\ EnqueueOutbound("normal")
  /\ UNCHANGED <<holding, sockVars, main, capture, sentVars>>

CaptureChecks ==
  /\ ~capture /\ open /\ capture' = TRUE
  /\ UNCHANGED <<queue, holding, sockVars, main, sensor, produced, sentVars>>

CaptureSends ==
  /\ capture /\ capture' = FALSE /\ produced < MaxMessages
  /\ EnqueueOutbound("camera")
  /\ UNCHANGED <<holding, sockVars, main, sensor, sentVars>>

TrackingTouched ==
  /\ produced < MaxMessages
  /\ EnqueueOutbound("normal")
  /\ UNCHANGED <<holding, sockVars, taskVars, sentVars>>

(***************************************************************************)
(* The tx task: one message at a time, lost when the send fails.           *)
(***************************************************************************)
TxTakes ==
  /\ holding = Nothing
  /\ DequeueOutbound
  /\ UNCHANGED <<sockVars, taskVars, produced, sentVars>>

TxSends ==
  /\ holding # Nothing /\ open
  /\ holding' = Nothing
  /\ first' = IF first # "none" THEN first
              ELSE IF holding.conn = conn THEN holding.kind ELSE "stale"
  /\ last' = [last EXCEPT ![ClassOf(holding.kind)] = holding.number]
  /\ UNCHANGED <<queue, sockVars, taskVars, produced>>

\* Mutant: a message that could not be sent goes back to its queue.
TxRequeues ==
  /\ holding # Nothing /\ holding' = Nothing
  /\ queue' = [queue EXCEPT ![ClassOf(holding.kind)] = Append(@, holding)]
  /\ UNCHANGED <<sockVars, taskVars, produced, sentVars>>

TxFails ==
  /\ holding # Nothing /\ holding' = Nothing
  /\ UNCHANGED <<queue, sockVars, taskVars, produced, sentVars>>

ClientTask == SocketOpens \/ OnConnectedClears \/ SendHandshake \/ SocketCloses \/ OnDisconnected
MainTask == \/ MainChecks \/ MainEnds
            \/ \E kind \in {"critical", "normal"} : MainSends(kind)
            \/ ReconnectBegins \/ ReconnectStarts \/ ReconnectFails
Producers == SensorChecks \/ SensorSends \/ CaptureChecks \/ CaptureSends \/ TrackingTouched
TxTask == TxTakes \/ TxSends \/ TxFails

Next == ClientTask \/ MainTask \/ Producers \/ TxTask

Spec == Init /\ [][Next]_vars

-----------------------------------------------------------------------------
(***************************************************************************)
(* Properties.                                                             *)
(***************************************************************************)
Waiting(class) ==
  {queue[class][i].number : i \in 1..Len(queue[class])}
    \cup (IF holding # Nothing /\ ClassOf(holding.kind) = class THEN {holding.number} ELSE {})

Channel(class) ==
  INSTANCE LossyChannel WITH waiting <- Waiting(class), newest <- produced, last <- last[class]

\* Each priority is a lossy channel: whatever the tasks interleave, whatever is
\* evicted, cleared or fails to send, the daemon receives the messages of one
\* priority once and in the order of production (enqueue_outbound,
\* dequeue_outbound and tx_task_loop).
ImplementsChannels ==
  /\ \A class \in Classes : Channel(class)!Init
  /\ [][\A class \in Classes :
          [Channel(class)!Next]_<<Waiting(class), produced, last[class]>>]_vars

\* Once a connection has begun with its own handshake, nothing queued before
\* that connection opened is sent on it: no stale ack, event or camera frame
\* survives in the queues or in the tx task's hands (clear_tx_queue in
\* OnConnected).
NothingStale ==
  first = "handshake" =>
    /\ \A class \in Classes : \A i \in 1..Len(queue[class]) : queue[class][i].conn = conn
    /\ holding # Nothing => holding.conn = conn

\* The camera and normal queues never outgrow their limits, and a frame that
\* waits behind a slow send is the newest one when CameraMax is 1.
BoundedQueues == Len(queue["normal"]) <= NormalMax /\ Len(queue["camera"]) <= CameraMax
=============================================================================
