----------------------------- MODULE CameraLink -----------------------------
(***************************************************************************)
(* What the daemon and the robot exchange about the camera stream. A       *)
(* stream command is `live` while the controller waits for its ack, and so *)
(* is the ack. Commands that the robot had received but not handled when   *)
(* the connection was lost are still handled after it comes back           *)
(* (_msg_queue is never cleared).                                          *)
(***************************************************************************)
EXTENDS Naturals, Sequences

VARIABLES online,      \* the daemon has an active session, the robot a connection
          toRobot, toDesktop

linkVars == <<online, toRobot, toDesktop>>

Hello              == [kind |-> "hello"]
Stream(on)         == [kind |-> "stream", on |-> on, live |-> TRUE]
LateStream(on)     == [kind |-> "stream", on |-> on, live |-> FALSE]
Grant(frames, max) == [kind |-> "grant", frames |-> frames, max |-> max]
Frame   == [kind |-> "frame"]
Ack     == [kind |-> "ack", live |-> TRUE]
LateAck == [kind |-> "ack", live |-> FALSE]

LinkTypeOK ==
  /\ online \in BOOLEAN
  /\ \A i \in 1..Len(toRobot) : toRobot[i].kind \in {"hello", "stream", "grant"}
  /\ \A i \in 1..Len(toDesktop) : toDesktop[i] \in {Frame, Ack, LateAck}

LinkInit == online = TRUE /\ toRobot = <<Hello>> /\ toDesktop = <<>>

\* sendToActiveDevice: without a session nothing is sent.
ToRobot(messages) == IF online THEN toRobot \o messages ELSE toRobot

\* The commands and acks of which the controller no longer waits for any.
Late(messages) ==
  [i \in 1..Len(messages) |->
     IF messages[i] = Stream(TRUE) THEN LateStream(TRUE)
     ELSE IF messages[i] = Stream(FALSE) THEN LateStream(FALSE)
     ELSE IF messages[i] = Ack THEN LateAck
     ELSE messages[i]]

ForgetCommand == toRobot' = Late(toRobot) /\ toDesktop' = Late(toDesktop)

\* What the daemon had not received is lost, and what the robot had received but
\* not handled stays. A command cut off with its ack times out later.
KeepsOnlyReceived(messages) ==
  /\ online /\ online' = FALSE
  /\ toDesktop' = <<>>
  /\ \E received \in 0..Len(messages) : toRobot' = SubSeq(messages, 1, received)

ConnectionLost == KeepsOnlyReceived(toRobot)

\* The daemon closes the connection when it gives up on its command.
ConnectionClosed == KeepsOnlyReceived(Late(toRobot))

Reconnected ==
  /\ ~online /\ online' = TRUE
  /\ toRobot' = Append(toRobot, Hello)
  /\ UNCHANGED toDesktop
=============================================================================
