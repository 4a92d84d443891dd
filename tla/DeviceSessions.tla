--------------------------- MODULE DeviceSessions ---------------------------
(***************************************************************************)
(* The daemon's sessions (DeviceRegistry and the sockets of                *)
(* StackChanWebSocketServer) and the robots that connect to it. A robot    *)
(* may open a socket before the daemon knows that its last one is dead,    *)
(* and messages of different sockets are not ordered.                      *)
(*                                                                         *)
(* Sockets are numbered as they are opened; a session id is the number of  *)
(* its socket, and 0 is no session. Every message after the handshake is   *)
(* an "event": heartbeats and binary frames touch a session alike.         *)
(***************************************************************************)
EXTENDS Naturals, Sequences

CONSTANTS Devices,      \* device ids
          MaxSockets,   \* bound on sockets
          MaxFaults     \* bound on lost connections, early events and requested closes

ASSUME SessionsAssumption == MaxSockets \in Nat /\ MaxFaults \in Nat

Sockets == 1..MaxSockets

VARIABLES opened,       \* how many sockets have been opened
          owner,        \* the device that opened a socket
          readyState,   \* of a socket, at the daemon
          registered,   \* sockets whose handshake was accepted
          greeted,      \* sockets whose first message was handled
          inbox,        \* what a socket has for the daemon
          robotSocket,  \* the socket a robot uses, or 0
          session,      \* sessions: the socket of a device's session
          online,       \* status of a device's session
          overdue,      \* offlineDeadlineAt has passed
          seenAfter,    \* pairs of devices, the first with the later lastSeenAt
          gone,         \* robots that were switched off
          faults

socketVars  == <<opened, owner, readyState, registered, greeted, inbox>>
sessionVars == <<session, online, overdue, seenAfter>>
vars == <<socketVars, sessionVars, robotSocket, gone, faults>>

TypeOK ==
  /\ opened \in 0..MaxSockets
  /\ readyState \in [Sockets -> {"unused", "open", "closing", "closed"}]
  /\ owner \in [Sockets -> Devices \cup {"nobody"}]
  /\ \A s \in Sockets : s <= opened <=> readyState[s] # "unused"
  /\ \A s \in 1..opened : owner[s] \in Devices
  /\ registered \subseteq greeted /\ greeted \subseteq 1..opened
  /\ inbox \in [Sockets -> Seq({"handshake", "event"})]
  /\ robotSocket \in [Devices -> 0..opened] /\ session \in [Devices -> 0..opened]
  /\ online \in [Devices -> BOOLEAN] /\ overdue \in [Devices -> BOOLEAN]
  /\ seenAfter \subseteq Devices \X Devices
  /\ gone \subseteq Devices /\ faults \in 0..MaxFaults

Init ==
  /\ opened = 0 /\ owner = [s \in Sockets |-> "nobody"]
  /\ readyState = [s \in Sockets |-> "unused"] /\ inbox = [s \in Sockets |-> <<>>]
  /\ registered = {} /\ greeted = {}
  /\ robotSocket = [d \in Devices |-> 0] /\ session = [d \in Devices |-> 0]
  /\ online = [d \in Devices |-> FALSE] /\ overdue = [d \in Devices |-> FALSE]
  /\ seenAfter = {}
  /\ gone = {} /\ faults = 0

-----------------------------------------------------------------------------
(***************************************************************************)
(* DeviceRegistry.                                                         *)
(***************************************************************************)

\* lastSeenAt = now
Seen(d) ==
  /\ seenAfter' = {pair \in seenAfter : pair[2] # d} \cup ({d} \X (Devices \ {d}))
  /\ overdue' = [overdue EXCEPT ![d] = FALSE]

Close(sockets) ==
  readyState' = [s \in Sockets |->
                   IF s \in sockets /\ readyState[s] = "open" THEN "closing" ELSE readyState[s]]

\* Mutant: the socket of the session that is replaced stays open.
RegisterKeeping(d, s) ==
  /\ session' = [session EXCEPT ![d] = s]
  /\ online' = [online EXCEPT ![d] = TRUE]
  /\ registered' = registered \cup {s}
  /\ Seen(d)
  /\ UNCHANGED readyState

Register(d, s) ==
  /\ session' = [session EXCEPT ![d] = s]
  /\ online' = [online EXCEPT ![d] = TRUE]
  /\ registered' = registered \cup {s}
  /\ Seen(d)
  /\ Close({session[d]} \ {s})

\* recordEvent, recordHeartbeatMessage, recordAudioFrame: by device id.
Record(d) ==
  /\ online' = [online EXCEPT ![d] = TRUE]
  /\ Seen(d)
  /\ UNCHANGED session

\* Mutant: without the session id.
MarkOfflineAny(s) ==
  IF s \in registered /\ session[owner[s]] # 0
  THEN /\ online' = [online EXCEPT ![owner[s]] = FALSE]
       /\ Seen(owner[s])
       /\ UNCHANGED session
  ELSE UNCHANGED sessionVars

MarkOffline(s) ==
  IF s \in registered /\ session[owner[s]] = s
  THEN /\ online' = [online EXCEPT ![owner[s]] = FALSE]
       /\ Seen(owner[s])
       /\ UNCHANGED session
  ELSE UNCHANGED sessionVars

Reachable(d) ==
  session[d] # 0 /\ online[d] /\ readyState[session[d]] = "open" /\ ~overdue[d]

\* getActiveSession: of the sessions it leaves online, the one seen last.
Active(d) ==
  /\ Reachable(d)
  /\ \A other \in Devices : Reachable(other) => <<other, d>> \notin seenAfter

\* markTimedOutSessions, at every look at the sessions.
MarkTimedOut ==
  /\ online' = [d \in Devices |-> Reachable(d)]
  /\ UNCHANGED <<socketVars, session, overdue, seenAfter, robotSocket, gone, faults>>

(***************************************************************************)
(* The sockets at the daemon. A socket that is closing still delivers.     *)
(***************************************************************************)
\* Mutant: every message may be a handshake (on instead of once).
HandshakeAgain(s) ==
  /\ Head(inbox[s]) = "handshake"
  /\ UNCHANGED greeted
  /\ Register(owner[s], s)

Handshake(s) ==
  /\ s \notin greeted /\ Head(inbox[s]) = "handshake"
  /\ greeted' = greeted \cup {s}
  /\ Register(owner[s], s)

\* Mutant: the error is sent, the socket stays open.
RefuseKeeping(s) ==
  /\ s \notin greeted /\ Head(inbox[s]) # "handshake"
  /\ greeted' = greeted \cup {s}
  /\ UNCHANGED <<readyState, registered, sessionVars>>

\* invalid_handshake, expected_handshake
Refuse(s) ==
  /\ s \notin greeted /\ Head(inbox[s]) # "handshake"
  /\ greeted' = greeted \cup {s}
  /\ Close({s})
  /\ UNCHANGED <<registered, sessionVars>>

SessionMessage(s) ==
  /\ s \in greeted
  /\ IF s \in registered /\ Head(inbox[s]) = "event"
     THEN Record(owner[s]) ELSE UNCHANGED sessionVars
  /\ UNCHANGED <<readyState, registered, greeted>>

Receive(s) ==
  /\ readyState[s] \in {"open", "closing"} /\ inbox[s] # <<>>
  /\ inbox' = [inbox EXCEPT ![s] = Tail(@)]
  /\ Handshake(s) \/ Refuse(s) \/ SessionMessage(s)
  /\ UNCHANGED <<opened, owner, robotSocket, gone, faults>>

\* The close event: the robot has closed, or answers the daemon's close, or does
\* not answer in time; what it had still sent is lost.
CloseEvent(s) ==
  /\ \/ readyState[s] = "closing"
     \/ readyState[s] = "open" /\ robotSocket[owner[s]] # s
  /\ readyState' = [readyState EXCEPT ![s] = "closed"]
  /\ inbox' = [inbox EXCEPT ![s] = <<>>]
  /\ MarkOffline(s)
  /\ UNCHANGED <<opened, owner, registered, greeted, robotSocket, gone, faults>>

\* reconnectActiveDevice
RequestReconnect(d) ==
  /\ faults < MaxFaults /\ faults' = faults + 1
  /\ Active(d)
  /\ Close({session[d]})
  /\ UNCHANGED <<opened, owner, registered, greeted, inbox, sessionVars, robotSocket, gone>>

\* Nothing heard of a robot that no longer uses its session's socket.
DeadlinePasses(d) ==
  /\ session[d] # 0 /\ session[d] # robotSocket[d]
  /\ ~overdue[d] /\ overdue' = [overdue EXCEPT ![d] = TRUE]
  /\ UNCHANGED <<socketVars, session, online, seenAfter, robotSocket, gone, faults>>

(***************************************************************************)
(* The robots.                                                             *)
(***************************************************************************)

\* The handshake is the first message, unless another task's comes first
\* (FirmwareLink).
Connect(d) ==
  /\ d \notin gone /\ robotSocket[d] = 0
  /\ opened < MaxSockets /\ opened' = opened + 1
  /\ owner' = [owner EXCEPT ![opened + 1] = d]
  /\ readyState' = [readyState EXCEPT ![opened + 1] = "open"]
  /\ robotSocket' = [robotSocket EXCEPT ![d] = opened + 1]
  /\ \/ inbox' = [inbox EXCEPT ![opened + 1] = <<"handshake">>] /\ UNCHANGED faults
     \/ /\ faults < MaxFaults /\ faults' = faults + 1
        /\ inbox' = [inbox EXCEPT ![opened + 1] = <<"event", "handshake">>]
  /\ UNCHANGED <<registered, greeted, sessionVars, gone>>

\* A heartbeat at the latest after the interval that daemon.hello set.
SendEvent(d) ==
  /\ robotSocket[d] # 0 /\ inbox[robotSocket[d]] = <<>>
  /\ readyState[robotSocket[d]] # "closed"
  /\ inbox' = [inbox EXCEPT ![robotSocket[d]] = <<"event">>]
  /\ UNCHANGED <<opened, owner, readyState, registered, greeted, sessionVars,
                 robotSocket, gone, faults>>

SeesClose(d) ==
  /\ robotSocket[d] # 0 /\ readyState[robotSocket[d]] # "open"
  /\ robotSocket' = [robotSocket EXCEPT ![d] = 0]
  /\ UNCHANGED <<socketVars, sessionVars, gone, faults>>

\* The daemon need not notice; what it has not read by then may be lost.
LosesConnection(d) ==
  /\ faults < MaxFaults /\ faults' = faults + 1
  /\ robotSocket[d] # 0
  /\ robotSocket' = [robotSocket EXCEPT ![d] = 0]
  /\ \E kept \in 0..Len(inbox[robotSocket[d]]) :
       inbox' = [inbox EXCEPT ![robotSocket[d]] = SubSeq(@, 1, kept)]
  /\ UNCHANGED <<opened, owner, readyState, registered, greeted, sessionVars, gone>>

SwitchedOff(d) ==
  /\ d \notin gone /\ gone' = gone \cup {d}
  /\ robotSocket' = [robotSocket EXCEPT ![d] = 0]
  /\ UNCHANGED <<socketVars, sessionVars, faults>>

Next ==
  \/ MarkTimedOut
  \/ \E s \in Sockets : Receive(s) \/ CloseEvent(s)
  \/ \E d \in Devices :
       \/ RequestReconnect(d) \/ DeadlinePasses(d) \/ Connect(d)
       \/ SendEvent(d) \/ SeesClose(d) \/ LosesConnection(d) \/ SwitchedOff(d)

(***************************************************************************)
(* What was sent is read, a close is completed (the socket's own timer),   *)
(* robots reconnect and send heartbeats, deadlines pass. Nothing makes the *)
(* daemon notice a dead connection.                                        *)
(***************************************************************************)
Fairness ==
  /\ \A s \in Sockets : WF_vars(Receive(s)) /\ WF_vars(CloseEvent(s) /\ readyState[s] = "closing")
  /\ \A d \in Devices :
       /\ WF_vars(Connect(d)) /\ WF_vars(SendEvent(d)) /\ WF_vars(SeesClose(d))
       /\ WF_vars(DeadlinePasses(d))

Spec     == Init /\ [][Next]_vars
FairSpec == Spec /\ Fairness

-----------------------------------------------------------------------------
(***************************************************************************)
(* Properties.                                                             *)
(***************************************************************************)

\* Of the sockets with an accepted handshake only its device's session's is open
\* (register closes the one it replaces).
NoOrphan ==
  \A s \in registered : readyState[s] = "open" => session[owner[s]] = s

\* A session that is heard on an open socket is online, whatever its
\* predecessors' sockets do (markOffline; README.md:156).
OnlineWhileHeard ==
  \A d \in Devices :
    session[d] # 0 /\ readyState[session[d]] = "open" /\ ~overdue[d] => online[d]

\* A robot that stays on has its session on the socket it uses in the end,
\* though a handshake of an older socket may replace that of a newer one.
Served(d) == robotSocket[d] # 0 /\ session[d] = robotSocket[d] /\ Reachable(d)

StaysServed == \A d \in Devices : []<>(d \in gone) \/ <>[]Served(d)

\* In the end commands go to a robot that uses the socket they are sent on, and
\* not to one that is gone (docs/robot-command-protocol.md:136).
CommandsReachRobots == <>[](\A d \in Devices : Active(d) => Served(d))
=============================================================================
