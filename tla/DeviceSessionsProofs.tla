------------------------ MODULE DeviceSessionsProofs ------------------------
(***************************************************************************)
(* Proofs about DeviceSessions, for every set of devices and every number  *)
(* of sockets and faults: type correctness, that a replaced socket never   *)
(* stays open, and that a session that is heard is online. The three       *)
(* together are inductive.                                                 *)
(***************************************************************************)
EXTENDS DeviceSessions, SequenceTheorems, TLAPS

Inv == TypeOK /\ NoOrphan /\ OnlineWhileHeard

-----------------------------------------------------------------------------
(***************************************************************************)
(* The operators of the registry.                                          *)
(***************************************************************************)

\* Touching a device clears only that device's deadline (lastSeenAt).
LEMMA SeenType ==
  ASSUME TypeOK, NEW d \in Devices, Seen(d)
  PROVE  /\ seenAfter' \subseteq Devices \X Devices
         /\ overdue' \in [Devices -> BOOLEAN]
         /\ \A e \in Devices \ {d} : overdue'[e] = overdue[e]
  BY DEF TypeOK, Seen

\* Closing sockets opens none, and closes those it names (WebSocket.close).
LEMMA CloseType ==
  ASSUME TypeOK, NEW S, Close(S)
  PROVE  /\ readyState' \in [Sockets -> {"unused", "open", "closing", "closed"}]
         /\ \A s \in Sockets : readyState'[s] = "unused" <=> readyState[s] = "unused"
         /\ \A s \in Sockets : readyState'[s] = "open" => readyState[s] = "open" /\ s \notin S
  BY DEF TypeOK, Close

\* A socket that holds a message for the daemon has been opened by a robot.
LEMMA OpenedBySomeone ==
  ASSUME TypeOK, NEW s \in Sockets, readyState[s] # "unused"
  PROVE  s \in 1..opened /\ owner[s] \in Devices
  BY SessionsAssumption DEF TypeOK, Sockets

\* A device's session, if there is one, is the number of an opened socket.
LEMMA SessionSocket ==
  ASSUME TypeOK, NEW d \in Devices, session[d] # 0
  PROVE  session[d] \in Sockets /\ session[d] <= opened
<1>1. opened \in 0..MaxSockets /\ session[d] \in 0..opened
  BY DEF TypeOK
<1> QED
  BY <1>1, SessionsAssumption DEF Sockets

\* So are the sockets whose handshake was accepted.
LEMMA RegisteredSocket ==
  ASSUME TypeOK, NEW s \in registered
  PROVE  s \in Sockets /\ s \in 1..opened
<1>1. opened \in 0..MaxSockets /\ s \in 1..opened
  BY DEF TypeOK
<1> QED
  BY <1>1, SessionsAssumption DEF Sockets

\* What is left of a socket's messages when one is read.
LEMMA ReadInbox ==
  ASSUME TypeOK, NEW s \in Sockets, inbox[s] # <<>>,
         inbox' = [inbox EXCEPT ![s] = Tail(@)]
  PROVE  inbox' \in [Sockets -> Seq({"handshake", "event"})]
<1>1. inbox[s] \in Seq({"handshake", "event"})
  BY DEF TypeOK
<1>2. Tail(inbox[s]) \in Seq({"handshake", "event"})
  BY <1>1
<1> QED
  BY <1>2 DEF TypeOK

\* Taking a device offline touches only that device's session (markOffline).
LEMMA MarkOfflineType ==
  ASSUME TypeOK, NEW s \in Sockets, readyState[s] # "unused", MarkOffline(s)
  PROVE  /\ seenAfter' \subseteq Devices \X Devices
         /\ overdue' \in [Devices -> BOOLEAN] /\ online' \in [Devices -> BOOLEAN]
         /\ session' = session
         /\ \A d \in Devices : session[d] # s => online'[d] = online[d] /\ overdue'[d] = overdue[d]
<1>1. owner[s] \in Devices
  BY OpenedBySomeone
<1>2. CASE s \in registered /\ session[owner[s]] = s
  <2>1. Seen(owner[s]) /\ online' = [online EXCEPT ![owner[s]] = FALSE] /\ session' = session
    BY <1>2 DEF MarkOffline
  <2> QED
    BY <1>1, <1>2, <2>1, SeenType DEF TypeOK
<1>3. CASE ~(s \in registered /\ session[owner[s]] = s)
  BY <1>3 DEF MarkOffline, sessionVars, TypeOK
<1> QED
  BY <1>2, <1>3

-----------------------------------------------------------------------------
(***************************************************************************)
(* The daemon's steps.                                                     *)
(***************************************************************************)

\* The first message of a socket is a handshake: the session it replaces is
\* closed, the new one is online (register).
LEMMA HandshakeKeepsInv ==
  ASSUME Inv, NEW s \in Sockets, Receive(s), Handshake(s)
  PROVE  Inv'
<1> DEFINE d == owner[s]
<1>1. s \in 1..opened /\ d \in Devices /\ TypeOK
  BY OpenedBySomeone DEF Inv, Receive
<1>2. inbox' \in [Sockets -> Seq({"handshake", "event"})]
  BY <1>1, ReadInbox DEF Receive
<1>3. /\ session' = [session EXCEPT ![d] = s] /\ online' = [online EXCEPT ![d] = TRUE]
      /\ registered' = registered \cup {s} /\ Seen(d) /\ Close({session[d]} \ {s})
      /\ greeted' = greeted \cup {s}
      /\ UNCHANGED <<opened, owner, robotSocket, gone, faults>>
  BY DEF Receive, Handshake, Register
<1>4. TypeOK'
  <2>1. /\ readyState' \in [Sockets -> {"unused", "open", "closing", "closed"}]
        /\ \A r \in Sockets : r <= opened' <=> readyState'[r] # "unused"
    BY <1>1, <1>3, CloseType DEF TypeOK
  <2>2. seenAfter' \subseteq Devices \X Devices /\ overdue' \in [Devices -> BOOLEAN]
    BY <1>1, <1>3, SeenType
  <2>3. session' \in [Devices -> 0..opened'] /\ online' \in [Devices -> BOOLEAN]
    BY <1>1, <1>3 DEF TypeOK
  <2>4. registered' \subseteq greeted' /\ greeted' \subseteq 1..opened'
    BY <1>1, <1>3 DEF TypeOK
  <2> QED
    BY <1>1, <1>2, <1>3, <2>1, <2>2, <2>3, <2>4 DEF TypeOK
<1>5. NoOrphan'
  <2> SUFFICES ASSUME NEW r \in registered', readyState'[r] = "open"
               PROVE  session'[owner[r]] = r
    BY <1>3 DEF NoOrphan
  <2>1. CASE r = s
    BY <1>1, <1>3, <2>1 DEF TypeOK
  <2>2. CASE r # s
    <3>1. r \in registered /\ r \in Sockets /\ r \in 1..opened
      BY <1>1, <1>3, <2>2, RegisteredSocket
    <3>2. readyState[r] = "open" /\ r \notin {session[d]} \ {s}
      BY <1>1, <1>3, <3>1, CloseType
    <3>3. session[owner[r]] = r /\ owner[r] \in Devices
      BY <1>1, <3>1, <3>2 DEF Inv, NoOrphan, TypeOK
    <3> QED
      BY <1>1, <1>3, <2>2, <3>2, <3>3 DEF TypeOK
  <2> QED
    BY <2>1, <2>2
<1>6. OnlineWhileHeard'
  <2> SUFFICES ASSUME NEW e \in Devices,
                      session'[e] # 0, readyState'[session'[e]] = "open", ~overdue'[e]
               PROVE  online'[e]
    BY DEF OnlineWhileHeard
  <2>1. CASE e = d
    BY <1>1, <1>3, <2>1 DEF TypeOK
  <2>2. CASE e # d
    <3>1. overdue'[e] = overdue[e]
      BY <1>1, <1>3, <2>2, SeenType
    <3>2. session'[e] = session[e] /\ online'[e] = online[e]
      BY <1>1, <1>3, <2>2 DEF TypeOK
    <3>3. session[e] \in Sockets
      BY <1>1, <3>2, SessionSocket
    <3>4. readyState[session[e]] = "open"
      BY <1>1, <1>3, <3>2, <3>3, CloseType
    <3> QED
      BY <3>1, <3>2, <3>4 DEF Inv, OnlineWhileHeard
  <2> QED
    BY <2>1, <2>2
<1> QED
  BY <1>4, <1>5, <1>6 DEF Inv

\* Closing sockets, with the sessions as they are, keeps the invariant (the
\* refused handshake, reconnectActiveDevice).
LEMMA CloseKeepsInv ==
  ASSUME Inv, NEW S, Close(S),
         inbox' \in [Sockets -> Seq({"handshake", "event"})],
         greeted \subseteq greeted', greeted' \subseteq 1..opened, faults' \in 0..MaxFaults,
         UNCHANGED <<opened, owner, registered, sessionVars, robotSocket, gone>>
  PROVE  Inv'
<1>1. TypeOK
  BY DEF Inv
<1>2. TypeOK'
  <2>1. \A r \in Sockets : r <= opened' <=> readyState'[r] # "unused"
    BY <1>1, CloseType DEF TypeOK
  <2> QED
    BY <1>1, <2>1, CloseType DEF TypeOK, sessionVars
<1>3. NoOrphan'
  <2> SUFFICES ASSUME NEW r \in registered, readyState'[r] = "open"
               PROVE  session[owner[r]] = r
    BY DEF NoOrphan, sessionVars
  <2>1. r \in Sockets
    BY <1>1, RegisteredSocket
  <2> QED
    BY <1>1, <2>1, CloseType DEF Inv, NoOrphan
<1>4. OnlineWhileHeard'
  <2> SUFFICES ASSUME NEW e \in Devices,
                      session[e] # 0, readyState'[session[e]] = "open", ~overdue[e]
               PROVE  online[e]
    BY DEF OnlineWhileHeard, sessionVars
  <2>1. session[e] \in Sockets
    BY <1>1, SessionSocket
  <2> QED
    BY <1>1, <2>1, CloseType DEF Inv, OnlineWhileHeard
<1> QED
  BY <1>2, <1>3, <1>4 DEF Inv

\* A message after the first touches at most its device's session, which it sets
\* online (recordEvent, recordHeartbeatMessage, recordAudioFrame).
LEMMA SessionMessageKeepsInv ==
  ASSUME Inv, NEW s \in Sockets, Receive(s), SessionMessage(s)
  PROVE  Inv'
<1>1. s \in 1..opened /\ owner[s] \in Devices /\ TypeOK
  BY OpenedBySomeone DEF Inv, Receive
<1>2. inbox' \in [Sockets -> Seq({"handshake", "event"})]
  BY <1>1, ReadInbox DEF Receive
<1>3. UNCHANGED <<opened, owner, readyState, registered, greeted, session, robotSocket, gone, faults>>
  BY DEF Receive, SessionMessage, Record, sessionVars
<1>4. CASE Record(owner[s])
  <2>1. online' = [online EXCEPT ![owner[s]] = TRUE] /\ Seen(owner[s])
    BY <1>4 DEF Record
  <2>2. TypeOK'
    BY <1>1, <1>2, <1>3, <2>1, SeenType DEF TypeOK
  <2>3. NoOrphan'
    BY <1>3 DEF Inv, NoOrphan
  <2>4. OnlineWhileHeard'
    BY <1>1, <1>3, <2>1, SeenType DEF Inv, OnlineWhileHeard, TypeOK
  <2> QED
    BY <2>2, <2>3, <2>4 DEF Inv
<1>5. CASE UNCHANGED sessionVars
  BY <1>1, <1>2, <1>3, <1>5 DEF Inv, TypeOK, NoOrphan, OnlineWhileHeard, sessionVars
<1> QED
  BY <1>4, <1>5 DEF SessionMessage

\* The close of a socket takes only the session offline whose socket it is.
LEMMA CloseEventKeepsInv ==
  ASSUME Inv, NEW s \in Sockets, CloseEvent(s)
  PROVE  Inv'
<1>1. TypeOK /\ readyState[s] # "unused" /\ MarkOffline(s)
  BY DEF Inv, CloseEvent
<1>2. /\ readyState' = [readyState EXCEPT ![s] = "closed"] /\ inbox' = [inbox EXCEPT ![s] = <<>>]
      /\ UNCHANGED <<opened, owner, registered, greeted, robotSocket, gone, faults>>
  BY DEF CloseEvent
<1>3. TypeOK'
  <2>1. inbox' \in [Sockets -> Seq({"handshake", "event"})]
    BY <1>1, <1>2 DEF TypeOK
  <2>2. \A r \in Sockets : r <= opened' <=> readyState'[r] # "unused"
    BY <1>1, <1>2 DEF TypeOK
  <2> QED
    BY <1>1, <1>2, <2>1, <2>2, MarkOfflineType DEF TypeOK
<1>4. NoOrphan'
  <2> SUFFICES ASSUME NEW r \in registered, readyState'[r] = "open"
               PROVE  session[owner[r]] = r
    BY <1>1, <1>2, MarkOfflineType DEF NoOrphan
  <2>1. r \in Sockets
    BY <1>1, RegisteredSocket
  <2> QED
    BY <1>1, <1>2, <2>1 DEF Inv, NoOrphan, TypeOK
<1>5. OnlineWhileHeard'
  <2> SUFFICES ASSUME NEW e \in Devices,
                      session[e] # 0, readyState'[session[e]] = "open", ~overdue'[e]
               PROVE  online'[e]
    BY <1>1, MarkOfflineType DEF OnlineWhileHeard
  <2>1. session[e] \in Sockets
    BY <1>1, SessionSocket
  <2>2. session[e] # s /\ readyState[session[e]] = "open"
    BY <1>1, <1>2, <2>1 DEF TypeOK
  <2> QED
    BY <1>1, <2>2, MarkOfflineType DEF Inv, OnlineWhileHeard
<1> QED
  BY <1>3, <1>4, <1>5 DEF Inv

\* Looking at the sessions takes none offline that is heard on an open socket
\* (markTimedOutSessions).
LEMMA MarkTimedOutKeepsInv ==
  ASSUME Inv, MarkTimedOut
  PROVE  Inv'
<1>1. UNCHANGED <<socketVars, session, overdue, seenAfter, robotSocket, gone, faults>>
  BY DEF MarkTimedOut
<1>2. online' \in [Devices -> BOOLEAN]
  BY DEF MarkTimedOut, Reachable, Inv, TypeOK
<1>3. TypeOK' /\ NoOrphan'
  BY <1>1, <1>2 DEF Inv, TypeOK, NoOrphan, socketVars
<1>4. OnlineWhileHeard'
  <2> SUFFICES ASSUME NEW d \in Devices,
                      session[d] # 0, readyState[session[d]] = "open", ~overdue[d]
               PROVE  online'[d]
    BY <1>1 DEF OnlineWhileHeard, socketVars
  <2>1. online[d]
    BY DEF Inv, OnlineWhileHeard
  <2> QED
    BY <2>1 DEF MarkTimedOut, Reachable
<1> QED
  BY <1>3, <1>4 DEF Inv

\* Reading a message: the three outcomes.
LEMMA ReceiveKeepsInv ==
  ASSUME Inv, NEW s \in Sockets, Receive(s)
  PROVE  Inv'
<1>1. CASE Handshake(s)
  BY <1>1, HandshakeKeepsInv
<1>2. CASE Refuse(s)
  <2>1. s \in 1..opened /\ TypeOK
    BY OpenedBySomeone DEF Inv, Receive
  <2>2. inbox' \in [Sockets -> Seq({"handshake", "event"})]
    BY <2>1, ReadInbox DEF Receive
  <2>3. /\ Close({s}) /\ greeted' = greeted \cup {s}
        /\ UNCHANGED <<opened, owner, registered, sessionVars, robotSocket, gone, faults>>
    BY <1>2 DEF Refuse, Receive
  <2>4. greeted \subseteq greeted' /\ greeted' \subseteq 1..opened /\ faults' \in 0..MaxFaults
    BY <2>1, <2>3 DEF TypeOK
  <2> QED
    BY <2>2, <2>3, <2>4, CloseKeepsInv
<1>3. CASE SessionMessage(s)
  BY <1>3, SessionMessageKeepsInv
<1> QED
  BY <1>1, <1>2, <1>3 DEF Receive

\* A requested reconnect closes the socket of a session.
LEMMA RequestReconnectKeepsInv ==
  ASSUME Inv, NEW d \in Devices, RequestReconnect(d)
  PROVE  Inv'
<1>1. /\ Close({session[d]})
      /\ UNCHANGED <<opened, owner, registered, greeted, inbox, sessionVars, robotSocket, gone>>
  BY DEF RequestReconnect
<1>2. faults' \in 0..MaxFaults
  BY SessionsAssumption DEF RequestReconnect, Inv, TypeOK
<1>3. /\ inbox' \in [Sockets -> Seq({"handshake", "event"})]
      /\ greeted \subseteq greeted' /\ greeted' \subseteq 1..opened
  BY <1>1 DEF Inv, TypeOK
<1> QED
  BY <1>1, <1>2, <1>3, CloseKeepsInv

-----------------------------------------------------------------------------
(***************************************************************************)
(* The robots' steps.                                                      *)
(***************************************************************************)

\* A new socket is nobody's session yet.
LEMMA ConnectKeepsInv ==
  ASSUME Inv, NEW d \in Devices, Connect(d)
  PROVE  Inv'
<1> DEFINE new == opened + 1
<1>1. TypeOK /\ new \in Sockets /\ opened \in Nat /\ opened' = new
  <2>1. TypeOK /\ opened < MaxSockets /\ opened' = opened + 1
    BY DEF Inv, Connect
  <2>2. opened \in 0..MaxSockets
    BY <2>1 DEF TypeOK
  <2> QED
    BY <2>1, <2>2, SessionsAssumption DEF Sockets
<1>2. /\ owner' = [owner EXCEPT ![new] = d] /\ readyState' = [readyState EXCEPT ![new] = "open"]
      /\ robotSocket' = [robotSocket EXCEPT ![d] = new]
      /\ UNCHANGED <<registered, greeted, session, online, overdue, seenAfter, gone>>
  BY DEF Connect, sessionVars
<1>3. inbox' \in [Sockets -> Seq({"handshake", "event"})]
  <2>1. <<"handshake">> \in Seq({"handshake", "event"}) /\ <<"event", "handshake">> \in Seq({"handshake", "event"})
    OBVIOUS
  <2> QED
    BY <1>1, <2>1 DEF Connect, TypeOK
<1>4. TypeOK'
  <2>1. opened' \in 0..MaxSockets /\ faults' \in 0..MaxFaults
    BY <1>1, SessionsAssumption DEF Connect, TypeOK, Sockets
  <2>2. owner' \in [Sockets -> Devices \cup {"nobody"}] /\ \A r \in 1..opened' : owner'[r] \in Devices
    BY <1>1, <1>2, SessionsAssumption DEF TypeOK, Sockets
  <2>3. /\ readyState' \in [Sockets -> {"unused", "open", "closing", "closed"}]
        /\ \A r \in Sockets : r <= opened' <=> readyState'[r] # "unused"
    BY <1>1, <1>2 DEF TypeOK, Sockets
  <2>4. robotSocket' \in [Devices -> 0..opened'] /\ session' \in [Devices -> 0..opened']
    BY <1>1, <1>2 DEF TypeOK
  <2>5. registered' \subseteq greeted' /\ greeted' \subseteq 1..opened'
    BY <1>1, <1>2 DEF TypeOK
  <2> QED
    BY <1>1, <1>2, <1>3, <2>1, <2>2, <2>3, <2>4, <2>5 DEF TypeOK
<1>5. NoOrphan'
  <2>1. \A r \in registered : r \in Sockets /\ r # new
    BY <1>1, RegisteredSocket
  <2> QED
    BY <1>1, <1>2, <2>1 DEF Inv, NoOrphan, TypeOK
<1>6. OnlineWhileHeard'
  <2>1. \A e \in Devices : session[e] # 0 => session[e] \in Sockets /\ session[e] # new
    <3>1. \A e \in Devices : session[e] # 0 => session[e] \in Sockets /\ session[e] <= opened
      BY <1>1, SessionSocket
    <3> QED
      BY <1>1, <3>1 DEF Sockets
  <2> QED
    BY <1>1, <1>2, <2>1 DEF Inv, OnlineWhileHeard, TypeOK
<1> QED
  BY <1>4, <1>5, <1>6 DEF Inv

\* The robot's other steps leave the daemon's sessions and sockets alone.
LEMMA RobotKeepsInv ==
  ASSUME Inv, inbox' \in [Sockets -> Seq({"handshake", "event"})],
         robotSocket' \in [Devices -> 0..opened],
         gone' \subseteq Devices, faults' \in 0..MaxFaults,
         UNCHANGED <<opened, owner, readyState, registered, greeted, sessionVars>>
  PROVE  Inv'
  BY DEF Inv, TypeOK, NoOrphan, OnlineWhileHeard, sessionVars

\* A message arrives at the socket the robot uses.
LEMMA SendEventKeepsInv ==
  ASSUME Inv, NEW d \in Devices, SendEvent(d)
  PROVE  Inv'
<1>1. <<"event">> \in Seq({"handshake", "event"})
  OBVIOUS
<1>2. inbox' \in [Sockets -> Seq({"handshake", "event"})]
  BY <1>1 DEF SendEvent, Inv, TypeOK
<1> QED
  BY <1>2, RobotKeepsInv DEF SendEvent, Inv, TypeOK

\* A lost connection takes the unread end of what the robot sent with it.
LEMMA LosesConnectionKeepsInv ==
  ASSUME Inv, NEW d \in Devices, LosesConnection(d)
  PROVE  Inv'
<1> DEFINE s == robotSocket[d]
<1>1. TypeOK /\ s \in Sockets
  <2>1. TypeOK /\ s # 0
    BY DEF Inv, LosesConnection
  <2>2. opened \in 0..MaxSockets /\ s \in 0..opened
    BY <2>1 DEF TypeOK
  <2> QED
    BY <2>1, <2>2, SessionsAssumption DEF Sockets
<1>2. PICK kept \in 0..Len(inbox[s]) : inbox' = [inbox EXCEPT ![s] = SubSeq(@, 1, kept)]
  BY DEF LosesConnection
<1>3. inbox[s] \in Seq({"handshake", "event"})
  BY <1>1 DEF TypeOK
<1>4. SubSeq(inbox[s], 1, kept) \in Seq({"handshake", "event"})
  BY <1>2, <1>3, SubSeqProperties
<1>5. inbox' \in [Sockets -> Seq({"handshake", "event"})]
  BY <1>1, <1>2, <1>4 DEF TypeOK
<1>6. robotSocket' \in [Devices -> 0..opened] /\ faults' \in 0..MaxFaults /\ gone' \subseteq Devices
  BY <1>1, SessionsAssumption DEF LosesConnection, TypeOK
<1> QED
  BY <1>5, <1>6, RobotKeepsInv DEF LosesConnection

\* A robot that has lost its socket, or is switched off, uses none.
LEMMA LeavingKeepsInv ==
  ASSUME Inv, NEW d \in Devices, SeesClose(d) \/ SwitchedOff(d)
  PROVE  Inv'
<1>1. /\ robotSocket' = [robotSocket EXCEPT ![d] = 0] /\ gone' \subseteq Devices
      /\ UNCHANGED <<socketVars, sessionVars, faults>>
  BY DEF SeesClose, SwitchedOff, Inv, TypeOK
<1>2. robotSocket' \in [Devices -> 0..opened] /\ inbox' \in [Sockets -> Seq({"handshake", "event"})]
  BY <1>1 DEF Inv, TypeOK, socketVars
<1> QED
  BY <1>1, <1>2, RobotKeepsInv DEF socketVars, Inv, TypeOK

\* A deadline is one condition less for being online.
LEMMA DeadlinePassesKeepsInv ==
  ASSUME Inv, NEW d \in Devices, DeadlinePasses(d)
  PROVE  Inv'
  BY DEF DeadlinePasses, Inv, TypeOK, NoOrphan, OnlineWhileHeard, socketVars

-----------------------------------------------------------------------------
\* The invariant holds initially and every step keeps it.
LEMMA InitInv ==
  ASSUME Init
  PROVE  Inv
<1>1. TypeOK
  BY SessionsAssumption DEF Init, TypeOK, Sockets
<1> QED
  BY <1>1 DEF Init, Inv, NoOrphan, OnlineWhileHeard

LEMMA NextInv ==
  ASSUME Inv, [Next]_vars
  PROVE  Inv'
<1>1. CASE MarkTimedOut
  BY <1>1, MarkTimedOutKeepsInv
<1>2. ASSUME NEW s \in Sockets, Receive(s) \/ CloseEvent(s)
      PROVE  Inv'
  BY <1>2, ReceiveKeepsInv, CloseEventKeepsInv
<1>3. ASSUME NEW d \in Devices, RequestReconnect(d) \/ DeadlinePasses(d) \/ Connect(d)
      PROVE  Inv'
  BY <1>3, RequestReconnectKeepsInv, DeadlinePassesKeepsInv, ConnectKeepsInv
<1>4. ASSUME NEW d \in Devices,
             SendEvent(d) \/ SeesClose(d) \/ LosesConnection(d) \/ SwitchedOff(d)
      PROVE  Inv'
  BY <1>4, SendEventKeepsInv, LeavingKeepsInv, LosesConnectionKeepsInv
<1>5. CASE UNCHANGED vars
  BY <1>5 DEF Inv, TypeOK, NoOrphan, OnlineWhileHeard, vars, socketVars, sessionVars
<1> QED
  BY <1>1, <1>2, <1>3, <1>4, <1>5 DEF Next

\* Type correctness, NoOrphan and OnlineWhileHeard always hold together.
LEMMA Invariance == Spec => []Inv
  BY InitInv, NextInv, PTL DEF Spec

\* The state of the daemon and the robots has its types, and a socket is one of a
\* known device exactly if it was opened.
THEOREM TypeCorrect == Spec => []TypeOK
<1>1. Inv => TypeOK
  BY DEF Inv
<1> QED
  BY <1>1, Invariance, PTL

\* A socket with an accepted handshake that is open is its device's session's:
\* a replaced socket is never left open (register).
THEOREM NeverOrphaned == Spec => []NoOrphan
<1>1. Inv => NoOrphan
  BY DEF Inv
<1> QED
  BY <1>1, Invariance, PTL

\* However old sockets' close events interleave with a new session's, a session
\* that is heard on an open socket is online (markOffline, markTimedOutSessions).
THEOREM HeardIsOnline == Spec => []OnlineWhileHeard
<1>1. Inv => OnlineWhileHeard
  BY DEF Inv
<1> QED
  BY <1>1, Invariance, PTL
=============================================================================
