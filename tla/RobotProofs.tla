---------------------------- MODULE RobotProofs ----------------------------
(***************************************************************************)
(* Proofs about two components of the robot that share no state, for every *)
(* value of their constants.                                               *)
(*                                                                         *)
(* The camera stream (CameraFlow): the robot's credit stays within the     *)
(* limit of the latest message about it. What the robot does with a grant  *)
(* depends on what the daemon put into it, so the invariant speaks of      *)
(* every message on the link and of what the daemon has outstanding.       *)
(*                                                                         *)
(* The face (RobotFace): the pool stays consistent, with at most one of    *)
(* each modifier that has an id, a lock has its holder and the face shows  *)
(* the mode, for any number of commands and gestures. A pass is seven      *)
(* stages, so the invariant is a property of a face at any of them: of     *)
(* what its slots hold (Tracked), of the one preset there may be (Reached, *)
(* Settled), of what that preset will put back (LocksOK, EmotionsOK). Each *)
(* stage has a lemma that says which of them it keeps, and on what         *)
(* condition; the histories of the model are those conditions.             *)
(***************************************************************************)
EXTENDS CameraFlow, RobotFace, SequenceTheorems, FiniteSetTheorems, TLAPS

-----------------------------------------------------------------------------
(***************************************************************************)
(* The camera stream: types of what is on the link.                        *)
(***************************************************************************)
Grants   == {Grant(frames, max) : frames \in Nat, max \in Nat}
Switches == {[kind |-> "stream", on |-> on, live |-> live] : on \in BOOLEAN, live \in BOOLEAN}
Messages == {Hello} \cup Switches \cup Grants

DaemonInv == toRobot \in Seq(Messages) /\ outstanding \in Nat
RobotInv  == credit \in Nat /\ maxInFlight \in Nat /\ CreditWithinLimit
Inv       == DaemonInv /\ RobotInv

-----------------------------------------------------------------------------
(***************************************************************************)
(* What the operators on messages return.                                  *)
(***************************************************************************)
LEMMA MessageTypes ==
  /\ Hello \in Messages
  /\ \A on \in BOOLEAN : Stream(on) \in Messages /\ LateStream(on) \in Messages
  /\ \A frames \in Nat, max \in Nat : Grant(frames, max) \in Messages
<1>1. \A on \in BOOLEAN : Stream(on) \in Switches /\ LateStream(on) \in Switches
  <2>1. \A on \in BOOLEAN, live \in BOOLEAN : [kind |-> "stream", on |-> on, live |-> live] \in Switches
    BY DEF Switches
  <2>2. TRUE \in BOOLEAN /\ FALSE \in BOOLEAN
    OBVIOUS
  <2> QED
    BY <2>1, <2>2, Zenon DEF Stream, LateStream
<1>2. \A frames \in Nat, max \in Nat : Grant(frames, max) \in Grants
  BY DEF Grants
<1> QED
  BY <1>1, <1>2 DEF Messages

\* A message with the kind of a grant is one.
LEMMA GrantIsTyped ==
  ASSUME NEW message \in Messages, message.kind = "grant"
  PROVE  message.frames \in Nat /\ message.max \in Nat
<1>1. message # Hello
  BY DEF Hello
<1>2. message \notin Switches
  BY DEF Switches
<1>3. message \in Grants
  BY <1>1, <1>2 DEF Messages
<1> QED
  BY <1>3 DEF Grants, Grant

\* Messages to the robot that become late stay messages to the robot.
LEMMA LateTypes ==
  ASSUME NEW messages \in Seq(Messages)
  PROVE  Late(messages) \in Seq(Messages)
<1>1. Ack \notin Messages
  <2>1. \A message \in Messages : message.kind # "ack"
    <3>1. \A message \in Switches : message.kind # "ack"
      BY DEF Switches
    <3>2. \A message \in Grants : message.kind # "ack"
      BY DEF Grants, Grant
    <3> QED
      BY <3>1, <3>2 DEF Messages, Hello
  <2>2. Ack.kind = "ack"
    BY DEF Ack
  <2> QED
    BY <2>1, <2>2
<1>2. \A i \in 1..Len(messages) : Late(messages)[i] \in Messages
  <2>1. SUFFICES ASSUME NEW i \in 1..Len(messages)
                 PROVE  Late(messages)[i] \in Messages
    OBVIOUS
  <2>2. messages[i] \in Messages /\ messages[i] # Ack
    BY <1>1
  <2>3. Late(messages)[i] \in {messages[i], LateStream(TRUE), LateStream(FALSE)}
    BY <2>2, Zenon DEF Late
  <2>4. LateStream(TRUE) \in Messages /\ LateStream(FALSE) \in Messages
    BY MessageTypes
  <2> QED
    BY <2>2, <2>3, <2>4
<1>3. Late(messages) = [i \in 1..Len(messages) |-> Late(messages)[i]]
  BY DEF Late
<1> QED
  BY <1>2, <1>3, LenProperties

LEMMA KeptTypes ==
  ASSUME NEW messages \in Seq(Messages), KeepsOnlyReceived(messages)
  PROVE  toRobot' \in Seq(Messages)
<1>1. PICK received \in 0..Len(messages) : toRobot' = SubSeq(messages, 1, received)
  BY DEF KeepsOnlyReceived
<1> QED
  BY <1>1, SubSeqProperties

LEMMA EnsureTypes ==
  ASSUME DaemonInv, NEW force \in BOOLEAN, NEW before \in Seq(Messages),
         EnsureCameraStream(force, before)
  PROVE  toRobot' \in Seq(Messages)
<1>1. Wanted' \in BOOLEAN
  BY DEF Wanted
<1>2. before \o <<Stream(Wanted')>> \in Seq(Messages)
  BY <1>1, MessageTypes
<1>3. ToRobot(before \o <<Stream(Wanted')>>) \in Seq(Messages) /\ ToRobot(before) \in Seq(Messages)
  BY <1>2 DEF ToRobot, DaemonInv
<1> QED
  BY <1>3 DEF EnsureCameraStream

LEMMA BackpressureTypes ==
  ASSUME DaemonInv, NEW before \in Seq(Messages), EvaluateBackpressure(before)
  PROVE  toRobot' \in Seq(Messages)
<1>1. ToRobot(before) \in Seq(Messages)
  BY DEF ToRobot, DaemonInv
<1>2. toRobot' = ToRobot(before) \/ EnsureCameraStream(TRUE, before)
  BY DEF EvaluateBackpressure
<1> QED
  BY <1>1, <1>2, EnsureTypes

LEMMA GrantTypes ==
  ASSUME DaemonInv, NEW asked \in Nat, NEW out \in Nat
  PROVE  /\ GrantMessages(asked, out) \in Seq(Messages)
         /\ toRobot \o GrantMessages(asked, out) \in Seq(Messages)
         /\ CountGrant(asked, out) => outstanding' \in Nat
<1>1. Counted(out) \in Nat /\ RefillThreshold \in Nat /\ MaxInFlight \in Nat
      /\ RefillThreshold < MaxInFlight
  BY DEF Counted, MaxInFlight, RefillThreshold
<1>2. Granted(asked, out) \in Nat
  BY <1>1 DEF Granted
<1>3. GrantMessages(asked, out) \in Seq(Messages)
  BY <1>1, <1>2, MessageTypes DEF GrantMessages
<1>4. Counted(out) + Granted(asked, out) \in Nat
  BY <1>1, <1>2
<1>5. CountGrant(asked, out) => outstanding' \in Nat
  BY <1>4 DEF CountGrant
<1> QED
  BY <1>3, <1>5 DEF DaemonInv

-----------------------------------------------------------------------------
(***************************************************************************)
(* The daemon's steps.                                                     *)
(***************************************************************************)
LEMMA AskingTypes ==
  ASSUME DaemonInv, SetEnabled \/ SetRawPreview \/ SetControl \/ RetryTick
  PROVE  DaemonInv'
<1>1. UNCHANGED mediaVars /\ \E force \in BOOLEAN : EnsureCameraStream(force, <<>>)
  BY DEF SetEnabled, SetRawPreview, SetControl, RetryTick, Change
<1>2. outstanding' = outstanding
  BY <1>1 DEF mediaVars
<1>3. <<>> \in Seq(Messages)
  OBVIOUS
<1> QED
  BY <1>1, <1>2, <1>3, EnsureTypes DEF DaemonInv

LEMMA AckTypes ==
  ASSUME DaemonInv, AckArrives
  PROVE  DaemonInv'
<1>1. CASE UNCHANGED <<visionVars, online, toRobot>>
  BY <1>1 DEF DaemonInv, visionVars, mediaVars
<1>2. CASE StreamAccepted /\ inFlight.owner = "idle"
  BY <1>2 DEF DaemonInv, StreamAccepted
<1>3. CASE StreamAccepted /\ inFlight.owner # "idle"
  <2>1. InitialCredit(inFlight.owner) \in Nat
    BY DEF InitialCredit
  <2> QED
    BY <1>3, <2>1, GrantTypes DEF DaemonInv, StreamAccepted
<1> QED
  BY <1>1, <1>2, <1>3 DEF AckArrives

LEMMA NoAckTypes ==
  ASSUME DaemonInv, AckTimesOut \/ CommandNotSent \/ RecoversByReconnect
  PROVE  DaemonInv'
<1>1. outstanding' = outstanding
  BY DEF AckTimesOut, CommandNotSent, RecoversByReconnect, StreamNotAccepted, mediaVars
<1>2. CASE CommandNotSent
  BY <1>1, <1>2 DEF CommandNotSent, linkVars, DaemonInv
<1>3. CASE AckTimesOut
  BY <1>1, <1>3, LateTypes DEF AckTimesOut, ForgetCommand, DaemonInv
<1>4. CASE RecoversByReconnect
  BY <1>1, <1>4, LateTypes, KeptTypes DEF RecoversByReconnect, ConnectionClosed, DaemonInv
<1> QED
  BY <1>2, <1>3, <1>4

LEMMA FrameTypes ==
  ASSUME DaemonInv, FrameTaken
  PROVE  DaemonInv'
<1> DEFINE out == IF outstanding > 0 THEN outstanding - 1 ELSE 0
<1>1. out \in Nat
  BY DEF DaemonInv
<1>2. <<>> \in Seq(Messages)
  OBVIOUS
<1>3. \/ CountGrant(1, out) /\ toRobot' = toRobot \o GrantMessages(1, out)
      \/ outstanding' = out /\ (EvaluateBackpressure(<<>>) \/ toRobot' = toRobot)
  BY DEF FrameTaken
<1> HIDE DEF out
<1> QED
  BY <1>1, <1>2, <1>3, GrantTypes, BackpressureTypes DEF DaemonInv

LEMMA DetectorTypes ==
  ASSUME DaemonInv, DetectorDone
  PROVE  DaemonInv'
<1>1. CountGrant(1, outstanding) /\ EvaluateBackpressure(GrantMessages(1, outstanding))
  BY DEF DetectorDone
<1>2. outstanding \in Nat
  BY DEF DaemonInv
<1> QED
  BY <1>1, <1>2, GrantTypes, BackpressureTypes DEF DaemonInv

-----------------------------------------------------------------------------
(***************************************************************************)
(* The robot's steps. Only three handlers and the tx task touch the credit *)
(* (handle_daemon_hello, handle_media_flow_control, OnConnected,           *)
(* record_camera_tx_result).                                               *)
(***************************************************************************)
LEMMA FlowControlTypes ==
  ASSUME RobotInv, NEW frames \in Nat, NEW max \in Nat, MediaFlowControl(frames, max)
  PROVE  RobotInv'
<1>1. Smaller(credit + frames, max) \in Nat /\ Smaller(credit + frames, max) <= max
  BY DEF Smaller, RobotInv
<1> QED
  BY <1>1 DEF MediaFlowControl, RobotInv, CreditWithinLimit

LEMMA RobotReceivesTypes ==
  ASSUME Inv, RobotReceives
  PROVE  RobotInv' /\ toRobot' \in Seq(Messages)
<1> DEFINE message == Head(toRobot)
<1>1. message \in Messages /\ toRobot' \in Seq(Messages)
  BY DEF RobotReceives, Inv, DaemonInv
<1>2. CASE message.kind = "hello" /\ DaemonHello
  BY <1>1, <1>2, CameraAssumption DEF DaemonHello, RobotInv, CreditWithinLimit
<1>3. CASE CameraStreamCommand(message.on, message.live)
  BY <1>1, <1>3 DEF CameraStreamCommand, creditVars, Inv, RobotInv, CreditWithinLimit
<1>4. CASE message.kind = "grant" /\ MediaFlowControl(message.frames, message.max)
  BY <1>1, <1>4, GrantIsTyped, FlowControlTypes DEF Inv
<1> QED
  BY <1>1, <1>2, <1>3, <1>4 DEF RobotReceives

LEMMA TxRecordsTypes ==
  ASSUME RobotInv, TxRecords
  PROVE  RobotInv'
BY DEF TxRecords, RobotInv, CreditWithinLimit

LEMMA RobotStepTypes ==
  ASSUME Inv, RobotCameraStep, UNCHANGED visionVars
  PROVE  Inv'
<1>1. outstanding' = outstanding
  BY DEF visionVars, mediaVars
<1>2. CASE RobotReceives
  BY <1>1, <1>2, RobotReceivesTypes DEF Inv, DaemonInv
<1>3. CASE TxRecords
  BY <1>1, <1>3, TxRecordsTypes DEF Inv, DaemonInv, TxRecords, linkVars
<1>4. CASE StartCapture \/ CaptureDone \/ CaptureFails \/ TxTakesFrame \/ TxSendsFrame \/ TxFailsFrame
  <2>1. UNCHANGED creditVars /\ toRobot' = toRobot
    BY <1>4 DEF StartCapture, CaptureDone, CaptureFails, TxTakesFrame, TxSendsFrame, TxFailsFrame,
       linkVars
  <2> QED
    BY <1>1, <2>1 DEF Inv, DaemonInv, RobotInv, CreditWithinLimit, creditVars
<1> QED
  BY <1>2, <1>3, <1>4 DEF RobotCameraStep

-----------------------------------------------------------------------------
LEMMA InitInv == Init => Inv
<1> SUFFICES ASSUME Init PROVE Inv
  OBVIOUS
<1>1. toRobot \in Seq(Messages)
  BY MessageTypes DEF Init, LinkInit
<1>2. outstanding = 0
  BY DEF Init, VisionInit
<1>3. credit = 0 /\ maxInFlight \in Nat
  BY CameraAssumption DEF Init, CameraInit
<1> QED
  BY <1>1, <1>2, <1>3 DEF Inv, DaemonInv, RobotInv, CreditWithinLimit

LEMMA NextInv ==
  ASSUME Inv, [Next]_vars
  PROVE  Inv'
<1>1. ASSUME UNCHANGED cameraVars
      PROVE  RobotInv'
  BY <1>1 DEF Inv, RobotInv, CreditWithinLimit, cameraVars, creditVars
<1>2. ASSUME UNCHANGED <<visionVars, linkVars>>
      PROVE  DaemonInv'
  BY <1>2 DEF Inv, DaemonInv, visionVars, mediaVars, linkVars
<1>3. CASE Changes \/ Tick
  BY <1>1, <1>3, AskingTypes DEF Changes, Tick, Daemon, Inv
<1>4. CASE Receive
  <2>1. CASE Daemon(AckArrives)
    BY <1>1, <2>1, AckTypes DEF Daemon, Inv
  <2>2. CASE Daemon(FrameIgnored)
    BY <1>1, <2>2 DEF Daemon, FrameIgnored, Inv, DaemonInv, visionVars, mediaVars
  <2>3. CASE Daemon(FrameTaken)
    BY <1>1, <2>3, FrameTypes DEF Daemon, Inv
  <2> QED
    BY <1>4, <2>1, <2>2, <2>3 DEF Receive, Daemon
<1>5. CASE Detect
  BY <1>1, <1>5, DetectorTypes DEF Detect, Daemon, Inv
<1>6. CASE NotSent \/ TimesOut
  BY <1>1, <1>6, NoAckTypes DEF NotSent, TimesOut, Daemon, Inv
<1>7. CASE Stale \/ Ready
  <2>1. outstanding' = outstanding /\ toRobot' = toRobot /\ UNCHANGED cameraVars
    BY <1>7 DEF Stale, Ready, Daemon, FramesStop, RecoveryAgain, mediaVars, linkVars
  <2> QED
    BY <1>1, <2>1 DEF Inv, DaemonInv
<1>8. ASSUME OnDisconnected
      PROVE  RobotInv'
  BY <1>8 DEF OnDisconnected, creditVars, Inv, RobotInv, CreditWithinLimit
<1>9. CASE Recover
  BY <1>8, <1>9, NoAckTypes DEF Recover, Inv
<1>10. CASE Lose
  <2>1. toRobot' \in Seq(Messages)
    BY <1>10, KeptTypes DEF Lose, ConnectionLost, Inv, DaemonInv
  <2> QED
    BY <1>8, <1>10, <2>1 DEF Lose, Inv, DaemonInv, visionVars, mediaVars
<1>11. CASE Return
  <2>1. toRobot' \in Seq(Messages) /\ outstanding' = outstanding
    BY <1>11, MessageTypes DEF Return, Reconnected, Inv, DaemonInv
  <2>2. RobotInv'
    BY <1>11, CameraAssumption DEF Return, OnConnected, RobotInv, CreditWithinLimit
  <2> QED
    BY <2>1, <2>2 DEF Inv, DaemonInv
<1>12. CASE Robot(RobotCameraStep)
  BY <1>12, RobotStepTypes DEF Robot
<1>13. CASE UNCHANGED vars
  BY <1>1, <1>2, <1>13 DEF vars, Inv
<1> QED
  BY <1>3, <1>4, <1>5, <1>6, <1>7, <1>9, <1>10, <1>11, <1>12, <1>13 DEF Next

\* The robot never holds more credit than the latest daemon.hello, connection or
\* grant allows (handle_media_flow_control), whatever was lost, late or doubled.
THEOREM CreditBounded == Spec => []CreditWithinLimit
<1>1. Inv => CreditWithinLimit
  BY DEF Inv, RobotInv
<1> QED
  BY <1>1, InitInv, NextInv, PTL DEF Spec

-----------------------------------------------------------------------------
(***************************************************************************)
(* A pass frees each slot once: ranking the elements of a set by how many  *)
(* of them are not above is one to one.                                    *)
(***************************************************************************)
LEMMA Ascends ==
  ASSUME NEW n \in Nat, NEW S \in SUBSET (1..n)
  PROVE  /\ Cardinality(S) \in Nat /\ Ascending(S) \in [1..Cardinality(S) -> S]
         /\ \A i, j \in 1..Cardinality(S) : Ascending(S)[i] = Ascending(S)[j] => i = j
         /\ \A x \in S : \E i \in 1..Cardinality(S) : Ascending(S)[i] = x
<1> DEFINE Below(x) == {y \in S : y <= x}
           rank(x) == Cardinality(Below(x))
           ranks == [x \in S |-> rank(x)]
           m == Cardinality(S)
<1>1. IsFiniteSet(S) /\ m \in Nat
  <2>1. IsFiniteSet(1..n)
    BY FS_Interval
  <2>2. IsFiniteSet(S)
    BY <2>1, FS_Subset
  <2> QED
    BY <2>2, FS_CardinalityType
<1>2. \A x \in S : IsFiniteSet(Below(x)) /\ rank(x) \in Nat
  BY <1>1, FS_Subset, FS_CardinalityType
<1>3. ASSUME NEW x \in S, NEW y \in S, x < y
      PROVE  rank(x) < rank(y)
  <2>1. x \in Int /\ y \in Int /\ \A z \in S : z \in Int
    OBVIOUS
  <2>2. \A z \in S : z <= x => z <= y
    BY <1>3, <2>1
  <2>3. y <= y /\ ~(y <= x)
    BY <1>3, <2>1
  <2>4. Below(x) \subseteq Below(y) /\ Below(x) # Below(y)
    BY <2>2, <2>3
  <2>5. rank(x) <= rank(y) /\ rank(x) # rank(y)
    BY <1>2, <2>4, FS_Subset
  <2> QED
    BY <1>2, <2>5
<1>4. \A x \in S : rank(x) \in 1..m
  <2>1. SUFFICES ASSUME NEW x \in S PROVE rank(x) \in 1..m
    OBVIOUS
  <2>2. rank(x) <= m
    BY <1>1, FS_Subset
  <2>3. x \in Below(x)
    OBVIOUS
  <2>4. rank(x) # 0
    BY <1>2, <2>3, FS_EmptySet
  <2> QED
    BY <1>1, <1>2, <2>2, <2>4
<1>5. ASSUME NEW x \in S, NEW y \in S, rank(x) = rank(y)
      PROVE  x = y
  <2>1. x < y \/ y < x \/ x = y
    OBVIOUS
  <2>2. rank(x) \in Nat /\ rank(y) \in Nat
    BY <1>2
  <2> HIDE DEF rank
  <2> QED
    BY <1>3, <1>5, <2>1, <2>2
<1>6. ASSUME NEW k \in 1..m
      PROVE  \E x \in S : rank(x) = k
  <2>1. ranks \in [S -> 1..m] /\ \A x, y \in S : ranks[x] = ranks[y] => x = y
    BY <1>4, <1>5
  <2>2. ranks \in Injection(S, 1..m)
    <3> HIDE DEF ranks
    <3> QED
      BY <2>1 DEF Injection, IsInjective
  <2>3. IsFiniteSet(1..m) /\ Cardinality(1..m) = m
    <3> HIDE DEF m
    <3>1. Cardinality(1..m) = IF 1 > m THEN 0 ELSE m - 1 + 1
      BY <1>1, FS_Interval
    <3> QED
      BY <1>1, <3>1, FS_Interval
  <2>4. ranks \in Surjection(S, 1..m)
    BY <1>1, <2>2, <2>3, FS_Injection
  <2>5. \E x \in S : ranks[x] = k
    <3> HIDE DEF ranks, m
    <3> QED
      BY <2>4 DEF Surjection
  <2> QED
    BY <2>5
<1> DEFINE a == Ascending(S)
<1>7. a = [k \in 1..m |-> CHOOSE x \in S : rank(x) = k]
  BY DEF Ascending
<1> HIDE DEF a, m, rank
<1>8. \A k \in 1..m : a[k] \in S /\ rank(a[k]) = k
  BY <1>6, <1>7
<1>9. a \in [1..m -> S]
  BY <1>7, <1>8
<1>10. \A i, j \in 1..m : a[i] = a[j] => i = j
  BY <1>8
<1>11. \A x \in S : \E i \in 1..m : a[i] = x
  BY <1>4, <1>5, <1>8
<1> QED
  BY <1>1, <1>9, <1>10, <1>11 DEF a, m

-----------------------------------------------------------------------------
(***************************************************************************)
(* The pool, seen through what its slots hold.                             *)
(***************************************************************************)
Good(f) == f \in FaceType /\ PoolOK(f)

\* All of a face but its pool and its ids.
Feelings(f) ==
  <<f.emotion, f.shown, f.avatarLock, f.motionLock, f.restore, f.presetTime,
    f.happy, f.waiting, f.before, f.reacting>>

\* The free slots, one by one.
FreeOK(slots, free) ==
  /\ \A k \in 1..Len(free) : free[k] \in DOMAIN slots /\ slots[free[k]] = NoModifier
  /\ \A i \in DOMAIN slots : slots[i] = NoModifier => \E k \in 1..Len(free) : free[k] = i
  /\ \A j, k \in 1..Len(free) : free[j] = free[k] => j = k

LEMMA FaceFields ==
  ASSUME NEW f \in FaceType
  PROVE  /\ f.slots \in Seq(ModifierType) /\ f.free \in Seq(Nat) /\ f.id \in [IdKinds -> Nat]
         /\ Len(f.slots) \in Nat /\ Len(f.free) \in Nat /\ DOMAIN f.slots = 1..Len(f.slots)
         /\ f.emotion \in Emotions /\ f.restore \in Emotions /\ f.before \in Emotions
         /\ f.shown \in Modes \cup {"none"}
         /\ f.avatarLock \in BOOLEAN /\ f.motionLock \in BOOLEAN /\ f.presetTime \in BOOLEAN
         /\ f.happy \in BOOLEAN /\ f.waiting \in BOOLEAN /\ f.reacting \in BOOLEAN
<1>1. f.slots \in Seq(ModifierType) /\ f.free \in Seq(Nat) /\ f.id \in [IdKinds -> Nat]
  BY DEF FaceType
<1> QED
  BY <1>1 DEF FaceType

LEMMA PoolView ==
  ASSUME NEW f \in FaceType
  PROVE  PoolOK(f) <=> FreeOK(f.slots, f.free) /\ \A kind \in IdKinds : f.id[kind] <= Len(f.slots)
<1>1. f.free \in Seq(Nat)
  BY FaceFields
<1>2. ToSet(f.free) = {f.free[k] : k \in 1..Len(f.free)} /\ DOMAIN f.free = 1..Len(f.free)
  BY <1>1 DEF ToSet
<1>3. IsInjective(f.free) <=> \A j, k \in 1..Len(f.free) : f.free[j] = f.free[k] => j = k
  BY <1>2 DEF IsInjective
<1>4. ToSet(f.free) = {i \in DOMAIN f.slots : f.slots[i] = NoModifier} <=>
        /\ \A k \in 1..Len(f.free) : f.free[k] \in DOMAIN f.slots /\ f.slots[f.free[k]] = NoModifier
        /\ \A i \in DOMAIN f.slots : f.slots[i] = NoModifier => \E k \in 1..Len(f.free) : f.free[k] = i
  BY <1>2
<1> QED
  BY <1>3, <1>4 DEF PoolOK, FreeOK

LEMMA NoModifierTypes ==
  /\ NoModifier \in ModifierType /\ NoModifier.kind = "none" /\ ~NoModifier.over
  /\ ~NoModifier.started /\ "none" \notin Kinds
  /\ \A m \in ModifierType : m.kind \in Kinds \/ m = NoModifier
BY DEF NoModifier, ModifierType, Emotions, Kinds

LEMMA HeldTypes ==
  ASSUME NEW f \in FaceType, NEW i \in Nat
  PROVE  Held(f, i) \in ModifierType
BY FaceFields, NoModifierTypes DEF Held

\* A pool that is written in place keeps its free slots.
LEMMA InPlace ==
  ASSUME NEW f, Good(f), NEW g \in FaceType,
         g.free = f.free, g.id = f.id, Len(g.slots) = Len(f.slots),
         \A i \in DOMAIN f.slots : g.slots[i] = NoModifier <=> f.slots[i] = NoModifier
  PROVE  Good(g)
<1>1. f \in FaceType /\ DOMAIN g.slots = DOMAIN f.slots
  BY FaceFields DEF Good
<1>2. FreeOK(f.slots, f.free) /\ \A kind \in IdKinds : f.id[kind] <= Len(f.slots)
  BY <1>1, PoolView DEF Good
<1>3. FreeOK(g.slots, g.free)
  BY <1>1, <1>2 DEF FreeOK
<1> QED
  BY <1>2, <1>3, PoolView DEF Good

\* What the mood of a face is changed to leaves the pool alone.
LEMMA Untouched ==
  ASSUME NEW f, Good(f), NEW g \in FaceType, g.slots = f.slots, g.free = f.free, g.id = f.id
  PROVE  Good(g) /\ \A i \in Nat : Held(g, i) = Held(f, i)
<1>1. Good(g)
  BY InPlace
<1> QED
  BY <1>1 DEF Held

LEMMA FrontLast ==
  ASSUME NEW S, NEW s \in Seq(S), s # <<>>
  PROVE  /\ Last(s) = s[Len(s)] /\ Last(s) \in S /\ Len(s) \in Nat /\ Len(s) > 0
         /\ Front(s) \in Seq(S) /\ Len(Front(s)) = Len(s) - 1
         /\ \A i \in 1..(Len(s) - 1) : Front(s)[i] = s[i]
<1>1. Len(s) \in Nat /\ Len(s) > 0 /\ Len(s) \in 1..Len(s)
  OBVIOUS
<1>2. Last(s) = s[Len(s)] /\ s[Len(s)] \in S
  BY <1>1 DEF Last
<1>3. Front(s) = SubSeq(s, 1, Len(s) - 1)
  BY DEF Front
<1>4. 1 \in 1..(Len(s) + 1) /\ Len(s) - 1 \in 0..Len(s)
  BY <1>1
<1>5. /\ Front(s) \in Seq(S) /\ Len(Front(s)) = Len(s) - 1
      /\ \A i \in 1..(Len(s) - 1) : Front(s)[i] = s[i]
  <2> DEFINE n == Len(s) - 1
  <2>1. n \in Nat /\ \A i \in 1..n : s[i] \in S
    BY <1>1
  <2> HIDE DEF n
  <2>2. /\ SubSeq(s, 1, n) \in Seq(S) /\ Len(SubSeq(s, 1, n)) = IF 1 <= n THEN n - 1 + 1 ELSE 0
        /\ \A i \in 1..(n - 1 + 1) : SubSeq(s, 1, n)[i] = s[1 + i - 1]
    BY <2>1, SubSeqProperties
  <2>3. Len(SubSeq(s, 1, n)) = n /\ \A i \in 1..n : SubSeq(s, 1, n)[i] = s[i]
    BY <2>1, <2>2
  <2> QED
    BY <1>3, <2>2, <2>3 DEF n
<1> QED
  BY <1>1, <1>2, <1>5

LEMMA Creates ==
  ASSUME NEW f, Good(f), NEW m \in ModifierType, m # NoModifier
  PROVE  LET n == NextSlot(f)
             g == Create(f, m)
         IN  /\ n \in Nat \ {0} /\ n <= Len(g.slots) /\ Held(f, n) = NoModifier
             /\ Good(g) /\ g.id = f.id /\ Feelings(g) = Feelings(f)
             /\ \A i \in Nat : Held(g, i) = IF i = n THEN m ELSE Held(f, i)
<1> DEFINE n == NextSlot(f)
           g == Create(f, m)
           len == IF f.free = <<>> THEN Len(f.slots) + 1 ELSE Len(f.slots)
<1>1. f \in FaceType /\ FreeOK(f.slots, f.free) /\ \A kind \in IdKinds : f.id[kind] <= Len(f.slots)
  BY PoolView DEF Good
<1>2. /\ f.slots \in Seq(ModifierType) /\ f.free \in Seq(Nat) /\ f.id \in [IdKinds -> Nat]
      /\ Len(f.slots) \in Nat /\ Len(f.free) \in Nat /\ DOMAIN f.slots = 1..Len(f.slots)
  BY <1>1, FaceFields
<1>3. len \in Nat /\ n \in 1..len /\ Len(f.slots) <= len
      /\ (n \in DOMAIN f.slots => f.free # <<>> /\ f.slots[n] = NoModifier)
      /\ DOMAIN f.slots \cup {n} = 1..len
  <2>1. CASE f.free = <<>>
    <3>1. n = Len(f.slots) + 1 /\ len = Len(f.slots) + 1
      BY <2>1 DEF NextSlot
    <3> HIDE DEF n, len
    <3> QED
      BY <1>2, <3>1
  <2>2. CASE f.free # <<>>
    <3>0. Last(f.free) = f.free[Len(f.free)] /\ Len(f.free) > 0
      BY <1>2, <2>2, FrontLast
    <3>1. n = f.free[Len(f.free)] /\ len = Len(f.slots) /\ Len(f.free) \in 1..Len(f.free)
      BY <1>2, <2>2, <3>0 DEF NextSlot
    <3>2. n \in DOMAIN f.slots /\ f.slots[n] = NoModifier
      BY <1>1, <3>1 DEF FreeOK
    <3> HIDE DEF n, len
    <3> QED
      BY <1>2, <2>2, <3>1, <3>2
  <2> QED
    BY <2>1, <2>2
<1> DEFINE slots == [i \in 1..len |-> IF i = n THEN m ELSE f.slots[i]]
<1>4. g = [f EXCEPT !.slots = slots, !.free = Front(@)]
  <2>1. slots = [i \in DOMAIN f.slots \cup {n} |-> IF i = n THEN m ELSE f.slots[i]]
    BY <1>3
  <2> QED
    BY <2>1 DEF Create
<1> HIDE DEF n, len, g
<1>5. slots \in Seq(ModifierType) /\ Len(slots) = len
  <2>1. ASSUME NEW i \in 1..len PROVE slots[i] \in ModifierType
    <3>1. i # n => i \in DOMAIN f.slots
      BY <1>3
    <3> QED
      BY <1>2, <3>1
  <2>2. slots \in [1..len -> ModifierType]
    BY <2>1
  <2> QED
    BY <1>3, <2>2
<1>6. \A i \in 1..len : slots[i] = IF i = n THEN m ELSE f.slots[i]
  OBVIOUS
<1>7. Front(f.free) \in Seq(Nat)
  BY <1>2 DEF Front
<1> HIDE DEF slots
<1>8. /\ g \in FaceType /\ g.slots = slots /\ g.free = Front(f.free) /\ g.id = f.id
      /\ Feelings(g) = Feelings(f)
  BY <1>1, <1>4, <1>5, <1>7 DEF FaceType, Feelings
<1>9. DOMAIN slots = 1..len
  BY <1>5
<1>10. FreeOK(slots, Front(f.free))
  <2>1. CASE f.free = <<>>
    <3>1. Front(f.free) = <<>> /\ Len(Front(f.free)) = 0
      BY <2>1 DEF Front
    <3>2. ASSUME NEW i \in DOMAIN slots, slots[i] = NoModifier
          PROVE  FALSE
      <4>1. i \in 1..len /\ i # n
        BY <1>6, <1>9, <3>2
      <4>2. i \in DOMAIN f.slots /\ f.slots[i] = NoModifier
        BY <1>3, <1>6, <3>2, <4>1
      <4> QED
        BY <1>1, <2>1, <4>2 DEF FreeOK
    <3> QED
      BY <3>1, <3>2 DEF FreeOK
  <2>2. CASE f.free # <<>>
    <3>1. /\ Len(Front(f.free)) = Len(f.free) - 1 /\ Len(f.free) > 0
          /\ \A k \in 1..(Len(f.free) - 1) : Front(f.free)[k] = f.free[k]
          /\ n = f.free[Len(f.free)]
      BY <1>2, <2>2, FrontLast DEF n, NextSlot
    <3>2. \A k \in 1..(Len(f.free) - 1) : k \in 1..Len(f.free) /\ k # Len(f.free)
      BY <1>2
    <3>3. Len(f.free) \in 1..Len(f.free)
      BY <1>2, <3>1
    <3>4. ASSUME NEW k \in 1..(Len(f.free) - 1)
          PROVE  f.free[k] \in DOMAIN slots /\ slots[f.free[k]] = NoModifier
      <4>1. f.free[k] \in DOMAIN f.slots /\ f.slots[f.free[k]] = NoModifier /\ f.free[k] # n
        BY <1>1, <3>1, <3>2, <3>3 DEF FreeOK
      <4> QED
        BY <1>3, <1>6, <1>9, <4>1
    <3>5. ASSUME NEW i \in DOMAIN slots, slots[i] = NoModifier
          PROVE  \E k \in 1..(Len(f.free) - 1) : f.free[k] = i
      <4>1. i \in 1..len /\ i # n
        BY <1>6, <1>9, <3>5
      <4>2. i \in DOMAIN f.slots /\ f.slots[i] = NoModifier
        BY <1>3, <1>6, <3>5, <4>1
      <4>3. PICK k \in 1..Len(f.free) : f.free[k] = i
        BY <1>1, <4>2 DEF FreeOK
      <4>4. k # Len(f.free)
        BY <3>1, <4>1, <4>3
      <4>5. k \in 1..(Len(f.free) - 1)
        BY <1>2, <4>4
      <4> QED
        BY <4>3, <4>5
    <3>6. \A j, k \in 1..(Len(f.free) - 1) : f.free[j] = f.free[k] => j = k
      BY <1>1, <3>2 DEF FreeOK
    <3> QED
      BY <3>1, <3>4, <3>5, <3>6 DEF FreeOK
  <2> QED
    BY <2>1, <2>2
<1>11. \A kind \in IdKinds : g.id[kind] <= Len(g.slots)
  BY <1>1, <1>2, <1>3, <1>5, <1>8
<1>12. Good(g)
  BY <1>8, <1>10, <1>11, PoolView DEF Good
<1>13. Held(f, n) = NoModifier
  BY <1>3 DEF Held
<1>14. \A i \in Nat : Held(g, i) = IF i = n THEN m ELSE Held(f, i)
  BY <1>3, <1>6, <1>8, <1>9 DEF Held
<1> QED
  BY <1>3, <1>5, <1>8, <1>12, <1>13, <1>14 DEF n, g

\* Where a slot's modifier is empty, nothing happens; otherwise its slot is offered again.
LEMMA Destroys ==
  ASSUME NEW f, Good(f), NEW id \in Nat
  PROVE  LET g == Destroy(f, id)
         IN  /\ Good(g) /\ g.id = f.id /\ Feelings(g) = Feelings(f)
             /\ \A i \in Nat : Held(g, i) = IF i = id THEN NoModifier ELSE Held(f, i)
<1> DEFINE g == Destroy(f, id)
<1>1. f \in FaceType /\ FreeOK(f.slots, f.free) /\ \A kind \in IdKinds : f.id[kind] <= Len(f.slots)
  BY PoolView DEF Good
<1>2. /\ f.slots \in Seq(ModifierType) /\ f.free \in Seq(Nat) /\ f.id \in [IdKinds -> Nat]
      /\ Len(f.slots) \in Nat /\ Len(f.free) \in Nat /\ DOMAIN f.slots = 1..Len(f.slots)
  BY <1>1, FaceFields
<1>3. CASE Held(f, id) = NoModifier
  BY <1>3 DEF Destroy
<1>4. CASE Held(f, id) # NoModifier
  <2>1. id \in DOMAIN f.slots /\ f.slots[id] # NoModifier
    BY <1>4 DEF Held
  <2> DEFINE slots == [f.slots EXCEPT ![id] = NoModifier]
             free  == Append(f.free, id)
  <2>2. slots \in Seq(ModifierType) /\ Len(slots) = Len(f.slots) /\ DOMAIN slots = DOMAIN f.slots
        /\ \A i \in DOMAIN f.slots : slots[i] = IF i = id THEN NoModifier ELSE f.slots[i]
    BY <1>2, <2>1, NoModifierTypes, ExceptSeq
  <2>3. /\ free \in Seq(Nat) /\ Len(free) = Len(f.free) + 1 /\ free[Len(f.free) + 1] = id
        /\ \A k \in 1..Len(f.free) : free[k] = f.free[k]
    BY <1>2, AppendProperties
  <2>4. g = [f EXCEPT !.slots = slots, !.free = free]
    BY <1>4 DEF Destroy
  <2> HIDE DEF slots, free, g
  <2>5. /\ g \in FaceType /\ g.slots = slots /\ g.free = free /\ g.id = f.id
        /\ Feelings(g) = Feelings(f)
    BY <1>1, <2>2, <2>3, <2>4 DEF FaceType, Feelings
  <2>6. \A k \in 1..Len(free) : k \in 1..Len(f.free) \/ k = Len(f.free) + 1
    BY <1>2, <2>3
  <2>7. ASSUME NEW k \in 1..Len(f.free)
        PROVE  k \in 1..Len(free) /\ f.free[k] # id /\ f.free[k] \in DOMAIN f.slots
               /\ f.slots[f.free[k]] = NoModifier
    <3>1. f.free[k] \in DOMAIN f.slots /\ f.slots[f.free[k]] = NoModifier
      BY <1>1 DEF FreeOK
    <3>2. k \in 1..Len(free)
      BY <1>2, <2>3
    <3> QED
      BY <2>1, <3>1, <3>2
  <2>8. FreeOK(slots, free)
    <3>1. \A k \in 1..Len(free) : free[k] \in DOMAIN slots /\ slots[free[k]] = NoModifier
      BY <2>1, <2>2, <2>3, <2>6, <2>7
    <3>2. ASSUME NEW i \in DOMAIN slots, slots[i] = NoModifier
          PROVE  \E k \in 1..Len(free) : free[k] = i
      <4>1. CASE i = id
        <5>1. Len(f.free) + 1 \in 1..Len(free)
          BY <1>2, <2>3
        <5> QED
          BY <4>1, <5>1, <2>3
      <4>2. CASE i # id
        <5>1. PICK k \in 1..Len(f.free) : f.free[k] = i
          BY <1>1, <2>2, <3>2, <4>2 DEF FreeOK
        <5> QED
          BY <2>3, <2>7, <5>1
      <4> QED
        BY <4>1, <4>2
    <3>3. ASSUME NEW j \in 1..Len(free), NEW k \in 1..Len(free), free[j] = free[k]
          PROVE  j = k
      <4>1. CASE j \in 1..Len(f.free) /\ k \in 1..Len(f.free)
        BY <1>1, <2>3, <3>3, <4>1 DEF FreeOK
      <4> QED
        BY <2>3, <2>6, <2>7, <3>3, <4>1
    <3> QED
      BY <3>1, <3>2, <3>3 DEF FreeOK
  <2>9. Good(g)
    BY <1>1, <2>2, <2>5, <2>8, PoolView DEF Good
  <2>10. \A i \in Nat : Held(g, i) = IF i = id THEN NoModifier ELSE Held(f, i)
    BY <2>1, <2>2, <2>5 DEF Held
  <2> QED
    BY <2>5, <2>9, <2>10 DEF g
<1> QED
  BY <1>3, <1>4

LEMMA Removes ==
  ASSUME NEW f, Good(f), NEW kind \in IdKinds
  PROVE  LET g == RemoveModifier(f, kind)
         IN  /\ Good(g) /\ g.id = [f.id EXCEPT ![kind] = 0] /\ Feelings(g) = Feelings(f)
             /\ \A i \in Nat : Held(g, i) = IF i = f.id[kind] THEN NoModifier ELSE Held(f, i)
<1> DEFINE h == Destroy(f, f.id[kind])
           g == RemoveModifier(f, kind)
<1>1. f.id[kind] \in Nat /\ f.id \in [IdKinds -> Nat]
  BY FaceFields DEF Good
<1>2. /\ Good(h) /\ h.id = f.id /\ Feelings(h) = Feelings(f)
      /\ \A i \in Nat : Held(h, i) = IF i = f.id[kind] THEN NoModifier ELSE Held(f, i)
  BY <1>1, Destroys
<1>3. g = [h EXCEPT !.id = [h.id EXCEPT ![kind] = 0]]
  BY DEF RemoveModifier
<1> HIDE DEF h, g
<1>4. /\ g \in FaceType /\ g.slots = h.slots /\ g.free = h.free /\ g.id = [f.id EXCEPT ![kind] = 0]
      /\ Feelings(g) = Feelings(h)
  BY <1>1, <1>2, <1>3 DEF Good, FaceType, Feelings
<1>5. FreeOK(g.slots, g.free) /\ \A k \in IdKinds : h.id[k] <= Len(h.slots)
  BY <1>2, <1>4, PoolView DEF Good
<1>6. 0 <= Len(g.slots)
  BY <1>4, FaceFields
<1>7. \A k \in IdKinds : g.id[k] <= Len(g.slots)
  BY <1>1, <1>2, <1>4, <1>5, <1>6
<1>8. Good(g)
  BY <1>4, <1>5, <1>7, PoolView DEF Good
<1>9. \A i \in Nat : Held(g, i) = Held(h, i)
  BY <1>4 DEF Held
<1> QED
  BY <1>2, <1>4, <1>8, <1>9 DEF g

\* Modifiers that are over are removed, and each of their slots is offered again, once.
LEMMA Cleans ==
  ASSUME NEW f, Good(f)
  PROVE  LET g == Cleanup(f)
         IN  /\ Good(g) /\ g.id = f.id /\ Feelings(g) = Feelings(f)
             /\ \A i \in Nat : Held(g, i) = IF Held(f, i).over THEN NoModifier ELSE Held(f, i)
<1> DEFINE g == Cleanup(f)
           n == Len(f.slots)
           l == Len(f.free)
           slots == [i \in DOMAIN f.slots |-> IF f.slots[i].over THEN NoModifier ELSE f.slots[i]]
           S == {i \in DOMAIN f.slots : f.slots[i].over}
           m == Cardinality(S)
           A == Ascending(S)
           free == f.free \o A
<1>1. f \in FaceType /\ FreeOK(f.slots, f.free) /\ \A kind \in IdKinds : f.id[kind] <= Len(f.slots)
  BY PoolView DEF Good
<1>2. /\ f.slots \in Seq(ModifierType) /\ f.free \in Seq(Nat) /\ f.id \in [IdKinds -> Nat]
      /\ n \in Nat /\ l \in Nat /\ DOMAIN f.slots = 1..n
  BY <1>1, FaceFields
<1>3. \A i \in 1..n : f.slots[i] \in ModifierType
  BY <1>2
<1>4. slots \in Seq(ModifierType) /\ Len(slots) = n /\ DOMAIN slots = 1..n
      /\ \A i \in 1..n : slots[i] = IF f.slots[i].over THEN NoModifier ELSE f.slots[i]
  <2>1. slots \in [1..n -> ModifierType]
    BY <1>2, <1>3, NoModifierTypes
  <2> QED
    BY <1>2, <2>1
<1>5. S \in SUBSET (1..n)
  BY <1>2
<1> HIDE DEF S
<1>6. /\ m \in Nat /\ A \in [1..m -> S]
      /\ \A i, j \in 1..m : A[i] = A[j] => i = j
      /\ \A x \in S : \E i \in 1..m : A[i] = x
  BY <1>2, <1>5, Ascends
<1> HIDE DEF A, m
<1>7. A \in Seq(Nat) /\ Len(A) = m
  <2>1. \A k \in 1..m : A[k] \in Nat
    <3>1. \A x \in S : x \in Nat
      BY <1>5
    <3> QED
      BY <1>6, <3>1
  <2>2. A \in [1..m -> Nat]
    BY <1>6, <2>1
  <2> QED
    BY <1>6, <2>2
<1>8. /\ free \in Seq(Nat) /\ Len(free) = l + m
      /\ \A k \in 1..l : free[k] = f.free[k]
      /\ \A k \in 1..m : free[l + k] = A[k]
  <2>1. /\ free \in Seq(Nat) /\ Len(free) = l + m
        /\ \A k \in 1..(l + m) : free[k] = IF k <= l THEN f.free[k] ELSE A[k - l]
    BY <1>2, <1>7, ConcatProperties
  <2> HIDE DEF free, l
  <2>2. \A k \in 1..l : k \in 1..(l + m) /\ k <= l
    BY <1>2, <1>6
  <2>3. \A k \in 1..m : l + k \in 1..(l + m) /\ ~(l + k <= l) /\ (l + k) - l = k
    BY <1>2, <1>6
  <2>4. \A k \in 1..m : free[l + k] = A[k]
    BY <2>1, <2>3
  <2>5. \A k \in 1..l : free[k] = f.free[k]
    BY <2>1, <2>2
  <2> QED
    BY <2>1, <2>4, <2>5
<1>9. g = [f EXCEPT !.slots = slots, !.free = free]
  BY DEF Cleanup, S, A
<1> HIDE DEF slots, free, g
<1>10. /\ g \in FaceType /\ g.slots = slots /\ g.free = free /\ g.id = f.id
       /\ Feelings(g) = Feelings(f)
  BY <1>1, <1>4, <1>8, <1>9 DEF FaceType, Feelings
<1>11. \A k \in 1..Len(free) : k \in 1..l \/ \E j \in 1..m : k = l + j
  <2>1. ASSUME NEW k \in 1..Len(free), k \notin 1..l
        PROVE  k - l \in 1..m /\ k = l + (k - l)
    BY <1>2, <1>6, <1>8, <2>1
  <2> QED
    BY <2>1
<1>12. \A k \in 1..l : f.free[k] \in 1..n /\ f.slots[f.free[k]] = NoModifier /\ f.free[k] \notin S
  <2>1. \A k \in 1..l : f.free[k] \in 1..n /\ f.slots[f.free[k]] = NoModifier
    BY <1>1, <1>2 DEF FreeOK
  <2> QED
    BY <2>1, NoModifierTypes DEF S
<1>13. \A i \in 1..n : i \in S <=> f.slots[i].over
  BY <1>2 DEF S
<1>14. FreeOK(slots, free)
  <2>1. ASSUME NEW k \in 1..Len(free)
        PROVE  free[k] \in DOMAIN slots /\ slots[free[k]] = NoModifier
    <3>1. CASE k \in 1..l
      BY <1>4, <1>8, <1>12, <3>1
    <3>2. ASSUME NEW j \in 1..m, k = l + j
          PROVE  free[k] \in DOMAIN slots /\ slots[free[k]] = NoModifier
      <4>1. free[k] = A[j] /\ A[j] \in S /\ A[j] \in 1..n
        BY <1>5, <1>6, <1>8, <3>2
      <4> QED
        BY <1>4, <1>13, <4>1
    <3> QED
      BY <1>11, <3>1, <3>2
  <2>2. ASSUME NEW i \in DOMAIN slots, slots[i] = NoModifier
        PROVE  \E k \in 1..Len(free) : free[k] = i
    <3>1. CASE i \in S
      <4>1. PICK j \in 1..m : A[j] = i
        BY <1>6, <3>1
      <4>2. l + j \in 1..Len(free)
        BY <1>2, <1>6, <1>8
      <4> QED
        BY <1>8, <4>1, <4>2
    <3>2. CASE i \notin S
      <4>1. f.slots[i] = NoModifier /\ i \in DOMAIN f.slots
        BY <1>2, <1>4, <1>13, <2>2, <3>2
      <4>2. PICK k \in 1..l : f.free[k] = i
        BY <1>1, <4>1 DEF FreeOK
      <4>3. k \in 1..Len(free)
        BY <1>2, <1>6, <1>8
      <4> QED
        BY <1>8, <4>2, <4>3
    <3> QED
      BY <3>1, <3>2
  <2>3. ASSUME NEW j \in 1..Len(free), NEW k \in 1..Len(free), free[j] = free[k]
        PROVE  j = k
    <3>1. CASE j \in 1..l /\ k \in 1..l
      BY <1>1, <1>8, <2>3, <3>1 DEF FreeOK
    <3>2. ASSUME NEW p \in 1..l, NEW q \in 1..m
          PROVE  free[p] # free[l + q]
      <4>1. free[p] = f.free[p] /\ free[l + q] = A[q]
        BY <1>8
      <4>2. A[q] \in S
        BY <1>6
      <4> QED
        BY <1>12, <4>1, <4>2
    <3>3. ASSUME NEW p \in 1..m, NEW q \in 1..m, free[l + p] = free[l + q]
          PROVE  p = q
      <4>1. A[p] = A[q]
        BY <1>8, <3>3
      <4> QED
        BY <1>6, <4>1
    <3> QED
      BY <1>11, <2>3, <3>1, <3>2, <3>3
  <2> QED
    BY <2>1, <2>2, <2>3 DEF FreeOK
<1>15. Good(g)
  BY <1>1, <1>2, <1>4, <1>10, <1>14, PoolView DEF Good
<1>16. \A i \in Nat : Held(g, i) = IF Held(f, i).over THEN NoModifier ELSE Held(f, i)
  BY <1>2, <1>4, <1>10, NoModifierTypes DEF Held
<1> QED
  BY <1>10, <1>15, <1>16 DEF g

\* What is written into a slot that is taken leaves the pool alone.
LEMMA Writes ==
  ASSUME NEW f, Good(f), NEW s \in DOMAIN f.slots, NEW m \in ModifierType,
         f.slots[s] # NoModifier, m # NoModifier
  PROVE  LET g == [f EXCEPT !.slots = [f.slots EXCEPT ![s] = m]]
         IN  /\ Good(g) /\ g.id = f.id /\ Feelings(g) = Feelings(f)
             /\ \A i \in Nat : Held(g, i) = IF i = s THEN m ELSE Held(f, i)
<1> DEFINE slots == [f.slots EXCEPT ![s] = m]
           g == [f EXCEPT !.slots = slots]
<1>1. f \in FaceType /\ f.slots \in Seq(ModifierType) /\ DOMAIN f.slots = 1..Len(f.slots)
  BY FaceFields DEF Good
<1>2. slots \in Seq(ModifierType) /\ Len(slots) = Len(f.slots)
      /\ \A i \in DOMAIN f.slots : slots[i] = IF i = s THEN m ELSE f.slots[i]
  BY <1>1, ExceptSeq
<1> HIDE DEF slots
<1>3. /\ g \in FaceType /\ g.slots = slots /\ g.free = f.free /\ g.id = f.id
      /\ Feelings(g) = Feelings(f)
  BY <1>1, <1>2 DEF FaceType, Feelings
<1> HIDE DEF g
<1>4. \A i \in DOMAIN f.slots : g.slots[i] = NoModifier <=> f.slots[i] = NoModifier
  BY <1>2, <1>3
<1>5. Good(g)
  BY <1>2, <1>3, <1>4, InPlace
<1>6. \A i \in Nat : Held(g, i) = IF i = s THEN m ELSE Held(f, i)
  <2>1. DOMAIN g.slots = DOMAIN f.slots
    BY <1>1, <1>2, <1>3, FaceFields
  <2> QED
    BY <1>2, <1>3, <2>1 DEF Held
<1> QED
  BY <1>3, <1>5, <1>6 DEF g, slots

-----------------------------------------------------------------------------
(***************************************************************************)
(* What has an id is where its id says.                                    *)
(***************************************************************************)
Tracked(f) == \A i \in Nat : Held(f, i).kind \in IdKinds => f.id[Held(f, i).kind] = i

Pool(f) == Good(f) /\ Tracked(f)

Calm(f) == \A i \in Nat : ~Held(f, i).over

\* The preset, if there is one.
PresetOf(f) ==
  IF Held(f, f.id["preset"]).kind = "preset" THEN Held(f, f.id["preset"]) ELSE NoModifier

Shows(f) == PresetOf(f).kind = "preset"

\* What an operation that is not about presets, nor about the mood, does to a face.
Kept(f, g) ==
  /\ Pool(g) /\ PresetOf(g) = PresetOf(f) /\ g.id["preset"] = f.id["preset"]
  /\ Feelings(g) = Feelings(f) /\ (Calm(f) => Calm(g))

LEMMA KindsOfIds ==
  /\ IdKinds = {"preset", "dance", "idleMotion", "idleExpression"} /\ "none" \notin IdKinds
  /\ IdKinds \subseteq Kinds
BY DEF IdKinds, Kinds

LEMMA NothingAtZero ==
  ASSUME NEW f, Good(f)
  PROVE  Held(f, 0) = NoModifier
BY FaceFields DEF Good, Held

LEMMA HasHeld ==
  ASSUME NEW f, Good(f), NEW kind \in Kinds
  PROVE  Has(f, kind) <=> \E i \in Nat : Held(f, i).kind = kind
<1>1. DOMAIN f.slots = 1..Len(f.slots) /\ Len(f.slots) \in Nat
  BY FaceFields DEF Good
<1>2. NoModifier.kind # kind
  BY NoModifierTypes DEF Kinds
<1>3. ASSUME NEW i \in Nat, Held(f, i).kind = kind
      PROVE  i \in DOMAIN f.slots /\ f.slots[i].kind = kind
  BY <1>2, <1>3 DEF Held
<1>4. ASSUME NEW i \in DOMAIN f.slots
      PROVE  i \in Nat /\ Held(f, i) = f.slots[i]
  BY <1>1 DEF Held
<1> QED
  BY <1>3, <1>4 DEF Has

LEMMA PresetFound ==
  ASSUME NEW f, Pool(f)
  PROVE  /\ Has(f, "preset") <=> Shows(f)
         /\ \A i \in Nat : Held(f, i).kind = "preset" => i = f.id["preset"] /\ Held(f, i) = PresetOf(f)
         /\ PresetOf(f) \in ModifierType
         /\ Shows(f) => f.id["preset"] \in DOMAIN f.slots /\ f.slots[f.id["preset"]] = PresetOf(f)
         /\ ~Shows(f) => PresetOf(f) = NoModifier
<1>1. f.id["preset"] \in Nat
  BY FaceFields, KindsOfIds DEF Pool, Good
<1>2. \A i \in Nat : Held(f, i).kind = "preset" => i = f.id["preset"] /\ Held(f, i) = PresetOf(f)
  BY KindsOfIds DEF Pool, Tracked, PresetOf
<1>3. Has(f, "preset") <=> \E i \in Nat : Held(f, i).kind = "preset"
  BY KindsOfIds, HasHeld DEF Pool
<1>4. PresetOf(f) \in ModifierType
  BY <1>1, HeldTypes, NoModifierTypes DEF Pool, Good, PresetOf
<1>5. Shows(f) <=> Held(f, f.id["preset"]).kind = "preset"
  BY NoModifierTypes DEF Shows, PresetOf
<1>6. Shows(f) => f.id["preset"] \in DOMAIN f.slots /\ f.slots[f.id["preset"]] = PresetOf(f)
  BY <1>5, NoModifierTypes DEF PresetOf, Held
<1>7. ~Shows(f) => PresetOf(f) = NoModifier
  BY <1>5 DEF PresetOf
<1> QED
  BY <1>1, <1>2, <1>3, <1>4, <1>5, <1>6, <1>7

LEMMA PresetKept ==
  ASSUME NEW f, NEW g, Pool(f), Pool(g),
         \A i \in Nat : Held(f, i).kind = "preset" \/ Held(g, i).kind = "preset"
                           => Held(g, i) = Held(f, i)
  PROVE  PresetOf(g) = PresetOf(f)
<1>1. f.id["preset"] \in Nat /\ g.id["preset"] \in Nat
  BY FaceFields, KindsOfIds DEF Pool, Good
<1>2. CASE Held(f, f.id["preset"]).kind = "preset"
  <2>1. Held(g, f.id["preset"]) = Held(f, f.id["preset"])
    BY <1>1, <1>2
  <2>2. f.id["preset"] = g.id["preset"]
    BY <1>1, <1>2, <2>1, PresetFound
  <2> QED
    BY <2>1, <2>2 DEF PresetOf
<1>3. CASE Held(f, f.id["preset"]).kind # "preset"
  <2>1. Held(g, g.id["preset"]).kind # "preset"
    <3>1. SUFFICES ASSUME Held(g, g.id["preset"]).kind = "preset" PROVE FALSE
      OBVIOUS
    <3>2. Held(f, g.id["preset"]).kind = "preset"
      BY <1>1, <3>1
    <3>3. g.id["preset"] = f.id["preset"]
      BY <1>1, <3>2, PresetFound
    <3> QED
      BY <1>3, <3>2, <3>3
  <2> QED
    BY <1>3, <2>1 DEF PresetOf
<1> QED
  BY <1>2, <1>3

-----------------------------------------------------------------------------
(***************************************************************************)
(* The pool's operations, with ids.                                        *)
(***************************************************************************)
LEMMA ModifierTypes ==
  ASSUME NEW kind \in Kinds
  PROVE  /\ Modifier(kind) \in ModifierType /\ Modifier(kind) # NoModifier
         /\ Modifier(kind).kind = kind /\ ~Modifier(kind).over
<1>1. /\ Modifier(kind) \in ModifierType /\ Modifier(kind).kind = kind /\ ~Modifier(kind).over
  BY DEF Modifier, NoModifier, ModifierType, Emotions
<1>2. Modifier(kind) # NoModifier
  BY <1>1, NoModifierTypes DEF Kinds
<1> QED
  BY <1>1, <1>2

LEMMA CreatesMore ==
  ASSUME NEW f, Pool(f), NEW kind \in {"speech", "speaking"}
  PROVE  Kept(f, Create(f, Modifier(kind)))
<1> DEFINE m == Modifier(kind)
           n == NextSlot(f)
           g == Create(f, m)
<1>1. kind \in Kinds /\ kind \notin IdKinds /\ kind # "preset"
  BY DEF IdKinds, Kinds
<1>2. m \in ModifierType /\ m # NoModifier /\ m.kind = kind /\ ~m.over
  BY <1>1, ModifierTypes
<1> HIDE DEF m
<1>3. /\ n \in Nat \ {0} /\ Held(f, n) = NoModifier
      /\ Good(g) /\ g.id = f.id /\ Feelings(g) = Feelings(f)
      /\ \A i \in Nat : Held(g, i) = IF i = n THEN m ELSE Held(f, i)
  BY <1>2, Creates DEF Pool
<1> HIDE DEF g, n
<1>4. Pool(g)
  BY <1>1, <1>2, <1>3 DEF Pool, Tracked
<1>5. \A i \in Nat : Held(f, i).kind = "preset" \/ Held(g, i).kind = "preset" => Held(g, i) = Held(f, i)
  BY <1>1, <1>2, <1>3, NoModifierTypes
<1>6. PresetOf(g) = PresetOf(f)
  BY <1>4, <1>5, PresetKept
<1>7. Calm(f) => Calm(g)
  BY <1>2, <1>3 DEF Calm
<1> QED
  BY <1>3, <1>4, <1>6, <1>7 DEF Kept, g, m

LEMMA Installs ==
  ASSUME NEW f, Pool(f), NEW kind \in IdKinds, ~Has(f, kind),
         NEW m \in ModifierType, m.kind = kind
  PROVE  LET n == NextSlot(f)
             g == [Create(f, m) EXCEPT !.id[kind] = n]
         IN  /\ Pool(g) /\ Feelings(g) = Feelings(f)
             /\ n \in Nat \ {0} /\ g.id = [f.id EXCEPT ![kind] = n] /\ Held(f, n) = NoModifier
             /\ \A i \in Nat : Held(g, i) = IF i = n THEN m ELSE Held(f, i)
<1> DEFINE n == NextSlot(f)
           h == Create(f, m)
           g == [h EXCEPT !.id[kind] = n]
<1>1. m # NoModifier /\ kind \in Kinds /\ m.kind \in IdKinds
  BY NoModifierTypes, KindsOfIds
<1>2. /\ n \in Nat \ {0} /\ n <= Len(h.slots) /\ Held(f, n) = NoModifier
      /\ Good(h) /\ h.id = f.id /\ Feelings(h) = Feelings(f)
      /\ \A i \in Nat : Held(h, i) = IF i = n THEN m ELSE Held(f, i)
  BY <1>1, Creates DEF Pool
<1>3. g = [h EXCEPT !.id = [f.id EXCEPT ![kind] = n]]
  BY <1>2
<1>4. f.id \in [IdKinds -> Nat]
  BY FaceFields DEF Pool, Good
<1> HIDE DEF g, h, n
<1>5. /\ g \in FaceType /\ g.slots = h.slots /\ g.free = h.free /\ g.id = [f.id EXCEPT ![kind] = n]
      /\ Feelings(g) = Feelings(h)
  BY <1>2, <1>3, <1>4 DEF Good, FaceType, Feelings
<1>6. FreeOK(g.slots, g.free) /\ \A k \in IdKinds : h.id[k] <= Len(h.slots)
  BY <1>2, <1>5, PoolView DEF Good
<1>7. \A k \in IdKinds : g.id[k] = IF k = kind THEN n ELSE f.id[k]
  BY <1>4, <1>5
<1>8. \A k \in IdKinds : g.id[k] <= Len(g.slots)
  BY <1>2, <1>5, <1>6, <1>7
<1>9. Good(g)
  BY <1>5, <1>6, <1>8, PoolView DEF Good
<1>10. \A i \in Nat : Held(g, i) = IF i = n THEN m ELSE Held(f, i)
  BY <1>2, <1>5 DEF Held
<1>11. \A i \in Nat : Held(f, i).kind # kind
  BY <1>1, HasHeld DEF Pool
<1>12. Tracked(g)
  BY <1>7, <1>10, <1>11 DEF Pool, Tracked
<1> QED
  BY <1>2, <1>5, <1>9, <1>10, <1>12 DEF Pool, g, h, n

LEMMA RemovesTracked ==
  ASSUME NEW f, Pool(f), NEW kind \in IdKinds
  PROVE  LET g == RemoveModifier(f, kind)
         IN  /\ Pool(g) /\ g.id = [f.id EXCEPT ![kind] = 0] /\ Feelings(g) = Feelings(f)
             /\ ~Has(g, kind) /\ (Calm(f) => Calm(g))
             /\ \A i \in Nat : Held(g, i) = IF i = f.id[kind] THEN NoModifier ELSE Held(f, i)
             /\ (kind # "preset" /\ Held(f, f.id[kind]).kind # "preset" => Kept(f, g))
<1> DEFINE g == RemoveModifier(f, kind)
<1>1. /\ Good(g) /\ g.id = [f.id EXCEPT ![kind] = 0] /\ Feelings(g) = Feelings(f)
      /\ \A i \in Nat : Held(g, i) = IF i = f.id[kind] THEN NoModifier ELSE Held(f, i)
  BY Removes DEF Pool
<1>2. f.id \in [IdKinds -> Nat]
  BY FaceFields DEF Pool, Good
<1> HIDE DEF g
<1>3. \A i \in Nat : Held(f, i).kind = kind => i = f.id[kind]
  BY DEF Pool, Tracked
<1>4. \A k \in IdKinds : g.id[k] = IF k = kind THEN 0 ELSE f.id[k]
  BY <1>1, <1>2
<1>5. \A i \in Nat : Held(g, i).kind # kind
  BY <1>1, <1>3, NoModifierTypes, KindsOfIds
<1>6. ~Has(g, kind)
  BY <1>1, <1>5, HasHeld, KindsOfIds
<1>7. Tracked(g)
  BY <1>1, <1>4, <1>5, NoModifierTypes, KindsOfIds DEF Pool, Tracked
<1>8. Calm(f) => Calm(g)
  BY <1>1, NoModifierTypes DEF Calm
<1>9. ASSUME kind # "preset", Held(f, f.id[kind]).kind # "preset"
      PROVE  Kept(f, g)
  <2>1. \A i \in Nat : Held(f, i).kind = "preset" \/ Held(g, i).kind = "preset" => Held(g, i) = Held(f, i)
    BY <1>1, <1>9, NoModifierTypes
  <2>2. PresetOf(g) = PresetOf(f)
    BY <1>1, <1>7, <2>1, PresetKept DEF Pool
  <2> QED
    BY <1>1, <1>4, <1>7, <1>8, <1>9, <2>2, KindsOfIds DEF Kept, Pool
<1> QED
  BY <1>1, <1>6, <1>7, <1>8, <1>9 DEF Pool, g

LEMMA KeptTwice ==
  ASSUME NEW f, NEW g, NEW h, Kept(f, g), Kept(g, h)
  PROVE  Kept(f, h)
BY DEF Kept

LEMMA InstallsMore ==
  ASSUME NEW f, Pool(f), NEW kind \in IdKinds \ {"preset"}, ~Has(f, kind)
  PROVE  Kept(f, [Create(f, Modifier(kind)) EXCEPT !.id[kind] = NextSlot(f)])
<1> DEFINE n == NextSlot(f)
           m == Modifier(kind)
           g == [Create(f, m) EXCEPT !.id[kind] = n]
<1>1. kind \in IdKinds /\ kind \in Kinds /\ kind # "preset" /\ "preset" \in IdKinds
  BY KindsOfIds
<1>2. m \in ModifierType /\ m.kind = kind /\ ~m.over
  BY <1>1, ModifierTypes
<1> HIDE DEF m
<1>3. /\ Pool(g) /\ Feelings(g) = Feelings(f)
      /\ n \in Nat \ {0} /\ g.id = [f.id EXCEPT ![kind] = n] /\ Held(f, n) = NoModifier
      /\ \A i \in Nat : Held(g, i) = IF i = n THEN m ELSE Held(f, i)
  <2>1. Pool(f) /\ kind \in IdKinds /\ ~Has(f, kind) /\ m \in ModifierType /\ m.kind = kind
    BY <1>1, <1>2
  <2> QED
    BY ONLY <2>1, Installs
<1> HIDE DEF g, n
<1>4. \A i \in Nat : Held(f, i).kind = "preset" \/ Held(g, i).kind = "preset" => Held(g, i) = Held(f, i)
  BY <1>1, <1>2, <1>3, NoModifierTypes
<1>5. PresetOf(g) = PresetOf(f)
  BY <1>3, <1>4, PresetKept
<1>6. f.id \in [IdKinds -> Nat]
  BY FaceFields DEF Pool, Good
<1>7. Kept(f, g)
  BY <1>1, <1>2, <1>3, <1>5, <1>6 DEF Kept, Calm
<1> QED
  BY <1>7 DEF g, n, m

LEMMA Starts ==
  ASSUME NEW f, Pool(f), NEW kind \in {"idleMotion", "idleExpression"}
  PROVE  Kept(f, Start(f, kind))
<1>1. kind \in IdKinds \ {"preset"} /\ kind \in Kinds
  BY KindsOfIds
<1>2. CASE f.id[kind] # 0
  BY <1>2 DEF Start, Kept
<1>3. CASE f.id[kind] = 0
  <2>1. \A i \in Nat : Held(f, i).kind # kind
    BY <1>1, <1>3, NothingAtZero, NoModifierTypes, KindsOfIds DEF Pool, Tracked
  <2>2. ~Has(f, kind)
    BY <1>1, <2>1, HasHeld DEF Pool
  <2>3. Kept(f, [Create(f, Modifier(kind)) EXCEPT !.id[kind] = NextSlot(f)])
    BY <1>1, <2>2, InstallsMore
  <2> QED
    BY <1>3, <2>3 DEF Start
<1> QED
  BY <1>2, <1>3

-----------------------------------------------------------------------------
(***************************************************************************)
(* The preset's own operations.                                            *)
(***************************************************************************)
\* What neither a preset nor a pet nor a shake writes.
Outside(f) == <<f.shown, f.restore, f.presetTime, f.happy, f.waiting, f.before, f.reacting>>

\* All of a face but its pool, its ids and the time of its preset.
Moods(f) ==
  <<f.emotion, f.shown, f.avatarLock, f.motionLock, f.restore,
    f.happy, f.waiting, f.before, f.reacting>>

LEMMA RunningTypes ==
  ASSUME NEW m \in ModifierType, m.kind \in Kinds
  PROVE  /\ m.restore \in Emotions /\ m.lock \in BOOLEAN /\ m.motion \in BOOLEAN
         /\ m.started \in BOOLEAN /\ m.over \in BOOLEAN /\ m.moves \in BOOLEAN
         /\ \A b \in BOOLEAN : [m EXCEPT !.over = b] \in ModifierType /\ [m EXCEPT !.over = b].kind = m.kind
<1>1. m \in [kind : Kinds, started : BOOLEAN, over : BOOLEAN, moves : BOOLEAN,
             restore : Emotions, lock : BOOLEAN, motion : BOOLEAN]
  BY NoModifierTypes DEF ModifierType
<1> QED
  BY <1>1 DEF ModifierType

LEMMA MoodOnly ==
  ASSUME NEW f, Pool(f), NEW g \in FaceType, g.slots = f.slots, g.free = f.free, g.id = f.id
  PROVE  /\ Pool(g) /\ PresetOf(g) = PresetOf(f) /\ (Shows(g) <=> Shows(f))
         /\ (Calm(f) => Calm(g)) /\ \A i \in Nat : Held(g, i) = Held(f, i)
<1>1. Good(g) /\ \A i \in Nat : Held(g, i) = Held(f, i)
  BY Untouched DEF Pool
<1>2. f.id["preset"] \in Nat
  BY FaceFields, KindsOfIds DEF Pool, Good
<1>3. PresetOf(g) = PresetOf(f)
  BY <1>1, <1>2 DEF PresetOf
<1>4. Tracked(g)
  BY <1>1 DEF Pool, Tracked
<1> QED
  BY <1>1, <1>3, <1>4 DEF Pool, Calm, Shows

\* A preset's slot is rewritten.
LEMMA PresetWrites ==
  ASSUME NEW f, Pool(f), Shows(f), NEW m \in ModifierType, m.kind = "preset"
  PROVE  LET s == f.id["preset"]
             g == [f EXCEPT !.slots = [f.slots EXCEPT ![s] = m]]
         IN  /\ Pool(g) /\ g.id = f.id /\ Feelings(g) = Feelings(f) /\ PresetOf(g) = m
             /\ \A i \in Nat : Held(g, i) = IF i = s THEN m ELSE Held(f, i)
<1> DEFINE s == f.id["preset"]
           g == [f EXCEPT !.slots = [f.slots EXCEPT ![s] = m]]
<1>1. s \in Nat /\ s \in DOMAIN f.slots /\ f.slots[s] = PresetOf(f) /\ Held(f, s) = PresetOf(f)
  BY PresetFound, FaceFields, KindsOfIds DEF Pool, Good, Held
<1>2. f.slots[s] # NoModifier /\ m # NoModifier
  BY <1>1, NoModifierTypes DEF Shows
<1>3. /\ Good(g) /\ g.id = f.id /\ Feelings(g) = Feelings(f)
      /\ \A i \in Nat : Held(g, i) = IF i = s THEN m ELSE Held(f, i)
  BY <1>1, <1>2, Writes DEF Pool
<1> HIDE DEF g
<1>4. PresetOf(g) = m
  BY <1>1, <1>3 DEF PresetOf
<1>5. Tracked(g)
  BY <1>1, <1>3 DEF Pool, Tracked
<1> QED
  BY <1>3, <1>4, <1>5 DEF Pool, g

LEMMA Finishes ==
  ASSUME NEW f, Pool(f), Shows(f)
  PROVE  LET s == f.id["preset"]
             m == PresetOf(f)
             g == Finish(f, s)
         IN  /\ Pool(g) /\ g.id = f.id /\ Outside(g) = Outside(f)
             /\ PresetOf(g) = [m EXCEPT !.over = TRUE]
             /\ \A i \in Nat : Held(g, i) = IF i = s THEN [m EXCEPT !.over = TRUE] ELSE Held(f, i)
             /\ (m.started /\ ~m.over =>
                   /\ g.emotion = m.restore /\ g.avatarLock = m.lock
                   /\ g.motionLock = IF m.moves THEN m.motion ELSE f.motionLock)
<1> DEFINE s == f.id["preset"]
           m == PresetOf(f)
           o == [m EXCEPT !.over = TRUE]
           h == [f EXCEPT !.slots = [f.slots EXCEPT ![s] = o]]
           g == Finish(f, s)
<1>1. s \in DOMAIN f.slots /\ f.slots[s] = m /\ m \in ModifierType /\ m.kind = "preset"
  BY PresetFound DEF Shows
<1>2. /\ o \in ModifierType /\ o.kind = "preset"
      /\ m.restore \in Emotions /\ m.lock \in BOOLEAN /\ m.motion \in BOOLEAN
  BY <1>1, RunningTypes, KindsOfIds
<1>3. (IF m.moves THEN m.motion ELSE f.motionLock) \in BOOLEAN
  BY <1>2, FaceFields DEF Pool, Good
<1> HIDE DEF o
<1>4. /\ Pool(h) /\ h.id = f.id /\ Feelings(h) = Feelings(f) /\ PresetOf(h) = o
      /\ \A i \in Nat : Held(h, i) = IF i = s THEN o ELSE Held(f, i)
  BY <1>2, PresetWrites
<1>5. CASE ~(m.started /\ ~m.over)
  <2>1. g = h
    BY <1>1, <1>5 DEF Finish, o
  <2> HIDE DEF g, h
  <2> QED
    BY <1>4, <1>5, <2>1 DEF o, g, Feelings, Outside
<1>6. CASE m.started /\ ~m.over
  <2>1. g = [f EXCEPT !.slots = [f.slots EXCEPT ![s] = o], !.emotion = m.restore,
                      !.avatarLock = m.lock,
                      !.motionLock = IF m.moves THEN m.motion ELSE f.motionLock]
    BY <1>1, <1>6 DEF Finish, o
  <2>2. g = [h EXCEPT !.emotion = m.restore, !.avatarLock = m.lock,
                      !.motionLock = IF m.moves THEN m.motion ELSE f.motionLock]
    BY <2>1 DEF Pool, Good, FaceType
  <2> HIDE DEF g, h
  <2>3. /\ g \in FaceType /\ g.slots = h.slots /\ g.free = h.free /\ g.id = h.id
        /\ g.emotion = m.restore /\ g.avatarLock = m.lock
        /\ g.motionLock = (IF m.moves THEN m.motion ELSE f.motionLock)
        /\ Outside(g) = Outside(h)
    BY <1>2, <1>3, <1>4, <2>2 DEF Pool, Good, FaceType, Outside
  <2>4. Pool(g) /\ PresetOf(g) = PresetOf(h) /\ \A i \in Nat : Held(g, i) = Held(h, i)
    BY <1>4, <2>3, MoodOnly
  <2>5. Outside(h) = Outside(f)
    BY <1>4 DEF Feelings, Outside
  <2> QED
    BY <1>4, <2>3, <2>4, <2>5 DEF g, o
<1> QED
  BY <1>5, <1>6

LEMMA FinishesExpressions ==
  ASSUME NEW f, Pool(f), Calm(f), NEW junk \in Junk
  PROVE  LET m == PresetOf(f)
             g == FinishExpressionPreset(f, junk)
         IN  /\ Pool(g) /\ Calm(g) /\ Outside(g) = Outside(f)
             /\ g.id["preset"] = 0 /\ ~Has(g, "preset") /\ PresetOf(g) = NoModifier
             /\ (f.id["preset"] = 0 => g = f)
             /\ (m.kind = "preset" /\ m.started =>
                   /\ g.emotion = m.restore /\ g.avatarLock = m.lock
                   /\ g.motionLock = IF m.moves THEN m.motion ELSE f.motionLock)
<1> DEFINE s == f.id["preset"]
           m == PresetOf(f)
           g == FinishExpressionPreset(f, junk)
<1>1. s \in Nat /\ "preset" \in IdKinds
  BY FaceFields, KindsOfIds DEF Pool, Good
<1>2. CASE s = 0
  <2>1. g = f
    BY <1>2 DEF FinishExpressionPreset
  <2>2. PresetOf(f) = NoModifier /\ ~Shows(f)
    BY <1>2, NothingAtZero, NoModifierTypes DEF PresetOf, Pool, Shows
  <2>3. ~Has(f, "preset")
    BY <2>2, PresetFound
  <2> QED
    BY <1>2, <2>1, <2>2, <2>3, NoModifierTypes
<1>3. ASSUME s # 0, NEW h, Pool(h), h.id = f.id, Outside(h) = Outside(f), g = RemoveModifier(h, "preset"),
             \A i \in Nat : Held(h, i) = Held(f, i) \/ i = s
      PROVE  /\ Pool(g) /\ Calm(g) /\ Outside(g) = Outside(f)
             /\ g.id["preset"] = 0 /\ ~Has(g, "preset") /\ PresetOf(g) = NoModifier
             /\ g.emotion = h.emotion /\ g.avatarLock = h.avatarLock /\ g.motionLock = h.motionLock
  <2> HIDE DEF g
  <2>1. /\ Pool(g) /\ g.id = [h.id EXCEPT !["preset"] = 0] /\ Feelings(g) = Feelings(h)
        /\ ~Has(g, "preset")
        /\ \A i \in Nat : Held(g, i) = IF i = s THEN NoModifier ELSE Held(h, i)
    BY <1>1, <1>3, RemovesTracked
  <2>2. Outside(g) = Outside(h) /\ g.emotion = h.emotion /\ g.avatarLock = h.avatarLock
        /\ g.motionLock = h.motionLock
    BY <2>1 DEF Feelings, Outside
  <2>3. Calm(g)
    BY <1>3, <2>1, NoModifierTypes DEF Calm
  <2>4. h.id \in [IdKinds -> Nat]
    BY <1>3, FaceFields DEF Pool, Good
  <2>5. g.id["preset"] = 0
    BY <1>1, <2>1, <2>4
  <2>6. PresetOf(g) = NoModifier
    BY <2>1, PresetFound
  <2> QED
    BY <1>3, <2>1, <2>2, <2>3, <2>5, <2>6
<1>4. CASE s # 0 /\ Miscast(f)
  <2> DEFINE h == [f EXCEPT !.emotion = junk.emotion, !.avatarLock = junk.lock,
                            !.motionLock = junk.motion]
  <2>1. g = RemoveModifier(h, "preset")
    BY <1>4 DEF FinishExpressionPreset
  <2>2. junk.emotion \in Emotions /\ junk.lock \in BOOLEAN /\ junk.motion \in BOOLEAN
    BY DEF Junk
  <2>3. /\ h \in FaceType /\ h.slots = f.slots /\ h.free = f.free /\ h.id = f.id
        /\ Outside(h) = Outside(f)
    BY <2>2 DEF Pool, Good, FaceType, Outside
  <2> HIDE DEF h, g
  <2>4. Pool(h) /\ \A i \in Nat : Held(h, i) = Held(f, i)
    BY <2>3, MoodOnly
  <2>5. m.kind # "preset"
    BY <1>4, NoModifierTypes DEF Miscast, PresetOf
  <2> HIDE DEF m
  <2> QED
    BY <1>3, <1>4, <2>1, <2>3, <2>4, <2>5 DEF g, m
<1>5. CASE s # 0 /\ ~Miscast(f) /\ Held(f, s) = NoModifier
  <2>1. g = RemoveModifier(f, "preset")
    BY <1>5 DEF FinishExpressionPreset
  <2>2. m.kind # "preset"
    BY <1>5, NoModifierTypes DEF PresetOf
  <2> HIDE DEF g, m
  <2> QED
    BY <1>3, <1>5, <2>1, <2>2 DEF g, m
<1>6. CASE s # 0 /\ ~Miscast(f) /\ Held(f, s) # NoModifier
  <2> DEFINE h == Finish(f, s)
  <2>1. g = RemoveModifier(h, "preset")
    BY <1>6 DEF FinishExpressionPreset
  <2>2. Held(f, s).kind = "preset"
    <3>1. Held(f, s).kind \in {"none", "preset"}
      BY <1>6 DEF Miscast
    <3>2. Held(f, s).kind # "none"
      BY <1>1, <1>6, HeldTypes, NoModifierTypes DEF Pool, Good
    <3> QED
      BY <3>1, <3>2
  <2>3. Shows(f) /\ Held(f, s) = m
    BY <2>2 DEF Shows, PresetOf
  <2>4. /\ Pool(h) /\ h.id = f.id /\ Outside(h) = Outside(f)
        /\ \A i \in Nat : Held(h, i) = IF i = s THEN [m EXCEPT !.over = TRUE] ELSE Held(f, i)
        /\ (m.started /\ ~m.over =>
              /\ h.emotion = m.restore /\ h.avatarLock = m.lock
              /\ h.motionLock = IF m.moves THEN m.motion ELSE f.motionLock)
    BY <2>3, Finishes
  <2>5. ~m.over
    BY <1>1, <2>3 DEF Calm
  <2> HIDE DEF h, g, m
  <2>6. /\ Pool(g) /\ Calm(g) /\ Outside(g) = Outside(f)
        /\ g.id["preset"] = 0 /\ ~Has(g, "preset") /\ PresetOf(g) = NoModifier
        /\ g.emotion = h.emotion /\ g.avatarLock = h.avatarLock /\ g.motionLock = h.motionLock
    BY <1>3, <1>6, <2>1, <2>4
  <2> QED
    BY <1>6, <2>4, <2>5, <2>6 DEF g, m
<1> QED
  BY <1>2, <1>4, <1>5, <1>6

LEMMA Clears ==
  ASSUME NEW f, Pool(f)
  PROVE  LET g == ClearFinishedPreset(f)
         IN  /\ Pool(g) /\ PresetOf(g) = PresetOf(f) /\ Moods(g) = Moods(f)
             /\ \A i \in Nat : Held(g, i) = Held(f, i)
             /\ IF f.id["preset"] # 0 /\ Held(f, f.id["preset"]) = NoModifier
                THEN g.id["preset"] = 0 /\ g.presetTime = FALSE
                ELSE g = f
<1> DEFINE g == ClearFinishedPreset(f)
           s == f.id["preset"]
<1>1. /\ f.id \in [IdKinds -> Nat] /\ "preset" \in IdKinds /\ s \in Nat
      /\ \A k \in IdKinds : f.id[k] <= Len(f.slots)
  BY FaceFields, KindsOfIds, PoolView DEF Pool, Good
<1>2. CASE ~(s # 0 /\ Held(f, s) = NoModifier)
  BY <1>2 DEF ClearFinishedPreset
<1>3. CASE s # 0 /\ Held(f, s) = NoModifier
  <2>1. g = [f EXCEPT !.id = [f.id EXCEPT !["preset"] = 0], !.presetTime = FALSE]
    BY <1>3 DEF ClearFinishedPreset
  <2> HIDE DEF g
  <2>2. /\ g \in FaceType /\ g.slots = f.slots /\ g.free = f.free
        /\ g.id = [f.id EXCEPT !["preset"] = 0] /\ g.presetTime = FALSE /\ Moods(g) = Moods(f)
    BY <1>1, <2>1 DEF Pool, Good, FaceType, Moods
  <2>3. \A i \in Nat : Held(g, i) = Held(f, i)
    BY <2>2 DEF Held
  <2>4. \A k \in IdKinds : g.id[k] = IF k = "preset" THEN 0 ELSE f.id[k]
    BY <1>1, <2>2
  <2>5. FreeOK(g.slots, g.free) /\ Len(g.slots) \in Nat
    BY <2>2, PoolView, FaceFields DEF Pool, Good
  <2>6. \A k \in IdKinds : g.id[k] <= Len(g.slots)
    BY <1>1, <2>2, <2>4, <2>5
  <2>7. Good(g)
    BY <2>2, <2>5, <2>6, PoolView DEF Good
  <2>8. \A i \in Nat : Held(f, i).kind # "preset"
    BY <1>3, NoModifierTypes, PresetFound
  <2>9. Tracked(g)
    BY <2>3, <2>4, <2>8 DEF Pool, Tracked
  <2>10. PresetOf(g) = PresetOf(f)
    BY <2>3, <2>7, <2>9, PresetKept DEF Pool
  <2> QED
    BY <1>3, <2>2, <2>3, <2>4, <1>1, <2>7, <2>9, <2>10 DEF Pool, g
<1> QED
  BY <1>2, <1>3

\* The preset that replaces the one before.
NewPreset(restore) ==
  [Modifier("preset") EXCEPT !.moves = tracking = "free", !.restore = restore]

LEMMA NewPresetTypes ==
  ASSUME NEW restore \in Emotions
  PROVE  /\ NewPreset(restore) \in ModifierType /\ NewPreset(restore).kind = "preset"
         /\ ~NewPreset(restore).over /\ ~NewPreset(restore).started
         /\ ~NewPreset(restore).lock /\ ~NewPreset(restore).motion
         /\ NewPreset(restore).restore = restore
<1>1. (tracking = "free") \in BOOLEAN /\ "preset" \in Kinds
  BY KindsOfIds
<1> QED
  BY <1>1 DEF NewPreset, Modifier, NoModifier, ModifierType

LEMMA ShowsPreset ==
  ASSUME NEW f, Pool(f), Calm(f), NEW junk \in Junk
  PROVE  LET finished == FinishExpressionPreset(f, junk)
             restore == IF f.presetTime THEN f.restore ELSE finished.emotion
             g == ShowPreset(f, junk)
         IN  /\ Pool(g) /\ Calm(g) /\ PresetOf(g) = NewPreset(restore)
             /\ g.emotion = finished.emotion /\ g.avatarLock = finished.avatarLock
             /\ g.motionLock = finished.motionLock
             /\ g.shown = f.shown /\ g.happy = f.happy /\ g.waiting = f.waiting
             /\ g.before = f.before /\ g.reacting = f.reacting /\ g.restore = restore
<1> DEFINE d == FinishExpressionPreset(f, junk)
           restore == IF f.presetTime THEN f.restore ELSE d.emotion
           h == [d EXCEPT !.restore = restore]
           m == NewPreset(restore)
           c == [Create(h, m) EXCEPT !.id["preset"] = NextSlot(h)]
           g == ShowPreset(f, junk)
<1>1. Pool(d) /\ Calm(d) /\ Outside(d) = Outside(f) /\ ~Has(d, "preset") /\ PresetOf(d) = NoModifier
  BY FinishesExpressions
<1> HIDE DEF d
<1>2. restore \in Emotions
  BY <1>1, FaceFields DEF Pool, Good
<1>3. d.restore = f.restore /\ d.shown = f.shown /\ d.happy = f.happy /\ d.waiting = f.waiting
      /\ d.before = f.before /\ d.reacting = f.reacting
  BY <1>1 DEF Outside
<1>4. g = [c EXCEPT !.presetTime = TRUE]
  <2>1. [d EXCEPT !.restore = IF f.presetTime THEN @ ELSE d.emotion] = h
    BY <1>3
  <2>2. h.restore = restore
    BY <1>1 DEF Pool, Good, FaceType
  <2>3. m = [Modifier("preset") EXCEPT !.moves = tracking = "free", !.restore = h.restore]
    BY <2>2 DEF NewPreset
  <2> HIDE DEF h, m, restore
  <2> QED
    BY <2>1, <2>3 DEF ShowPreset, d
<1> HIDE DEF restore
<1>5. m \in ModifierType /\ m.kind = "preset" /\ ~m.over
  BY <1>2, NewPresetTypes
<1>6. /\ h \in FaceType /\ h.slots = d.slots /\ h.free = d.free /\ h.id = d.id /\ h.restore = restore
      /\ h.emotion = d.emotion /\ h.avatarLock = d.avatarLock /\ h.motionLock = d.motionLock
      /\ h.shown = d.shown /\ h.happy = d.happy /\ h.waiting = d.waiting
      /\ h.before = d.before /\ h.reacting = d.reacting
  BY <1>1, <1>2 DEF Pool, Good, FaceType
<1> HIDE DEF h, m
<1>7. Pool(h) /\ Calm(h) /\ ~Has(h, "preset")
  BY <1>1, <1>6, MoodOnly DEF Has
<1>8. /\ Pool(c) /\ Feelings(c) = Feelings(h)
      /\ NextSlot(h) \in Nat \ {0} /\ c.id = [h.id EXCEPT !["preset"] = NextSlot(h)]
      /\ \A i \in Nat : Held(c, i) = IF i = NextSlot(h) THEN m ELSE Held(h, i)
  BY ONLY <1>5, <1>7, KindsOfIds, Installs
<1> HIDE DEF c
<1>9. Calm(c) /\ PresetOf(c) = m
  <2>1. Held(c, NextSlot(h)) = m
    BY <1>8
  <2> QED
    BY <1>5, <1>7, <1>8, <2>1, PresetFound DEF Calm
<1> HIDE DEF g
<1>10. /\ g \in FaceType /\ g.slots = c.slots /\ g.free = c.free /\ g.id = c.id
       /\ Moods(g) = Moods(c)
  BY <1>4, <1>8 DEF Pool, Good, FaceType, Moods
<1>11. Pool(g) /\ PresetOf(g) = PresetOf(c) /\ Calm(g)
  BY <1>8, <1>9, <1>10, MoodOnly
<1>12. Moods(c) = Moods(h)
  BY <1>8 DEF Feelings, Moods
<1> QED
  BY <1>3, <1>6, <1>9, <1>10, <1>11, <1>12 DEF Moods, g, m, restore, d

-----------------------------------------------------------------------------
(***************************************************************************)
(* What holds of a face, between passes and during one, while no preset is *)
(* lost. A preset that is still to start has no locks; one that is over no *)
(* longer counts.                                                          *)
(***************************************************************************)
Reached(f) == f.id["preset"] # 0 \/ f.presetTime => Shows(f)

Runs(f) == Shows(f) /\ PresetOf(f).started /\ ~PresetOf(f).over

LocksOK(f) ==
  /\ Shows(f) => ~PresetOf(f).lock /\ ~PresetOf(f).motion
  /\ f.avatarLock => f.reacting \/ Runs(f)
  /\ f.motionLock => f.reacting \/ (Runs(f) /\ PresetOf(f).moves)

Overlays(f) == Shows(f) /\ ~PresetOf(f).over

EmotionsOK(f) ==
  /\ f.waiting => f.happy
  /\ f.shown = "none" => ~f.happy /\ ~Overlays(f)
  /\ f.shown # "none" =>
       /\ f.happy => f.before = EmotionOf(f.shown) /\ ~Overlays(f)
       /\ ~f.happy /\ ~Overlays(f) => f.emotion = EmotionOf(f.shown)
       /\ Overlays(f) => PresetOf(f).restore = EmotionOf(f.shown) /\ f.restore = EmotionOf(f.shown)

\* Between two passes nothing is over, and the preset has started.
Settled(f) == Calm(f) /\ (Shows(f) => PresetOf(f).started)

LEMMA KeptHolds ==
  ASSUME NEW f, NEW g, Kept(f, g)
  PROVE  /\ Reached(f) => Reached(g)
         /\ LocksOK(f) => LocksOK(g)
         /\ EmotionsOK(f) => EmotionsOK(g)
         /\ Settled(f) => Settled(g)
<1>1. /\ PresetOf(g) = PresetOf(f) /\ g.id["preset"] = f.id["preset"] /\ (Calm(f) => Calm(g))
      /\ g.emotion = f.emotion /\ g.shown = f.shown /\ g.avatarLock = f.avatarLock
      /\ g.motionLock = f.motionLock /\ g.restore = f.restore /\ g.presetTime = f.presetTime
      /\ g.happy = f.happy /\ g.waiting = f.waiting /\ g.before = f.before /\ g.reacting = f.reacting
  BY DEF Kept, Feelings
<1>2. (Shows(g) <=> Shows(f)) /\ (Runs(g) <=> Runs(f)) /\ (Overlays(g) <=> Overlays(f))
  BY <1>1 DEF Shows, Runs, Overlays
<1> QED
  BY <1>1, <1>2 DEF Reached, LocksOK, EmotionsOK, Settled

-----------------------------------------------------------------------------
(***************************************************************************)
(* The command that waits.                                                 *)
(***************************************************************************)
LEMMA Reacts ==
  ASSUME NEW f, Pool(f), Settled(f), NEW junk \in Junk, pending \in {"none", "preset", "json"}
  PROVE  LET g == React(f, junk)
         IN  /\ Pool(g) /\ Calm(g) /\ g.shown = f.shown /\ g.happy = f.happy
             /\ (Reached(f) => Reached(g))
             /\ (Reached(f) /\ LocksOK(f) => LocksOK(g))
             /\ (Reached(f) /\ EmotionsOK(f) /\ (Shows(g) => g.shown # "none" /\ ~g.happy) => EmotionsOK(g))
<1> DEFINE g == React(f, junk)
           c == ClearFinishedPreset(f)
           d == FinishExpressionPreset(c, junk)
           m == PresetOf(f)
<1>1. CASE pending = "none"
  <2>1. g = f
    BY <1>1 DEF React
  <2> HIDE DEF g
  <2> QED
    BY <2>1 DEF Settled, g
<1>2. /\ Pool(c) /\ Calm(c) /\ PresetOf(c) = m /\ Moods(c) = Moods(f)
      /\ (Reached(f) => c = f)
  <2>1. /\ Pool(c) /\ PresetOf(c) = m /\ Moods(c) = Moods(f)
        /\ \A i \in Nat : Held(c, i) = Held(f, i)
        /\ IF f.id["preset"] # 0 /\ Held(f, f.id["preset"]) = NoModifier
           THEN c.id["preset"] = 0 /\ c.presetTime = FALSE ELSE c = f
    BY Clears
  <2>2. Reached(f) /\ f.id["preset"] # 0 => Held(f, f.id["preset"]) # NoModifier
    BY NoModifierTypes DEF Reached, Shows, PresetOf
  <2> HIDE DEF c
  <2> QED
    BY <2>1, <2>2 DEF Settled, Calm
<1> HIDE DEF c, m
<1>3. /\ Pool(d) /\ Calm(d) /\ Outside(d) = Outside(c)
      /\ d.id["preset"] = 0 /\ ~Has(d, "preset") /\ PresetOf(d) = NoModifier
      /\ (c.id["preset"] = 0 => d = c)
      /\ (m.kind = "preset" /\ m.started =>
            /\ d.emotion = m.restore /\ d.avatarLock = m.lock
            /\ d.motionLock = IF m.moves THEN m.motion ELSE c.motionLock)
  BY <1>2, FinishesExpressions
<1>4. d.shown = c.shown /\ d.happy = c.happy /\ d.waiting = c.waiting /\ d.before = c.before
      /\ d.reacting = c.reacting /\ d.restore = c.restore /\ d.presetTime = c.presetTime
  BY <1>3 DEF Outside
<1>5. c.shown = f.shown /\ c.happy = f.happy
  BY <1>2 DEF Moods
<1>6. Shows(f) <=> m.kind = "preset"
  BY DEF Shows, m
<1>7. (Shows(f) => m.started /\ ~m.over) /\ (Reached(f) /\ ~Shows(f) => d = f /\ ~f.presetTime)
  <2>1. f.id["preset"] \in Nat
    BY FaceFields, KindsOfIds DEF Pool, Good
  <2>2. Shows(f) => m.started /\ ~m.over
    BY <2>1, <1>6, NoModifierTypes DEF Settled, Calm, m, PresetOf
  <2> QED
    BY <1>2, <1>3, <2>2 DEF Reached
<1> HIDE DEF d
<1>8. \* What is left when the preset is finished
      /\ Reached(f) /\ LocksOK(f) => (d.avatarLock => d.reacting) /\ (d.motionLock => d.reacting)
      /\ Reached(f) /\ EmotionsOK(f) =>
           /\ d.waiting => d.happy
           /\ d.shown = "none" => ~d.happy
           /\ d.shown # "none" /\ d.happy => d.before = EmotionOf(d.shown)
           /\ d.shown # "none" /\ ~d.happy =>
                d.emotion = EmotionOf(d.shown) /\ (f.presetTime => d.restore = EmotionOf(d.shown))
  <2>1. CASE ~Shows(f)
    BY <1>7, <2>1 DEF LocksOK, EmotionsOK, Runs, Overlays
  <2>2. CASE Shows(f)
    <3>1. Reached(f) => c = f
      BY <1>2
    <3>2. /\ d.emotion = m.restore /\ d.avatarLock = m.lock
          /\ d.motionLock = IF m.moves THEN m.motion ELSE c.motionLock
      BY <1>3, <1>6, <1>7, <2>2
    <3>3. Reached(f) /\ LocksOK(f) => (d.avatarLock => d.reacting) /\ (d.motionLock => d.reacting)
      BY <1>4, <2>2, <3>1, <3>2 DEF LocksOK, m
    <3>4. Overlays(f)
      BY <1>7, <2>2 DEF Overlays, m
    <3>5. ASSUME Reached(f), EmotionsOK(f)
          PROVE  /\ ~f.waiting /\ ~f.happy /\ f.shown # "none"
                 /\ m.restore = EmotionOf(f.shown) /\ f.restore = EmotionOf(f.shown)
      BY <3>4, <3>5 DEF EmotionsOK, m
    <3> QED
      BY <1>4, <3>1, <3>2, <3>3, <3>5
  <2> QED
    BY <2>1, <2>2
<1>9. CASE pending = "json"
  <2>1. g = [d EXCEPT !.presetTime = FALSE]
    BY <1>9 DEF React, d, c
  <2> HIDE DEF g
  <2>2. /\ g \in FaceType /\ g.slots = d.slots /\ g.free = d.free /\ g.id = d.id
        /\ Moods(g) = Moods(d) /\ g.presetTime = FALSE
    BY <1>3, <2>1 DEF Pool, Good, FaceType, Moods
  <2>3. Pool(g) /\ PresetOf(g) = NoModifier /\ Calm(g) /\ g.id["preset"] = 0
    BY <1>3, <2>2, MoodOnly
  <2>4. ~Shows(g) /\ ~Runs(g) /\ ~Overlays(g)
    BY <2>3, NoModifierTypes DEF Shows, Runs, Overlays
  <2>5. g.emotion = d.emotion /\ g.shown = d.shown /\ g.avatarLock = d.avatarLock
        /\ g.motionLock = d.motionLock /\ g.happy = d.happy /\ g.waiting = d.waiting
        /\ g.before = d.before /\ g.reacting = d.reacting
    BY <2>2 DEF Moods
  <2>6. Reached(f) => Reached(g)
    BY <2>2, <2>3 DEF Reached
  <2>7. Reached(f) /\ LocksOK(f) => LocksOK(g)
    BY <1>8, <2>4, <2>5 DEF LocksOK
  <2>8. Reached(f) /\ EmotionsOK(f) => EmotionsOK(g)
    BY <1>8, <2>4, <2>5 DEF EmotionsOK
  <2> QED
    BY <1>4, <1>5, <2>3, <2>5, <2>6, <2>7, <2>8 DEF g
<1>10. CASE pending = "preset"
  <2> DEFINE restore == IF c.presetTime THEN c.restore ELSE d.emotion
             n == NewPreset(restore)
  <2>1. g = ShowPreset(c, junk)
    BY <1>10 DEF React, c
  <2>2. /\ Pool(g) /\ Calm(g) /\ PresetOf(g) = n
        /\ g.emotion = d.emotion /\ g.avatarLock = d.avatarLock /\ g.motionLock = d.motionLock
        /\ g.shown = c.shown /\ g.happy = c.happy /\ g.waiting = c.waiting
        /\ g.before = c.before /\ g.reacting = c.reacting /\ g.restore = restore
    BY <1>2, <2>1, ShowsPreset DEF d
  <2>3. restore \in Emotions
    BY <1>2, <1>3, FaceFields DEF Pool, Good
  <2> HIDE DEF g
  <2>4. n.kind = "preset" /\ ~n.over /\ ~n.started /\ ~n.lock /\ ~n.motion /\ n.restore = restore
    BY <2>3, NewPresetTypes
  <2> HIDE DEF n
  <2>5. Shows(g) /\ Overlays(g)
    BY <2>2, <2>4 DEF Shows, Overlays
  <2>6. Reached(g)
    BY <2>5 DEF Reached
  <2>7. Reached(f) /\ LocksOK(f) => LocksOK(g)
    BY <1>4, <1>8, <2>2, <2>4, <2>5 DEF LocksOK
  <2>8. ASSUME Reached(f), EmotionsOK(f), g.shown # "none", ~g.happy
        PROVE  EmotionsOK(g)
    <3>1. c.presetTime = f.presetTime
      BY <1>2, <2>8
    <3>2. restore = EmotionOf(g.shown) /\ ~g.waiting
      BY <1>4, <1>8, <2>2, <2>8, <3>1
    <3> QED
      BY <2>2, <2>4, <2>5, <2>8, <3>2 DEF EmotionsOK
  <2> QED
    BY <1>5, <2>2, <2>5, <2>6, <2>7, <2>8 DEF g
<1> QED
  BY <1>1, <1>9, <1>10

-----------------------------------------------------------------------------
(***************************************************************************)
(* The base modifiers: they change the mood and not the pool.              *)
(***************************************************************************)
LEMMA EmotionTypes ==
  ASSUME NEW m \in Modes
  PROVE  EmotionOf(m) \in Emotions /\ m # "none"
BY DEF Modes, EmotionOf, Emotions

LEMMA ShowsMode ==
  ASSUME NEW f, Pool(f), mode \in Modes
  PROVE  LET g == ShowMode(f)
         IN  /\ Pool(g) /\ PresetOf(g) = PresetOf(f) /\ (Calm(f) => Calm(g)) /\ g.shown = mode
             /\ (Reached(f) => Reached(g)) /\ (LocksOK(f) => LocksOK(g))
             /\ (EmotionsOK(f) /\ (Shows(f) \/ f.happy => f.shown = mode) => EmotionsOK(g))
<1> DEFINE g == ShowMode(f)
           h == [f EXCEPT !.shown = mode, !.emotion = EmotionOf(mode)]
<1>1. CASE mode = f.shown
  <2>1. g = f
    BY <1>1 DEF ShowMode
  <2> HIDE DEF g
  <2> QED
    BY <1>1, <2>1 DEF g
<1>2. CASE mode # f.shown
  <2>1. EmotionOf(mode) \in Emotions /\ mode # "none"
    BY EmotionTypes
  <2>2. /\ h \in FaceType /\ h.slots = f.slots /\ h.free = f.free /\ h.id = f.id
        /\ h.shown = mode /\ h.emotion = EmotionOf(mode)
        /\ h.avatarLock = f.avatarLock /\ h.motionLock = f.motionLock
        /\ h.presetTime = f.presetTime /\ h.happy = f.happy /\ h.waiting = f.waiting
        /\ h.reacting = f.reacting
    BY <2>1 DEF Pool, Good, FaceType
  <2>3. g = IF mode = "Speaking" THEN Create(h, Modifier("speaking")) ELSE h
    BY <1>2 DEF ShowMode
  <2> HIDE DEF g, h
  <2>4. Pool(h) /\ PresetOf(h) = PresetOf(f) /\ (Shows(h) <=> Shows(f)) /\ (Calm(f) => Calm(h))
    BY <2>2, MoodOnly
  <2>5. Kept(h, g)
    BY <2>3, <2>4, CreatesMore DEF Kept
  <2>6. Runs(h) <=> Runs(f)
    BY <2>4 DEF Runs
  <2>7. (Reached(f) => Reached(h)) /\ (LocksOK(f) => LocksOK(h))
    BY <2>2, <2>4, <2>6 DEF Reached, LocksOK
  <2>8. ASSUME EmotionsOK(f), Shows(f) \/ f.happy => f.shown = mode
        PROVE  EmotionsOK(h)
    <3>1. ~Shows(f) /\ ~f.happy /\ ~f.waiting
      BY <1>2, <2>8 DEF EmotionsOK
    <3>2. ~Overlays(h)
      BY <2>4, <3>1 DEF Overlays
    <3> QED
      BY <2>1, <2>2, <3>1, <3>2 DEF EmotionsOK
  <2>9. g.shown = mode
    BY <2>2, <2>5 DEF Kept, Feelings
  <2> QED
    BY <2>4, <2>5, <2>7, <2>8, <2>9, KeptHolds DEF Kept, g
<1> QED
  BY <1>1, <1>2

LEMMA Pets ==
  ASSUME NEW f, Pool(f), NEW time
  PROVE  LET g == UpdateHeadPet(f, time)
         IN  /\ Pool(g) /\ PresetOf(g) = PresetOf(f) /\ (Calm(f) => Calm(g)) /\ g.shown = f.shown
             /\ g.reacting = f.reacting
             /\ (Reached(f) => Reached(g)) /\ (LocksOK(f) => LocksOK(g))
             /\ (EmotionsOK(f) /\ f.shown # "none" /\ (g.happy => ~Shows(f)) => EmotionsOK(g))
<1> DEFINE s == Swipe(f)
           r == Release(s)
           g == UpdateHeadPet(f, time)
<1>1. /\ s \in FaceType /\ s.slots = f.slots /\ s.free = f.free /\ s.id = f.id
      /\ s.shown = f.shown /\ s.avatarLock = f.avatarLock /\ s.motionLock = f.motionLock
      /\ s.restore = f.restore /\ s.presetTime = f.presetTime /\ s.reacting = f.reacting
      /\ IF "swipe" \in flags
         THEN s.happy /\ ~s.waiting /\ s.before = IF f.happy THEN f.before ELSE f.emotion
         ELSE s = f
  <2>1. CASE "swipe" \notin flags
    BY <2>1 DEF Swipe, Pool, Good
  <2>2. CASE "swipe" \in flags
    <3>1. s = [f EXCEPT !.before = IF f.happy THEN f.before ELSE f.emotion,
                        !.happy = TRUE, !.emotion = "Happy", !.waiting = FALSE]
      BY <2>2 DEF Swipe
    <3>2. (IF f.happy THEN f.before ELSE f.emotion) \in Emotions /\ "Happy" \in Emotions
      BY FaceFields DEF Pool, Good, Emotions
    <3> HIDE DEF s
    <3> QED
      BY <2>2, <3>1, <3>2 DEF Pool, Good, FaceType
  <2> QED
    BY <2>1, <2>2
<1> HIDE DEF s
<1>2. /\ r \in FaceType /\ r.slots = s.slots /\ r.free = s.free /\ r.id = s.id
      /\ r.shown = s.shown /\ r.avatarLock = s.avatarLock /\ r.motionLock = s.motionLock
      /\ r.restore = s.restore /\ r.presetTime = s.presetTime /\ r.reacting = s.reacting
      /\ r.happy = s.happy /\ r.before = s.before /\ r.emotion = s.emotion
      /\ (r.waiting => s.waiting \/ s.happy)
  <2>1. r = s \/ (s.happy /\ r = [s EXCEPT !.waiting = TRUE])
    BY DEF Release
  <2> HIDE DEF r
  <2> QED
    BY <1>1, <2>1 DEF FaceType
<1> HIDE DEF r
<1>3. /\ g \in FaceType /\ g.slots = r.slots /\ g.free = r.free /\ g.id = r.id
      /\ g.shown = r.shown /\ g.avatarLock = r.avatarLock /\ g.motionLock = r.motionLock
      /\ g.restore = r.restore /\ g.presetTime = r.presetTime /\ g.reacting = r.reacting
      /\ g.before = r.before
      /\ \/ g = r
         \/ r.waiting /\ ~g.waiting /\ ~g.happy /\ g.emotion = r.before
  <2>1. g = r \/ (r.waiting /\ g = [r EXCEPT !.waiting = FALSE, !.happy = FALSE, !.emotion = r.before])
    BY DEF UpdateHeadPet, r, s
  <2>2. r.before \in Emotions
    BY <1>2, FaceFields
  <2> HIDE DEF g
  <2>3. CASE g = r
    BY <1>2, <2>3
  <2>4. CASE r.waiting /\ g = [r EXCEPT !.waiting = FALSE, !.happy = FALSE, !.emotion = r.before]
    BY <1>2, <2>2, <2>4 DEF FaceType
  <2> QED
    BY <2>1, <2>3, <2>4
<1> HIDE DEF g
<1>4. /\ g.slots = f.slots /\ g.free = f.free /\ g.id = f.id /\ g.shown = f.shown
      /\ g.avatarLock = f.avatarLock /\ g.motionLock = f.motionLock
      /\ g.restore = f.restore /\ g.presetTime = f.presetTime /\ g.reacting = f.reacting
  BY <1>1, <1>2, <1>3
<1>5. Pool(g) /\ PresetOf(g) = PresetOf(f) /\ (Shows(g) <=> Shows(f)) /\ (Calm(f) => Calm(g))
  BY <1>3, <1>4, MoodOnly
<1>6. (Runs(g) <=> Runs(f)) /\ (Overlays(g) <=> Overlays(f))
  BY <1>5 DEF Runs, Overlays
<1>7. (Reached(f) => Reached(g)) /\ (LocksOK(f) => LocksOK(g))
  BY <1>4, <1>5, <1>6 DEF Reached, LocksOK
<1>8. ASSUME EmotionsOK(f), f.shown # "none", g.happy => ~Shows(f)
      PROVE  EmotionsOK(g)
  <2>1. g.waiting => g.happy
    BY <1>1, <1>2, <1>3, <1>8 DEF EmotionsOK
  <2>2. Overlays(g) => PresetOf(g).restore = EmotionOf(g.shown) /\ g.restore = EmotionOf(g.shown)
    BY <1>4, <1>5, <1>6, <1>8 DEF EmotionsOK
  <2>3. \* An overlay below the pet keeps the emotion to itself
        ~Overlays(f) => /\ f.happy => f.before = EmotionOf(f.shown)
                        /\ ~f.happy => f.emotion = EmotionOf(f.shown)
    BY <1>8 DEF EmotionsOK
  <2>4. ~Overlays(f) /\ r.happy => r.before = EmotionOf(f.shown)
    BY <1>1, <1>2, <2>3
  <2>5. ~r.happy => r.emotion = f.emotion /\ ~f.happy
    BY <1>1, <1>2
  <2>6. g.happy => g.before = EmotionOf(g.shown) /\ ~Overlays(g)
    <3>1. g.happy => ~Overlays(f) /\ r.happy
      BY <1>3, <1>8 DEF Overlays
    <3> QED
      BY <1>3, <1>4, <1>6, <2>4, <3>1
  <2>7. ~g.happy /\ ~Overlays(g) => g.emotion = EmotionOf(g.shown)
    <3>1. r.waiting => r.happy
      BY <1>1, <1>2, <1>8 DEF EmotionsOK
    <3> QED
      BY <1>3, <1>4, <1>6, <2>3, <2>4, <2>5, <3>1
  <2> QED
    BY <1>4, <1>8, <2>1, <2>2, <2>6, <2>7 DEF EmotionsOK
<1> QED
  BY <1>4, <1>5, <1>7, <1>8 DEF g

LEMMA Shakes ==
  ASSUME NEW f, Pool(f), NEW time
  PROVE  LET g == UpdateImu(f, time)
         IN  /\ Pool(g) /\ PresetOf(g) = PresetOf(f) /\ (Calm(f) => Calm(g)) /\ g.shown = f.shown
             /\ g.happy = f.happy
             /\ (Reached(f) => Reached(g)) /\ (LocksOK(f) => LocksOK(g))
             /\ (EmotionsOK(f) => EmotionsOK(g))
<1> DEFINE started == "shake" \in flags /\ ~f.reacting
           s == [f EXCEPT !.reacting = f.reacting \/ started, !.avatarLock = f.avatarLock \/ started]
           g == UpdateImu(f, time)
<1>1. f.reacting \in BOOLEAN /\ f.avatarLock \in BOOLEAN
  BY FaceFields DEF Pool, Good
<1>2. /\ (f.reacting \/ started) \in BOOLEAN /\ (f.avatarLock \/ started) \in BOOLEAN
      /\ (f.avatarLock \/ started => f.avatarLock \/ (f.reacting \/ started))
      /\ (f.reacting => f.reacting \/ started)
  BY <1>1
<1>3. /\ s \in FaceType /\ s.slots = f.slots /\ s.free = f.free /\ s.id = f.id
      /\ s.shown = f.shown /\ s.motionLock = f.motionLock /\ s.emotion = f.emotion
      /\ s.restore = f.restore /\ s.presetTime = f.presetTime
      /\ s.happy = f.happy /\ s.waiting = f.waiting /\ s.before = f.before
      /\ (s.avatarLock => f.avatarLock \/ s.reacting) /\ (f.reacting => s.reacting)
  BY <1>2 DEF Pool, Good, FaceType
<1>4. \/ ~s.reacting /\ g = s
      \/ g = [s EXCEPT !.reacting = FALSE, !.avatarLock = FALSE, !.motionLock = FALSE]
      \/ s.reacting /\ g = [s EXCEPT !.motionLock = TRUE]
  BY DEF UpdateImu
<1> HIDE DEF s, g
<1>5. /\ g \in FaceType /\ g.slots = f.slots /\ g.free = f.free /\ g.id = f.id
      /\ g.shown = f.shown /\ g.emotion = f.emotion
      /\ g.restore = f.restore /\ g.presetTime = f.presetTime
      /\ g.happy = f.happy /\ g.waiting = f.waiting /\ g.before = f.before
      /\ \/ ~g.avatarLock /\ ~g.motionLock
         \/ g.reacting
         \/ /\ ~g.reacting /\ ~f.reacting /\ (g.avatarLock => f.avatarLock)
            /\ g.motionLock = f.motionLock
  BY <1>3, <1>4 DEF FaceType
<1>6. Pool(g) /\ PresetOf(g) = PresetOf(f) /\ (Shows(g) <=> Shows(f)) /\ (Calm(f) => Calm(g))
  BY <1>5, MoodOnly
<1>7. (Runs(g) <=> Runs(f)) /\ (Overlays(g) <=> Overlays(f))
  BY <1>6 DEF Runs, Overlays
<1>8. (Reached(f) => Reached(g)) /\ (LocksOK(f) => LocksOK(g)) /\ (EmotionsOK(f) => EmotionsOK(g))
  BY <1>5, <1>6, <1>7 DEF Reached, LocksOK, EmotionsOK
<1> QED
  BY <1>5, <1>6, <1>8 DEF g

-----------------------------------------------------------------------------
(***************************************************************************)
(* The modifiers of the pool.                                              *)
(***************************************************************************)
LEMMA StartsPreset ==
  ASSUME NEW f, Pool(f), Shows(f)
  PROVE  LET s == f.id["preset"]
             m == PresetOf(f)
             g == StartPreset(f, s)
         IN  /\ Pool(g) /\ g.id = f.id /\ Outside(g) = Outside(f)
             /\ PresetOf(g) = [m EXCEPT !.started = TRUE, !.lock = f.avatarLock, !.motion = f.motionLock]
             /\ g.motionLock = (f.motionLock \/ m.moves)
<1> DEFINE s == f.id["preset"]
           m == PresetOf(f)
           o == [m EXCEPT !.started = TRUE, !.lock = f.avatarLock, !.motion = f.motionLock]
           h == [f EXCEPT !.slots = [f.slots EXCEPT ![s] = o]]
           g == StartPreset(f, s)
<1>1. s \in DOMAIN f.slots /\ f.slots[s] = m /\ m \in ModifierType /\ m.kind = "preset"
  BY PresetFound DEF Shows
<1>2. m.kind \in Kinds /\ m.moves \in BOOLEAN /\ f.avatarLock \in BOOLEAN /\ f.motionLock \in BOOLEAN
  BY <1>1, RunningTypes, FaceFields, KindsOfIds DEF Pool, Good
<1>3. o \in ModifierType /\ o.kind = "preset"
  <2>1. m \in [kind : Kinds, started : BOOLEAN, over : BOOLEAN, moves : BOOLEAN,
               restore : Emotions, lock : BOOLEAN, motion : BOOLEAN]
    BY <1>1, <1>2, NoModifierTypes DEF ModifierType
  <2> HIDE DEF m
  <2> QED
    BY <1>1, <1>2, <2>1 DEF ModifierType
<1>4. g = [f EXCEPT !.slots = [f.slots EXCEPT ![s] = o], !.avatarLock = TRUE,
                    !.motionLock = f.motionLock \/ m.moves, !.emotion = "Sad"]
  <2>1. f \in FaceType /\ DOMAIN f.slots = 1..Len(f.slots)
    BY FaceFields DEF Pool, Good
  <2> HIDE DEF m, s
  <2> QED
    BY <1>1, <2>1 DEF StartPreset, FaceType
<1> HIDE DEF o
<1>5. /\ Pool(h) /\ h.id = f.id /\ Feelings(h) = Feelings(f) /\ PresetOf(h) = o
  BY <1>3, PresetWrites
<1>6. g = [h EXCEPT !.avatarLock = TRUE, !.motionLock = f.motionLock \/ m.moves, !.emotion = "Sad"]
  BY <1>4 DEF Pool, Good, FaceType
<1>7. (f.motionLock \/ m.moves) \in BOOLEAN /\ "Sad" \in Emotions
  BY <1>2 DEF Emotions
<1> HIDE DEF g, h
<1>8. /\ g \in FaceType /\ g.slots = h.slots /\ g.free = h.free /\ g.id = h.id
      /\ g.motionLock = (f.motionLock \/ m.moves) /\ Outside(g) = Outside(h)
  BY <1>5, <1>6, <1>7 DEF Pool, Good, FaceType, Outside
<1>9. Pool(g) /\ PresetOf(g) = PresetOf(h)
  BY <1>5, <1>8, MoodOnly
<1>10. Outside(h) = Outside(f)
  BY <1>5 DEF Feelings, Outside
<1> QED
  BY <1>5, <1>8, <1>9, <1>10 DEF g, o

LEMMA UpdatesPreset ==
  ASSUME NEW f, Pool(f), Calm(f), NEW ended
  PROVE  LET g == UpdatePreset(f, ended)
         IN  /\ Pool(g) /\ g.shown = f.shown /\ g.happy = f.happy /\ g.reacting = f.reacting
             /\ (Shows(g) => PresetOf(g).started)
             /\ (Reached(f) => Reached(g))
             /\ (LocksOK(f) /\ (Overlays(g) => ~f.reacting) => LocksOK(g))
             /\ (EmotionsOK(f) => EmotionsOK(g))
<1> DEFINE s == f.id["preset"]
           m == PresetOf(f)
           g == UpdatePreset(f, ended)
<1>1. CASE ~Shows(f)
  <2>1. g = f
    BY <1>1, PresetFound DEF UpdatePreset
  <2> HIDE DEF g
  <2> QED
    BY <1>1, <2>1 DEF g
<1>2. CASE Shows(f)
  <2>1. Has(f, "preset") /\ s \in DOMAIN f.slots /\ f.slots[s] = m /\ m \in ModifierType
        /\ m.kind = "preset" /\ Held(f, s) = m /\ s \in Nat
    BY <1>2, PresetFound, FaceFields, KindsOfIds DEF Shows, Held, Pool, Good
  <2>2. (CHOOSE i \in DOMAIN f.slots : f.slots[i].kind = "preset") = s
    <3>1. ASSUME NEW i \in DOMAIN f.slots, f.slots[i].kind = "preset"
          PROVE  i = s
      <4>1. i \in Nat /\ Held(f, i) = f.slots[i]
        BY FaceFields DEF Pool, Good, Held
      <4> QED
        BY <3>1, <4>1, PresetFound
    <3> QED
      BY <2>1, <3>1
  <2>3. g = IF ~m.started THEN StartPreset(f, s) ELSE IF s \in ended THEN Finish(f, s) ELSE f
    BY <2>1, <2>2 DEF UpdatePreset
  <2>4. ~m.over /\ Overlays(f)
    BY <1>2, <2>1 DEF Calm, Overlays
  <2>5. m.started \in BOOLEAN /\ m.moves \in BOOLEAN /\ m.lock \in BOOLEAN /\ m.motion \in BOOLEAN
        /\ f.avatarLock \in BOOLEAN /\ f.motionLock \in BOOLEAN
    BY <2>1, RunningTypes, KindsOfIds, FaceFields DEF Pool, Good
  <2>6. CASE ~m.started
    <3> DEFINE o == [m EXCEPT !.started = TRUE, !.lock = f.avatarLock, !.motion = f.motionLock]
    <3>1. g = StartPreset(f, s)
      BY <2>3, <2>6
    <3>2. /\ Pool(g) /\ g.id = f.id /\ Outside(g) = Outside(f) /\ PresetOf(g) = o
          /\ g.motionLock = (f.motionLock \/ m.moves)
      BY <1>2, <3>1, StartsPreset
    <3>3. o.kind = "preset" /\ o.started /\ ~o.over /\ o.lock = f.avatarLock /\ o.motion = f.motionLock
          /\ o.moves = m.moves /\ o.restore = m.restore
      BY <2>1, <2>4, NoModifierTypes DEF ModifierType
    <3> HIDE DEF o, g
    <3>4. g.shown = f.shown /\ g.restore = f.restore /\ g.presetTime = f.presetTime /\ g.happy = f.happy
          /\ g.waiting = f.waiting /\ g.before = f.before /\ g.reacting = f.reacting
      BY <3>2 DEF Outside
    <3>5. Shows(g) /\ Runs(g) /\ Overlays(g)
      BY <3>2, <3>3 DEF Shows, Runs, Overlays
    <3>6. ~Runs(f)
      BY <2>6 DEF Runs
    <3>7. LocksOK(f) /\ ~f.reacting => LocksOK(g)
      BY <2>5, <3>2, <3>3, <3>4, <3>5, <3>6 DEF LocksOK
    <3>8. EmotionsOK(f) => EmotionsOK(g)
      BY <2>4, <3>2, <3>3, <3>4, <3>5 DEF EmotionsOK
    <3> QED
      BY <3>2, <3>3, <3>4, <3>5, <3>7, <3>8 DEF Reached, g
  <2>7. CASE m.started /\ s \in ended
    <3> DEFINE o == [m EXCEPT !.over = TRUE]
    <3>1. g = Finish(f, s)
      BY <2>3, <2>7
    <3>2. /\ Pool(g) /\ g.id = f.id /\ Outside(g) = Outside(f) /\ PresetOf(g) = o
          /\ g.emotion = m.restore /\ g.avatarLock = m.lock
          /\ g.motionLock = IF m.moves THEN m.motion ELSE f.motionLock
      BY <1>2, <2>4, <2>7, <3>1, Finishes
    <3>3. o.kind = "preset" /\ o.started /\ o.over /\ o.lock = m.lock /\ o.motion = m.motion
      BY <2>1, <2>7, NoModifierTypes DEF ModifierType
    <3> HIDE DEF o, g
    <3>4. g.shown = f.shown /\ g.restore = f.restore /\ g.presetTime = f.presetTime /\ g.happy = f.happy
          /\ g.waiting = f.waiting /\ g.before = f.before /\ g.reacting = f.reacting
      BY <3>2 DEF Outside
    <3>5. Shows(g) /\ ~Runs(g) /\ ~Overlays(g)
      BY <3>2, <3>3 DEF Shows, Runs, Overlays
    <3>7. LocksOK(f) => LocksOK(g)
      BY <1>2, <2>5, <3>2, <3>3, <3>4, <3>5 DEF LocksOK
    <3>8. EmotionsOK(f) => EmotionsOK(g)
      BY <2>4, <3>2, <3>3, <3>4, <3>5 DEF EmotionsOK
    <3> QED
      BY <3>2, <3>3, <3>4, <3>5, <3>7, <3>8 DEF Reached, g
  <2>8. CASE m.started /\ s \notin ended
    <3>1. g = f
      BY <2>3, <2>8
    <3> HIDE DEF g
    <3> QED
      BY <2>8, <3>1 DEF g
  <2> QED
    BY <2>5, <2>6, <2>7, <2>8
<1> QED
  BY <1>1, <1>2

LEMMA UpdatesTimed ==
  ASSUME NEW m \in ModifierType, NEW up \in BOOLEAN
  PROVE  LET new == UpdateTimed(m, up)
         IN  new \in ModifierType /\ new.kind = m.kind /\ (m.kind = "preset" => new = m)
<1> DEFINE Running == [kind : Kinds, started : BOOLEAN, over : BOOLEAN, moves : BOOLEAN,
                       restore : Emotions, lock : BOOLEAN, motion : BOOLEAN]
           new == UpdateTimed(m, up)
<1>1. CASE m.kind \in {"dance", "speaking"}
  <2>1. m \in Running
    BY <1>1, NoModifierTypes DEF ModifierType
  <2>2. (m.over \/ up) \in BOOLEAN
    BY <2>1
  <2>3. new = [m EXCEPT !.over = m.over \/ up]
    BY <1>1 DEF UpdateTimed
  <2> HIDE DEF new
  <2>4. new \in Running /\ new.kind = m.kind
    BY <2>1, <2>2, <2>3
  <2> QED
    BY <1>1, <2>4 DEF ModifierType, new
<1>2. CASE m.kind = "speech"
  <2>1. m \in Running
    BY <1>2, NoModifierTypes DEF ModifierType
  <2>2. (m.started /\ up) \in BOOLEAN
    BY <2>1
  <2>3. new = [m EXCEPT !.over = m.started /\ up, !.started = TRUE]
    BY <1>2 DEF UpdateTimed
  <2> HIDE DEF new
  <2>4. new \in Running /\ new.kind = m.kind
    BY <2>1, <2>2, <2>3
  <2> QED
    BY <1>2, <2>4 DEF ModifierType, new
<1>3. CASE m.kind \notin {"dance", "speaking", "speech"}
  BY <1>3 DEF UpdateTimed
<1> QED
  BY <1>1, <1>2, <1>3

LEMMA UpdatesOthers ==
  ASSUME NEW f, Pool(f), NEW ended
  PROVE  LET g == UpdateOthers(f, ended)
         IN  Pool(g) /\ PresetOf(g) = PresetOf(f) /\ g.id = f.id /\ Feelings(g) = Feelings(f)
<1> DEFINE n == Len(f.slots)
           New(i) == UpdateTimed(f.slots[i], i \in ended)
           slots == [i \in DOMAIN f.slots |-> New(i)]
           g == UpdateOthers(f, ended)
<1>1. f \in FaceType /\ f.slots \in Seq(ModifierType) /\ n \in Nat /\ DOMAIN f.slots = 1..n
      /\ f.id \in [IdKinds -> Nat]
  BY FaceFields DEF Pool, Good
<1>2. ASSUME NEW i \in 1..n
      PROVE  /\ New(i) \in ModifierType /\ New(i).kind = f.slots[i].kind
             /\ f.slots[i].kind = "preset" => New(i) = f.slots[i]
  <2>1. f.slots[i] \in ModifierType
    BY <1>1
  <2>2. (i \in ended) \in BOOLEAN
    OBVIOUS
  <2> QED
    BY ONLY <2>1, <2>2, UpdatesTimed
<1>3. g = [f EXCEPT !.slots = slots]
  BY DEF UpdateOthers
<1>4. slots \in Seq(ModifierType) /\ Len(slots) = n /\ \A i \in 1..n : slots[i] = New(i)
  <2>1. slots \in [1..n -> ModifierType]
    <3> HIDE DEF New
    <3> QED
      BY <1>1, <1>2
  <2> HIDE DEF New
  <2> QED
    BY <1>1, <2>1
<1> HIDE DEF slots, New, g
<1>5. /\ g \in FaceType /\ g.slots = slots /\ g.free = f.free /\ g.id = f.id
      /\ Feelings(g) = Feelings(f)
  BY <1>1, <1>3, <1>4 DEF FaceType, Feelings
<1>6. ASSUME NEW i \in DOMAIN f.slots
      PROVE  g.slots[i] = NoModifier <=> f.slots[i] = NoModifier
  <2>1. g.slots[i] \in ModifierType /\ g.slots[i].kind = f.slots[i].kind /\ f.slots[i] \in ModifierType
    BY <1>1, <1>2, <1>4, <1>5
  <2> QED
    BY <2>1, NoModifierTypes
<1>7. Good(g)
  BY <1>4, <1>5, <1>6, InPlace DEF Pool
<1>8. DOMAIN g.slots = 1..n
  BY <1>1, <1>4, <1>5, FaceFields
<1>9. \A i \in Nat : /\ Held(g, i).kind = Held(f, i).kind
                     /\ Held(f, i).kind = "preset" => Held(g, i) = Held(f, i)
  BY <1>1, <1>2, <1>4, <1>5, <1>8 DEF Held
<1>10. Tracked(g)
  BY <1>5, <1>9 DEF Pool, Tracked
<1>11. PresetOf(g) = PresetOf(f)
  BY <1>7, <1>9, <1>10, PresetKept DEF Pool
<1> QED
  BY <1>5, <1>7, <1>10, <1>11 DEF Pool, g

LEMMA Tidies ==
  ASSUME NEW f, Pool(f), Shows(f) => PresetOf(f).started
  PROVE  LET g == ClearFinishedPreset(Cleanup(f))
         IN  /\ Pool(g) /\ Settled(g) /\ g.shown = f.shown /\ g.happy = f.happy
             /\ g.reacting = f.reacting /\ (Shows(g) <=> Overlays(f))
             /\ (Reached(f) => Reached(g)) /\ (LocksOK(f) => LocksOK(g))
             /\ (EmotionsOK(f) => EmotionsOK(g))
<1> DEFINE c == Cleanup(f)
           g == ClearFinishedPreset(c)
           s == f.id["preset"]
<1>1. /\ Good(c) /\ c.id = f.id /\ Feelings(c) = Feelings(f)
      /\ \A i \in Nat : Held(c, i) = IF Held(f, i).over THEN NoModifier ELSE Held(f, i)
  BY Cleans DEF Pool
<1> HIDE DEF c
<1>2. s \in Nat
  BY FaceFields, KindsOfIds DEF Pool, Good
<1>3. Tracked(c)
  BY <1>1, NoModifierTypes, KindsOfIds DEF Pool, Tracked
<1>4. Calm(c)
  BY <1>1, NoModifierTypes DEF Calm
<1>5. /\ Overlays(f) => Shows(c) /\ PresetOf(c) = PresetOf(f)
      /\ ~Overlays(f) => ~Shows(c)
  BY <1>1, <1>2, NoModifierTypes DEF Overlays, Shows, PresetOf
<1>6. /\ Pool(g) /\ PresetOf(g) = PresetOf(c) /\ Moods(g) = Moods(c)
      /\ \A i \in Nat : Held(g, i) = Held(c, i)
      /\ IF s # 0 /\ Held(c, s) = NoModifier
         THEN g.id["preset"] = 0 /\ g.presetTime = FALSE ELSE g = c
  BY <1>1, <1>3, Clears DEF Pool
<1> HIDE DEF g, s
<1>7. Shows(g) <=> Shows(c)
  BY <1>6 DEF Shows
<1>8. Calm(g)
  BY <1>4, <1>6 DEF Calm
<1>9. Moods(c) = Moods(f) /\ c.presetTime = f.presetTime
  BY <1>1 DEF Feelings, Moods
<1>10. g.emotion = f.emotion /\ g.shown = f.shown /\ g.avatarLock = f.avatarLock
       /\ g.motionLock = f.motionLock /\ g.restore = f.restore /\ g.happy = f.happy
       /\ g.waiting = f.waiting /\ g.before = f.before /\ g.reacting = f.reacting
  BY <1>6, <1>9 DEF Moods
<1>11. Settled(g)
  BY <1>5, <1>6, <1>7, <1>8 DEF Settled, Overlays
<1>12. ASSUME Reached(f) PROVE Reached(g)
  <2>1. CASE Overlays(f)
    BY <1>5, <1>7, <2>1 DEF Reached
  <2>2. CASE ~Overlays(f)
    <3>1. CASE Shows(f)
      <4>1. Held(f, s).over /\ Held(f, s).kind = "preset"
        BY <2>2, <3>1, NoModifierTypes DEF Overlays, Shows, PresetOf, s
      <4>2. s # 0
        BY <4>1, NothingAtZero, NoModifierTypes DEF Pool
      <4>3. Held(c, s) = NoModifier
        BY <1>1, <1>2, <4>1
      <4> QED
        BY <1>6, <4>2, <4>3 DEF Reached
    <3>2. CASE ~Shows(f)
      <4>1. s = 0 /\ ~f.presetTime
        BY <1>12, <3>2 DEF Reached, s
      <4>2. g = c
        BY <1>6, <4>1
      <4> QED
        BY <1>1, <1>9, <4>1, <4>2 DEF Reached, s
    <3> QED
      BY <3>1, <3>2
  <2> QED
    BY <2>1, <2>2
<1>13. /\ Runs(f) => Runs(g)
       /\ Overlays(g) => Overlays(f)
       /\ Overlays(f) => Overlays(g)
       /\ Shows(g) => PresetOf(g) = PresetOf(f)
       /\ Runs(f) => Shows(g)
  BY <1>5, <1>6, <1>7 DEF Runs, Overlays
<1>14. LocksOK(f) => LocksOK(g)
  BY <1>5, <1>7, <1>10, <1>13 DEF LocksOK, Overlays
<1>15. EmotionsOK(f) => EmotionsOK(g)
  BY <1>10, <1>13 DEF EmotionsOK, Overlays
<1> QED
  BY <1>5, <1>6, <1>7, <1>10, <1>11, <1>12, <1>14, <1>15 DEF g, c

LEMMA RemovesSettled ==
  ASSUME NEW f, Pool(f), Settled(f), NEW kind \in IdKinds
  PROVE  Settled(RemoveModifier(f, kind))
<1> DEFINE g == RemoveModifier(f, kind)
<1>1. /\ Pool(g) /\ (Calm(f) => Calm(g))
      /\ \A i \in Nat : Held(g, i) = IF i = f.id[kind] THEN NoModifier ELSE Held(f, i)
  BY RemovesTracked
<1> HIDE DEF g
<1>2. g.id["preset"] \in Nat
  BY <1>1, FaceFields, KindsOfIds DEF Pool, Good
<1>3. ASSUME Shows(g) PROVE PresetOf(g).started
  <2> DEFINE s == g.id["preset"]
  <2>1. Held(g, s).kind = "preset" /\ PresetOf(g) = Held(g, s)
    BY <1>3, NoModifierTypes DEF Shows, PresetOf
  <2>2. Held(f, s) = Held(g, s)
    BY <1>1, <1>2, <2>1, NoModifierTypes
  <2>3. Held(f, s) = PresetOf(f)
    BY <1>2, <2>1, <2>2, PresetFound
  <2> QED
    BY <2>1, <2>2, <2>3 DEF Settled, Shows
<1> QED
  BY <1>1, <1>3 DEF Settled, g

LEMMA Syncs ==
  ASSUME NEW f, Pool(f), Settled(f), NEW toggled \in BOOLEAN
  PROVE  LET g == SyncIdle(f, toggled)
         IN  /\ Pool(g) /\ Settled(g)
             /\ \/ ShouldRunIdle /\ ~toggled
                \/ \A kind \in {"idleMotion", "idleExpression"} : Held(f, f.id[kind]).kind # "preset"
                => Kept(f, g)
<1>1. "idleMotion" \in IdKinds /\ "idleExpression" \in IdKinds
  BY KindsOfIds
<1>2. CASE ShouldRunIdle /\ ~toggled
  <2> DEFINE h == Start(f, "idleMotion")
             g == Start(h, "idleExpression")
  <2>1. Kept(f, h)
    BY Starts
  <2> HIDE DEF h
  <2>2. Kept(h, g)
    BY <2>1, Starts DEF Kept
  <2>3. SyncIdle(f, toggled) = g
    BY <1>2 DEF SyncIdle, h
  <2> HIDE DEF g
  <2>4. Kept(f, g)
    BY <2>1, <2>2, KeptTwice
  <2> QED
    BY <2>3, <2>4, KeptHolds DEF Kept
<1>3. CASE ~(ShouldRunIdle /\ ~toggled)
  <2> DEFINE h == RemoveModifier(f, "idleMotion")
             g == RemoveModifier(h, "idleExpression")
  <2>1. /\ Pool(h) /\ h.id = [f.id EXCEPT !["idleMotion"] = 0]
        /\ \A i \in Nat : Held(h, i) = IF i = f.id["idleMotion"] THEN NoModifier ELSE Held(f, i)
        /\ (Held(f, f.id["idleMotion"]).kind # "preset" => Kept(f, h))
    BY <1>1, RemovesTracked
  <2>2. Settled(h)
    BY <1>1, RemovesSettled
  <2> HIDE DEF h
  <2>3. /\ Pool(g)
        /\ (Held(h, h.id["idleExpression"]).kind # "preset" => Kept(h, g))
    BY <1>1, <2>1, RemovesTracked
  <2>4. Settled(g)
    BY <1>1, <2>1, <2>2, RemovesSettled
  <2>5. SyncIdle(f, toggled) = g
    BY <1>3 DEF SyncIdle, h
  <2> HIDE DEF g
  <2>6. f.id \in [IdKinds -> Nat] /\ f.id["idleExpression"] \in Nat
        /\ h.id["idleExpression"] = f.id["idleExpression"]
    BY <1>1, <2>1, FaceFields DEF Pool, Good
  <2>7. Held(f, f.id["idleExpression"]).kind # "preset" => Held(h, h.id["idleExpression"]).kind # "preset"
    BY <2>1, <2>6, NoModifierTypes
  <2>8. (\A kind \in {"idleMotion", "idleExpression"} : Held(f, f.id[kind]).kind # "preset") => Kept(f, g)
    BY <2>1, <2>3, <2>7, KeptTwice
  <2> QED
    BY <1>3, <2>3, <2>4, <2>5, <2>8
<1> QED
  BY <1>2, <1>3

-----------------------------------------------------------------------------
(***************************************************************************)
(* The inductive invariant: what the histories do not excuse holds of the  *)
(* face.                                                                   *)
(***************************************************************************)
FaceHolds(f, had) ==
  /\ "presetLost" \notin had => Reached(f)
  /\ had \cap {"locksCrossed", "presetLost"} = {} => LocksOK(f)
  /\ had \cap {"overlaid", "presetLost"} = {} => EmotionsOK(f)

FaceInv == FaceTypeOK /\ Tracked(face) /\ Settled(face) /\ FaceHolds(face, mishaps)

LEMMA FaceInvParts ==
  FaceInv <=> /\ FaceTypeOK /\ Pool(face) /\ Settled(face) /\ FaceHolds(face, mishaps)
BY DEF FaceInv, FaceTypeOK, Pool, Good

\* A history only grows, and what it excuses is excused from then on.
LEMMA KeptFace ==
  ASSUME NEW f, NEW g, Pool(f), Settled(f), NEW had, NEW has, had \subseteq has, FaceHolds(f, had),
         Kept(f, g) \/ ("presetLost" \in has /\ Pool(g) /\ Settled(g))
  PROVE  Pool(g) /\ Settled(g) /\ FaceHolds(g, has)
<1>1. CASE Kept(f, g)
  <2>1. /\ Reached(f) => Reached(g)
        /\ LocksOK(f) => LocksOK(g)
        /\ EmotionsOK(f) => EmotionsOK(g)
        /\ Settled(f) => Settled(g)
    BY <1>1, KeptHolds
  <2>2. Pool(g)
    BY <1>1 DEF Kept
  <2>3. /\ "presetLost" \notin has => "presetLost" \notin had
        /\ has \cap {"locksCrossed", "presetLost"} = {} => had \cap {"locksCrossed", "presetLost"} = {}
        /\ has \cap {"overlaid", "presetLost"} = {} => had \cap {"overlaid", "presetLost"} = {}
    OBVIOUS
  <2> QED
    BY <2>1, <2>2, <2>3 DEF FaceHolds
<1>2. CASE "presetLost" \in has /\ Pool(g) /\ Settled(g)
  BY <1>2 DEF FaceHolds
<1> QED
  BY <1>1, <1>2

-----------------------------------------------------------------------------
(***************************************************************************)
(* A pass.                                                                 *)
(***************************************************************************)
LEMMA PassKeeps ==
  ASSUME FaceInv, NEW ended, NEW time, NEW junk \in Junk, NEW toggled \in BOOLEAN,
         Pass(ended, time, junk, toggled)
  PROVE  Pool(face') /\ Settled(face') /\ FaceHolds(face', mishaps') /\ mishaps' \subseteq Mishaps
<1>1. Pool(face) /\ Settled(face) /\ FaceHolds(face, mishaps)
      /\ mode \in Modes /\ pending \in {"none", "preset", "json"} /\ mishaps \subseteq Mishaps
  BY FaceInvParts DEF FaceTypeOK
<1> DEFINE reacted == React(face, junk)
           shown   == ShowMode(reacted)
           petted  == UpdateHeadPet(shown, time)
           based   == UpdateImu(petted, time)
           preset  == UpdatePreset(based, ended)
           others  == UpdateOthers(preset, ended)
           updated == ClearFinishedPreset(Cleanup(others))
           lost == IF ShouldRunIdle /\ ~toggled THEN {} ELSE
                     UNION {Lost(updated, kind) : kind \in {"idleMotion", "idleExpression"}}
<1>2. /\ face' = SyncIdle(updated, toggled)
      /\ mishaps' = mishaps \cup Crossed(reacted, updated) \cup Overlaid(reacted, updated) \cup lost
  BY DEF Pass
<1>3. /\ Pool(reacted) /\ Calm(reacted) /\ reacted.shown = face.shown /\ reacted.happy = face.happy
      /\ (Reached(face) => Reached(reacted))
      /\ (Reached(face) /\ LocksOK(face) => LocksOK(reacted))
      /\ (Reached(face) /\ EmotionsOK(face) /\ (Shows(reacted) => reacted.shown # "none" /\ ~reacted.happy)
            => EmotionsOK(reacted))
  BY <1>1, Reacts
<1> HIDE DEF reacted
<1>4. /\ Pool(shown) /\ PresetOf(shown) = PresetOf(reacted) /\ Calm(shown) /\ shown.shown = mode
      /\ (Reached(reacted) => Reached(shown)) /\ (LocksOK(reacted) => LocksOK(shown))
      /\ (EmotionsOK(reacted) /\ (Shows(reacted) \/ reacted.happy => reacted.shown = mode)
            => EmotionsOK(shown))
  BY <1>1, <1>3, ShowsMode
<1> HIDE DEF shown
<1>5. /\ Pool(petted) /\ PresetOf(petted) = PresetOf(shown) /\ Calm(petted) /\ petted.shown = shown.shown
      /\ (Reached(shown) => Reached(petted)) /\ (LocksOK(shown) => LocksOK(petted))
      /\ (EmotionsOK(shown) /\ shown.shown # "none" /\ (petted.happy => ~Shows(shown)) => EmotionsOK(petted))
  BY <1>4, Pets
<1> HIDE DEF petted
<1>6. /\ Pool(based) /\ PresetOf(based) = PresetOf(petted) /\ Calm(based) /\ based.happy = petted.happy
      /\ (Reached(petted) => Reached(based)) /\ (LocksOK(petted) => LocksOK(based))
      /\ (EmotionsOK(petted) => EmotionsOK(based))
  BY <1>5, Shakes
<1> HIDE DEF based
<1>7. /\ Pool(preset) /\ preset.happy = based.happy /\ preset.reacting = based.reacting
      /\ (Shows(preset) => PresetOf(preset).started)
      /\ (Reached(based) => Reached(preset))
      /\ (LocksOK(based) /\ (Overlays(preset) => ~based.reacting) => LocksOK(preset))
      /\ (EmotionsOK(based) => EmotionsOK(preset))
  BY <1>6, UpdatesPreset
<1> HIDE DEF preset
<1>8. Pool(others) /\ PresetOf(others) = PresetOf(preset) /\ others.id = preset.id
      /\ Feelings(others) = Feelings(preset)
  BY <1>7, UpdatesOthers
<1> HIDE DEF others
<1>9. /\ others.happy = preset.happy /\ others.reacting = preset.reacting
      /\ (Overlays(others) <=> Overlays(preset)) /\ (Shows(others) => PresetOf(others).started)
      /\ (Reached(preset) => Reached(others)) /\ (LocksOK(preset) => LocksOK(others))
      /\ (EmotionsOK(preset) => EmotionsOK(others))
  <2>1. others.emotion = preset.emotion /\ others.shown = preset.shown
        /\ others.avatarLock = preset.avatarLock /\ others.motionLock = preset.motionLock
        /\ others.restore = preset.restore /\ others.presetTime = preset.presetTime
        /\ others.happy = preset.happy /\ others.waiting = preset.waiting
        /\ others.before = preset.before /\ others.reacting = preset.reacting
    BY <1>8 DEF Feelings
  <2>2. /\ Overlays(others) <=> Overlays(preset)
        /\ Runs(others) <=> Runs(preset)
        /\ Shows(others) <=> Shows(preset)
    BY <1>8 DEF Overlays, Runs, Shows
  <2> QED
    BY <1>7, <1>8, <2>1, <2>2 DEF Reached, LocksOK, EmotionsOK
<1>10. /\ Pool(updated) /\ Settled(updated) /\ updated.happy = others.happy
       /\ updated.reacting = others.reacting /\ (Shows(updated) <=> Overlays(others))
       /\ (Reached(others) => Reached(updated)) /\ (LocksOK(others) => LocksOK(updated))
       /\ (EmotionsOK(others) => EmotionsOK(updated))
  BY <1>8, <1>9, Tidies
<1> HIDE DEF updated
<1>11. /\ Pool(face') /\ Settled(face')
       /\ \/ ShouldRunIdle /\ ~toggled
          \/ \A kind \in {"idleMotion", "idleExpression"} : Held(updated, updated.id[kind]).kind # "preset"
          => Kept(updated, face')
  BY <1>2, <1>10, Syncs
<1>12. (Shows(reacted) <=> Has(reacted, "preset")) /\ (Shows(updated) <=> Has(updated, "preset"))
  BY <1>3, <1>10, PresetFound
<1>13. ASSUME "presetLost" \notin mishaps'
       PROVE  "presetLost" \notin mishaps /\ Kept(updated, face')
  <2>1. lost = {} \/ "presetLost" \in lost
    BY DEF Lost
  <2>2. "presetLost" \notin lost
    BY <1>2, <1>13
  <2>3. \/ ShouldRunIdle /\ ~toggled
        \/ \A kind \in {"idleMotion", "idleExpression"} : Held(updated, updated.id[kind]).kind # "preset"
    BY <2>2 DEF Lost
  <2> QED
    BY <1>2, <1>11, <1>13, <2>3
<1> HIDE DEF lost
<1>14. "presetLost" \notin mishaps' => Reached(face) /\ Reached(face')
  BY <1>1, <1>3, <1>4, <1>5, <1>6, <1>7, <1>9, <1>10, <1>13, KeptHolds DEF FaceHolds
<1>15. ASSUME mishaps' \cap {"locksCrossed", "presetLost"} = {}
       PROVE  LocksOK(face')
  <2>1. Reached(face) /\ LocksOK(face) /\ Kept(updated, face')
    BY <1>1, <1>2, <1>13, <1>14, <1>15 DEF FaceHolds
  <2>2. "locksCrossed" \notin Crossed(reacted, updated)
    BY <1>2, <1>15
  <2>3. Shows(updated) => ~updated.reacting
    BY <1>12, <2>2 DEF Crossed
  <2>4. Overlays(preset) => ~based.reacting
    BY <1>7, <1>9, <1>10, <2>3
  <2> QED
    BY <1>3, <1>4, <1>5, <1>6, <1>7, <1>9, <1>10, <2>1, <2>4, KeptHolds
<1>16. ASSUME mishaps' \cap {"overlaid", "presetLost"} = {}
       PROVE  EmotionsOK(face')
  <2>1. Reached(face) /\ EmotionsOK(face) /\ Kept(updated, face')
    BY <1>1, <1>2, <1>13, <1>14, <1>16 DEF FaceHolds
  <2>2. "overlaid" \notin Overlaid(reacted, updated)
    BY <1>2, <1>16
  <2>3. /\ Shows(reacted) => ~reacted.happy /\ ~updated.happy
        /\ Shows(reacted) \/ reacted.happy => reacted.shown = mode
    BY <1>12, <2>2 DEF Overlaid
  <2>4. mode # "none"
    BY <1>1, EmotionTypes
  <2>5. EmotionsOK(shown)
    BY <1>3, <1>4, <2>1, <2>3, <2>4
  <2>6. petted.happy => ~Shows(shown)
    BY <1>4, <1>6, <1>7, <1>9, <1>10, <2>3 DEF Shows
  <2> QED
    BY <1>4, <1>5, <1>6, <1>7, <1>9, <1>10, <2>1, <2>4, <2>5, <2>6, KeptHolds
<1>17. mishaps' \subseteq Mishaps
  BY <1>1, <1>2 DEF Mishaps, Crossed, Overlaid, lost, Lost
<1> QED
  BY <1>11, <1>14, <1>15, <1>16, <1>17 DEF FaceHolds

LEMMA SomePassKeeps ==
  ASSUME FaceInv, NEW toggled \in BOOLEAN, SomePass(toggled)
  PROVE  /\ Pool(face') /\ Settled(face') /\ FaceHolds(face', mishaps') /\ mishaps' \subseteq Mishaps
         /\ flags' = {} /\ pending' = "none" /\ panel' \in BOOLEAN
         /\ quiet' \in {"no", "yes", "new"} /\ UNCHANGED <<mode, tracking>>
<1>1. quiet \in {"no", "yes", "new"} /\ panel \in BOOLEAN
  BY DEF FaceInv, FaceTypeOK
<1>2. PICK ended \in SUBSET Timed, time \in SUBSET {"pet", "shake"} :
        \E junk \in (IF pending # "none" /\ Miscast(face) THEN Junk ELSE {SomeJunk}) :
          Pass(ended, time, junk, toggled)
  BY DEF SomePass
<1>3. SomeJunk \in Junk
  BY DEF SomeJunk, Junk, Emotions
<1>4. PICK junk \in Junk : Pass(ended, time, junk, toggled)
  BY <1>2, <1>3
<1>5. Pool(face') /\ Settled(face') /\ FaceHolds(face', mishaps') /\ mishaps' \subseteq Mishaps
  BY <1>4, PassKeeps
<1>6. /\ flags' = {} /\ pending' = "none" /\ panel' = (panel # toggled)
      /\ quiet' = (IF toggled THEN "new" ELSE IF quiet = "new" THEN "yes" ELSE quiet)
      /\ UNCHANGED <<mode, tracking>>
  BY <1>4 DEF Pass
<1> QED
  BY <1>1, <1>5, <1>6

-----------------------------------------------------------------------------
(***************************************************************************)
(* Every action.                                                           *)
(***************************************************************************)
LEMMA FaceInitHolds == FaceInit => FaceInv
<1> SUFFICES ASSUME FaceInit PROVE FaceInv
  OBVIOUS
<1>1. face \in FaceType
  BY DEF FaceInit, FaceType, Emotions, Modes
<1>2. /\ face.slots = <<>> /\ face.free = <<>> /\ face.id = [kind \in IdKinds |-> 0]
      /\ ~face.avatarLock /\ ~face.motionLock /\ ~face.presetTime /\ ~face.happy /\ ~face.waiting
      /\ face.shown = "none"
  BY DEF FaceInit
<1>3. \A i \in Nat : Held(face, i) = NoModifier
  BY <1>2 DEF Held
<1>4. FreeOK(face.slots, face.free) /\ \A kind \in IdKinds : face.id[kind] <= Len(face.slots)
  BY <1>2 DEF FreeOK
<1>5. Pool(face) /\ Calm(face)
  BY <1>1, <1>3, <1>4, PoolView, NoModifierTypes, KindsOfIds DEF Pool, Good, Tracked, Calm
<1>6. ~Shows(face) /\ face.id["preset"] = 0
  BY <1>2, <1>3, NoModifierTypes, KindsOfIds DEF Shows, PresetOf
<1>7. FaceHolds(face, mishaps) /\ Settled(face)
  BY <1>2, <1>5, <1>6 DEF FaceHolds, Reached, LocksOK, EmotionsOK, Runs, Overlays, Settled
<1>8. FaceTypeOK
  <2>1. face \in FaceType /\ PoolOK(face)
    BY <1>5 DEF Pool, Good
  <2>2. mode \in Modes /\ mishaps \subseteq Mishaps /\ flags \subseteq {"swipe", "release", "shake"}
    BY DEF FaceInit, Modes
  <2>3. events \in 0..MaxEvents
    BY FaceAssumption DEF FaceInit
  <2>4. /\ tracking \in {"free", "held", "target"} /\ quiet \in {"no", "yes", "new"}
        /\ panel \in BOOLEAN /\ pending \in {"none", "preset", "json"}
    BY DEF FaceInit
  <2> QED
    BY <2>1, <2>2, <2>3, <2>4 DEF FaceTypeOK
<1> QED
  BY <1>5, <1>7, <1>8, FaceInvParts

LEMMA AnimationKeeps ==
  ASSUME FaceInv, PlayAnimation
  PROVE  Pool(face') /\ Settled(face') /\ FaceHolds(face', mishaps') /\ mishaps' \subseteq Mishaps
<1> DEFINE f == RemoveModifier(face, "dance")
           g == [Create(f, Modifier("dance")) EXCEPT !.id["dance"] = NextSlot(f)]
<1>1. Pool(face) /\ Settled(face) /\ FaceHolds(face, mishaps) /\ mishaps \subseteq Mishaps
  BY FaceInvParts DEF FaceTypeOK
<1>2. "dance" \in IdKinds \ {"preset"} /\ "dance" # "preset"
  BY KindsOfIds
<1>3. /\ Pool(f) /\ ~Has(f, "dance") /\ Settled(f)
      /\ (Held(face, face.id["dance"]).kind # "preset" => Kept(face, f))
  BY <1>1, <1>2, RemovesTracked, RemovesSettled
<1>4. face' = g /\ mishaps' = mishaps \cup Lost(face, "dance")
  BY DEF PlayAnimation
<1> HIDE DEF f
<1>5. Kept(f, g)
  BY <1>2, <1>3, InstallsMore
<1> HIDE DEF g
<1>6. Kept(face, f) => Kept(face, g)
  BY <1>5, KeptTwice
<1>7. Pool(g) /\ Settled(g)
  BY <1>3, <1>5, KeptHolds DEF Kept
<1>8. Kept(face, g) \/ "presetLost" \in mishaps'
  BY <1>2, <1>3, <1>4, <1>6 DEF Lost
<1>9. mishaps \subseteq mishaps' /\ mishaps' \subseteq Mishaps
  BY <1>1, <1>4 DEF Lost, Mishaps
<1> QED
  BY <1>1, <1>4, <1>7, <1>8, <1>9, KeptFace

LEMMA SayKeeps ==
  ASSUME FaceInv, Say
  PROVE  Pool(face') /\ Settled(face') /\ FaceHolds(face', mishaps')
<1> DEFINE f == Create(face, Modifier("speech"))
           g == Create(f, Modifier("speaking"))
<1>1. Pool(face) /\ Settled(face) /\ FaceHolds(face, mishaps)
  BY FaceInvParts
<1>2. Kept(face, f)
  BY <1>1, CreatesMore
<1> HIDE DEF f
<1>3. Kept(f, g)
  BY <1>2, CreatesMore DEF Kept
<1>4. face' = g /\ mishaps' = mishaps
  BY DEF Say, f
<1> HIDE DEF g
<1>5. Kept(face, g)
  BY <1>2, <1>3, KeptTwice
<1>6. Pool(g) /\ Settled(g) /\ FaceHolds(g, mishaps)
  BY <1>1, <1>5, KeptHolds DEF Kept, FaceHolds
<1> QED
  BY <1>4, <1>6

LEMMA PresetTimeKeeps ==
  ASSUME FaceInv, PresetTimeEnds
  PROVE  Pool(face') /\ Settled(face') /\ FaceHolds(face', mishaps')
<1> DEFINE g == [face EXCEPT !.presetTime = FALSE]
<1>1. Pool(face) /\ Settled(face) /\ FaceHolds(face, mishaps)
  BY FaceInvParts
<1>2. face' = g /\ mishaps' = mishaps /\ ~Shows(face)
  BY <1>1, PresetFound DEF PresetTimeEnds
<1>3. /\ g \in FaceType /\ g.slots = face.slots /\ g.free = face.free /\ g.id = face.id
      /\ Moods(g) = Moods(face) /\ ~g.presetTime
  BY <1>1 DEF Pool, Good, FaceType, Moods
<1> HIDE DEF g
<1>4. Pool(g) /\ PresetOf(g) = PresetOf(face) /\ (Shows(g) <=> Shows(face)) /\ (Calm(face) => Calm(g))
  BY <1>1, <1>3, MoodOnly
<1>5. (Runs(g) <=> Runs(face)) /\ (Overlays(g) <=> Overlays(face))
  BY <1>4 DEF Runs, Overlays
<1>6. g.emotion = face.emotion /\ g.shown = face.shown /\ g.avatarLock = face.avatarLock
      /\ g.motionLock = face.motionLock /\ g.restore = face.restore /\ g.happy = face.happy
      /\ g.waiting = face.waiting /\ g.before = face.before /\ g.reacting = face.reacting
  BY <1>3 DEF Moods
<1>7. /\ Reached(face) => Reached(g)
      /\ LocksOK(face) => LocksOK(g)
      /\ EmotionsOK(face) => EmotionsOK(g)
      /\ Settled(face) => Settled(g)
  BY <1>3, <1>4, <1>5, <1>6 DEF Reached, LocksOK, EmotionsOK, Settled
<1> QED
  BY <1>1, <1>2, <1>4, <1>7 DEF FaceHolds

LEMMA FaceStep == FaceInv /\ [FaceNext]_faceVars => FaceInv'
<1> SUFFICES ASSUME FaceInv, [FaceNext]_faceVars PROVE FaceInv'
  OBVIOUS
<1>1. Pool(face) /\ Settled(face) /\ FaceHolds(face, mishaps) /\ FaceTypeOK /\ MaxEvents \in Nat
  BY FaceInvParts, FaceAssumption
<1>2. ASSUME Pool(face'), Settled(face'), FaceHolds(face', mishaps'), mishaps' \subseteq Mishaps,
             mode' \in Modes, tracking' \in {"free", "held", "target"}, quiet' \in {"no", "yes", "new"},
             panel' \in BOOLEAN, pending' \in {"none", "preset", "json"},
             flags' \subseteq {"swipe", "release", "shake"}, events' \in 0..MaxEvents
      PROVE  FaceInv'
  <2>1. FaceTypeOK' /\ Tracked(face)' /\ Settled(face)' /\ FaceHolds(face, mishaps)'
    BY <1>2 DEF FaceTypeOK, Pool, Good
  <2> QED
    BY <2>1 DEF FaceInv
<1>3. Event => events' \in 0..MaxEvents
  BY <1>1 DEF Event, FaceTypeOK
<1>4. CASE PlayAnimation
  BY <1>1, <1>2, <1>3, <1>4, AnimationKeeps DEF PlayAnimation, FaceTypeOK
<1>5. CASE Say
  BY <1>1, <1>2, <1>3, <1>5, SayKeeps DEF Say, FaceTypeOK
<1>6. CASE ReactCommand
  BY <1>1, <1>2, <1>3, <1>6 DEF ReactCommand, FaceTypeOK
<1>7. CASE SetMode
  BY <1>1, <1>2, <1>3, <1>7 DEF SetMode, FaceTypeOK
<1>8. CASE TrackFace
  BY <1>1, <1>2, <1>3, <1>8 DEF TrackFace, FaceTypeOK
<1>9. CASE Gesture
  <2>1. flags' \subseteq {"swipe", "release", "shake"}
    BY <1>1, <1>9 DEF Gesture, FaceTypeOK
  <2> QED
    BY <1>1, <1>2, <1>3, <1>9, <2>1 DEF Gesture, FaceTypeOK
<1>10. CASE ScreenLongPress
  <2>1. panel' \in BOOLEAN
    BY <1>1, <1>10 DEF ScreenLongPress, FaceTypeOK
  <2> QED
    BY <1>1, <1>2, <1>3, <1>10, <2>1 DEF ScreenLongPress, FaceTypeOK
<1>11. CASE QuietEnds
  BY <1>1, <1>2, <1>11 DEF QuietEnds, FaceTypeOK
<1>12. CASE HoldEnds
  BY <1>1, <1>2, <1>12 DEF HoldEnds, FaceTypeOK
<1>13. CASE PresetTimeEnds
  BY <1>1, <1>2, <1>13, PresetTimeKeeps DEF PresetTimeEnds, FaceTypeOK
<1>14. CASE OnRunning
  <2>1. /\ Pool(face') /\ Settled(face') /\ FaceHolds(face', mishaps') /\ mishaps' \subseteq Mishaps
        /\ flags' = {} /\ pending' = "none" /\ panel' \in BOOLEAN
        /\ quiet' \in {"no", "yes", "new"} /\ UNCHANGED <<mode, tracking, events>>
    BY <1>14, SomePassKeeps DEF OnRunning
  <2> QED
    BY <1>1, <1>2, <2>1 DEF FaceTypeOK
<1>15. CASE HeadLongPress
  <2>1. /\ Pool(face') /\ Settled(face') /\ FaceHolds(face', mishaps') /\ mishaps' \subseteq Mishaps
        /\ flags' = {} /\ pending' = "none" /\ panel' \in BOOLEAN
        /\ quiet' \in {"no", "yes", "new"} /\ UNCHANGED <<mode, tracking>> /\ Event
    BY <1>15, SomePassKeeps DEF HeadLongPress
  <2> QED
    BY <1>1, <1>2, <1>3, <2>1 DEF FaceTypeOK
<1>16. CASE UNCHANGED faceVars
  BY <1>1, <1>2, <1>16 DEF faceVars, FaceTypeOK
<1> QED
  BY <1>4, <1>5, <1>6, <1>7, <1>8, <1>9, <1>10, <1>11, <1>12, <1>13, <1>14, <1>15, <1>16 DEF FaceNext

LEMMA FaceInvariance == FaceSpec => []FaceInv
BY FaceInitHolds, FaceStep, PTL DEF FaceSpec

-----------------------------------------------------------------------------
LEMMA PresetsRun ==
  ASSUME FaceInv
  PROVE  /\ Runs(face) => PresetRuns(face)
         /\ Overlays(face) <=> Runs(face)
<1>1. Pool(face) /\ Settled(face)
  BY FaceInvParts
<1>2. Overlays(face) <=> Runs(face)
  BY <1>1 DEF Settled, Overlays, Runs
<1>3. Runs(face) => PresetRuns(face)
  BY <1>1, PresetFound DEF Runs, Shows, PresetRuns
<1> QED
  BY <1>2, <1>3

LEMMA InvOneOfEach == FaceInv => OneOfEach
<1> SUFFICES ASSUME FaceInv,
                    NEW i \in DOMAIN face.slots, NEW j \in DOMAIN face.slots,
                    face.slots[i].kind = face.slots[j].kind,
                    face.slots[i].kind \in {"preset", "dance", "idleMotion", "idleExpression"}
             PROVE  i = j
  BY DEF OneOfEach
<1>1. Pool(face)
  BY FaceInvParts
<1>2. /\ i \in Nat /\ j \in Nat
      /\ Held(face, i) = face.slots[i] /\ Held(face, j) = face.slots[j]
  BY <1>1, FaceFields DEF Pool, Good, Held
<1> QED
  BY <1>1, <1>2, KindsOfIds DEF Pool, Tracked

LEMMA InvLocks == FaceInv => LockHasHolder
BY PresetsRun, FaceInvParts DEF LockHasHolder, FaceHolds, LocksOK

LEMMA InvEmotions == FaceInv => FaceShowsMode
BY PresetsRun, FaceInvParts DEF FaceShowsMode, FaceHolds, EmotionsOK

THEOREM PoolConsistent == FaceSpec => []FaceTypeOK
<1>1. FaceInv => FaceTypeOK
  BY DEF FaceInv
<1> QED
  BY <1>1, FaceInvariance, PTL

THEOREM OneModifierOfEach == FaceSpec => []OneOfEach
BY InvOneOfEach, FaceInvariance, PTL

THEOREM LocksHaveHolders == FaceSpec => []LockHasHolder
BY InvLocks, FaceInvariance, PTL

THEOREM EmotionsFollowMode == FaceSpec => []FaceShowsMode
BY InvEmotions, FaceInvariance, PTL
=============================================================================
