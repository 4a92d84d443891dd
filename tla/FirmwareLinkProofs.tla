------------------------- MODULE FirmwareLinkProofs -------------------------
(***************************************************************************)
(* Theorems about FirmwareLink, for every capacity of the queues and every *)
(* number of messages and connections.                                     *)
(*                                                                         *)
(* All steps treat the queues in one of two ways: each queue becomes a     *)
(* suffix of itself (something was taken, evicted or cleared), or it does  *)
(* and one queue also gains a new message. The lemmas of the first part    *)
(* say so; the invariants are then preserved for reasons that do not       *)
(* mention capacities any more.                                            *)
(***************************************************************************)
EXTENDS FirmwareLink, SequenceTheorems, TLAPS

SuffixOf(t, s) ==
  \E k \in 0..Len(s) : /\ Len(t) = Len(s) - k
                       /\ \A i \in 1..Len(t) : t[i] = s[i + k]

New(kind) == [kind |-> kind, number |-> produced + 1, conn |-> conn]

Shrinks == \A class \in Classes : SuffixOf(queue'[class], queue[class])

Grows(kind) ==
  \A class \in Classes :
    \E rest \in Seq(Message) :
      /\ SuffixOf(rest, queue[class])
      /\ queue'[class] = IF class = ClassOf(kind) THEN Append(rest, New(kind)) ELSE rest

(***************************************************************************)
(* The inductive invariant.                                                *)
(***************************************************************************)

\* Messages wait in the order of their numbers, after everything already sent.
Ordered(class) ==
  /\ last[class] <= produced
  /\ \A i \in 1..Len(queue[class]) :
       /\ ClassOf(queue[class][i].kind) = class
       /\ last[class] < queue[class][i].number
       /\ queue[class][i].number <= produced
  /\ \A i, j \in 1..Len(queue[class]) :
       i < j => queue[class][i].number < queue[class][j].number

\* The message held comes before those that wait in its class.
HeldFirst ==
  holding # Nothing =>
    /\ last[ClassOf(holding.kind)] < holding.number
    /\ holding.number <= produced
    /\ \A i \in 1..Len(queue[ClassOf(holding.kind)]) :
         holding.number < queue[ClassOf(holding.kind)][i].number

\* Until OnConnected has cleared the queues, what waits may be old; from then on
\* it belongs to the latest connection.
Cleared ==
  client # "opened" =>
    \A class \in Classes : \A i \in 1..Len(queue[class]) : queue[class][i].conn = conn

\* No message comes from a later connection; before the clearing none is this
\* connection's handshake.
Before(message) ==
  /\ message.conn <= conn
  /\ client = "opened" => ~(message.kind = "handshake" /\ message.conn = conn)

NoneLater ==
  /\ \A class \in Classes : \A i \in 1..Len(queue[class]) : Before(queue[class][i])
  /\ holding # Nothing => Before(holding)
  /\ client = "opened" => first # "handshake"

HeldFresh == first = "handshake" /\ holding # Nothing => holding.conn = conn

OrderInv == (\A class \in Classes : Ordered(class)) /\ HeldFirst
FreshInv == Cleared /\ NoneLater /\ HeldFresh

-----------------------------------------------------------------------------
(***************************************************************************)
(* The queue operations.                                                   *)
(***************************************************************************)

\* A trimmed queue is a suffix with room for one more message (enqueue_outbound).
LEMMA TrimSuffix ==
  ASSUME NEW s \in Seq(Message), NEW max \in Nat \ {0}
  PROVE  Trim(s, max) \in Seq(Message) /\ SuffixOf(Trim(s, max), s) /\ Len(Trim(s, max)) < max
<1>1. CASE Len(s) >= max
  <2>. DEFINE k == Len(s) - max + 1
  <2>1. k \in 0..Len(s) /\ Trim(s, max) = SubSeq(s, k + 1, Len(s))
    BY <1>1, LenProperties DEF Trim
  <2>. HIDE DEF k
  <2>2. /\ SubSeq(s, k + 1, Len(s)) \in Seq(Message)
        /\ Len(SubSeq(s, k + 1, Len(s))) = Len(s) - k
        /\ \A i \in 1..(Len(s) - k) : SubSeq(s, k + 1, Len(s))[i] = s[i + k]
    BY <2>1, LenProperties, SubSeqProperties
  <2>3. Len(s) - k < max
    BY <1>1, LenProperties DEF k
  <2>. QED BY <2>1, <2>2, <2>3 DEF SuffixOf
<1>2. CASE ~(Len(s) >= max)
  <2>1. Trim(s, max) = s /\ Len(s) < max
    BY <1>2, LenProperties DEF Trim
  <2>2. SuffixOf(s, s)
    BY LenProperties DEF SuffixOf
  <2>. QED BY <2>1, <2>2
<1>. QED BY <1>1, <1>2

\* Dropping the first message leaves a suffix.
LEMMA TailSuffix ==
  ASSUME NEW s \in Seq(Message), s # <<>>
  PROVE  Tail(s) \in Seq(Message) /\ SuffixOf(Tail(s), s)
<1>1. /\ Len(s) \in Nat \ {0} /\ Tail(s) \in Seq(Message) /\ Len(Tail(s)) = Len(s) - 1
      /\ \A i \in 1..Len(Tail(s)) : Tail(s)[i] = s[i + 1]
  BY HeadTailProperties, LenProperties, EmptySeq
<1>. QED BY <1>1 DEF SuffixOf

\* Every queue is a suffix of itself.
LEMMA SelfSuffix ==
  ASSUME NEW s \in Seq(Message)
  PROVE  SuffixOf(s, s)
BY LenProperties DEF SuffixOf

\* Making room for a message leaves suffixes, whatever is evicted.
LEMMA RoomSuffix ==
  ASSUME TypeOK, NEW class \in Classes
  PROVE  /\ RoomFor(class) \in [Classes -> Seq(Message)]
         /\ \A d \in Classes : SuffixOf(RoomFor(class)[d], queue[d])
         /\ Len(RoomFor("camera")["camera"]) < CameraMax
         /\ Len(RoomFor("normal")["normal"]) < NormalMax
<1>. USE CapacityAssumption
<1>1. queue \in [Classes -> Seq(Message)] /\ {"critical", "camera", "normal"} = Classes
  BY DEF TypeOK, Classes
<1>2. \A d \in Classes : SuffixOf(queue[d], queue[d])
  BY <1>1, SelfSuffix
<1>3. /\ RoomFor("camera") = [queue EXCEPT !["camera"] = Trim(queue["camera"], CameraMax)]
      /\ RoomFor("normal") = [queue EXCEPT !["normal"] = Trim(queue["normal"], NormalMax)]
  BY DEF RoomFor
<1>4. /\ Trim(queue["camera"], CameraMax) \in Seq(Message)
      /\ SuffixOf(Trim(queue["camera"], CameraMax), queue["camera"])
      /\ Len(Trim(queue["camera"], CameraMax)) < CameraMax
      /\ Trim(queue["normal"], NormalMax) \in Seq(Message)
      /\ SuffixOf(Trim(queue["normal"], NormalMax), queue["normal"])
      /\ Len(Trim(queue["normal"], NormalMax)) < NormalMax
  BY <1>1, TrimSuffix
<1>5. CASE class # "critical"
  BY <1>1, <1>2, <1>3, <1>4, <1>5
<1>6. CASE class = "critical"
  <2>1. CASE Len(queue["critical"]) >= CriticalMax
    <3>1. Victim \in Classes /\ queue[Victim] # <<>>
      <4>1. queue["critical"] # <<>>
        BY <1>1, <2>1, LenProperties, EmptySeq
      <4>. QED BY <1>1, <4>1 DEF Victim
    <3>2. Tail(queue[Victim]) \in Seq(Message) /\ SuffixOf(Tail(queue[Victim]), queue[Victim])
      BY <1>1, <3>1, TailSuffix
    <3>3. RoomFor("critical") = [queue EXCEPT ![Victim] = Tail(queue[Victim])]
      BY <2>1 DEF RoomFor
    <3>. QED BY <1>1, <1>2, <1>3, <1>4, <1>6, <3>1, <3>2, <3>3
  <2>2. CASE ~(Len(queue["critical"]) >= CriticalMax)
    BY <1>1, <1>2, <1>3, <1>4, <1>6, <2>2 DEF RoomFor
  <2>. QED BY <2>1, <2>2
<1>. QED BY <1>5, <1>6

\* enqueue_outbound appends the new message to what room-making left.
LEMMA EnqueueGrows ==
  ASSUME TypeOK, NEW kind \in Kinds, EnqueueOutbound(kind)
  PROVE  /\ queue' \in [Classes -> Seq(Message)] /\ produced' = produced + 1
         /\ New(kind) \in Message /\ Grows(kind)
<1>. DEFINE room == RoomFor(ClassOf(kind))
<1>1. ClassOf(kind) \in Classes
  BY DEF ClassOf, Kinds, Classes
<1>2. room \in [Classes -> Seq(Message)] /\ \A d \in Classes : SuffixOf(room[d], queue[d])
  BY <1>1, RoomSuffix
<1>3. New(kind) \in Message
  BY DEF New, Message, TypeOK
<1>4. /\ produced' = produced + 1
      /\ queue' = [room EXCEPT ![ClassOf(kind)] = Append(room[ClassOf(kind)], New(kind))]
  BY DEF EnqueueOutbound, New
<1>. HIDE DEF room
<1>5. \A d \in Classes :
        queue'[d] = IF d = ClassOf(kind) THEN Append(room[d], New(kind)) ELSE room[d]
  BY <1>1, <1>2, <1>4
<1>6. queue' \in [Classes -> Seq(Message)]
  <2>1. Append(room[ClassOf(kind)], New(kind)) \in Seq(Message)
    BY <1>1, <1>2, <1>3, AppendProperties
  <2>. QED BY <1>1, <1>2, <1>4, <2>1
<1>. QED BY <1>2, <1>3, <1>4, <1>5, <1>6 DEF Grows

\* Clearing leaves the empty suffix.
LEMMA ClearShrinks ==
  ASSUME TypeOK, ClearTxQueue
  PROVE  /\ queue' \in [Classes -> Seq(Message)] /\ Shrinks
         /\ \A class \in Classes : queue'[class] = <<>>
<1>1. \A class \in Classes : queue'[class] = <<>> /\ SuffixOf(<<>>, queue[class])
  <2>. SUFFICES ASSUME NEW class \in Classes
                PROVE  queue'[class] = <<>> /\ SuffixOf(<<>>, queue[class])
    OBVIOUS
  <2>1. Len(<<>>) = 0 /\ Len(queue[class]) \in Nat
    BY EmptySeq, LenProperties DEF TypeOK
  <2>. QED BY <2>1 DEF ClearTxQueue, Empty, SuffixOf
<1>2. queue' \in [Classes -> Seq(Message)]
  BY EmptySeq DEF ClearTxQueue, Empty
<1>. QED BY <1>1, <1>2 DEF Shrinks

\* dequeue_outbound takes the first message of the class it serves.
LEMMA DequeueShrinks ==
  ASSUME TypeOK, DequeueOutbound
  PROVE  /\ queue' \in [Classes -> Seq(Message)] /\ Shrinks
         /\ Served \in Classes /\ Len(queue[Served]) \in Nat \ {0}
         /\ queue'[Served] = Tail(queue[Served])
         /\ \A class \in Classes \ {Served} : queue'[class] = queue[class]
         /\ holding' = queue[Served][1] /\ holding' \in Message
<1>1. Served \in Classes
  BY DEF Served, Classes
<1>2. queue[Served] \in Seq(Message) /\ queue[Served] # <<>>
  BY <1>1 DEF TypeOK, DequeueOutbound
<1>3. Tail(queue[Served]) \in Seq(Message) /\ SuffixOf(Tail(queue[Served]), queue[Served])
  BY <1>2, TailSuffix
<1>4. /\ Len(queue[Served]) \in Nat \ {0}
      /\ Head(queue[Served]) = queue[Served][1] /\ queue[Served][1] \in Message
  BY <1>2, HeadTailProperties, LenProperties, EmptySeq, ElementOfSeq
<1>5. /\ queue'[Served] = Tail(queue[Served])
      /\ \A class \in Classes \ {Served} : queue'[class] = queue[class]
      /\ queue' \in [Classes -> Seq(Message)]
  BY <1>1, <1>3 DEF DequeueOutbound, TypeOK
<1>6. \A class \in Classes : SuffixOf(queue'[class], queue[class])
  BY <1>3, <1>5, SelfSuffix DEF TypeOK
<1>. QED BY <1>1, <1>4, <1>5, <1>6 DEF DequeueOutbound, Shrinks

-----------------------------------------------------------------------------
(***************************************************************************)
(* Type correctness.                                                       *)
(***************************************************************************)
LEMMA InitTypeOK == Init => TypeOK
<1>1. <<>> \in Seq(Message)
  BY EmptySeq
<1>2. ASSUME Init
      PROVE  queue \in [Classes -> Seq(Message)] /\ last \in [Classes -> Nat] /\ conn \in Nat /\ produced \in Nat
  BY <1>1, <1>2 DEF Init, Empty
<1>. QED BY <1>2 DEF Init, TypeOK

LEMMA NextTypeOK ==
  ASSUME TypeOK, [Next]_vars
  PROVE  TypeOK'
<1>. USE DEF TypeOK, sockVars, taskVars, sentVars
<1>1. CASE SocketOpens
  BY <1>1 DEF SocketOpens
<1>2. CASE OnConnectedClears
  BY <1>2, ClearShrinks DEF OnConnectedClears
<1>3. CASE SendHandshake
  <2>1. "handshake" \in Kinds
    BY DEF Kinds, Classes
  <2>. QED BY <1>3, <2>1, EnqueueGrows DEF SendHandshake
<1>4. CASE SocketCloses
  BY <1>4 DEF SocketCloses
<1>5. CASE OnDisconnected
  BY <1>5, ClearShrinks DEF OnDisconnected
<1>6. CASE MainChecks
  BY <1>6 DEF MainChecks
<1>7. CASE MainEnds
  BY <1>7 DEF MainEnds
<1>8. ASSUME NEW kind \in {"critical", "normal"}, MainSends(kind)
      PROVE  TypeOK'
  <2>1. kind \in Kinds
    BY DEF Kinds, Classes
  <2>. QED BY <1>8, <2>1, EnqueueGrows DEF MainSends
<1>9. CASE ReconnectBegins
  BY <1>9, ClearShrinks DEF ReconnectBegins
<1>10. CASE ReconnectStarts
  BY <1>10 DEF ReconnectStarts
<1>11. CASE ReconnectFails
  BY <1>11, ClearShrinks DEF ReconnectFails
<1>12. CASE SensorChecks
  BY <1>12 DEF SensorChecks
<1>13. CASE SensorSends
  <2>1. "normal" \in Kinds
    BY DEF Kinds, Classes
  <2>2. queue' \in [Classes -> Seq(Message)] /\ produced' \in Nat
    BY <1>13, <2>1, EnqueueGrows DEF SensorSends
  <2>. QED BY <1>13, <2>2 DEF SensorSends
<1>14. CASE CaptureChecks
  BY <1>14 DEF CaptureChecks
<1>15. CASE CaptureSends
  <2>1. "camera" \in Kinds
    BY DEF Kinds, Classes
  <2>2. queue' \in [Classes -> Seq(Message)] /\ produced' \in Nat
    BY <1>15, <2>1, EnqueueGrows DEF CaptureSends
  <2>. QED BY <1>15, <2>2 DEF CaptureSends
<1>16. CASE TrackingTouched
  <2>1. "normal" \in Kinds
    BY DEF Kinds, Classes
  <2>. QED BY <1>16, <2>1, EnqueueGrows DEF TrackingTouched
<1>17. CASE TxTakes
  BY <1>17, DequeueShrinks DEF TxTakes
<1>18. CASE TxSends
  <2>1. holding \in Message
    BY <1>18 DEF TxSends
  <2>2. ClassOf(holding.kind) \in Classes /\ holding.kind \in Kinds /\ holding.number \in Nat
    BY <2>1 DEF ClassOf, Kinds, Classes, Message
  <2>. QED BY <1>18, <2>2 DEF TxSends
<1>19. CASE TxFails
  BY <1>19 DEF TxFails
<1>20. CASE UNCHANGED vars
  BY <1>20 DEF vars
<1>. QED BY <1>1, <1>2, <1>3, <1>4, <1>5, <1>6, <1>7, <1>8, <1>9, <1>10, <1>11, <1>12, <1>13, <1>14, <1>15, <1>16, <1>17, <1>18, <1>19, <1>20 DEF Next, ClientTask, MainTask, Producers, TxTask

\* The state keeps its types.
THEOREM TypeCorrect == Spec => []TypeOK
BY InitTypeOK, NextTypeOK, PTL DEF Spec

-----------------------------------------------------------------------------
(***************************************************************************)
(* Order: what a step does to the queues is all that matters.              *)
(***************************************************************************)

\* A suffix of an ordered queue, with the same messages sent, is ordered.
LEMMA ShrinkOrder ==
  ASSUME TypeOK, TypeOK', OrderInv, Shrinks, UNCHANGED <<produced, last>>,
         holding' = holding \/ holding' = Nothing
  PROVE  OrderInv'
<1>1. ASSUME NEW class \in Classes
      PROVE  Ordered(class)'
  <2>1. PICK k \in 0..Len(queue[class]) :
          /\ Len(queue'[class]) = Len(queue[class]) - k
          /\ \A i \in 1..Len(queue'[class]) : queue'[class][i] = queue[class][i + k]
    BY DEF Shrinks, SuffixOf
  <2>2. Len(queue[class]) \in Nat /\ Len(queue'[class]) \in Nat
    BY LenProperties DEF TypeOK
  <2>3. Ordered(class)
    BY DEF OrderInv
  <2>4. \A i \in 1..Len(queue'[class]) : i + k \in 1..Len(queue[class])
    BY <2>1, <2>2
  <2>5. \A i \in 1..Len(queue'[class]) :
          /\ ClassOf(queue'[class][i].kind) = class
          /\ last[class] < queue'[class][i].number
          /\ queue'[class][i].number <= produced
    BY <2>1, <2>3, <2>4 DEF Ordered
  <2>6. \A i, j \in 1..Len(queue'[class]) :
          i < j => queue'[class][i].number < queue'[class][j].number
    <3>. SUFFICES ASSUME NEW i \in 1..Len(queue'[class]), NEW j \in 1..Len(queue'[class]), i < j
                  PROVE  queue'[class][i].number < queue'[class][j].number
      OBVIOUS
    <3>1. i + k < j + k
      BY <2>1, <2>2
    <3>. QED BY <2>1, <2>3, <2>4, <3>1 DEF Ordered
  <2>. QED BY <2>3, <2>5, <2>6 DEF Ordered
<1>2. HeldFirst'
  <2>. SUFFICES ASSUME holding' # Nothing
                PROVE  /\ last[ClassOf(holding.kind)] < holding.number
                       /\ holding.number <= produced
                       /\ \A i \in 1..Len(queue'[ClassOf(holding.kind)]) :
                            holding.number < queue'[ClassOf(holding.kind)][i].number
    BY DEF HeldFirst
  <2>. DEFINE class == ClassOf(holding.kind)
  <2>1. holding # Nothing /\ HeldFirst
    BY DEF OrderInv
  <2>2. class \in Classes
    BY <2>1 DEF TypeOK, Message, Kinds, Classes, ClassOf
  <2>3. PICK k \in 0..Len(queue[class]) :
          /\ Len(queue'[class]) = Len(queue[class]) - k
          /\ \A i \in 1..Len(queue'[class]) : queue'[class][i] = queue[class][i + k]
    BY <2>2 DEF Shrinks, SuffixOf
  <2>4. Len(queue[class]) \in Nat /\ Len(queue'[class]) \in Nat
    BY <2>2, LenProperties DEF TypeOK
  <2>5. \A i \in 1..Len(queue'[class]) : i + k \in 1..Len(queue[class])
    BY <2>3, <2>4
  <2>. QED BY <2>1, <2>3, <2>5 DEF HeldFirst
<1>. QED BY <1>1, <1>2 DEF OrderInv

\* Appending the newest message to a suffix keeps the order.
LEMMA GrowOrder ==
  ASSUME TypeOK, TypeOK', OrderInv, NEW kind \in Kinds, New(kind) \in Message, Grows(kind),
         produced' = produced + 1, UNCHANGED <<last, holding>>
  PROVE  OrderInv'
<1>0. produced \in Nat
  BY DEF TypeOK
<1>1. ASSUME NEW class \in Classes
      PROVE  /\ Ordered(class)'
             /\ \A i \in 1..Len(queue'[class]) :
                  \/ \E j \in 1..Len(queue[class]) : queue'[class][i] = queue[class][j]
                  \/ queue'[class][i].number = produced + 1
  <2>1. PICK rest \in Seq(Message) :
          /\ SuffixOf(rest, queue[class])
          /\ queue'[class] = IF class = ClassOf(kind) THEN Append(rest, New(kind)) ELSE rest
    BY DEF Grows
  <2>2. PICK k \in 0..Len(queue[class]) :
          /\ Len(rest) = Len(queue[class]) - k
          /\ \A i \in 1..Len(rest) : rest[i] = queue[class][i + k]
    BY <2>1 DEF SuffixOf
  <2>3. Len(queue[class]) \in Nat /\ Len(rest) \in Nat
    BY LenProperties DEF TypeOK
  <2>4. Ordered(class)
    BY DEF OrderInv
  <2>5. \A i \in 1..Len(rest) : i + k \in 1..Len(queue[class])
    BY <2>2, <2>3
  <2>6. /\ last[class] <= produced
        /\ \A i \in 1..Len(rest) :
             /\ ClassOf(rest[i].kind) = class
             /\ last[class] < rest[i].number
             /\ rest[i].number <= produced
    BY <2>2, <2>4, <2>5 DEF Ordered
  <2>7. \A i, j \in 1..Len(rest) : i < j => rest[i].number < rest[j].number
    <3>. SUFFICES ASSUME NEW i \in 1..Len(rest), NEW j \in 1..Len(rest), i < j
                  PROVE  rest[i].number < rest[j].number
      OBVIOUS
    <3>1. i + k < j + k
      BY <2>2, <2>3
    <3>. QED BY <2>2, <2>4, <2>5, <3>1 DEF Ordered
  <2>8. last[class] \in Nat /\ \A i \in 1..Len(rest) : rest[i].number \in Nat
    <3>1. last[class] \in Nat
      BY DEF TypeOK
    <3>2. \A i \in 1..Len(rest) : rest[i] \in Message
      BY ElementOfSeq
    <3>. QED BY <3>1, <3>2 DEF Message
  <2>9. CASE class # ClassOf(kind)
    <3>1. queue'[class] = rest
      BY <2>1, <2>9
    <3>2. \A i \in 1..Len(rest) : rest[i].number <= produced + 1
      BY <1>0, <2>6, <2>8
    <3>3. last[class] <= produced + 1
      BY <1>0, <2>6, <2>8
    <3>. QED BY <2>2, <2>5, <2>6, <2>7, <3>1, <3>2, <3>3 DEF Ordered
  <2>10. CASE class = ClassOf(kind)
    <3>1. /\ Len(queue'[class]) = Len(rest) + 1
          /\ queue'[class][Len(rest) + 1] = New(kind)
          /\ \A i \in 1..Len(rest) : queue'[class][i] = rest[i]
      BY <2>1, <2>10, AppendProperties
    <3>2. New(kind).number = produced + 1 /\ New(kind).kind = kind
      BY DEF New
    <3>3. ASSUME NEW i \in 1..Len(queue'[class])
          PROVE  \/ i \in 1..Len(rest) /\ queue'[class][i] = rest[i]
                 \/ i = Len(rest) + 1 /\ queue'[class][i] = New(kind)
      <4>1. i \in 1..Len(rest) \/ i = Len(rest) + 1
        BY <2>3, <3>1
      <4>. QED BY <3>1, <4>1
    <3>4. ASSUME NEW i \in 1..Len(queue'[class])
          PROVE  /\ ClassOf(queue'[class][i].kind) = class
                 /\ last[class] < queue'[class][i].number
                 /\ queue'[class][i].number <= produced + 1
      <4>1. CASE i \in 1..Len(rest) /\ queue'[class][i] = rest[i]
        BY <1>0, <2>6, <2>8, <4>1
      <4>2. CASE i = Len(rest) + 1 /\ queue'[class][i] = New(kind)
        BY <1>0, <2>6, <2>8, <2>10, <3>2, <4>2
      <4>. QED BY <3>3, <4>1, <4>2
    <3>5. ASSUME NEW i \in 1..Len(queue'[class]), NEW j \in 1..Len(queue'[class]), i < j
          PROVE  queue'[class][i].number < queue'[class][j].number
      <4>1. i \in 1..Len(rest) /\ queue'[class][i] = rest[i]
        BY <2>3, <3>1, <3>3, <3>5
      <4>2. CASE j \in 1..Len(rest) /\ queue'[class][j] = rest[j]
        BY <2>7, <3>5, <4>1, <4>2
      <4>3. CASE j = Len(rest) + 1 /\ queue'[class][j] = New(kind)
        BY <1>0, <2>6, <2>8, <3>2, <4>1, <4>3
      <4>. QED BY <3>3, <4>2, <4>3
    <3>6. last[class] <= produced + 1
      BY <1>0, <2>6, <2>8
    <3>7. Ordered(class)'
      BY <3>4, <3>5, <3>6 DEF Ordered
    <3>. QED BY <2>2, <2>5, <3>2, <3>3, <3>7
  <2>. QED BY <2>9, <2>10
<1>2. HeldFirst'
  <2>. SUFFICES ASSUME holding # Nothing
                PROVE  /\ last[ClassOf(holding.kind)] < holding.number
                       /\ holding.number <= produced + 1
                       /\ \A i \in 1..Len(queue'[ClassOf(holding.kind)]) :
                            holding.number < queue'[ClassOf(holding.kind)][i].number
    BY DEF HeldFirst
  <2>1. HeldFirst /\ ClassOf(holding.kind) \in Classes /\ holding.number \in Nat
    BY DEF OrderInv, TypeOK, Message, Kinds, Classes, ClassOf
  <2>2. holding.number <= produced
    BY <2>1 DEF HeldFirst
  <2>3. ASSUME NEW i \in 1..Len(queue'[ClassOf(holding.kind)])
        PROVE  holding.number < queue'[ClassOf(holding.kind)][i].number
    <3>1. CASE \E j \in 1..Len(queue[ClassOf(holding.kind)]) :
                 queue'[ClassOf(holding.kind)][i] = queue[ClassOf(holding.kind)][j]
      BY <2>1, <3>1 DEF HeldFirst
    <3>2. CASE queue'[ClassOf(holding.kind)][i].number = produced + 1
      BY <1>0, <2>1, <2>2, <3>2
    <3>. QED BY <1>1, <2>1, <3>1, <3>2
  <2>4. holding.number <= produced + 1
    BY <1>0, <2>1, <2>2
  <2>. QED BY <2>1, <2>3, <2>4 DEF HeldFirst
<1>. QED BY <1>1, <1>2 DEF OrderInv

\* What every step but the tx task's does to queues, holding and numbers.
Idles == UNCHANGED <<holding, last>>
Quiet == Shrinks /\ produced' = produced /\ Idles
Loud(kind) == EnqueueOutbound(kind) /\ New(kind) \in Message /\ Grows(kind) /\ produced' = produced + 1 /\ Idles

LEMMA StepKinds ==
  ASSUME TypeOK, [Next]_vars
  PROVE  Quiet \/ (\E kind \in Kinds : Loud(kind)) \/ TxTakes \/ TxSends \/ TxFails
<1>0. ASSUME UNCHANGED queue
      PROVE  Shrinks
  BY <1>0, SelfSuffix DEF Shrinks, TypeOK
<1>. USE DEF sockVars, taskVars, sentVars, Idles
<1>1. CASE SocketOpens
  BY <1>1, <1>0 DEF SocketOpens, Quiet
<1>2. CASE OnConnectedClears
  BY <1>2, ClearShrinks DEF OnConnectedClears, Quiet
<1>3. CASE SendHandshake
  <2>1. "handshake" \in Kinds
    BY DEF Kinds, Classes
  <2>2. EnqueueOutbound("handshake") /\ Idles
    BY <1>3 DEF SendHandshake
  <2>. QED BY <2>1, <2>2, EnqueueGrows DEF Loud
<1>4. CASE SocketCloses
  BY <1>4, <1>0 DEF SocketCloses, Quiet
<1>5. CASE OnDisconnected
  BY <1>5, ClearShrinks DEF OnDisconnected, Quiet
<1>6. CASE MainChecks
  BY <1>6, <1>0 DEF MainChecks, Quiet
<1>7. CASE MainEnds
  BY <1>7, <1>0 DEF MainEnds, Quiet
<1>8. ASSUME NEW kind \in {"critical", "normal"}, MainSends(kind)
      PROVE  \E any \in Kinds : Loud(any)
  <2>1. kind \in Kinds
    BY DEF Kinds, Classes
  <2>2. EnqueueOutbound(kind) /\ Idles
    BY <1>8 DEF MainSends
  <2>. QED BY <2>1, <2>2, EnqueueGrows DEF Loud
<1>9. CASE ReconnectBegins
  BY <1>9, ClearShrinks DEF ReconnectBegins, Quiet
<1>10. CASE ReconnectStarts
  BY <1>10, <1>0 DEF ReconnectStarts, Quiet
<1>11. CASE ReconnectFails
  BY <1>11, ClearShrinks DEF ReconnectFails, Quiet
<1>12. CASE SensorChecks
  BY <1>12, <1>0 DEF SensorChecks, Quiet
<1>13. CASE SensorSends
  <2>1. "normal" \in Kinds
    BY DEF Kinds, Classes
  <2>2. EnqueueOutbound("normal") /\ Idles
    BY <1>13 DEF SensorSends
  <2>. QED BY <2>1, <2>2, EnqueueGrows DEF Loud
<1>14. CASE CaptureChecks
  BY <1>14, <1>0 DEF CaptureChecks, Quiet
<1>15. CASE CaptureSends
  <2>1. "camera" \in Kinds
    BY DEF Kinds, Classes
  <2>2. EnqueueOutbound("camera") /\ Idles
    BY <1>15 DEF CaptureSends
  <2>. QED BY <2>1, <2>2, EnqueueGrows DEF Loud
<1>16. CASE TrackingTouched
  <2>1. "normal" \in Kinds
    BY DEF Kinds, Classes
  <2>2. EnqueueOutbound("normal") /\ Idles
    BY <1>16 DEF TrackingTouched
  <2>. QED BY <2>1, <2>2, EnqueueGrows DEF Loud
<1>17. CASE UNCHANGED vars
  BY <1>17, <1>0 DEF vars, Quiet
<1>. QED BY <1>1, <1>2, <1>3, <1>4, <1>5, <1>6, <1>7, <1>8, <1>9, <1>10, <1>11, <1>12, <1>13, <1>14, <1>15, <1>16, <1>17 DEF Next, ClientTask, MainTask, Producers, TxTask

\* Nothing is held, so taking the first message that waits keeps the order.
LEMMA TakeOrder ==
  ASSUME TypeOK, TypeOK', OrderInv, TxTakes
  PROVE  OrderInv'
<1>1. /\ Shrinks /\ Served \in Classes /\ Len(queue[Served]) \in Nat \ {0}
      /\ queue'[Served] = Tail(queue[Served])
      /\ holding' = queue[Served][1] /\ holding' \in Message
      /\ UNCHANGED <<produced, last>>
  BY DequeueShrinks DEF TxTakes, sentVars
<1>2. \A class \in Classes : Ordered(class)'
  <2>. SUFFICES ASSUME NEW class \in Classes
                PROVE  Ordered(class)'
    OBVIOUS
  <2>1. PICK k \in 0..Len(queue[class]) :
          /\ Len(queue'[class]) = Len(queue[class]) - k
          /\ \A i \in 1..Len(queue'[class]) : queue'[class][i] = queue[class][i + k]
    BY <1>1 DEF Shrinks, SuffixOf
  <2>2. Len(queue[class]) \in Nat /\ Len(queue'[class]) \in Nat
    BY LenProperties DEF TypeOK
  <2>3. Ordered(class)
    BY DEF OrderInv
  <2>4. \A i \in 1..Len(queue'[class]) : i + k \in 1..Len(queue[class])
    BY <2>1, <2>2
  <2>5. \A i, j \in 1..Len(queue'[class]) :
          i < j => queue'[class][i].number < queue'[class][j].number
    <3>. SUFFICES ASSUME NEW i \in 1..Len(queue'[class]), NEW j \in 1..Len(queue'[class]), i < j
                  PROVE  queue'[class][i].number < queue'[class][j].number
      OBVIOUS
    <3>1. i + k < j + k
      BY <2>1, <2>2
    <3>. QED BY <2>1, <2>3, <2>4, <3>1 DEF Ordered
  <2>. QED BY <1>1, <2>1, <2>3, <2>4, <2>5 DEF Ordered
<1>3. HeldFirst'
  <2>1. Ordered(Served) /\ 1 \in 1..Len(queue[Served])
    BY <1>1 DEF OrderInv
  <2>2. /\ ClassOf(holding'.kind) = Served
        /\ last[Served] < holding'.number /\ holding'.number <= produced
    BY <1>1, <2>1 DEF Ordered
  <2>3. /\ Len(queue'[Served]) = Len(queue[Served]) - 1
        /\ \A i \in 1..Len(queue'[Served]) : queue'[Served][i] = queue[Served][i + 1]
    BY <1>1, HeadTailProperties, LenProperties, EmptySeq DEF TypeOK
  <2>4. \A i \in 1..Len(queue'[Served]) : i + 1 \in 1..Len(queue[Served]) /\ 1 < i + 1
    BY <1>1, <2>3
  <2>5. \A i \in 1..Len(queue'[Served]) : holding'.number < queue'[Served][i].number
    BY <1>1, <2>1, <2>3, <2>4 DEF Ordered
  <2>. QED BY <1>1, <2>2, <2>5 DEF HeldFirst
<1>. QED BY <1>2, <1>3 DEF OrderInv

\* Sending what is held moves `last` up to its number.
LEMMA SendOrder ==
  ASSUME TypeOK, TypeOK', OrderInv, TxSends
  PROVE  OrderInv'
<1>. DEFINE class == ClassOf(holding.kind)
<1>1. /\ holding \in Message /\ holding # Nothing /\ holding' = Nothing
      /\ UNCHANGED <<queue, produced>>
      /\ last' = [last EXCEPT ![class] = holding.number]
  BY DEF TxSends, TypeOK
<1>2. class \in Classes
  BY <1>1 DEF Message, Kinds, Classes, ClassOf
<1>3. ASSUME NEW d \in Classes
      PROVE  Ordered(d)'
  <2>1. Ordered(d)
    BY DEF OrderInv
  <2>2. CASE d # class
    BY <1>1, <2>1, <2>2 DEF Ordered, TypeOK
  <2>3. CASE d = class
    <3>1. last'[d] = holding.number
      BY <1>1, <1>2, <2>3 DEF TypeOK
    <3>2. /\ holding.number <= produced
          /\ \A i \in 1..Len(queue[d]) : holding.number < queue[d][i].number
      BY <1>1, <2>3 DEF OrderInv, HeldFirst
    <3>. QED BY <1>1, <2>1, <3>1, <3>2 DEF Ordered
  <2>. QED BY <2>2, <2>3
<1>. QED BY <1>1, <1>3 DEF OrderInv, HeldFirst

LEMMA NextOrder ==
  ASSUME TypeOK, TypeOK', OrderInv, [Next]_vars
  PROVE  OrderInv'
<1>1. CASE Quiet
  BY <1>1, ShrinkOrder DEF Quiet, Idles
<1>2. CASE \E kind \in Kinds : Loud(kind)
  BY <1>2, GrowOrder DEF Loud, Idles
<1>3. CASE TxTakes
  BY <1>3, TakeOrder
<1>4. CASE TxSends
  BY <1>4, SendOrder
<1>5. CASE TxFails
  <2>1. holding' = Nothing /\ UNCHANGED <<queue, produced, last>>
    BY <1>5 DEF TxFails, sentVars
  <2>2. Shrinks
    BY <2>1, SelfSuffix DEF Shrinks, TypeOK
  <2>. QED BY <2>1, <2>2, ShrinkOrder
<1>. QED BY <1>1, <1>2, <1>3, <1>4, <1>5, StepKinds

LEMMA InitOrder == Init => OrderInv
<1>. SUFFICES ASSUME Init
              PROVE  OrderInv
  OBVIOUS
<1>1. \A class \in Classes : Len(queue[class]) = 0 /\ last[class] = 0
  BY EmptySeq DEF Init, Empty
<1>. QED BY <1>1 DEF Init, OrderInv, Ordered, HeldFirst

-----------------------------------------------------------------------------
(***************************************************************************)
(* Each priority is a lossy channel.                                       *)
(***************************************************************************)

\* With the message held unchanged or dropped, nothing new waits.
LEMMA ShrinkWaits ==
  ASSUME TypeOK, TypeOK', Shrinks, holding' = holding \/ holding' = Nothing
  PROVE  \A class \in Classes : Waiting(class)' \subseteq Waiting(class)
<1>. SUFFICES ASSUME NEW class \in Classes
              PROVE  Waiting(class)' \subseteq Waiting(class)
  OBVIOUS
<1>1. PICK k \in 0..Len(queue[class]) :
        /\ Len(queue'[class]) = Len(queue[class]) - k
        /\ \A i \in 1..Len(queue'[class]) : queue'[class][i] = queue[class][i + k]
  BY DEF Shrinks, SuffixOf
<1>2. Len(queue[class]) \in Nat /\ Len(queue'[class]) \in Nat
  BY LenProperties DEF TypeOK
<1>3. \A i \in 1..Len(queue'[class]) : i + k \in 1..Len(queue[class])
  BY <1>1, <1>2
<1>. QED BY <1>1, <1>3 DEF Waiting

\* A new message adds at most its own number.
LEMMA GrowWaits ==
  ASSUME TypeOK, TypeOK', NEW kind \in Kinds, Loud(kind)
  PROVE  \A class \in Classes : Waiting(class)' \subseteq Waiting(class) \cup {produced'}
<1>. SUFFICES ASSUME NEW class \in Classes
              PROVE  Waiting(class)' \subseteq Waiting(class) \cup {produced'}
  OBVIOUS
<1>1. PICK rest \in Seq(Message) :
        /\ SuffixOf(rest, queue[class])
        /\ queue'[class] = IF class = ClassOf(kind) THEN Append(rest, New(kind)) ELSE rest
  BY DEF Loud, Grows
<1>2. PICK k \in 0..Len(queue[class]) :
        /\ Len(rest) = Len(queue[class]) - k
        /\ \A i \in 1..Len(rest) : rest[i] = queue[class][i + k]
  BY <1>1 DEF SuffixOf
<1>3. Len(queue[class]) \in Nat /\ Len(rest) \in Nat
  BY LenProperties DEF TypeOK
<1>4. \A i \in 1..Len(rest) : i + k \in 1..Len(queue[class])
  BY <1>2, <1>3
<1>5. ASSUME NEW i \in 1..Len(queue'[class])
      PROVE  \/ \E j \in 1..Len(queue[class]) : queue'[class][i] = queue[class][j]
             \/ queue'[class][i].number = produced'
  <2>1. CASE class # ClassOf(kind)
    BY <1>1, <1>2, <1>4, <2>1
  <2>2. CASE class = ClassOf(kind)
    <3>1. /\ Len(queue'[class]) = Len(rest) + 1
          /\ queue'[class][Len(rest) + 1] = New(kind)
          /\ \A j \in 1..Len(rest) : queue'[class][j] = rest[j]
      BY <1>1, <2>2, AppendProperties DEF Loud
    <3>2. New(kind).number = produced'
      BY DEF New, Loud
    <3>3. i \in 1..Len(rest) \/ i = Len(rest) + 1
      BY <1>3, <3>1
    <3>. QED BY <1>2, <1>4, <3>1, <3>2, <3>3
  <2>. QED BY <2>1, <2>2
<1>6. holding' = holding
  BY DEF Loud, Idles
<1>. QED BY <1>5, <1>6 DEF Waiting

LEMMA StepImplements ==
  ASSUME TypeOK, TypeOK', OrderInv, [Next]_vars
  PROVE  \A class \in Classes :
           [Channel(class)!Next]_<<Waiting(class), produced, last[class]>>
<1>. SUFFICES ASSUME NEW class \in Classes
              PROVE  \/ Channel(class)!Produce \/ Channel(class)!Lose \/ Channel(class)!Send
                     \/ UNCHANGED <<Waiting(class), produced, last[class]>>
  BY DEF Channel!Next
<1>1. CASE Quiet
  <2>1. Waiting(class)' \subseteq Waiting(class)
    BY <1>1, ShrinkWaits DEF Quiet, Idles
  <2>. QED BY <1>1, <2>1 DEF Quiet, Idles, Channel!Lose
<1>2. CASE \E kind \in Kinds : Loud(kind)
  <2>1. Waiting(class)' \subseteq Waiting(class) \cup {produced'}
    BY <1>2, GrowWaits
  <2>2. produced' > produced /\ UNCHANGED last
    BY <1>2 DEF Loud, Idles, TypeOK
  <2>. QED BY <2>1, <2>2 DEF Channel!Produce
<1>3. CASE TxTakes
  <2>1. /\ Served \in Classes /\ Len(queue[Served]) \in Nat \ {0}
        /\ queue'[Served] = Tail(queue[Served])
        /\ \A d \in Classes \ {Served} : queue'[d] = queue[d]
        /\ holding = Nothing /\ holding' = queue[Served][1] /\ UNCHANGED <<produced, last>>
    BY <1>3, DequeueShrinks DEF TxTakes, sentVars
  <2>2. ClassOf(holding'.kind) = Served /\ 1 \in 1..Len(queue[Served])
    BY <2>1 DEF OrderInv, Ordered
  <2>3. Waiting(class)' \subseteq Waiting(class)
    <3>1. CASE class = Served
      <4>1. /\ Len(queue[class]) \in Nat \ {0} /\ queue'[class] = Tail(queue[class])
            /\ ClassOf(holding'.kind) = class /\ holding' = queue[class][1]
        BY <2>1, <2>2, <3>1
      <4>2. /\ Len(queue'[class]) = Len(queue[class]) - 1
            /\ \A i \in 1..Len(queue'[class]) : queue'[class][i] = queue[class][i + 1]
        BY <4>1, HeadTailProperties, LenProperties, EmptySeq DEF TypeOK
      <4>3. \A i \in 1..Len(queue'[class]) : i + 1 \in 1..Len(queue[class])
        BY <4>1, <4>2
      <4>4. \A i \in 1..Len(queue[class]) : queue[class][i].number \in Waiting(class)
        BY DEF Waiting
      <4>5. \A i \in 1..Len(queue'[class]) : queue'[class][i].number \in Waiting(class)
        BY <4>2, <4>3, <4>4
      <4>6. holding'.number \in Waiting(class)
        BY <4>1, <4>4
      <4>. QED BY <4>5, <4>6 DEF Waiting
    <3>2. CASE class # Served
      BY <2>1, <2>2, <3>2 DEF Waiting
    <3>. QED BY <3>1, <3>2
  <2>. QED BY <2>1, <2>3 DEF Channel!Lose
<1>4. CASE TxSends
  <2>1. /\ holding \in Message /\ holding # Nothing /\ holding' = Nothing
        /\ UNCHANGED <<queue, produced>>
        /\ last' = [last EXCEPT ![ClassOf(holding.kind)] = holding.number]
    BY <1>4 DEF TxSends, TypeOK
  <2>2. CASE ClassOf(holding.kind) # class
    BY <2>1, <2>2 DEF TypeOK, Waiting
  <2>3. CASE ClassOf(holding.kind) = class
    <3>1. last'[class] = holding.number /\ holding.number \in Nat
      BY <2>1, <2>3 DEF TypeOK, Message
    <3>2. \A i \in 1..Len(queue[class]) : holding.number < queue[class][i].number
      BY <2>1, <2>3 DEF OrderInv, HeldFirst
    <3>3. \A i \in 1..Len(queue[class]) : queue[class][i].number \in Nat
      <4>1. \A i \in 1..Len(queue[class]) : queue[class][i] \in Message
        BY ElementOfSeq DEF TypeOK
      <4>. QED BY <4>1 DEF Message
    <3>4. /\ Waiting(class) = {queue[class][i].number : i \in 1..Len(queue[class])} \cup {holding.number}
          /\ Waiting(class)' = {queue[class][i].number : i \in 1..Len(queue[class])}
      BY <2>1, <2>3 DEF Waiting
    <3>5. \A number \in Waiting(class) : holding.number <= number
      BY <3>1, <3>2, <3>3, <3>4
    <3>6. holding.number \notin Waiting(class)'
      BY <3>1, <3>2, <3>3, <3>4
    <3>7. Waiting(class)' = Waiting(class) \ {holding.number}
      BY <3>4, <3>6
    <3>. QED BY <2>1, <3>1, <3>4, <3>5, <3>7 DEF Channel!Send
  <2>. QED BY <2>2, <2>3
<1>5. CASE TxFails
  <2>1. holding' = Nothing /\ UNCHANGED <<queue, produced, last>>
    BY <1>5 DEF TxFails, sentVars
  <2>2. Shrinks
    BY <2>1, SelfSuffix DEF Shrinks, TypeOK
  <2>3. Waiting(class)' \subseteq Waiting(class)
    BY <2>1, <2>2, ShrinkWaits
  <2>. QED BY <2>1, <2>3 DEF Channel!Lose
<1>. QED BY <1>1, <1>2, <1>3, <1>4, <1>5, StepKinds

LEMMA InitImplements == Init => \A class \in Classes : Channel(class)!Init
<1>. SUFFICES ASSUME Init, NEW class \in Classes
              PROVE  Waiting(class) = {} /\ produced = 0 /\ last[class] = 0
  BY DEF Channel!Init
<1>1. Len(queue[class]) = 0 /\ holding = Nothing
  BY EmptySeq DEF Init, Empty
<1>. QED BY <1>1 DEF Init, Waiting

\* Whatever the tasks interleave, evict, clear or fail to send, the messages of
\* one priority are sent once and in the order of production.
THEOREM ChannelsImplemented == Spec => ImplementsChannels
<1>1. Spec => [](TypeOK /\ OrderInv)
  BY InitTypeOK, NextTypeOK, InitOrder, NextOrder, PTL DEF Spec
<1>2. TypeOK /\ TypeOK' /\ OrderInv /\ [Next]_vars =>
        [\A class \in Classes :
           [Channel(class)!Next]_<<Waiting(class), produced, last[class]>>]_vars
  BY StepImplements
<1>. QED BY <1>1, <1>2, InitImplements, PTL DEF Spec, ImplementsChannels

-----------------------------------------------------------------------------
(***************************************************************************)
(* Nothing stale is sent on a connection that began with its handshake.    *)
(***************************************************************************)

\* What waits after a shrinking step waited before.
LEMMA ShrinkMembers ==
  ASSUME TypeOK, TypeOK', Shrinks, NEW class \in Classes, NEW i \in 1..Len(queue'[class])
  PROVE  \E j \in 1..Len(queue[class]) : queue'[class][i] = queue[class][j]
<1>1. PICK k \in 0..Len(queue[class]) :
        /\ Len(queue'[class]) = Len(queue[class]) - k
        /\ \A j \in 1..Len(queue'[class]) : queue'[class][j] = queue[class][j + k]
  BY DEF Shrinks, SuffixOf
<1>2. Len(queue[class]) \in Nat /\ Len(queue'[class]) \in Nat
  BY LenProperties DEF TypeOK
<1>3. i + k \in 1..Len(queue[class])
  BY <1>1, <1>2
<1>. QED BY <1>1, <1>3

\* What waits after a growing step waited before or is the new message.
LEMMA GrowMembers ==
  ASSUME TypeOK, NEW kind \in Kinds, Loud(kind), NEW class \in Classes,
         NEW i \in 1..Len(queue'[class])
  PROVE  \/ \E j \in 1..Len(queue[class]) : queue'[class][i] = queue[class][j]
         \/ queue'[class][i] = New(kind)
<1>1. PICK rest \in Seq(Message) :
        /\ SuffixOf(rest, queue[class])
        /\ queue'[class] = IF class = ClassOf(kind) THEN Append(rest, New(kind)) ELSE rest
  BY DEF Loud, Grows
<1>2. PICK k \in 0..Len(queue[class]) :
        /\ Len(rest) = Len(queue[class]) - k
        /\ \A j \in 1..Len(rest) : rest[j] = queue[class][j + k]
  BY <1>1 DEF SuffixOf
<1>3. Len(queue[class]) \in Nat /\ Len(rest) \in Nat
  BY LenProperties DEF TypeOK
<1>4. \A j \in 1..Len(rest) : j + k \in 1..Len(queue[class])
  BY <1>2, <1>3
<1>5. CASE class # ClassOf(kind)
  BY <1>1, <1>2, <1>4, <1>5
<1>6. CASE class = ClassOf(kind)
  <2>1. /\ Len(queue'[class]) = Len(rest) + 1
        /\ queue'[class][Len(rest) + 1] = New(kind)
        /\ \A j \in 1..Len(rest) : queue'[class][j] = rest[j]
    BY <1>1, <1>6, AppendProperties DEF Loud
  <2>2. i \in 1..Len(rest) \/ i = Len(rest) + 1
    BY <1>3, <2>1
  <2>. QED BY <1>2, <1>4, <2>1, <2>2
<1>. QED BY <1>5, <1>6

\* Steps that only take messages away.
LEMMA ShrinkFresh ==
  ASSUME TypeOK, TypeOK', FreshInv, Shrinks, UNCHANGED <<conn, first>>,
         holding' = holding \/ holding' = Nothing,
         \/ client' = "opened" <=> client = "opened"
         \/ client' # "opened" /\ \A class \in Classes : Len(queue'[class]) = 0
  PROVE  FreshInv'
<1>1. Cleared'
  <2>. SUFFICES ASSUME client' # "opened", NEW class \in Classes, NEW i \in 1..Len(queue'[class])
                PROVE  queue'[class][i].conn = conn
    BY DEF Cleared
  <2>1. client # "opened"
    OBVIOUS
  <2>. QED BY <2>1, ShrinkMembers DEF FreshInv, Cleared
<1>2. NoneLater'
  <2>1. client' = "opened" => client = "opened"
    OBVIOUS
  <2>2. ASSUME NEW class \in Classes, NEW i \in 1..Len(queue'[class])
        PROVE  Before(queue[class][i])' 
    <3>1. PICK j \in 1..Len(queue[class]) : queue'[class][i] = queue[class][j]
      BY <2>2, ShrinkMembers
    <3>2. Before(queue[class][j])
      BY DEF FreshInv, NoneLater
    <3>. QED BY <2>1, <3>1, <3>2 DEF Before
  <2>3. holding' # Nothing => Before(holding)'
    BY <2>1 DEF FreshInv, NoneLater, Before
  <2>4. client' = "opened" => first' # "handshake"
    BY <2>1 DEF FreshInv, NoneLater
  <2>. QED BY <2>2, <2>3, <2>4 DEF NoneLater
<1>3. HeldFresh'
  BY DEF FreshInv, HeldFresh
<1>. QED BY <1>1, <1>2, <1>3 DEF FreshInv

\* A new message belongs to the latest connection, and the handshake is queued
\* only once the queues have been cleared.
LEMMA GrowFresh ==
  ASSUME TypeOK, FreshInv, NEW kind \in Kinds, Loud(kind), UNCHANGED <<conn, first>>,
         client' = "opened" <=> client = "opened",
         kind = "handshake" => client # "opened"
  PROVE  FreshInv'
<1>1. New(kind).conn = conn /\ New(kind).kind = kind /\ conn \in Nat
  BY DEF New, TypeOK
<1>2. holding' = holding
  BY DEF Loud, Idles
<1>3. Cleared'
  <2>. SUFFICES ASSUME client' # "opened", NEW class \in Classes, NEW i \in 1..Len(queue'[class])
                PROVE  queue'[class][i].conn = conn
    BY DEF Cleared
  <2>. QED BY <1>1, GrowMembers DEF FreshInv, Cleared
<1>4. NoneLater'
  <2>1. ASSUME NEW class \in Classes, NEW i \in 1..Len(queue'[class])
        PROVE  Before(queue[class][i])'
    <3>1. CASE \E j \in 1..Len(queue[class]) : queue'[class][i] = queue[class][j]
      BY <3>1 DEF FreshInv, NoneLater, Before
    <3>2. CASE queue'[class][i] = New(kind)
      BY <1>1, <3>2 DEF Before
    <3>. QED BY <2>1, <3>1, <3>2, GrowMembers
  <2>. QED BY <1>2, <2>1 DEF FreshInv, NoneLater, Before
<1>5. HeldFresh'
  BY <1>2 DEF FreshInv, HeldFresh
<1>. QED BY <1>3, <1>4, <1>5 DEF FreshInv
LEMMA NextFresh ==
  ASSUME TypeOK, TypeOK', FreshInv, [Next]_vars
  PROVE  FreshInv'
<1>. USE DEF sockVars, taskVars, sentVars
<1>0. ASSUME UNCHANGED queue
      PROVE  Shrinks
  BY <1>0, SelfSuffix DEF Shrinks, TypeOK
<1>1. CASE SocketOpens
  <2>1. conn' = conn + 1 /\ conn \in Nat /\ client' = "opened" /\ first' = "none" /\ UNCHANGED <<queue, holding>>
    BY <1>1 DEF SocketOpens, TypeOK
  <2>2. ASSUME NEW message \in Message, Before(message)
        PROVE  Before(message)'
    BY <2>1, <2>2 DEF Before, Message
  <2>3. \A class \in Classes : \A i \in 1..Len(queue[class]) :
          queue[class][i] \in Message /\ Before(queue[class][i])
    <3>1. \A class \in Classes : \A i \in 1..Len(queue[class]) : queue[class][i] \in Message
      BY ElementOfSeq DEF TypeOK
    <3>. QED BY <3>1 DEF FreshInv, NoneLater
  <2>4. holding # Nothing => holding \in Message /\ Before(holding)
    BY DEF FreshInv, NoneLater, TypeOK
  <2>5. \A class \in Classes : \A i \in 1..Len(queue[class]) : Before(queue[class][i])'
    BY <2>1, <2>2, <2>3 DEF Before
  <2>6. holding # Nothing => Before(holding)'
    BY <2>1, <2>2, <2>4 DEF Before
  <2>7. NoneLater'
    BY <2>1, <2>5, <2>6 DEF NoneLater, Before
  <2>. QED BY <2>1, <2>7 DEF FreshInv, Cleared, HeldFresh
<1>2. CASE OnConnectedClears
  <2>1. /\ Shrinks /\ \A class \in Classes : Len(queue'[class]) = 0
        /\ UNCHANGED <<conn, first, holding>>
    BY <1>2, ClearShrinks, EmptySeq DEF OnConnectedClears
  <2>2. client' # "opened"
    BY <1>2 DEF OnConnectedClears
  <2>. QED BY <2>1, <2>2, ShrinkFresh
<1>3. CASE SendHandshake
  <2>1. "handshake" \in Kinds
    BY DEF Kinds, Classes
  <2>2. Loud("handshake") /\ UNCHANGED <<conn, first>> /\ client = "cleared" /\ client' = "waiting"
    BY <1>3, <2>1, EnqueueGrows DEF SendHandshake, Loud, Idles
  <2>. QED BY <2>1, <2>2, GrowFresh
<1>4. CASE SocketCloses
  <2>1. UNCHANGED <<queue, conn, first, holding, client>>
    BY <1>4 DEF SocketCloses
  <2>. QED BY <1>0, <2>1, ShrinkFresh
<1>5. CASE OnDisconnected
  <2>1. /\ Shrinks /\ \A class \in Classes : Len(queue'[class]) = 0
        /\ UNCHANGED <<conn, first, holding>>
    BY <1>5, ClearShrinks, EmptySeq DEF OnDisconnected
  <2>2. client' = client
    BY <1>5 DEF OnDisconnected
  <2>. QED BY <2>1, <2>2, ShrinkFresh
<1>6. CASE MainChecks
  <2>1. UNCHANGED <<queue, conn, first, holding, client>>
    BY <1>6 DEF MainChecks
  <2>. QED BY <1>0, <2>1, ShrinkFresh
<1>7. CASE MainEnds
  <2>1. UNCHANGED <<queue, conn, first, holding, client>>
    BY <1>7 DEF MainEnds
  <2>. QED BY <1>0, <2>1, ShrinkFresh
<1>8. ASSUME NEW kind \in {"critical", "normal"}, MainSends(kind)
      PROVE  FreshInv'
  <2>1. kind \in Kinds /\ kind # "handshake"
    BY DEF Kinds, Classes
  <2>2. Loud(kind) /\ UNCHANGED <<conn, first, client>>
    BY <1>8, <2>1, EnqueueGrows DEF MainSends, Loud, Idles
  <2>. QED BY <2>1, <2>2, GrowFresh
<1>9. CASE ReconnectBegins
  <2>1. /\ Shrinks /\ \A class \in Classes : Len(queue'[class]) = 0
        /\ UNCHANGED <<conn, first, holding>>
    BY <1>9, ClearShrinks, EmptySeq DEF ReconnectBegins
  <2>2. client' = client
    BY <1>9 DEF ReconnectBegins
  <2>. QED BY <2>1, <2>2, ShrinkFresh
<1>10. CASE ReconnectStarts
  <2>1. UNCHANGED <<queue, conn, first, holding>> /\ client # "opened" /\ client' # "opened"
    BY <1>10 DEF ReconnectStarts
  <2>. QED BY <1>0, <2>1, ShrinkFresh
<1>11. CASE ReconnectFails
  <2>1. /\ Shrinks /\ \A class \in Classes : Len(queue'[class]) = 0
        /\ UNCHANGED <<conn, first, holding>>
    BY <1>11, ClearShrinks, EmptySeq DEF ReconnectFails
  <2>2. client' # "opened"
    BY <1>11 DEF ReconnectFails
  <2>. QED BY <2>1, <2>2, ShrinkFresh
<1>12. CASE SensorChecks
  <2>1. UNCHANGED <<queue, conn, first, holding, client>>
    BY <1>12 DEF SensorChecks
  <2>. QED BY <1>0, <2>1, ShrinkFresh
<1>13. CASE SensorSends
  <2>1. "normal" \in Kinds
    BY DEF Kinds, Classes
  <2>2. Loud("normal") /\ UNCHANGED <<conn, first>> /\ client' = client
    BY <1>13, <2>1, EnqueueGrows DEF SensorSends, Loud, Idles
  <2>. QED BY <2>1, <2>2, GrowFresh
<1>14. CASE CaptureChecks
  <2>1. UNCHANGED <<queue, conn, first, holding, client>>
    BY <1>14 DEF CaptureChecks
  <2>. QED BY <1>0, <2>1, ShrinkFresh
<1>15. CASE CaptureSends
  <2>1. "camera" \in Kinds
    BY DEF Kinds, Classes
  <2>2. Loud("camera") /\ UNCHANGED <<conn, first>> /\ client' = client
    BY <1>15, <2>1, EnqueueGrows DEF CaptureSends, Loud, Idles
  <2>. QED BY <2>1, <2>2, GrowFresh
<1>16. CASE TrackingTouched
  <2>1. "normal" \in Kinds
    BY DEF Kinds, Classes
  <2>2. Loud("normal") /\ UNCHANGED <<conn, first>> /\ client' = client
    BY <1>16, <2>1, EnqueueGrows DEF TrackingTouched, Loud, Idles
  <2>. QED BY <2>1, <2>2, GrowFresh
<1>17. CASE TxTakes
  <2>1. /\ Shrinks /\ Served \in Classes /\ Len(queue[Served]) \in Nat \ {0}
        /\ holding' = queue[Served][1] /\ UNCHANGED <<conn, first, client>>
    BY <1>17, DequeueShrinks DEF TxTakes
  <2>2. 1 \in 1..Len(queue[Served])
    BY <2>1
  <2>3. Cleared'
    <3>. SUFFICES ASSUME client # "opened", NEW class \in Classes, NEW i \in 1..Len(queue'[class])
                  PROVE  queue'[class][i].conn = conn
      BY <2>1 DEF Cleared
    <3>. QED BY <2>1, ShrinkMembers DEF FreshInv, Cleared
  <2>4. NoneLater'
    <3>1. ASSUME NEW class \in Classes, NEW i \in 1..Len(queue'[class])
          PROVE  Before(queue[class][i])'
      <4>1. PICK j \in 1..Len(queue[class]) : queue'[class][i] = queue[class][j]
        BY <2>1, <3>1, ShrinkMembers
      <4>2. Before(queue[class][j])
        BY DEF FreshInv, NoneLater
      <4>. QED BY <2>1, <4>1, <4>2 DEF Before
    <3>2. Before(holding)'
      BY <2>1, <2>2 DEF FreshInv, NoneLater, Before
    <3>. QED BY <2>1, <3>1, <3>2 DEF FreshInv, NoneLater
  <2>5. HeldFresh'
    BY <2>1, <2>2 DEF FreshInv, HeldFresh, NoneLater, Cleared
  <2>. QED BY <2>3, <2>4, <2>5 DEF FreshInv
<1>18. CASE TxSends
  <2>1. /\ UNCHANGED <<queue, conn, client>> /\ holding' = Nothing /\ holding # Nothing
        /\ first' = IF first # "none" THEN first
                    ELSE IF holding.conn = conn THEN holding.kind ELSE "stale"
    BY <1>18 DEF TxSends
  <2>2. client' = "opened" => first' # "handshake"
    BY <2>1 DEF FreshInv, NoneLater, Before
  <2>. QED BY <2>1, <2>2 DEF FreshInv, Cleared, NoneLater, Before, HeldFresh
<1>19. CASE TxFails
  BY <1>19, <1>0, ShrinkFresh DEF TxFails
<1>20. CASE UNCHANGED vars
  <2>1. UNCHANGED <<queue, conn, first, holding, client>>
    BY <1>20 DEF vars
  <2>. QED BY <1>0, <2>1, ShrinkFresh
<1>. QED BY <1>1, <1>2, <1>3, <1>4, <1>5, <1>6, <1>7, <1>8, <1>9, <1>10, <1>11, <1>12, <1>13, <1>14, <1>15, <1>16, <1>17, <1>18, <1>19, <1>20 DEF Next, ClientTask, MainTask, Producers, TxTask

LEMMA InitFresh == Init => FreshInv
<1>. SUFFICES ASSUME Init
              PROVE  FreshInv
  OBVIOUS
<1>1. \A class \in Classes : Len(queue[class]) = 0
  BY EmptySeq DEF Init, Empty
<1>. QED BY <1>1 DEF Init, FreshInv, Cleared, NoneLater, HeldFresh

\* On a connection that began with its own handshake nothing older is queued or
\* held, so nothing older is sent.
THEOREM NeverStale == Spec => []NothingStale
<1>1. TypeOK /\ FreshInv => NothingStale
  <2>. SUFFICES ASSUME FreshInv, first = "handshake"
                PROVE  /\ \A class \in Classes : \A i \in 1..Len(queue[class]) :
                            queue[class][i].conn = conn
                       /\ holding # Nothing => holding.conn = conn
    BY DEF NothingStale
  <2>. QED BY DEF FreshInv, NoneLater, Cleared, HeldFresh
<1>2. Spec => [](TypeOK /\ FreshInv)
  BY InitTypeOK, NextTypeOK, InitFresh, NextFresh, PTL DEF Spec
<1>. QED BY <1>1, <1>2, PTL

-----------------------------------------------------------------------------
(***************************************************************************)
(* The limits of the camera and normal queues.                             *)
(***************************************************************************)

\* A suffix is no longer than the whole.
LEMMA ShrinkLength ==
  ASSUME NEW s \in Seq(Message), NEW t \in Seq(Message), SuffixOf(t, s)
  PROVE  Len(t) <= Len(s)
BY LenProperties DEF SuffixOf

LEMMA EnqueueBounded ==
  ASSUME TypeOK, BoundedQueues, NEW kind \in Kinds, EnqueueOutbound(kind)
  PROVE  BoundedQueues'
<1>. DEFINE room == RoomFor(ClassOf(kind))
<1>1. ClassOf(kind) \in Classes /\ {"camera", "normal"} \subseteq Classes
  BY DEF ClassOf, Kinds, Classes
<1>2. /\ room \in [Classes -> Seq(Message)]
      /\ \A d \in Classes : SuffixOf(room[d], queue[d])
      /\ ClassOf(kind) = "camera" => Len(room["camera"]) < CameraMax
      /\ ClassOf(kind) = "normal" => Len(room["normal"]) < NormalMax
  BY <1>1, RoomSuffix
<1>3. queue' = [room EXCEPT ![ClassOf(kind)] = Append(room[ClassOf(kind)], New(kind))]
  BY DEF EnqueueOutbound, New
<1>4. New(kind) \in Message
  BY EnqueueGrows
<1>. HIDE DEF room
<1>5. ASSUME NEW class \in {"camera", "normal"}, NEW max \in Nat \ {0},
             Len(queue[class]) <= max, ClassOf(kind) = class => Len(room[class]) < max
      PROVE  Len(queue'[class]) <= max
  <2>1. queue[class] \in Seq(Message) /\ room[class] \in Seq(Message)
    BY <1>1, <1>2 DEF TypeOK
  <2>2. CASE class = ClassOf(kind)
    <3>1. queue'[class] = Append(room[class], New(kind))
      BY <1>1, <1>2, <1>3, <2>2
    <3>2. Len(queue'[class]) = Len(room[class]) + 1 /\ Len(room[class]) \in Nat
      BY <1>4, <2>1, <3>1, AppendProperties, LenProperties
    <3>. QED BY <1>5, <2>2, <3>2
  <2>3. CASE class # ClassOf(kind)
    <3>1. queue'[class] = room[class]
      BY <1>1, <1>2, <1>3, <2>3
    <3>2. Len(room[class]) <= Len(queue[class])
      BY <1>1, <1>2, <2>1, ShrinkLength
    <3>. QED BY <1>5, <2>1, <3>1, <3>2, LenProperties
  <2>. QED BY <2>2, <2>3
<1>. QED BY <1>2, <1>5, CapacityAssumption DEF BoundedQueues

LEMMA ShrinkBounded ==
  ASSUME TypeOK, TypeOK', BoundedQueues, Shrinks
  PROVE  BoundedQueues'
<1>1. \A class \in {"camera", "normal"} :
        /\ Len(queue'[class]) <= Len(queue[class])
        /\ Len(queue'[class]) \in Nat /\ Len(queue[class]) \in Nat
  BY ShrinkLength, LenProperties DEF TypeOK, Shrinks, Classes
<1>. QED BY <1>1, CapacityAssumption DEF BoundedQueues

\* The camera and normal queues stay within their limits.
THEOREM NeverOverfull == Spec => []BoundedQueues
<1>1. Init => BoundedQueues
  BY EmptySeq, CapacityAssumption DEF Init, Empty, BoundedQueues, Classes
<1>2. ASSUME TypeOK, TypeOK', BoundedQueues, [Next]_vars
      PROVE  BoundedQueues'
  <2>1. CASE Quiet
    BY <1>2, <2>1, ShrinkBounded DEF Quiet
  <2>2. CASE \E kind \in Kinds : Loud(kind)
    BY <1>2, <2>2, EnqueueBounded DEF Loud
  <2>3. CASE TxTakes
    BY <1>2, <2>3, DequeueShrinks, ShrinkBounded DEF TxTakes
  <2>4. CASE TxSends
    BY <1>2, <2>4 DEF TxSends, BoundedQueues
  <2>5. CASE TxFails
    BY <1>2, <2>5 DEF TxFails, BoundedQueues
  <2>. QED BY <1>2, <2>1, <2>2, <2>3, <2>4, <2>5, StepKinds
<1>3. Spec => [](TypeOK /\ BoundedQueues)
  BY <1>1, <1>2, InitTypeOK, NextTypeOK, PTL DEF Spec
<1>. QED BY <1>3, PTL
=============================================================================
