------------------------- MODULE FaceTrackingProofs -------------------------
(***************************************************************************)
(* Proofs about FaceTracking, for every bound. The detector: its types,    *)
(* that an answer goes to the frame it is about while the robot's frame    *)
(* numbers are not reused, and that overruns alone make frames pile up     *)
(* before the process. The head: tracking yields to moveHead, and steps    *)
(* from where the head is.                                                 *)
(***************************************************************************)
EXTENDS FaceTracking, SequenceTheorems, TLAPS

(***************************************************************************)
(* The inductive invariant. The tracker waits for one frame at most; no    *)
(* frame is from a boot to come; a frame is before the process once, and   *)
(* has no answer then; and what is before the process, but for the frame   *)
(* the tracker waits for, is what timed out.                               *)
(***************************************************************************)
FaultsOK == boot \in 0..MaxFaults /\ outages \in 0..MaxFaults

OneRequest == detecting = (pending # {}) /\ \A f, g \in pending : f = g

Numbered ==
  /\ \A f \in pending : f.boot <= boot
  /\ \A i \in 1..Len(pipe) : pipe[i].boot <= boot
  /\ \A i \in 1..Len(answers) : answers[i].frame.boot <= boot

Distinct ==
  /\ \A i, j \in 1..Len(pipe) : pipe[i] = pipe[j] => i = j
  /\ \A i \in 1..Len(pipe), j \in 1..Len(answers) : pipe[i] # answers[j].frame

Unanswered == \E f \in pending : \E i \in 1..Len(pipe) : pipe[i] = f

Backlog ==
  ~mistaken => Len(pipe) <= overruns + 1 /\ (~Unanswered => Len(pipe) <= overruns)

IInv == /\ SidecarTypeOK /\ FaultsOK
        /\ OneRequest /\ Numbered /\ Distinct
        /\ AnswersItsFrame /\ Backlog

Parts == <<pipe, answers, pending, mistaken, overruns>>

LEMMA InitIInv == Init => IInv
<1> SUFFICES ASSUME Init PROVE IInv
  OBVIOUS
<1>1. 0 \in 0..MaxFaults
  BY SidecarAssumption
<1>2. pipe = <<>> /\ answers = <<>> /\ Len(pipe) = 0 /\ Len(answers) = 0
  BY DEF Init, SidecarInit
<1>3. SidecarTypeOK /\ FaultsOK
  BY <1>1, <1>2, EmptySeq DEF Init, SidecarInit, SidecarTypeOK, FaultsOK
<1>4. pending = {} /\ ~detecting /\ ~mistaken /\ overruns = 0
  BY DEF Init, SidecarInit
<1>5. OneRequest
  BY <1>4, Zenon DEF OneRequest, Init
<1>6. Numbered /\ Distinct /\ AnswersItsFrame
  BY <1>2, <1>4 DEF Numbered, Distinct, AnswersItsFrame
<1>7. Backlog
  BY <1>2, <1>4 DEF Backlog
<1> QED
  BY <1>3, <1>5, <1>6, <1>7 DEF IInv

(***************************************************************************)
(* Steps that leave the requests and the process's lines alone.            *)
(***************************************************************************)
LEMMA PartsKept ==
  ASSUME IInv, UNCHANGED <<Parts, detecting>>, SidecarTypeOK', FaultsOK', boot' >= boot
  PROVE  IInv'
<1> USE DEF IInv, Parts
<1>1. OneRequest' /\ Distinct'
  BY DEF OneRequest, Distinct
<1>2. Backlog' 
  BY DEF Backlog, Unanswered
<1>3. AnswersItsFrame'
  BY DEF AnswersItsFrame, FaultsOK
<1>4. Numbered'
  <2>1. boot \in Int /\ boot' \in Int
    BY DEF FaultsOK
  <2>2. /\ \A f \in pending : f.boot \in Int
        /\ \A i \in 1..Len(pipe) : pipe[i].boot \in Int
        /\ \A i \in 1..Len(answers) : answers[i].frame.boot \in Int
    <3>1. /\ \A f \in pending : f \in Frames
          /\ \A i \in 1..Len(pipe) : pipe[i] \in Frames
          /\ \A i \in 1..Len(answers) : answers[i] \in Answers
      BY ElementOfSeq DEF SidecarTypeOK
    <3> QED
      BY <3>1 DEF Frames, Answers
  <2> QED
    BY <2>1, <2>2 DEF Numbered
<1> QED
  BY <1>1, <1>2, <1>3, <1>4

\* What FaultPossible leaves room for.
LEMMA OneMoreFault ==
  ASSUME IInv, FaultPossible
  PROVE  /\ overruns + 1 \in 0..MaxFaults /\ exits + 1 \in 0..MaxFaults
         /\ failedStarts + 1 \in 0..MaxFaults /\ boot + 1 \in 0..MaxFaults
         /\ outages + 1 \in 0..MaxFaults
<1>1. /\ overruns \in Nat /\ exits \in Nat /\ failedStarts \in Nat /\ boot \in Nat /\ outages \in Nat
      /\ MaxFaults \in Nat
  BY SidecarAssumption DEF IInv, SidecarTypeOK, FaultsOK
<1> QED
  BY <1>1 DEF FaultPossible

\* A head and what follows it.
LEMMA TailOf ==
  ASSUME NEW S, NEW s \in Seq(S), s # <<>>
  PROVE  /\ Head(s) = s[1] /\ s[1] \in S /\ 1 \in 1..Len(s)
         /\ Tail(s) \in Seq(S) /\ Len(Tail(s)) = Len(s) - 1 /\ Len(s) \in Nat
         /\ \A i \in 1..Len(Tail(s)) : i + 1 \in 1..Len(s) /\ i + 1 # 1 /\ Tail(s)[i] = s[i + 1]
<1>1. Len(s) \in Nat \ {0}
  BY EmptySeq
<1>2. Head(s) = s[1] /\ s[1] \in S
  BY <1>1, HeadTailProperties, ElementOfSeq
<1>3. Tail(s) \in Seq(S) /\ Len(Tail(s)) = Len(s) - 1
      /\ \A i \in 1..Len(Tail(s)) : Tail(s)[i] = s[i + 1]
  BY <1>1, HeadTailProperties
<1> QED
  BY <1>1, <1>2, <1>3

\* What a sequence ends with after an append.
LEMMA AppendOf ==
  ASSUME NEW S, NEW s \in Seq(S), NEW e \in S
  PROVE  /\ Append(s, e) \in Seq(S) /\ Len(Append(s, e)) = Len(s) + 1 /\ Len(s) \in Nat
         /\ \A i \in 1..Len(Append(s, e)) :
              \/ i \in 1..Len(s) /\ Append(s, e)[i] = s[i]
              \/ i = Len(s) + 1 /\ Append(s, e)[i] = e
         /\ Len(s) + 1 \in 1..Len(Append(s, e))
<1>1. /\ Append(s, e) \in Seq(S) /\ Len(s) \in Nat /\ Len(Append(s, e)) = Len(s) + 1
      /\ \A i \in 1..Len(s) : Append(s, e)[i] = s[i]
      /\ Append(s, e)[Len(s) + 1] = e
  BY AppendProperties, LenProperties
<1>2. /\ \A i \in 1..Len(Append(s, e)) : i \in 1..Len(s) \/ i = Len(s) + 1
      /\ Len(s) + 1 \in 1..Len(Append(s, e))
  BY <1>1
<1> QED
  BY <1>1, <1>2, Zenon

-----------------------------------------------------------------------------
(***************************************************************************)
(* A frame goes to the detector, which waits for none.                     *)
(***************************************************************************)
LEMMA RequestIInv ==
  ASSUME IInv, UnusedIds # {}, Request([id |-> NewId, boot |-> boot]), ~detecting,
         detecting' = TRUE, UNCHANGED <<boot, outages>>
  PROVE  IInv'
<1> DEFINE frame == [id |-> NewId, boot |-> boot]
<1>1. NewId \in UnusedIds
  BY DEF NewId
<1>2. frame \in Frames /\ frame.boot = boot /\ boot \in Nat
  BY <1>1 DEF UnusedIds, Frames, IInv, FaultsOK
<1>3. /\ \A i \in 1..Len(pipe) : pipe[i] # frame
      /\ \A i \in 1..Len(answers) : answers[i].frame # frame
  BY <1>1, LenProperties DEF UnusedIds, ToSet, IInv, SidecarTypeOK
<1>4. pending = {}
  BY DEF IInv, OneRequest
<1>5. pipe' = Append(pipe, frame) /\ pending' = {frame}
      /\ UNCHANGED <<answers, mistaken, overruns, exits, failedStarts, boot, outages>>
  BY <1>4 DEF Request
<1>6. child' \in {"none", "running", "exited", "failed"}
  BY DEF Request, IInv, SidecarTypeOK
<1> HIDE DEF frame
<1>7. /\ pipe' \in Seq(Frames) /\ Len(pipe') = Len(pipe) + 1 /\ Len(pipe) \in Nat
      /\ \A i \in 1..Len(pipe') : \/ i \in 1..Len(pipe) /\ pipe'[i] = pipe[i]
                                  \/ i = Len(pipe) + 1 /\ pipe'[i] = frame
      /\ Len(pipe) + 1 \in 1..Len(pipe')
  BY <1>2, <1>5, AppendOf DEF IInv, SidecarTypeOK
<1>8. SidecarTypeOK' /\ FaultsOK'
  BY <1>2, <1>5, <1>6, <1>7 DEF IInv, SidecarTypeOK, FaultsOK
<1>9. OneRequest' /\ AnswersItsFrame'
  BY <1>5 DEF IInv, OneRequest, AnswersItsFrame
<1>10. Numbered'
  BY <1>2, <1>5, <1>7 DEF IInv, Numbered
<1>11. Distinct'
  <2>1. \A i, j \in 1..Len(pipe') : pipe'[i] = pipe'[j] => i = j
    BY <1>3, <1>7 DEF IInv, Distinct
  <2>2. \A i \in 1..Len(pipe'), j \in 1..Len(answers') : pipe'[i] # answers'[j].frame
    BY <1>3, <1>5, <1>7 DEF IInv, Distinct
  <2> QED
    BY <2>1, <2>2 DEF Distinct
<1>12. Backlog'
  <2>1. ~Unanswered /\ overruns \in Nat
    BY <1>4 DEF Unanswered, IInv, SidecarTypeOK
  <2>2. Unanswered'
    BY <1>5, <1>7 DEF Unanswered
  <2> QED
    BY <1>5, <1>7, <2>1, <2>2 DEF IInv, Backlog
<1> QED
  BY <1>8, <1>9, <1>10, <1>11, <1>12 DEF IInv

(***************************************************************************)
(* The tracker reads an answer.                                            *)
(***************************************************************************)
LEMMA AnswerArrivesIInv == IInv /\ AnswerArrives => IInv'
<1> SUFFICES ASSUME IInv, AnswerArrives PROVE IInv'
  OBVIOUS
<1> DEFINE answer == Head(answers)
<1>1. /\ answers \in Seq(Answers) /\ answers # <<>>
      /\ answers' = Tail(answers) /\ pending' = pending \ Awaited(answer)
      /\ mistaken' = (mistaken \/ \E frame \in Awaited(answer) : frame # answer.frame)
      /\ UNCHANGED <<child, pipe, overruns, exits, failedStarts, boot, outages>>
  BY DEF IInv, SidecarTypeOK, AnswerArrives, ReadLine, robotVars
<1>2. detecting' = IF Awaited(answer) # {} THEN FALSE ELSE detecting
  BY DEF AnswerArrives
<1>3. /\ answer = answers[1] /\ answer \in Answers /\ 1 \in 1..Len(answers)
      /\ answers' \in Seq(Answers)
      /\ \A i \in 1..Len(answers') : i + 1 \in 1..Len(answers) /\ answers'[i] = answers[i + 1]
  BY <1>1, TailOf
<1>4. Awaited(answer) \subseteq pending /\ \A f \in Awaited(answer) : f.id = answer.frame.id
  BY DEF Awaited
<1> HIDE DEF answer
<1>5. pending \subseteq Frames /\ answer.frame \in Frames
  BY <1>3 DEF IInv, SidecarTypeOK, Answers
<1>6. pending' \subseteq pending
  BY <1>1
<1>7. SidecarTypeOK' /\ FaultsOK'
  BY <1>1, <1>3, <1>6 DEF IInv, SidecarTypeOK, FaultsOK
<1>8. OneRequest'
  <2>1. CASE Awaited(answer) = {}
    BY <1>1, <1>2, <2>1 DEF IInv, OneRequest
  <2>2. CASE Awaited(answer) # {}
    <3>1. pending' = {}
      BY <1>1, <1>4, <2>2 DEF IInv, OneRequest
    <3> QED
      BY <1>2, <2>2, <3>1 DEF OneRequest
  <2> QED
    BY <2>1, <2>2
<1>9. Numbered'
  BY <1>1, <1>3, <1>6 DEF IInv, Numbered
<1>10. Distinct'
  BY <1>1, <1>3 DEF IInv, Distinct
<1>11. AnswersItsFrame'
  <2> SUFFICES ASSUME boot = 0 PROVE ~mistaken'
    BY <1>1 DEF AnswersItsFrame
  <2>1. ASSUME NEW f \in Awaited(answer) PROVE f = answer.frame
    <3>1. f \in Frames /\ f.id = answer.frame.id /\ f.boot <= 0 /\ answer.frame.boot <= 0
      BY <1>3, <1>4, <1>5 DEF IInv, Numbered
    <3>2. f.boot \in Nat /\ answer.frame.boot \in Nat
      BY <1>5, <3>1 DEF Frames
    <3>3. f.boot = answer.frame.boot
      BY <3>1, <3>2
    <3> QED
      BY <1>5, <3>1, <3>3 DEF Frames
  <2> QED
    BY <1>1, <2>1 DEF IInv, AnswersItsFrame
<1>12. Backlog'
  <2> SUFFICES ASSUME ~mistaken'
               PROVE  Len(pipe) <= overruns + 1 /\ (~Unanswered' => Len(pipe) <= overruns)
    BY <1>1 DEF Backlog
  <2>1. ~mistaken /\ \A f \in Awaited(answer) : f = answer.frame
    BY <1>1
  <2>2. CASE Awaited(answer) = {}
    BY <1>1, <2>1, <2>2 DEF IInv, Backlog, Unanswered
  <2>3. CASE Awaited(answer) # {}
    <3>1. \A f \in pending : f = answer.frame
      BY <1>4, <2>1, <2>3 DEF IInv, OneRequest
    <3>2. ~Unanswered
      BY <1>3, <3>1 DEF IInv, Distinct, Unanswered
    <3> QED
      BY <2>1, <3>2 DEF IInv, Backlog
  <2> QED
    BY <2>2, <2>3
<1> QED
  BY <1>7, <1>8, <1>9, <1>10, <1>11, <1>12 DEF IInv

(***************************************************************************)
(* The process answers the oldest frame.                                   *)
(***************************************************************************)
LEMMA ProcessAnswersIInv ==
  ASSUME IInv, ProcessAnswers, UNCHANGED <<detecting, boot, outages>>
  PROVE  IInv'
<1>1. PICK found \in {"face", "none"} : answers' = Append(answers, [frame |-> Head(pipe), found |-> found])
  BY DEF ProcessAnswers
<1>2. /\ pipe \in Seq(Frames) /\ answers \in Seq(Answers) /\ pipe # <<>> /\ pipe' = Tail(pipe)
      /\ UNCHANGED <<child, pending, mistaken, overruns, exits, failedStarts, boot, outages>>
  BY DEF IInv, SidecarTypeOK, ProcessAnswers
<1>3. /\ Head(pipe) = pipe[1] /\ pipe[1] \in Frames /\ 1 \in 1..Len(pipe)
      /\ pipe' \in Seq(Frames) /\ Len(pipe') = Len(pipe) - 1 /\ Len(pipe) \in Nat
      /\ \A i \in 1..Len(pipe') : i + 1 \in 1..Len(pipe) /\ i + 1 # 1 /\ pipe'[i] = pipe[i + 1]
  BY <1>2, TailOf
<1> DEFINE answer == [frame |-> Head(pipe), found |-> found]
<1>4. answer \in Answers /\ answer.frame = pipe[1]
  BY <1>3 DEF Answers
<1> HIDE DEF answer
<1>5. /\ answers' \in Seq(Answers)
      /\ \A i \in 1..Len(answers') : \/ i \in 1..Len(answers) /\ answers'[i] = answers[i]
                                     \/ answers'[i] = answer
  BY <1>1, <1>2, <1>4, AppendOf DEF answer
<1>6. SidecarTypeOK' /\ FaultsOK'
  BY <1>2, <1>3, <1>5 DEF IInv, SidecarTypeOK, FaultsOK
<1>7. OneRequest' /\ AnswersItsFrame'
  BY <1>2 DEF IInv, OneRequest, AnswersItsFrame
<1>8. Numbered'
  <2>1. \A i \in 1..Len(pipe') : pipe'[i].boot <= boot
    BY <1>3 DEF IInv, Numbered
  <2>2. \A i \in 1..Len(answers') : answers'[i].frame.boot <= boot
    BY <1>3, <1>4, <1>5 DEF IInv, Numbered
  <2> QED
    BY <1>2, <2>1, <2>2 DEF IInv, Numbered
<1>9. \A i \in 1..Len(pipe') : pipe'[i] # pipe[1]
  BY <1>3 DEF IInv, Distinct
<1>10. Distinct'
  <2>1. \A i, j \in 1..Len(pipe') : pipe'[i] = pipe'[j] => i = j
    BY <1>3 DEF IInv, Distinct
  <2>2. \A i \in 1..Len(pipe'), j \in 1..Len(answers') : pipe'[i] # answers'[j].frame
    <3> SUFFICES ASSUME NEW i \in 1..Len(pipe'), NEW j \in 1..Len(answers')
                 PROVE  pipe'[i] # answers'[j].frame
      OBVIOUS
    <3>1. CASE answers'[j] = answer
      BY <1>4, <1>9, <3>1
    <3>2. CASE j \in 1..Len(answers) /\ answers'[j] = answers[j]
      <4>1. i + 1 \in 1..Len(pipe) /\ pipe'[i] = pipe[i + 1]
        BY <1>3
      <4>2. pipe[i + 1] # answers[j].frame
        BY <3>2, <4>1 DEF IInv, Distinct
      <4> QED
        BY <3>2, <4>1, <4>2
    <3> QED
      BY <1>5, <3>1, <3>2
  <2> QED
    BY <2>1, <2>2 DEF Distinct
<1>11. Backlog'
  <2> SUFFICES ASSUME ~mistaken
               PROVE  Len(pipe') <= overruns + 1 /\ (~Unanswered' => Len(pipe') <= overruns)
    BY <1>2 DEF Backlog
  <2>1. overruns \in Nat /\ Len(pipe) <= overruns + 1
    BY DEF IInv, SidecarTypeOK, Backlog
  <2> QED
    BY <1>3, <2>1
<1> QED
  BY <1>6, <1>7, <1>8, <1>10, <1>11 DEF IInv

(***************************************************************************)
(* A request times out; everything is forgotten.                           *)
(***************************************************************************)
LEMMA RequestTimesOutIInv == IInv /\ RequestTimesOut => IInv'
<1> SUFFICES ASSUME IInv, RequestTimesOut PROVE IInv'
  OBVIOUS
<1>1. PICK frame \in pending : Timeout(frame)
  BY DEF RequestTimesOut
<1>2. /\ pending' = pending \ {frame} /\ overruns' = overruns + 1 /\ detecting' = FALSE
      /\ UNCHANGED <<child, pipe, answers, mistaken, exits, failedStarts, boot, outages>>
  BY <1>1 DEF Timeout, RequestTimesOut, linkVars, robotVars
<1>3. overruns' \in 0..MaxFaults
  BY <1>2, OneMoreFault DEF RequestTimesOut
<1>4. pending' = {}
  BY <1>2 DEF IInv, OneRequest
<1>5. SidecarTypeOK' /\ FaultsOK'
  BY <1>2, <1>3, <1>4 DEF IInv, SidecarTypeOK, FaultsOK
<1>6. OneRequest' /\ AnswersItsFrame' /\ Distinct'
  BY <1>2, <1>4 DEF IInv, OneRequest, AnswersItsFrame, Distinct
<1>7. Numbered'
  BY <1>2, <1>4 DEF IInv, Numbered
<1>8. Backlog'
  <2>1. overruns \in Nat /\ Len(pipe) \in Nat
    BY LenProperties DEF IInv, SidecarTypeOK
  <2> QED
    BY <1>2, <2>1 DEF IInv, Backlog
<1> QED
  BY <1>5, <1>6, <1>7, <1>8 DEF IInv

LEMMA ForgottenIInv ==
  ASSUME IInv, pipe' = <<>>, pending' = {}, detecting' = FALSE, child' = "none",
         answers' \in {answers, <<>>},
         UNCHANGED <<mistaken, overruns, exits, failedStarts, boot>>, outages' \in 0..MaxFaults
  PROVE  IInv'
<1>1. pipe' \in Seq(Frames) /\ Len(pipe') = 0 /\ answers' \in Seq(Answers)
  BY EmptySeq DEF IInv, SidecarTypeOK
<1>2. SidecarTypeOK' /\ FaultsOK'
  BY <1>1 DEF IInv, SidecarTypeOK, FaultsOK
<1>3. OneRequest' /\ AnswersItsFrame'
  BY DEF IInv, OneRequest, AnswersItsFrame
<1>4. Distinct'
  BY <1>1 DEF Distinct
<1>5. Numbered'
  <2>1. \A i \in 1..Len(answers') : answers'[i].frame.boot <= boot
    <3>1. CASE answers' = answers
      BY <3>1 DEF IInv, Numbered
    <3>2. CASE answers' = <<>>
      BY <3>2, EmptySeq
    <3> QED
      BY <3>1, <3>2
  <2> QED
    BY <1>1, <2>1 DEF Numbered
<1>6. Backlog'
  <2>1. overruns' \in Nat
    BY DEF IInv, SidecarTypeOK
  <2> QED
    BY <1>1, <2>1 DEF Backlog
<1> QED
  BY <1>2, <1>3, <1>4, <1>5, <1>6 DEF IInv

-----------------------------------------------------------------------------
(***************************************************************************)
(* The steps of the tracker, the robot and the connection.                 *)
(***************************************************************************)
LEMMA FrameArrivesIInv == IInv /\ FrameArrives => IInv'
<1> SUFFICES ASSUME IInv, FrameArrives PROVE IInv'
  OBVIOUS
<1> USE DEF linkVars, robotVars
<1>1. UNCHANGED <<boot, outages>> /\ ~detecting
  BY DEF FrameArrives
<1>2. CASE UnusedIds # {} /\ Request([id |-> NewId, boot |-> boot]) /\ detecting' = TRUE
  BY <1>1, <1>2, RequestIInv
<1>3. CASE FaultPossible /\ SpawnFails /\ UNCHANGED detecting
  <2>1. failedStarts' \in 0..MaxFaults
    BY <1>3, OneMoreFault DEF SpawnFails
  <2>2. SidecarTypeOK' /\ UNCHANGED Parts
    BY <1>3, <2>1 DEF SpawnFails, IInv, SidecarTypeOK, Parts
  <2>3. FaultsOK' /\ boot' >= boot
    BY <1>1 DEF IInv, FaultsOK
  <2> QED
    BY <1>3, <2>2, <2>3, PartsKept
<1>4. CASE NotRunning /\ UNCHANGED detecting
  <2>1. SidecarTypeOK' /\ UNCHANGED Parts
    BY <1>4 DEF NotRunning, sidecarVars, IInv, SidecarTypeOK, Parts
  <2>2. FaultsOK' /\ boot' >= boot
    BY <1>1 DEF IInv, FaultsOK
  <2> QED
    BY <1>4, <2>1, <2>2, PartsKept
<1> QED
  BY <1>2, <1>3, <1>4 DEF FrameArrives

LEMMA SidecarIInv == IInv /\ (Sidecar \/ SidecarGone \/ DaemonEnds) => IInv'
<1> SUFFICES ASSUME IInv, Sidecar \/ SidecarGone \/ DaemonEnds PROVE IInv'
  OBVIOUS
<1> USE DEF linkVars, robotVars, trackerVars
<1>1. CASE Sidecar
  <2>1. UNCHANGED <<detecting, boot, outages>>
    BY <1>1 DEF Sidecar
  <2>2. CASE ProcessAnswers
    BY <2>1, <2>2, ProcessAnswersIInv
  <2>3. CASE FaultPossible /\ ProcessExits
    <3>1. exits' \in 0..MaxFaults
      BY <2>3, OneMoreFault DEF ProcessExits
    <3>2. SidecarTypeOK' /\ UNCHANGED Parts
      BY <2>3, <3>1 DEF ProcessExits, IInv, SidecarTypeOK, Parts
    <3>3. FaultsOK' /\ boot' >= boot
      BY <2>1 DEF IInv, FaultsOK
    <3> QED
      BY <2>1, <3>2, <3>3, PartsKept
  <2> QED
    BY <1>1, <2>2, <2>3 DEF Sidecar
<1>2. CASE SidecarGone
  <2>1. outages' \in 0..MaxFaults /\ boot' = boot /\ detecting' = FALSE
    BY <1>2 DEF SidecarGone, IInv, FaultsOK
  <2>2. pipe' = <<>> /\ pending' = {} /\ child' = "none"
        /\ UNCHANGED <<answers, mistaken, overruns, exits, failedStarts>>
    BY <1>2 DEF SidecarGone, ExitEvent
  <2> QED
    BY <2>1, <2>2, ForgottenIInv
<1>3. CASE DaemonEnds
  <2>1. FaultPossible /\ outages' = outages + 1 /\ boot' = boot /\ detecting' = FALSE
    BY <1>3 DEF DaemonEnds, Disconnected
  <2>2. outages' \in 0..MaxFaults
    BY <2>1, OneMoreFault
  <2>3. pipe' = <<>> /\ pending' = {} /\ child' = "none" /\ answers' = <<>>
        /\ UNCHANGED <<mistaken, overruns, exits, failedStarts>>
    BY <1>3 DEF DaemonEnds, SidecarEnds
  <2> QED
    BY <2>1, <2>2, <2>3, ForgottenIInv
<1> QED
  BY <1>1, <1>2, <1>3

\* Everything else concerns what is wanted, the head and the connection.
LEMMA ElsewhereIInv ==
  ASSUME IInv,
         \/ Enable \/ Disable \/ StreamRetried \/ MoveHead \/ HoldExpires
         \/ HandleCommand \/ SyncFaceTracking \/ ReservationEnds
         \/ PlayAudio \/ PlaybackStarted \/ AudioReleased
         \/ ConnectionLost \/ Reconnected \/ RobotRestarts
         \/ UNCHANGED vars
  PROVE  IInv'
<1>1. UNCHANGED <<sidecarVars, detecting>>
  BY DEF Enable, Disable, StreamRetried, MoveHead, HoldExpires, HandleCommand,
     PlayAudio, PlaybackStarted, AudioReleased, SyncFaceTracking, ReservationEnds, ConnectionLost, Reconnected, RobotRestarts, vars, trackerVars
<1>2. /\ boot' = boot \/ (FaultPossible /\ boot' = boot + 1)
      /\ outages' = outages \/ (FaultPossible /\ outages' = outages + 1)
  BY DEF Enable, Disable, StreamRetried, MoveHead, HoldExpires, HandleCommand,
     PlayAudio, PlaybackStarted, AudioReleased, SyncFaceTracking, ReservationEnds, ConnectionLost, Disconnected, Reconnected, RobotRestarts, vars,
     linkVars, robotVars
<1>3. FaultsOK'
  BY <1>2, OneMoreFault DEF IInv, FaultsOK
<1>4. boot' >= boot
  BY <1>2 DEF IInv, FaultsOK
<1>5. SidecarTypeOK' /\ UNCHANGED Parts
  BY <1>1 DEF IInv, sidecarVars, SidecarTypeOK, Parts
<1> QED
  BY <1>1, <1>3, <1>4, <1>5, PartsKept

-----------------------------------------------------------------------------
(***************************************************************************)
(* The head. Every moveHead is sent right behind a suspension, and no      *)
(* tracking is sent while the head is reserved: so no tracking is under    *)
(* way behind the moveHead the reservation is for. Until an outage, the    *)
(* angle that a moveHead has made stale is forgotten with the suspension   *)
(* before it, while the reservation lasts.                                 *)
(***************************************************************************)
USE DEF gateVars

Kinds == {"streamOn", "streamOff", "track", "suspend", "moveHead"}

HeadTypes ==
  /\ enabled \in BOOLEAN /\ held \in BOOLEAN /\ online \in BOOLEAN
  /\ toRobot \in Seq(Commands) /\ robot \in Robots
  /\ moves \in 0..MaxMoves /\ moved \in 0..moves /\ switches \in 0..MaxSwitches
  /\ outages \in Nat /\ loose \in BOOLEAN /\ seized \in BOOLEAN /\ jumped \in BOOLEAN

\* The audio reservation, and the clips that there may be.
GateOK == /\ audio \in {"none", "suspended", "alone"}
          /\ clips \in 0..MaxMoves /\ starts \in 0..clips

MovesTo(i)  == toRobot[i].kind = "moveHead"
Tracks(i)   == toRobot[i].kind = "track"
TrackFree   == \A i \in 1..Len(toRobot) : ~Tracks(i)
LastSay(i)  == \A j \in 1..Len(toRobot) : Tracks(j) => j < i

\* Numbers go up to the latest moveHead's.
Counted == \A i \in 1..Len(toRobot) : toRobot[i].move <= moves

\* A moveHead follows a suspension, on its way or handled.
Suspended ==
  \A i \in 1..Len(toRobot) :
    MovesTo(i) => IF i = 1 THEN robot.target # "detected" ELSE toRobot[i - 1].kind = "suspend"

\* While the reservation of a moveHead lasts, nothing tracks behind it.
Yielding ==
  held => /\ moved = moves => robot.target # "detected" /\ TrackFree
          /\ \A i \in 1..Len(toRobot) : MovesTo(i) /\ toRobot[i].move = moves => LastSay(i)

\* The angle of the steps is known while a target is detected, or a moment longer.
AngleKept ==
  /\ robot.target # "detected" /\ robot.stepper # "unset" => robot.fresh
  /\ robot.target = "free" => robot.stepper = "unset" /\ ~robot.fresh

\* Before any outage: a connection is missing only after a restart, a reservation
\* lasts while its moveHead is under way, and until the stale angle is forgotten.
Undisturbed ==
  outages = 0 =>
    /\ ~online => toRobot = <<>> /\ robot.target = "free"
    /\ \A i \in 1..Len(toRobot) : MovesTo(i) => held /\ LastSay(i)
    /\ robot.stepper = "outdated" => held /\ robot.target = "held" /\ TrackFree

HInv == /\ HeadTypes /\ Counted /\ Suspended /\ Yielding /\ AngleKept /\ Undisturbed
        /\ YieldsToMoveHead /\ StepsFromTheHead

\* What a message is.
LEMMA CommandFacts ==
  ASSUME NEW c \in Commands
  PROVE  /\ c.kind \in Kinds /\ c.move \in Nat
         /\ c.kind # "moveHead" => c.move = 0
         /\ c.kind = "moveHead" => c.move # 0
<1>1. CASE c \in {Command(kind) : kind \in {"streamOn", "streamOff", "track", "suspend"}}
  BY <1>1 DEF Command, Kinds
<1>2. CASE c \in {HeadTo(move) : move \in 1..MaxMoves}
  BY <1>2, TrackingAssumption DEF HeadTo, Kinds
<1> QED
  BY <1>1, <1>2 DEF Commands

LEMMA QueueFacts ==
  ASSUME HInv
  PROVE  /\ toRobot \in Seq(Commands) /\ Len(toRobot) \in Nat
         /\ \A i \in 1..Len(toRobot) : toRobot[i] \in Commands /\ toRobot[i].kind \in Kinds
                                       /\ toRobot[i].move \in Nat
<1>1. toRobot \in Seq(Commands) /\ Len(toRobot) \in Nat
  BY LenProperties DEF HInv, HeadTypes
<1>2. \A i \in 1..Len(toRobot) : toRobot[i] \in Commands
  BY <1>1, ElementOfSeq
<1> QED
  BY <1>1, <1>2, CommandFacts

LEMMA InitHInv == Init => HInv
<1> SUFFICES ASSUME Init PROVE HInv
  OBVIOUS
<1>1. toRobot = <<>> /\ Len(toRobot) = 0 /\ toRobot \in Seq(Commands) /\ online
  BY EmptySeq DEF Init
<1>2. robot = [target |-> "free", fresh |-> FALSE, streaming |-> FALSE, stepper |-> "unset"]
  BY DEF Init, Booted
<1>3. HeadTypes
  <2>1. robot \in Robots
    BY <1>2 DEF Robots
  <2>2. moves \in 0..MaxMoves /\ moved \in 0..moves /\ switches \in 0..MaxSwitches /\ outages \in Nat
    BY TrackingAssumption DEF Init
  <2> QED
    BY <1>1, <2>1, <2>2 DEF HeadTypes, Init
<1>4. Counted /\ Suspended /\ AngleKept
  BY <1>1, <1>2 DEF Counted, Suspended, AngleKept
<1>5. Yielding /\ Undisturbed
  BY <1>1, <1>2 DEF Yielding, Undisturbed, Init
<1>6. YieldsToMoveHead /\ StepsFromTheHead
  BY DEF YieldsToMoveHead, StepsFromTheHead, Init
<1> QED
  BY <1>3, <1>4, <1>5, <1>6 DEF HInv

(***************************************************************************)
(* Sending.                                                                *)
(***************************************************************************)
LEMMA Appended ==
  ASSUME NEW S, NEW q \in Seq(S), NEW c \in Seq(S)
  PROVE  /\ q \o c \in Seq(S) /\ Len(q \o c) = Len(q) + Len(c)
         /\ Len(q) \in Nat /\ Len(c) \in Nat
         /\ \A i \in 1..Len(q) : i \in 1..Len(q \o c) /\ (q \o c)[i] = q[i]
         /\ \A i \in 1..Len(q \o c) :
              \/ i \in 1..Len(q)
              \/ i - Len(q) \in 1..Len(c) /\ (q \o c)[i] = c[i - Len(q)]
<1>1. /\ q \o c \in Seq(S) /\ Len(q \o c) = Len(q) + Len(c)
      /\ \A i \in 1..Len(q) + Len(c) :
           (q \o c)[i] = IF i <= Len(q) THEN q[i] ELSE c[i - Len(q)]
      /\ Len(q) \in Nat /\ Len(c) \in Nat
  BY ConcatProperties, LenProperties
<1> QED
  BY <1>1

\* Commands that are not moveHead, and do not track while the head is reserved.
LEMMA SendHInv ==
  ASSUME HInv, NEW c \in Seq(Commands), Send(c),
         \A i \in 1..Len(c) : c[i].kind # "moveHead" /\ (c[i].kind = "track" => ~held),
         UNCHANGED <<held, online, moves, outages, robotVars>>,
         enabled' \in BOOLEAN, loose' \in BOOLEAN, switches' \in 0..MaxSwitches
  PROVE  HInv'
<1> USE DEF robotVars
<1>1. CASE UNCHANGED toRobot
  <2>1. HeadTypes'
    BY <1>1 DEF HInv, HeadTypes
  <2>2. Counted' /\ Suspended' /\ AngleKept' /\ YieldsToMoveHead' /\ StepsFromTheHead'
    BY <1>1 DEF HInv, Counted, Suspended, AngleKept, YieldsToMoveHead, StepsFromTheHead, MovesTo
  <2>3. Yielding' /\ Undisturbed'
    BY <1>1 DEF HInv, Yielding, Undisturbed, MovesTo, TrackFree, LastSay, Tracks
  <2> QED
    BY <2>1, <2>2, <2>3 DEF HInv
<1>2. CASE online /\ toRobot' = toRobot \o c
  <2>1. /\ toRobot' \in Seq(Commands) /\ Len(toRobot') = Len(toRobot) + Len(c)
        /\ Len(toRobot) \in Nat /\ Len(c) \in Nat
        /\ \A i \in 1..Len(toRobot) : i \in 1..Len(toRobot') /\ toRobot'[i] = toRobot[i]
        /\ \A i \in 1..Len(toRobot') :
             \/ i \in 1..Len(toRobot)
             \/ i - Len(toRobot) \in 1..Len(c) /\ toRobot'[i] = c[i - Len(toRobot)]
    BY <1>2, Appended DEF HInv, HeadTypes
  <2>2. \A i \in 1..Len(c) : c[i].move = 0
    BY ElementOfSeq, CommandFacts
  <2>3. \A i \in 1..Len(toRobot') :
          \/ i \in 1..Len(toRobot) /\ toRobot'[i] = toRobot[i]
          \/ toRobot'[i].move = 0 /\ toRobot'[i].kind # "moveHead"
             /\ (toRobot'[i].kind = "track" => ~held)
    BY <2>1, <2>2
  <2>4. HeadTypes'
    BY <2>1 DEF HInv, HeadTypes
  <2>5. Counted'
    BY <2>3 DEF HInv, Counted, HeadTypes
  <2>6. Suspended'
    <3> SUFFICES ASSUME NEW i \in 1..Len(toRobot'), MovesTo(i)'
                 PROVE  IF i = 1 THEN robot.target # "detected" ELSE toRobot'[i - 1].kind = "suspend"
      BY DEF Suspended
    <3>1. i \in 1..Len(toRobot) /\ toRobot'[i] = toRobot[i] /\ MovesTo(i)
      BY <2>3 DEF MovesTo
    <3>2. IF i = 1 THEN robot.target # "detected" ELSE toRobot[i - 1].kind = "suspend"
      BY <3>1 DEF HInv, Suspended
    <3>3. i # 1 => i - 1 \in 1..Len(toRobot)
      BY <3>1
    <3> QED
      BY <2>1, <3>2, <3>3
  <2>7. held => \A i \in 1..Len(toRobot') : Tracks(i)' => i \in 1..Len(toRobot) /\ Tracks(i)
    BY <2>3 DEF Tracks
  <2>8. \A i \in 1..Len(toRobot') :
          MovesTo(i)' => i \in 1..Len(toRobot) /\ MovesTo(i) /\ toRobot'[i] = toRobot[i]
    BY <2>3 DEF MovesTo
  <2>9. held => (TrackFree => TrackFree')
                /\ \A i \in 1..Len(toRobot) : LastSay(i) => LastSay(i)'
    BY <2>7 DEF TrackFree, LastSay
  <2>10. Yielding'
    BY <2>8, <2>9 DEF HInv, Yielding
  <2>11. Undisturbed'
    BY <1>2, <2>8, <2>9 DEF HInv, Undisturbed
  <2> QED
    BY <2>4, <2>5, <2>6, <2>10, <2>11 DEF HInv, AngleKept, YieldsToMoveHead, StepsFromTheHead
<1> QED
  BY <1>1, <1>2 DEF Send

\* Nothing that concerns the head changes.
LEMMA HeadUntouched ==
  ASSUME HInv,
         UNCHANGED <<enabled, switches, loose, held, moves, online, outages, toRobot, robotVars>>
  PROVE  HInv'
<1> USE DEF robotVars
<1>1. HeadTypes'
  BY DEF HInv, HeadTypes
<1>2. Counted' /\ Suspended' /\ AngleKept' /\ YieldsToMoveHead' /\ StepsFromTheHead'
  BY DEF HInv, Counted, Suspended, AngleKept, YieldsToMoveHead, StepsFromTheHead, MovesTo
<1>3. Yielding' /\ Undisturbed'
  BY DEF HInv, Yielding, Undisturbed, MovesTo, TrackFree, LastSay, Tracks
<1> QED
  BY <1>1, <1>2, <1>3 DEF HInv

LEMMA SendersHInv ==
  ASSUME IInv, HInv, Enable \/ Disable \/ StreamRetried \/ AnswerArrives \/ PlayAudio
  PROVE  HInv'
<1> DEFINE Plain(c) == /\ c \in Seq(Commands)
                       /\ \A i \in 1..Len(c) : /\ c[i].kind # "moveHead"
                                               /\ c[i].kind = "track" => ~held
<1>1. /\ \A on \in BOOLEAN : Stream(on) \in Commands /\ Stream(on).kind \in {"streamOn", "streamOff"}
      /\ TrackFace(FALSE) \in Commands /\ TrackFace(FALSE).kind = "suspend"
      /\ TrackFace(TRUE) \in Commands /\ TrackFace(TRUE).kind = "track"
  BY DEF Stream, TrackFace, Command, Commands
<1>2. Plain(<<>>)
  BY EmptySeq
<1>3. ASSUME NEW c \in Commands, c.kind # "moveHead", c.kind = "track" => ~held
      PROVE  Plain(<<c>>)
  BY <1>3
<1>4. Plain(Gated(FALSE)) /\ Plain(Gated(TRUE))
  <2>1. CASE held \/ audio # "none"
    BY <1>2, <2>1 DEF Gated
  <2>2. CASE ~held /\ audio = "none"
    <3>1. Gated(FALSE) = <<TrackFace(FALSE)>> /\ Gated(TRUE) = <<TrackFace(TRUE)>>
      BY <2>2 DEF Gated
    <3> HIDE DEF Plain
    <3> QED
      BY <1>1, <1>3, <2>2, <3>1
  <2> QED
    BY <2>1, <2>2
<1>5. \A on \in BOOLEAN : Plain(<<Stream(on)>>)
  <2> HIDE DEF Plain
  <2> QED
    BY <1>1, <1>3
<1>6. ASSUME NEW c, NEW d, Plain(c), Plain(d) PROVE Plain(c \o d)
  <2>1. c \o d \in Seq(Commands)
        /\ \A i \in 1..Len(c \o d) :
             \/ i \in 1..Len(c) /\ (c \o d)[i] = c[i]
             \/ i - Len(c) \in 1..Len(d) /\ (c \o d)[i] = d[i - Len(c)]
    BY <1>6, Appended
  <2> QED
    BY <1>6, <2>1
<1>7. ASSUME NEW c, Plain(c), Send(c), UNCHANGED <<held, online, moves, outages, robotVars>>,
             enabled' \in BOOLEAN, loose' \in BOOLEAN, switches' \in 0..MaxSwitches
      PROVE  HInv'
  BY <1>7, SendHInv
<1> HIDE DEF Plain
<1>8. /\ enabled \in BOOLEAN /\ loose \in BOOLEAN /\ detecting \in BOOLEAN
      /\ switches \in 0..MaxSwitches
      /\ switches < MaxSwitches => switches + 1 \in 0..MaxSwitches
  BY TrackingAssumption DEF IInv, OneRequest, HInv, HeadTypes
<1>9. CASE Enable
  <2>1. /\ Send(<<Stream(TRUE)>>) /\ UNCHANGED <<held, online, moves, outages, robotVars>>
        /\ enabled' \in BOOLEAN /\ loose' \in BOOLEAN /\ switches' \in 0..MaxSwitches
    BY <1>8, <1>9 DEF Enable
  <2> QED
    BY <1>5, <1>7, <2>1
<1>10. CASE Disable
  <2>1. PICK stop \in {<<>>, <<Stream(FALSE)>>} : Send(stop \o Gated(FALSE))
    BY <1>10 DEF Disable
  <2>2. UNCHANGED <<held, online, moves, outages, robotVars>>
        /\ enabled' \in BOOLEAN /\ loose' \in BOOLEAN /\ switches' \in 0..MaxSwitches
    BY <1>8, <1>10 DEF Disable
  <2>3. Plain(stop)
    BY <1>2, <1>5
  <2>4. Plain(stop \o Gated(FALSE))
    BY <1>4, <1>6, <2>3
  <2> QED
    BY <1>7, <2>1, <2>2, <2>4
<1>11. CASE StreamRetried
  <2>1. /\ Send(<<Stream(TRUE)>>) /\ UNCHANGED <<held, online, moves, outages, robotVars>>
        /\ enabled' = enabled /\ loose' = loose /\ switches' = switches
    BY <1>11 DEF StreamRetried, trackerVars
  <2> QED
    BY <1>5, <1>7, <1>8, <2>1
<1>12. CASE AnswerArrives
  <2>1. UNCHANGED <<enabled, switches, loose, held, moves, online, outages, robotVars>>
        /\ (Send(Gated(TRUE)) \/ UNCHANGED toRobot)
    BY <1>12 DEF AnswerArrives, HandleDetection
  <2>2. CASE Send(Gated(TRUE))
    BY <1>4, <1>7, <1>8, <2>1, <2>2
  <2>3. CASE UNCHANGED toRobot
    <3>1. UNCHANGED <<enabled, switches, loose, held, moves, online, outages, toRobot, robotVars>>
      BY <2>1, <2>3
    <3> QED
      BY <3>1, HeadUntouched
  <2> QED
    BY <2>1, <2>2, <2>3
<1>13. CASE PlayAudio
  <2>1. /\ Send(<<TrackFace(FALSE)>>) /\ UNCHANGED <<held, online, moves, outages, robotVars>>
        /\ enabled' = enabled /\ loose' = loose /\ switches' = switches
    BY <1>13 DEF PlayAudio, trackerVars
  <2>2. Plain(<<TrackFace(FALSE)>>)
    BY <1>1, <1>3
  <2> QED
    BY <1>7, <1>8, <2>1, <2>2
<1> QED
  BY <1>9, <1>10, <1>11, <1>12, <1>13

LEMMA MoveHeadHInv == HInv /\ GateOK /\ MoveHead => HInv'
<1> SUFFICES ASSUME HInv, GateOK, MoveHead PROVE HInv'
  OBVIOUS
<1> DEFINE n == moves + 1
           c == <<TrackFace(FALSE), HeadTo(n)>>
<1>1. /\ moves' = n /\ n \in 1..MaxMoves /\ held' = TRUE /\ Send(c)
      /\ UNCHANGED <<enabled, detecting, switches, loose, online, outages,
                     robot, boot, moved, seized, jumped>>
      /\ moves \in Nat /\ moved \in 0..moves
  BY TrackingAssumption DEF MoveHead, HInv, HeadTypes, GateOK, trackerVars, robotVars
<1>2. /\ c \in Seq(Commands) /\ Len(c) = 2 /\ c[1].kind = "suspend" /\ c[1].move = 0
      /\ c[2].kind = "moveHead" /\ c[2].move = n
  BY <1>1 DEF TrackFace, Command, HeadTo, Commands
<1> HIDE DEF c, n
<1>3. moved' # moves' /\ moves' = moves + 1
  BY <1>1 DEF n
<1>4. \A i \in 1..Len(toRobot) : toRobot[i].move <= moves /\ toRobot[i].move \in Nat
  BY QueueFacts DEF HInv, Counted
<1>5. YieldsToMoveHead' /\ StepsFromTheHead' /\ AngleKept'
  BY <1>1 DEF HInv, YieldsToMoveHead, StepsFromTheHead, AngleKept
<1>6. CASE ~online /\ UNCHANGED toRobot
  <2>1. HeadTypes' /\ Counted'
    BY <1>1, <1>3, <1>4, <1>6 DEF HInv, HeadTypes, Counted
  <2>2. Suspended'
    BY <1>1, <1>6 DEF HInv, Suspended, MovesTo
  <2>3. Yielding'
    BY <1>1, <1>3, <1>4, <1>6 DEF Yielding
  <2>4. Undisturbed'
    BY <1>1, <1>6 DEF HInv, Undisturbed, MovesTo, TrackFree, LastSay, Tracks
  <2> QED
    BY <1>5, <2>1, <2>2, <2>3, <2>4 DEF HInv
<1>7. CASE online /\ toRobot' = toRobot \o c
  <2>1. /\ toRobot' \in Seq(Commands) /\ Len(toRobot') = Len(toRobot) + 2 /\ Len(toRobot) \in Nat
        /\ \A i \in 1..Len(toRobot) : i \in 1..Len(toRobot') /\ toRobot'[i] = toRobot[i]
        /\ \A i \in 1..Len(toRobot') :
             \/ i \in 1..Len(toRobot)
             \/ i - Len(toRobot) \in 1..2 /\ toRobot'[i] = c[i - Len(toRobot)]
    <3>1. toRobot \in Seq(Commands) /\ c \in Seq(Commands)
      BY <1>2, QueueFacts
    <3>2. /\ toRobot' \in Seq(Commands) /\ Len(toRobot') = Len(toRobot) + Len(c)
          /\ Len(toRobot) \in Nat
          /\ \A i \in 1..Len(toRobot) : i \in 1..Len(toRobot') /\ toRobot'[i] = toRobot[i]
          /\ \A i \in 1..Len(toRobot') :
               \/ i \in 1..Len(toRobot)
               \/ i - Len(toRobot) \in 1..Len(c) /\ toRobot'[i] = c[i - Len(toRobot)]
      BY <1>7, <3>1, Appended
    <3> QED
      BY <1>2, <3>2
  <2>2. \A i \in 1..Len(toRobot') :
             \/ i \in 1..Len(toRobot) /\ toRobot'[i] = toRobot[i]
             \/ i = Len(toRobot) + 1 /\ toRobot'[i] = c[1]
             \/ i = Len(toRobot) + 2 /\ toRobot'[i] = c[2]
    BY <2>1
  <2>3. toRobot'[Len(toRobot) + 1] = c[1] /\ toRobot'[Len(toRobot) + 2] = c[2]
    BY <2>1, <2>2
  <2>4. HeadTypes'
    BY <1>1, <1>3, <2>1 DEF HInv, HeadTypes
  <2>5. Counted'
    BY <1>1, <1>2, <1>3, <1>4, <2>2 DEF Counted
  <2>6. Suspended'
    <3> SUFFICES ASSUME NEW i \in 1..Len(toRobot'), MovesTo(i)'
                 PROVE  IF i = 1 THEN robot.target # "detected" ELSE toRobot'[i - 1].kind = "suspend"
      BY <1>1 DEF Suspended
    <3>1. CASE i \in 1..Len(toRobot) /\ toRobot'[i] = toRobot[i]
      <4>1. IF i = 1 THEN robot.target # "detected" ELSE toRobot[i - 1].kind = "suspend"
        BY <3>1 DEF HInv, Suspended, MovesTo
      <4>2. i # 1 => i - 1 \in 1..Len(toRobot)
        BY <3>1
      <4> QED
        BY <2>1, <4>1, <4>2
    <3>2. CASE i = Len(toRobot) + 2
      BY <1>2, <2>1, <2>3, <3>2
    <3>3. toRobot'[i] # c[1]
      BY <1>2 DEF MovesTo
    <3> QED
      BY <2>2, <3>1, <3>2, <3>3
  <2>7. \A i \in 1..Len(toRobot') : Tracks(i)' => i \in 1..Len(toRobot) /\ Tracks(i)
    BY <1>2, <2>2 DEF Tracks
  <2>8. /\ \A i \in 1..Len(toRobot') : i = Len(toRobot) + 2 => LastSay(i)'
        /\ \A i \in 1..Len(toRobot) : LastSay(i) => LastSay(i)'
    BY <2>1, <2>7 DEF LastSay
  <2>9. \A i \in 1..Len(toRobot') :
          MovesTo(i)' => \/ i = Len(toRobot) + 2
                         \/ i \in 1..Len(toRobot) /\ MovesTo(i) /\ toRobot'[i] = toRobot[i]
    BY <1>2, <2>2 DEF MovesTo
  <2>10. Yielding'
    <3>1. \A i \in 1..Len(toRobot) : toRobot[i].move # moves'
      BY <1>1, <1>3, <1>4
    <3> QED
      BY <1>3, <2>8, <2>9, <3>1 DEF Yielding
  <2>11. TrackFree => TrackFree'
    BY <2>7 DEF TrackFree
  <2>12. Undisturbed'
    BY <1>1, <1>7, <2>8, <2>9, <2>11 DEF HInv, Undisturbed
  <2> QED
    BY <1>5, <2>4, <2>5, <2>6, <2>10, <2>12 DEF HInv
<1> QED
  BY <1>1, <1>6, <1>7 DEF Send

(***************************************************************************)
(* The robot handles a command.                                            *)
(***************************************************************************)
LEMMA HandledFacts ==
  ASSUME NEW r \in Robots, NEW kind \in Kinds
  PROVE  /\ Handled(r, kind) \in Robots
         /\ kind = "moveHead" =>
              /\ Handled(r, kind).target = r.target /\ Handled(r, kind).fresh = r.fresh
              /\ Handled(r, kind).stepper = IF r.stepper = "set" THEN "outdated" ELSE r.stepper
         /\ kind # "moveHead" => Handled(r, kind).stepper = r.stepper
         /\ kind = "track" => Handled(r, kind).target = "detected"
         /\ kind = "suspend" => Handled(r, kind).target = "held" /\ Handled(r, kind).fresh
         /\ kind = "streamOff" =>
              Handled(r, kind).target = r.target /\ Handled(r, kind).fresh = r.fresh
         /\ kind = "streamOn" =>
              \/ Handled(r, kind) = r
              \/ Handled(r, kind).target = "held" /\ Handled(r, kind).fresh
<1>1. CASE kind = "streamOn"
  BY <1>1 DEF Handled, Robots
<1>2. CASE kind = "streamOff"
  BY <1>2 DEF Handled, Robots
<1>3. CASE kind = "track"
  BY <1>3 DEF Handled, Robots
<1>4. CASE kind = "suspend"
  BY <1>4 DEF Handled, Robots
<1>5. CASE kind = "moveHead"
  BY <1>5 DEF Handled, Robots
<1> QED
  BY <1>1, <1>2, <1>3, <1>4, <1>5 DEF Kinds

LEMMA HandleCommandHInv == HInv /\ HandleCommand => HInv'
<1> SUFFICES ASSUME HInv, HandleCommand PROVE HInv'
  OBVIOUS
<1> DEFINE kind == toRobot[1].kind
<1>1. /\ Head(toRobot) = toRobot[1] /\ toRobot[1] \in Commands /\ 1 \in 1..Len(toRobot)
      /\ Tail(toRobot) \in Seq(Commands) /\ Len(Tail(toRobot)) = Len(toRobot) - 1
      /\ Len(toRobot) \in Nat
      /\ \A i \in 1..Len(Tail(toRobot)) :
           i + 1 \in 1..Len(toRobot) /\ i + 1 # 1 /\ Tail(toRobot)[i] = toRobot[i + 1]
  BY TailOf, QueueFacts DEF HandleCommand
<1>2. /\ online /\ toRobot' = Tail(toRobot) /\ robot' = Handled(robot, kind)
      /\ moved' = IF kind = "moveHead" THEN toRobot[1].move ELSE moved
      /\ UNCHANGED <<enabled, detecting, switches, loose, held, moves, online, outages,
                     seized, jumped>>
  BY <1>1 DEF HandleCommand, trackerVars
<1>3. /\ toRobot' \in Seq(Commands)
      /\ \A i \in 1..Len(toRobot') :
           i + 1 \in 1..Len(toRobot) /\ i + 1 # 1 /\ toRobot'[i] = toRobot[i + 1]
  BY <1>1, <1>2
<1>4. kind \in Kinds /\ toRobot[1].move \in 0..moves
  BY <1>1, QueueFacts DEF HInv, Counted, HeadTypes
<1>5. robot \in Robots
  BY DEF HInv, HeadTypes
<1>6. /\ robot' \in Robots
      /\ kind = "moveHead" =>
           /\ robot'.target = robot.target /\ robot'.fresh = robot.fresh
           /\ robot'.stepper = IF robot.stepper = "set" THEN "outdated" ELSE robot.stepper
      /\ kind # "moveHead" => robot'.stepper = robot.stepper
      /\ kind = "track" => robot'.target = "detected"
      /\ kind = "suspend" => robot'.target = "held" /\ robot'.fresh
      /\ kind = "streamOff" => robot'.target = robot.target /\ robot'.fresh = robot.fresh
      /\ kind = "streamOn" => robot' = robot \/ (robot'.target = "held" /\ robot'.fresh)
  BY <1>2, <1>4, <1>5, HandledFacts
<1>7. /\ kind = "moveHead" <=> MovesTo(1)
      /\ kind = "track" <=> Tracks(1)
  BY DEF MovesTo, Tracks
<1> HIDE DEF kind
<1>8. HeadTypes'
  BY <1>2, <1>3, <1>4, <1>6 DEF HInv, HeadTypes
<1>9. Counted'
  BY <1>2, <1>3 DEF HInv, Counted
<1>10. /\ \A i \in 1..Len(toRobot') : Tracks(i)' => Tracks(i + 1)
       /\ \A i \in 1..Len(toRobot') : MovesTo(i)' => MovesTo(i + 1)
  BY <1>3 DEF Tracks, MovesTo
<1>11. /\ \A i \in 1..Len(toRobot') : LastSay(i + 1) => LastSay(i)'
       /\ TrackFree \/ LastSay(1) => TrackFree'
  <2>1. ASSUME NEW i \in 1..Len(toRobot'), LastSay(i + 1), NEW j \in 1..Len(toRobot'), Tracks(j)'
        PROVE  j < i
    <3>1. j + 1 < i + 1
      BY <1>3, <1>10, <2>1 DEF LastSay
    <3> QED
      BY <3>1
  <2>2. ASSUME TrackFree \/ LastSay(1), NEW j \in 1..Len(toRobot'), Tracks(j)'
        PROVE  FALSE
    <3>1. j + 1 \in 1..Len(toRobot) /\ Tracks(j + 1)
      BY <1>3, <1>10, <2>2
    <3>2. ~TrackFree /\ (LastSay(1) => j + 1 < 1)
      BY <3>1 DEF TrackFree, LastSay
    <3> QED
      BY <2>2, <3>2
  <2>3. \A i \in 1..Len(toRobot') : LastSay(i + 1) => LastSay(i)'
    BY <2>1 DEF LastSay
  <2>4. TrackFree \/ LastSay(1) => TrackFree'
    BY <2>2 DEF TrackFree
  <2> QED
    BY <2>3, <2>4
<1>12. kind = "moveHead" => robot.target # "detected"
  BY <1>1, <1>7 DEF HInv, Suspended
<1>13. Suspended'
  <2> SUFFICES ASSUME NEW i \in 1..Len(toRobot'), MovesTo(i)'
               PROVE  IF i = 1 THEN robot'.target # "detected" ELSE toRobot'[i - 1].kind = "suspend"
    BY DEF Suspended
  <2>1. toRobot[i].kind = "suspend"
    <3>1. i + 1 \in 1..Len(toRobot) /\ i + 1 # 1 /\ MovesTo(i + 1) /\ (i + 1) - 1 = i
      BY <1>3, <1>10
    <3> QED
      BY <3>1 DEF HInv, Suspended
  <2>2. CASE i = 1
    BY <1>6, <2>1, <2>2 DEF kind
  <2>3. CASE i # 1
    <3>1. i - 1 \in 1..Len(toRobot') /\ (i - 1) + 1 = i
      BY <1>3, <2>3
    <3> QED
      BY <1>3, <2>1, <2>3, <3>1
  <2> QED
    BY <2>2, <2>3
<1>14. AngleKept'
  <2>1. robot.fresh \in BOOLEAN /\ robot.target \in {"free", "held", "detected"}
    BY <1>5 DEF Robots
  <2> QED
    BY <1>4, <1>6, <2>1 DEF HInv, AngleKept, Kinds
<1>15. Yielding'
  <2> SUFFICES ASSUME held
               PROVE  /\ moved' = moves => robot'.target # "detected" /\ TrackFree'
                      /\ \A i \in 1..Len(toRobot') :
                           MovesTo(i)' /\ toRobot'[i].move = moves => LastSay(i)'
    BY <1>2 DEF Yielding
  <2>1. \A i \in 1..Len(toRobot') : MovesTo(i)' /\ toRobot'[i].move = moves => LastSay(i)'
    BY <1>3, <1>10, <1>11 DEF HInv, Yielding
  <2>2. ASSUME moved' = moves PROVE robot'.target # "detected" /\ TrackFree'
    <3>1. CASE kind = "moveHead"
      <4>1. LastSay(1)
        BY <1>1, <1>2, <1>7, <2>2, <3>1 DEF HInv, Yielding
      <4> QED
        BY <1>6, <1>11, <1>12, <3>1, <4>1
    <3>2. CASE kind # "moveHead"
      <4>1. robot.target # "detected" /\ TrackFree
        BY <1>2, <2>2, <3>2 DEF HInv, Yielding
      <4>2. kind # "track"
        BY <1>1, <1>7, <4>1 DEF TrackFree
      <4> QED
        BY <1>4, <1>6, <1>11, <3>2, <4>1, <4>2 DEF Kinds
    <3> QED
      BY <3>1, <3>2
  <2> QED
    BY <2>1, <2>2
<1>16. Undisturbed'
  <2> SUFFICES ASSUME outages = 0
               PROVE  /\ \A i \in 1..Len(toRobot') : MovesTo(i)' => held /\ LastSay(i)'
                      /\ robot'.stepper = "outdated" => held /\ robot'.target = "held" /\ TrackFree'
    BY <1>2 DEF Undisturbed
  <2>1. \A i \in 1..Len(toRobot') : MovesTo(i)' => held /\ LastSay(i)'
    BY <1>3, <1>10, <1>11 DEF HInv, Undisturbed
  <2>2. ASSUME robot'.stepper = "outdated" PROVE held /\ robot'.target = "held" /\ TrackFree'
    <3>1. CASE robot.stepper = "outdated"
      <4>1. held /\ robot.target = "held" /\ TrackFree
        BY <3>1 DEF HInv, Undisturbed
      <4>2. kind # "track"
        BY <1>1, <1>7, <4>1 DEF TrackFree
      <4> QED
        BY <1>4, <1>6, <1>11, <4>1, <4>2 DEF Kinds
    <3>2. CASE robot.stepper # "outdated"
      <4>1. kind = "moveHead" /\ robot.stepper = "set"
        BY <1>6, <2>2, <3>2
      <4>2. held /\ LastSay(1)
        BY <1>1, <1>7, <4>1 DEF HInv, Undisturbed
      <4>3. robot.target = "held"
        <5>1. robot.target \in {"free", "held", "detected"}
          BY <1>5 DEF Robots
        <5>2. robot.target # "free"
          BY <4>1 DEF HInv, AngleKept
        <5> QED
          BY <1>12, <4>1, <5>1, <5>2
      <4> QED
        BY <1>6, <1>11, <4>1, <4>2, <4>3
    <3> QED
      BY <3>1, <3>2
  <2> QED
    BY <2>1, <2>2
<1>17. YieldsToMoveHead' /\ StepsFromTheHead'
  BY <1>2 DEF HInv, YieldsToMoveHead, StepsFromTheHead
<1> QED
  BY <1>8, <1>9, <1>13, <1>14, <1>15, <1>16, <1>17 DEF HInv

(***************************************************************************)
(* The robot looks at its target, or lets go of it.                        *)
(***************************************************************************)
LEMMA SyncedFacts ==
  ASSUME NEW r \in Robots, NEW sync \in Synced(r)
  PROVE  /\ sync.robot \in Robots /\ sync.robot.target = r.target
         /\ r.target # "detected" =>
              ~sync.robot.fresh /\ sync.robot.stepper = "unset" /\ sync.step = "none"
         /\ sync.robot.stepper = "outdated" => r.stepper = "outdated"
<1>1. CASE r.target # "detected"
  <2>1. sync = [robot |-> NoTarget(r), step |-> "none"]
    BY <1>1 DEF Synced
  <2> QED
    BY <1>1, <2>1 DEF NoTarget, Robots
<1>2. CASE r.target = "detected"
  <2>1. sync.robot \in {r, [r EXCEPT !.fresh = FALSE], Measured(r),
                        [Measured(r) EXCEPT !.stepper = "set"]}
    BY <1>2 DEF Synced
  <2> QED
    BY <1>2, <2>1 DEF Measured, Robots
<1> QED
  BY <1>1, <1>2

LEMMA SyncHInv == HInv /\ SyncFaceTracking => HInv'
<1> SUFFICES ASSUME HInv, SyncFaceTracking PROVE HInv'
  OBVIOUS
<1>1. PICK sync \in Synced(robot) :
        /\ robot' = sync.robot
        /\ seized' = (seized \/ (sync.step # "none" /\ held /\ moved = moves))
        /\ jumped' = (jumped \/ (sync.step = "taken" /\ robot.stepper = "outdated"))
  BY DEF SyncFaceTracking
<1>2. UNCHANGED <<enabled, detecting, switches, loose, held, moves, online, toRobot, outages, moved>>
  BY DEF SyncFaceTracking, trackerVars, linkVars
<1>3. robot \in Robots
  BY DEF HInv, HeadTypes
<1>4. /\ robot' \in Robots /\ robot'.target = robot.target
      /\ robot.target # "detected" =>
           ~robot'.fresh /\ robot'.stepper = "unset" /\ sync.step = "none"
      /\ robot'.stepper = "outdated" => robot.stepper = "outdated"
  BY <1>1, <1>3, SyncedFacts
<1>5. HeadTypes'
  <2>1. seized' \in BOOLEAN /\ jumped' \in BOOLEAN
    BY <1>1, Zenon
  <2> QED
    BY <1>2, <1>4, <2>1 DEF HInv, HeadTypes
<1>6. Counted' /\ Suspended'
  BY <1>2, <1>4 DEF HInv, Counted, Suspended, MovesTo
<1>7. Yielding'
  BY <1>2, <1>4 DEF HInv, Yielding, MovesTo, TrackFree, LastSay, Tracks
<1>8. AngleKept'
  BY <1>4 DEF HInv, AngleKept
<1>9. Undisturbed'
  BY <1>2, <1>4 DEF HInv, Undisturbed, MovesTo, TrackFree, LastSay, Tracks
<1>10. YieldsToMoveHead'
  <2>1. ~(sync.step # "none" /\ held /\ moved = moves)
    BY <1>4 DEF HInv, Yielding
  <2> QED
    BY <1>1, <2>1, Zenon DEF HInv, YieldsToMoveHead
<1>11. StepsFromTheHead'
  <2>1. outages = 0 => ~(sync.step = "taken" /\ robot.stepper = "outdated")
    BY <1>4 DEF HInv, Undisturbed
  <2> QED
    BY <1>1, <1>2, <2>1, Zenon DEF HInv, StepsFromTheHead
<1> QED
  BY <1>5, <1>6, <1>7, <1>8, <1>9, <1>10, <1>11 DEF HInv

LEMMA ReservationEndsHInv == HInv /\ ReservationEnds => HInv'
<1> SUFFICES ASSUME HInv, ReservationEnds PROVE HInv'
  OBVIOUS
<1>1. /\ robot.target = "held" /\ ~robot.fresh /\ robot' = [robot EXCEPT !.target = "free"]
      /\ UNCHANGED <<enabled, detecting, switches, loose, held, moves, online, toRobot, outages,
                     moved, seized, jumped>>
  BY DEF ReservationEnds, trackerVars, linkVars
<1>2. robot.stepper = "unset"
  BY <1>1 DEF HInv, AngleKept
<1>3. robot' \in Robots /\ robot'.target = "free" /\ ~robot'.fresh /\ robot'.stepper = "unset"
  BY <1>1, <1>2 DEF HInv, HeadTypes, Robots
<1>4. HeadTypes' /\ AngleKept' /\ YieldsToMoveHead' /\ StepsFromTheHead'
  BY <1>1, <1>3 DEF HInv, HeadTypes, AngleKept, YieldsToMoveHead, StepsFromTheHead
<1>5. Counted' /\ Suspended'
  BY <1>1, <1>3 DEF HInv, Counted, Suspended, MovesTo
<1>6. Yielding' /\ Undisturbed'
  BY <1>1, <1>3 DEF HInv, Yielding, Undisturbed, MovesTo, TrackFree, LastSay, Tracks
<1> QED
  BY <1>4, <1>5, <1>6 DEF HInv

\* The daemon's reservation of the head ends.
LEMMA HoldExpiresHInv == HInv /\ HoldExpires => HInv'
<1> SUFFICES ASSUME HInv, HoldExpires PROVE HInv'
  OBVIOUS
<1>1. /\ held /\ held' = FALSE /\ (online => toRobot = <<>> /\ ~(robot.target = "held" /\ robot.fresh))
      /\ UNCHANGED <<enabled, detecting, switches, loose, moves, online, toRobot, outages,
                     robot, moved, seized, jumped>>
  BY DEF HoldExpires, trackerVars, linkVars, robotVars
<1>2. HeadTypes'
  BY <1>1 DEF HInv, HeadTypes
<1>3. Counted' /\ Suspended' /\ AngleKept' /\ YieldsToMoveHead' /\ StepsFromTheHead'
  BY <1>1 DEF HInv, Counted, Suspended, AngleKept, YieldsToMoveHead, StepsFromTheHead, MovesTo
<1>4. Yielding'
  BY <1>1 DEF Yielding
<1>5. Undisturbed'
  <2> SUFFICES ASSUME outages = 0
               PROVE  /\ ~online => toRobot = <<>> /\ robot.target = "free"
                      /\ 1..Len(toRobot) = {} /\ robot.stepper # "outdated"
    BY <1>1 DEF Undisturbed
  <2>1. toRobot = <<>> /\ (~online => robot.target = "free")
    BY <1>1 DEF HInv, Undisturbed
  <2>2. robot.stepper # "outdated"
    BY <1>1, <2>1 DEF HInv, Undisturbed, AngleKept
  <2>3. Len(toRobot) = 0
    BY <2>1, EmptySeq
  <2> QED
    BY <2>1, <2>2, <2>3
<1> QED
  BY <1>2, <1>3, <1>4, <1>5 DEF HInv

(***************************************************************************)
(* Outages.                                                                *)
(***************************************************************************)
LEMMA DisconnectedHInv ==
  ASSUME HInv, Disconnected, held' \in {held, FALSE}, enabled' \in BOOLEAN,
         UNCHANGED <<switches, loose, moves, robotVars>>
  PROVE  HInv'
<1> USE DEF robotVars
<1>1. PICK received \in 0..Len(toRobot) : toRobot' = SubSeq(toRobot, 1, received)
  BY DEF Disconnected
<1>2. online' = FALSE /\ outages' = outages + 1 /\ outages \in Nat
  BY DEF Disconnected, HInv, HeadTypes
<1>3. /\ toRobot' \in Seq(Commands)
      /\ \A i \in 1..Len(toRobot') : i \in 1..Len(toRobot) /\ toRobot'[i] = toRobot[i]
  <2>1. \A i \in 1..received : i \in 1..Len(toRobot) /\ toRobot[i] \in Commands
    BY QueueFacts
  <2>2. /\ SubSeq(toRobot, 1, received) \in Seq(Commands)
        /\ Len(SubSeq(toRobot, 1, received)) = IF 1 <= received THEN received - 1 + 1 ELSE 0
        /\ \A i \in 1..received - 1 + 1 : SubSeq(toRobot, 1, received)[i] = toRobot[1 + i - 1]
    BY <2>1, QueueFacts, SubSeqProperties
  <2>3. received \in Nat
    BY QueueFacts
  <2>4. Len(toRobot') = received
    BY <1>1, <2>2, <2>3
  <2> QED
    BY <1>1, <2>1, <2>2, <2>3, <2>4
<1>4. HeadTypes'
  <2>1. held' \in BOOLEAN
    BY Zenon DEF HInv, HeadTypes
  <2>2. outages' \in Nat
    BY <1>2
  <2> QED
    BY <1>2, <1>3, <2>1, <2>2 DEF HInv, HeadTypes
<1>5. Counted' /\ AngleKept' /\ YieldsToMoveHead' /\ StepsFromTheHead'
  BY <1>2, <1>3 DEF HInv, Counted, AngleKept, YieldsToMoveHead, StepsFromTheHead
<1>6. Suspended'
  <2> SUFFICES ASSUME NEW i \in 1..Len(toRobot'), MovesTo(i)'
               PROVE  IF i = 1 THEN robot.target # "detected" ELSE toRobot'[i - 1].kind = "suspend"
    BY DEF Suspended
  <2>1. IF i = 1 THEN robot.target # "detected" ELSE toRobot[i - 1].kind = "suspend"
    BY <1>3 DEF HInv, Suspended, MovesTo
  <2>2. i # 1 => i - 1 \in 1..Len(toRobot')
    BY <1>3
  <2> QED
    BY <1>3, <2>1, <2>2
<1>7. /\ \A i \in 1..Len(toRobot') : MovesTo(i)' => MovesTo(i)
      /\ \A i \in 1..Len(toRobot') : Tracks(i)' => Tracks(i)
  BY <1>3 DEF MovesTo, Tracks
<1>8. /\ TrackFree => TrackFree'
      /\ \A i \in 1..Len(toRobot') : LastSay(i) => LastSay(i)'
  BY <1>3, <1>7 DEF TrackFree, LastSay
<1>9. Yielding'
  <2> SUFFICES ASSUME held' PROVE held' /\ Yielding'
    BY DEF Yielding
  <2>1. held
    OBVIOUS
  <2>2. /\ moved = moves => robot.target # "detected" /\ TrackFree
        /\ \A i \in 1..Len(toRobot) : MovesTo(i) /\ toRobot[i].move = moves => LastSay(i)
    BY <2>1 DEF HInv, Yielding
  <2> QED
    BY <1>3, <1>7, <1>8, <2>2 DEF Yielding
<1>10. Undisturbed'
  BY <1>2 DEF Undisturbed
<1> QED
  BY <1>4, <1>5, <1>6, <1>9, <1>10 DEF HInv

LEMMA RobotRestartsHInv == HInv /\ RobotRestarts => HInv'
<1> SUFFICES ASSUME HInv, RobotRestarts PROVE HInv'
  OBVIOUS
<1>1. /\ robot' = Booted /\ online' = FALSE /\ toRobot' = <<>>
      /\ UNCHANGED <<enabled, detecting, switches, loose, held, moves, outages,
                     moved, seized, jumped>>
  BY DEF RobotRestarts, trackerVars
<1>2. toRobot' \in Seq(Commands) /\ Len(toRobot') = 0
  BY <1>1, EmptySeq
<1>3. robot' \in Robots /\ robot'.target = "free" /\ ~robot'.fresh /\ robot'.stepper = "unset"
  BY <1>1 DEF Booted, Robots
<1>4. HeadTypes' /\ YieldsToMoveHead' /\ StepsFromTheHead'
  BY <1>1, <1>2, <1>3 DEF HInv, HeadTypes, YieldsToMoveHead, StepsFromTheHead
<1>5. Counted' /\ Suspended' /\ AngleKept'
  BY <1>2, <1>3 DEF Counted, Suspended, AngleKept
<1>6. Yielding' /\ Undisturbed'
  BY <1>1, <1>2, <1>3 DEF Yielding, Undisturbed, TrackFree
<1> QED
  BY <1>4, <1>5, <1>6 DEF HInv

LEMMA ReconnectedHInv == HInv /\ Reconnected => HInv'
<1> SUFFICES ASSUME HInv, Reconnected PROVE HInv'
  OBVIOUS
<1> USE DEF robotVars
<1>1. /\ online' = TRUE
      /\ UNCHANGED <<enabled, switches, loose, held, moves, outages, toRobot, robotVars>>
  BY DEF Reconnected, trackerVars
<1>2. HeadTypes'
  BY <1>1 DEF HInv, HeadTypes
<1>3. Counted' /\ Suspended' /\ AngleKept' /\ YieldsToMoveHead' /\ StepsFromTheHead'
  BY <1>1 DEF HInv, Counted, Suspended, AngleKept, YieldsToMoveHead, StepsFromTheHead, MovesTo
<1>4. Yielding' /\ Undisturbed'
  BY <1>1 DEF HInv, Yielding, Undisturbed, MovesTo, TrackFree, LastSay, Tracks
<1> QED
  BY <1>2, <1>3, <1>4 DEF HInv

LEMMA NextHInv == IInv /\ HInv /\ GateOK /\ [Next]_vars => HInv'
<1> SUFFICES ASSUME IInv, HInv, GateOK, [Next]_vars PROVE HInv'
  OBVIOUS
<1>1. CASE Enable \/ Disable \/ StreamRetried \/ AnswerArrives \/ PlayAudio
  BY <1>1, SendersHInv
<1>2. CASE FrameArrives \/ RequestTimesOut \/ SidecarGone \/ Sidecar
           \/ PlaybackStarted \/ AudioReleased \/ UNCHANGED vars
  <2>1. UNCHANGED <<enabled, switches, loose, held, moves, online, outages, toRobot, robotVars>>
    BY <1>2 DEF FrameArrives, RequestTimesOut, SidecarGone, Sidecar, PlaybackStarted,
       AudioReleased, vars, linkVars, trackerVars
  <2> QED
    BY <2>1, HeadUntouched
<1>3. CASE ConnectionLost \/ DaemonEnds
  <2>1. /\ Disconnected /\ held' \in {held, FALSE} /\ enabled' \in BOOLEAN
        /\ UNCHANGED <<switches, loose, moves, robotVars>>
    BY <1>3 DEF ConnectionLost, DaemonEnds, trackerVars, HInv, HeadTypes
  <2> QED
    BY <2>1, DisconnectedHInv
<1> QED
  BY <1>1, <1>2, <1>3, MoveHeadHInv, HoldExpiresHInv, HandleCommandHInv, SyncHInv,
     ReservationEndsHInv, ReconnectedHInv, RobotRestartsHInv DEF Next

LEMMA NextGateOK == HInv /\ GateOK /\ [Next]_vars => GateOK'
<1> SUFFICES ASSUME HInv, GateOK, [Next]_vars PROVE GateOK'
  OBVIOUS
<1>1. CASE PlayAudio
  <2>1. clips' = clips + 1 /\ clips' \in 0..MaxMoves /\ starts' = starts
    BY <1>1, TrackingAssumption DEF PlayAudio, GateOK, HInv, HeadTypes
  <2> QED
    BY <1>1, <2>1 DEF PlayAudio, GateOK
<1>2. CASE PlaybackStarted
  BY <1>2 DEF PlaybackStarted, GateOK
<1>3. CASE MoveHead \/ HoldExpires \/ AudioReleased \/ DaemonEnds
  BY <1>3 DEF MoveHead, HoldExpires, AudioReleased, DaemonEnds, GateOK
<1>4. CASE \/ Enable \/ Disable \/ StreamRetried \/ FrameArrives \/ AnswerArrives
           \/ RequestTimesOut \/ SidecarGone \/ Sidecar
           \/ HandleCommand \/ SyncFaceTracking \/ ReservationEnds
           \/ ConnectionLost \/ Reconnected \/ RobotRestarts \/ UNCHANGED vars
  <2>1. UNCHANGED gateVars
    BY <1>4 DEF Enable, Disable, StreamRetried, FrameArrives, AnswerArrives, RequestTimesOut,
       SidecarGone, Sidecar, HandleCommand, SyncFaceTracking, ReservationEnds, ConnectionLost,
       Reconnected, RobotRestarts, vars
  <2> QED
    BY <2>1 DEF GateOK
<1> QED
  BY <1>1, <1>2, <1>3, <1>4 DEF Next

-----------------------------------------------------------------------------
(***************************************************************************)
(* The theorems.                                                           *)
(***************************************************************************)
LEMMA SpecIInv == Spec => []IInv
<1>1. IInv /\ [Next]_vars => IInv'
  BY FrameArrivesIInv, AnswerArrivesIInv, RequestTimesOutIInv, SidecarIInv, ElsewhereIInv DEF Next
<1> QED
  BY <1>1, InitIInv, PTL DEF Spec

\* The variables of the detector keep their types.
THEOREM SidecarTypeCorrect == Spec => []SidecarTypeOK
<1>1. IInv => SidecarTypeOK
  BY DEF IInv
<1> QED
  BY <1>1, SpecIInv, PTL

LEMMA SpecHInv == Spec => [](IInv /\ HInv /\ GateOK)
<1>1. Init => GateOK
  BY TrackingAssumption DEF Init, GateOK
<1> QED
  BY <1>1, SpecIInv, InitHInv, NextHInv, NextGateOK, PTL DEF Spec

\* Every variable keeps its type and its bound.
THEOREM TypesCorrect == Spec => []TypeOK
<1>1. IInv /\ HInv /\ GateOK => TypeOK
  BY DEF IInv, FaultsOK, OneRequest, HInv, HeadTypes, GateOK, TypeOK
<1> QED
  BY <1>1, SpecHInv, PTL

\* Between a moveHead and the end of its reservation the head makes no step of the
\* tracking, whatever was under way, and whatever connections and restarts do.
THEOREM TrackingYields == Spec => []YieldsToMoveHead
<1>1. IInv /\ HInv => YieldsToMoveHead
  BY DEF HInv
<1> QED
  BY <1>1, SpecHInv, PTL

\* Until an outage, sync_face_tracking takes no step from an angle that a moveHead has
\* made stale.
THEOREM StepsFromMeasuredAngle == Spec => []StepsFromTheHead
<1>1. IInv /\ HInv => StepsFromTheHead
  BY DEF HInv
<1> QED
  BY <1>1, SpecHInv, PTL

\* handleLine takes no answer for another frame's, as long as the robot does not
\* restart and number its frames anew.
THEOREM AnswersTheirFrames == Spec => []AnswersItsFrame
<1>1. IInv => AnswersItsFrame
  BY DEF IInv
<1> QED
  BY <1>1, SpecIInv, PTL

\* Frames pile up before a slow process only by timing out, one each.
THEOREM BacklogFromOverruns == Spec => []BacklogBounded
<1>1. IInv => BacklogBounded
  BY DEF IInv, Backlog, BacklogBounded
<1> QED
  BY <1>1, SpecIInv, PTL
=============================================================================
