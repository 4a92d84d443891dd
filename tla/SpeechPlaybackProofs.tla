------------------------ MODULE SpeechPlaybackProofs ------------------------
(***************************************************************************)
(* Proof that face tracking leaves the head alone while an announcement is *)
(* played (StillUnlessOverlapped), for any number of announcements and     *)
(* chunks. The gate of the daemon and the stop command on its way to the   *)
(* robot share the work, and every message that one of them could miss has *)
(* to be accounted for.                                                    *)
(***************************************************************************)
EXTENDS SpeechPlayback, SequenceTheorems, TLAPS

(***************************************************************************)
(* The inductive invariant speaks of calm behaviours: no announcement      *)
(* overlaps another, nothing is lost, no ack is late.                      *)
(***************************************************************************)
Calm == ~overlapped /\ outages = 0 /\ timeouts = 0

RobotMessages ==
  [kind : {"trackFace"}, detected : BOOLEAN, live : {FALSE}]
  \cup [kind : {"playAudioStart", "playAudioChunk", "playAudioEnd"}, of : 0..MaxAnnouncements,
        index : 0..Chunks, live : BOOLEAN]

DesktopMessages ==
  [kind : {"ack"}, status : {"accepted", "rejected"}, live : BOOLEAN]
  \cup [kind : {"playback"}, state : {"started", "finished", "failed"}, of : 0..MaxAnnouncements,
        live : {FALSE}]

MessagesOK ==
  /\ announced \in 0..MaxAnnouncements /\ sentChunks \in 0..Chunks
  /\ toRobot \in Seq(RobotMessages) /\ toDesktop \in Seq(DesktopMessages)
  /\ finished \in Seq(Announcements)

Awaiting == step \in {"start", "chunk", "end"}

\* Nothing is awaited: no command of playAudio and no ack is under way.
Quiet ==
  /\ \A i \in 1..Len(toRobot) : toRobot[i].kind = "trackFace"
  /\ \A i \in 1..Len(toDesktop) : toDesktop[i].kind = "playback"

\* The command is under way. The stop of the tracking is just before it, or it has
\* been handled, and no other trackFace comes between.
Sent ==
  /\ toDesktop = <<>> /\ tasks = {} /\ finished = <<>> /\ toRobot # <<>>
  /\ toRobot[Len(toRobot)].kind # "trackFace" /\ toRobot[Len(toRobot)].live
  /\ toRobot[Len(toRobot)].kind = "playAudioEnd" => step = "end"
  /\ \A i \in 1..Len(toRobot) : i < Len(toRobot) => toRobot[i].kind = "trackFace"
  /\ Len(toRobot) = 1 => ~tracking
  /\ Len(toRobot) > 1 => toRobot[Len(toRobot) - 1] = TrackFace(FALSE)

\* Its ack is under way, before anything else; a playback has begun only if it is
\* the one to an end that was accepted.
Answered ==
  /\ toRobot = <<>> /\ ~tracking /\ toDesktop # <<>>
  /\ toDesktop[1].kind = "ack" /\ toDesktop[1].live
  /\ \A i \in 1..Len(toDesktop) : i > 1 => toDesktop[i].kind = "playback"
  /\ step # "end" \/ toDesktop[1].status = "rejected" =>
       Len(toDesktop) = 1 /\ tasks = {} /\ finished = <<>>

\* While an announcement is played nothing but its start has been reported.
Still ==
  tasks # {} =>
    /\ ~tracking /\ audioHeld /\ toRobot = <<>> /\ finished = <<>>
    /\ \A a, b \in tasks : a = b
    /\ \A i \in 1..Len(toDesktop) : toDesktop[i].kind = "playback" => toDesktop[i].state = "started"

CalmInv ==
  /\ MessagesOK /\ online
  /\ ~Awaiting => Quiet
  /\ Awaiting => audioHeld /\ (Sent \/ Answered)
  /\ Still

IInv == outages \in Nat /\ timeouts \in Nat /\ (Calm => CalmInv)

LEMMA InitIInv == Init => IInv
<1> SUFFICES ASSUME Init PROVE IInv
  OBVIOUS
<1>1. toRobot = <<>> /\ toDesktop = <<>> /\ finished = <<>> /\ Len(<<>>) = 0
  BY EmptySeq DEF Init
<1>2. MessagesOK
  <2>1. 0 \in 0..MaxAnnouncements /\ 0 \in 0..Chunks
    BY SpeechAssumption
  <2> QED
    BY <1>1, <2>1, EmptySeq DEF Init, MessagesOK
<1>3. ~Awaiting /\ Quiet /\ Still
  BY <1>1 DEF Init, Awaiting, Quiet, Still
<1> QED
  BY <1>2, <1>3 DEF Init, IInv, CalmInv

-----------------------------------------------------------------------------
(***************************************************************************)
(* Queues.                                                                 *)
(***************************************************************************)
LEMMA TailOf ==
  ASSUME NEW S, NEW s \in Seq(S), s # <<>>
  PROVE  /\ Head(s) = s[1] /\ s[1] \in S /\ 1 \in 1..Len(s)
         /\ Tail(s) \in Seq(S) /\ Len(Tail(s)) = Len(s) - 1 /\ Len(s) \in Nat /\ Len(s) > 0
         /\ \A i \in 1..Len(Tail(s)) : i + 1 \in 1..Len(s) /\ i + 1 > 1 /\ Tail(s)[i] = s[i + 1]
<1>1. Len(s) \in Nat \ {0}
  BY EmptySeq
<1>2. Head(s) = s[1] /\ s[1] \in S
  BY <1>1, HeadTailProperties, ElementOfSeq
<1>3. Tail(s) \in Seq(S) /\ Len(Tail(s)) = Len(s) - 1
      /\ \A i \in 1..Len(Tail(s)) : Tail(s)[i] = s[i + 1]
  BY <1>1, HeadTailProperties
<1> QED
  BY <1>1, <1>2, <1>3

LEMMA AppendOf ==
  ASSUME NEW S, NEW s \in Seq(S), NEW e \in S
  PROVE  /\ Append(s, e) \in Seq(S) /\ Len(s) \in Nat /\ Len(Append(s, e)) = Len(s) + 1
         /\ Append(s, e) # <<>> /\ Append(s, e)[Len(s) + 1] = e
         /\ \A i \in 1..Len(s) : Append(s, e)[i] = s[i]
         /\ \A i \in 1..Len(Append(s, e)) : i \in 1..Len(s) \/ i = Len(s) + 1
<1>1. /\ Append(s, e) \in Seq(S) /\ Len(s) \in Nat /\ Len(Append(s, e)) = Len(s) + 1
      /\ Append(s, e)[Len(s) + 1] = e
      /\ \A i \in 1..Len(s) : Append(s, e)[i] = s[i]
  BY AppendProperties, LenProperties
<1>2. Append(s, e) # <<>>
  BY <1>1, EmptySeq
<1>3. \A i \in 1..Len(Append(s, e)) : i \in 1..Len(s) \/ i = Len(s) + 1
  BY <1>1
<1> QED
  BY <1>1, <1>2, <1>3

LEMMA ConcatOf ==
  ASSUME NEW S, NEW s \in Seq(S), NEW t \in Seq(S)
  PROVE  /\ s \o t \in Seq(S) /\ Len(s) \in Nat /\ Len(t) \in Nat
         /\ Len(s \o t) = Len(s) + Len(t)
         /\ \A i \in 1..Len(s) : (s \o t)[i] = s[i]
         /\ \A i \in 1..Len(t) : (s \o t)[Len(s) + i] = t[i]
         /\ \A i \in 1..Len(s \o t) : i \in 1..Len(s) \/ \E j \in 1..Len(t) : i = Len(s) + j
<1>1. s \o t \in Seq(S) /\ Len(s) \in Nat /\ Len(t) \in Nat /\ Len(s \o t) = Len(s) + Len(t)
  BY ConcatProperties, LenProperties
<1>2. \A i \in 1..Len(s) : (s \o t)[i] = s[i]
  BY <1>1, ConcatProperties
<1>3. \A i \in 1..Len(t) : (s \o t)[Len(s) + i] = t[i]
  <2> TAKE i \in 1..Len(t)
  <2>1. Len(s) + i \in 1..Len(s) + Len(t) /\ ~(Len(s) + i <= Len(s)) /\ (Len(s) + i) - Len(s) = i
    BY <1>1
  <2> QED
    BY <2>1, ConcatProperties
<1>4. \A i \in 1..Len(s \o t) : i \in 1..Len(s) \/ \E j \in 1..Len(t) : i = Len(s) + j
  <2> TAKE i \in 1..Len(s \o t)
  <2>1. CASE i <= Len(s)
    BY <1>1, <2>1
  <2>2. CASE ~(i <= Len(s))
    <3>1. i - Len(s) \in 1..Len(t) /\ i = Len(s) + (i - Len(s))
      BY <1>1, <2>2
    <3> QED
      BY <3>1
  <2> QED
    BY <2>1, <2>2
<1> QED
  BY <1>1, <1>2, <1>3, <1>4

\* Two messages one after the other.
LEMMA PairOf ==
  ASSUME NEW S, NEW e \in S, NEW f \in S
  PROVE  <<e, f>> \in Seq(S) /\ Len(<<e, f>>) = 2 /\ <<e, f>>[1] = e /\ <<e, f>>[2] = f
OBVIOUS

LEMMA FromEmpty ==
  ASSUME NEW S, NEW a \in S, NEW b \in S, NEW c \in S
  PROVE  /\ Append(<<>>, a) = <<a>>
         /\ <<>> \o <<a, b>> = <<a, b>> /\ <<>> \o <<a, b, c>> = <<a, b, c>>
<1>1. <<>> \in Seq(S) /\ <<a>> \in Seq(S) /\ <<a, b>> \in Seq(S) /\ <<a, b, c>> \in Seq(S)
  BY EmptySeq
<1>2. \A s \in Seq(S) : <<>> \o s = s
  BY ConcatEmptySeq
<1>3. Append(<<>>, a) = <<>> \o <<a>>
  BY <1>1, AppendIsConcat
<1> QED
  BY <1>1, <1>2, <1>3

LEMMA FunctionIsSeq ==
  ASSUME NEW S, NEW n \in Nat, NEW f \in [1..n -> S]
  PROVE  f \in Seq(S) /\ Len(f) = n
<1>1. f \in Seq(S)
  BY SeqDef
<1>2. Len(f) \in Nat /\ DOMAIN f = 1..Len(f)
  BY <1>1, LenProperties
<1> QED
  BY <1>1, <1>2

-----------------------------------------------------------------------------
(***************************************************************************)
(* The daemon.                                                             *)
(***************************************************************************)
\* Steps that touch no message, no task and no reservation, while nothing is awaited
\* before and after.
LEMMA WaitingSteps ==
  ASSUME IInv, Calm, Calm', Announce \/ SynthesisFails
  PROVE  CalmInv'
<1> USE DEF linkVars, robotVars
<1>1. CalmInv /\ ~Awaiting /\ ~Awaiting'
  BY DEF IInv, Announce, SynthesisFails, Awaiting
<1>2. /\ UNCHANGED <<sentChunks, audioHeld, online, toRobot, toDesktop, tasks, finished, tracking>>
      /\ announced' \in 0..MaxAnnouncements
  <2>1. announced' = announced \/ (announced < MaxAnnouncements /\ announced' = announced + 1)
    BY DEF Announce, SynthesisFails
  <2>2. announced' \in 0..MaxAnnouncements
    BY <1>1, <2>1, SpeechAssumption DEF CalmInv, MessagesOK
  <2> QED
    BY <2>2 DEF Announce, SynthesisFails
<1>3. MessagesOK'
  BY <1>1, <1>2 DEF CalmInv, MessagesOK
<1>4. Quiet'
  BY <1>1, <1>2 DEF CalmInv, Quiet
<1>5. Still'
  BY <1>1, <1>2 DEF CalmInv, Still
<1> QED
  BY <1>1, <1>2, <1>3, <1>4, <1>5 DEF CalmInv

\* playAudio takes the head and sends its first two messages.
LEMMA PlayAudioSends ==
  ASSUME IInv, Calm, Calm', PlayAudio
  PROVE  CalmInv'
<1> USE DEF robotVars
<1> DEFINE stop == TrackFace(FALSE)
           start == Command("playAudioStart", announced, 0)
<1>1. CalmInv /\ online /\ ~Awaiting /\ Quiet /\ ~Playing
  BY DEF IInv, CalmInv, PlayAudio, Awaiting, Calm
<1>2. /\ audioHeld' = TRUE /\ step' = "start" /\ toRobot' = toRobot \o <<stop, start>>
      /\ sentChunks' = 0 /\ UNCHANGED <<announced, online, toDesktop, tasks, finished, tracking>>
  BY <1>1 DEF PlayAudio
<1>3. toDesktop = <<>> /\ tasks = {} /\ finished = <<>>
  <2>1. tasks = {} /\ finished = <<>> /\ ~\E i \in 1..Len(toDesktop) : toDesktop[i].kind = "playback"
    BY <1>1 DEF Playing
  <2>2. Len(toDesktop) \in Nat /\ ~(1 \in 1..Len(toDesktop))
    BY <1>1, <2>1, LenProperties DEF CalmInv, MessagesOK, Quiet
  <2>3. Len(toDesktop) = 0
    BY <2>2
  <2> QED
    BY <1>1, <2>1, <2>3, EmptySeq DEF CalmInv, MessagesOK
<1>4. stop \in RobotMessages /\ start \in RobotMessages
  <2>1. announced \in 0..MaxAnnouncements /\ 0 \in 0..Chunks
    BY <1>1, SpeechAssumption DEF CalmInv, MessagesOK
  <2>2. start \in RobotMessages
    BY <2>1 DEF RobotMessages, Command
  <2>3. stop \in RobotMessages
    BY DEF RobotMessages, TrackFace
  <2> QED
    BY <2>2, <2>3
<1>5. /\ stop.kind = "trackFace" /\ start.kind = "playAudioStart" /\ start.live
  BY DEF TrackFace, Command
<1> HIDE DEF start
<1> DEFINE two == <<stop, start>>
<1>6. two \in Seq(RobotMessages) /\ Len(two) = 2 /\ two[1] = stop /\ two[2] = start
      /\ toRobot' = toRobot \o two /\ toRobot \in Seq(RobotMessages)
  BY <1>1, <1>2, <1>4, PairOf DEF CalmInv, MessagesOK
<1> HIDE DEF two, stop
<1>7. /\ toRobot' \in Seq(RobotMessages) /\ Len(toRobot) \in Nat /\ Len(toRobot') = Len(toRobot) + 2
      /\ \A i \in 1..Len(toRobot) : toRobot'[i] = toRobot[i]
      /\ \A i \in 1..Len(two) : toRobot'[Len(toRobot) + i] = two[i]
      /\ \A i \in 1..Len(toRobot') : i \in 1..Len(toRobot) \/ \E j \in 1..Len(two) : i = Len(toRobot) + j
  <2> DEFINE all == toRobot \o two
  <2>1. /\ all \in Seq(RobotMessages) /\ Len(toRobot) \in Nat /\ Len(two) \in Nat
        /\ Len(all) = Len(toRobot) + Len(two)
        /\ \A i \in 1..Len(toRobot) : all[i] = toRobot[i]
        /\ \A i \in 1..Len(two) : all[Len(toRobot) + i] = two[i]
        /\ \A i \in 1..Len(all) : i \in 1..Len(toRobot) \/ \E j \in 1..Len(two) : i = Len(toRobot) + j
    BY <1>6, ConcatOf, Zenon
  <2>2. toRobot' = all
    BY <1>6
  <2> HIDE DEF all
  <2> QED
    BY <1>6, <2>1, <2>2
<1>8. toRobot'[Len(toRobot) + 1] = stop /\ toRobot'[Len(toRobot) + 2] = start
  <2>1. 1 \in 1..Len(two) /\ 2 \in 1..Len(two)
    BY <1>6
  <2> QED
    BY <1>6, <1>7, <2>1
<1>9. MessagesOK'
  BY <1>1, <1>2, <1>7, SpeechAssumption DEF CalmInv, MessagesOK
<1>10. Sent'
  <2>1. toRobot' # <<>>
    BY <1>7, EmptySeq
  <2>2. \A i \in 1..Len(toRobot') : i < Len(toRobot') => toRobot'[i].kind = "trackFace"
    <3> SUFFICES ASSUME NEW i \in 1..Len(toRobot'), i < Len(toRobot') PROVE toRobot'[i].kind = "trackFace"
      OBVIOUS
    <3>1. i \in 1..Len(toRobot) \/ i = Len(toRobot) + 1
      BY <1>7
    <3>2. CASE i \in 1..Len(toRobot)
      BY <1>1, <1>7, <3>2 DEF Quiet
    <3> QED
      BY <1>5, <1>8, <3>1, <3>2
  <2>3. toRobot'[Len(toRobot')] = start /\ toRobot'[Len(toRobot') - 1] = stop /\ Len(toRobot') # 1
    <3>1. Len(toRobot') - 1 = Len(toRobot) + 1 /\ Len(toRobot') # 1
      BY <1>7
    <3> QED
      BY <1>7, <1>8, <3>1
  <2>4. toRobot'[Len(toRobot') - 1] = TrackFace(FALSE)
    BY <2>3 DEF stop
  <2> QED
    BY <1>2, <1>3, <1>5, <2>1, <2>2, <2>3, <2>4 DEF Sent
<1>11. Awaiting' /\ Still'
  BY <1>2, <1>3 DEF Awaiting, Still
<1> QED
  BY <1>1, <1>2, <1>9, <1>10, <1>11 DEF CalmInv

\* An ack that nobody waits for does not exist, and the one that is awaited is the
\* first message: playAudio goes on, or it is done with this announcement.
LEMMA AckGoesOn ==
  ASSUME IInv, Calm, Calm', AckArrives
  PROVE  CalmInv'
<1> USE DEF robotVars
<1> DEFINE ack == toDesktop[1]
<1>1. CalmInv /\ toDesktop \in Seq(DesktopMessages) /\ toDesktop # <<>>
  BY DEF IInv, CalmInv, MessagesOK, AckArrives
<1>2. /\ Head(toDesktop) = ack /\ ack \in DesktopMessages /\ 1 \in 1..Len(toDesktop)
      /\ toDesktop' \in Seq(DesktopMessages) /\ Len(toDesktop') = Len(toDesktop) - 1
      /\ Len(toDesktop) \in Nat
      /\ \A i \in 1..Len(toDesktop') :
           i + 1 \in 1..Len(toDesktop) /\ i + 1 > 1 /\ toDesktop'[i] = toDesktop[i + 1]
  BY <1>1, TailOf DEF AckArrives
<1>3. ack.kind = "ack" /\ UNCHANGED <<online, tasks, finished, tracking>>
  BY <1>2 DEF AckArrives
<1>4. Awaiting
  <2> SUFFICES ASSUME ~Awaiting PROVE FALSE
    OBVIOUS
  <2>1. Quiet
    BY <1>1 DEF CalmInv
  <2>2. ack.kind = "playback"
    BY <1>2, <2>1 DEF Quiet
  <2> QED
    BY <1>3, <2>2
<1>5. audioHeld /\ Answered
  BY <1>1, <1>4 DEF CalmInv, Sent
<1>6. ack.live /\ toRobot = <<>> /\ ~tracking
      /\ (step # "end" \/ ack.status = "rejected" => Len(toDesktop) = 1 /\ tasks = {} /\ finished = <<>>)
  BY <1>5 DEF Answered
<1>7. \A i \in 1..Len(toDesktop') : toDesktop'[i].kind = "playback"
  BY <1>2, <1>5 DEF Answered
<1>8. CASE step \in {"start", "chunk"} /\ ack.status = "accepted" /\ Accepted
  <2> DEFINE command == NextCommand
  <2>1. /\ step' = IF sentChunks < Chunks THEN "chunk" ELSE "end"
        /\ sentChunks' = IF sentChunks < Chunks THEN sentChunks + 1 ELSE sentChunks
        /\ toRobot' = Append(toRobot, command) /\ UNCHANGED <<announced, audioHeld>>
    BY <1>8 DEF Accepted
  <2>2. announced' \in 0..MaxAnnouncements /\ sentChunks' \in 0..Chunks
    BY <1>1, <2>1, SpeechAssumption DEF CalmInv, MessagesOK
  <2>3. /\ command \in RobotMessages /\ command.kind # "trackFace" /\ command.live
        /\ command.kind = "playAudioEnd" => step' = "end"
    <3>1. announced \in 0..MaxAnnouncements /\ sentChunks \in 0..Chunks /\ 0 \in 0..Chunks
      BY <1>1, SpeechAssumption DEF CalmInv, MessagesOK
    <3> QED
      BY <2>1, <3>1 DEF NextCommand, Command, RobotMessages
  <2> HIDE DEF command
  <2>4. /\ toRobot' \in Seq(RobotMessages) /\ Len(toRobot') = 1 /\ toRobot' # <<>> /\ toRobot'[1] = command
    <3>1. toRobot \in Seq(RobotMessages) /\ Len(toRobot) = 0
      BY <1>1, <1>6, EmptySeq DEF CalmInv, MessagesOK
    <3> QED
      BY <2>1, <2>3, <3>1, AppendOf
  <2>5. tasks' = {} /\ finished' = <<>> /\ toDesktop' = <<>>
    <3>1. tasks = {} /\ finished = <<>> /\ Len(toDesktop') = 0
      BY <1>2, <1>6, <1>8
    <3> QED
      BY <1>2, <1>3, <3>1, EmptySeq
  <2>6. Sent'
    BY <1>3, <1>6, <2>3, <2>4, <2>5 DEF Sent
  <2>7. MessagesOK'
    BY <1>1, <1>2, <1>3, <2>2, <2>4 DEF CalmInv, MessagesOK
  <2>8. Awaiting' /\ audioHeld' /\ Still'
    BY <1>5, <2>1, <2>5 DEF Awaiting, Still
  <2> QED
    BY <1>1, <1>3, <2>6, <2>7, <2>8 DEF CalmInv
<1>9. CASE /\ step' = "idle" /\ UNCHANGED <<announced, sentChunks, toRobot>>
           /\ tasks = {} \/ UNCHANGED audioHeld
  <2>1. ~Awaiting' /\ Quiet'
    <3>1. Len(toRobot') = 0
      BY <1>6, <1>9, EmptySeq
    <3> QED
      BY <1>7, <1>9, <3>1 DEF Awaiting, Quiet
  <2>2. MessagesOK'
    BY <1>1, <1>2, <1>3, <1>9 DEF CalmInv, MessagesOK
  <2>3. Still'
    <3> SUFFICES ASSUME tasks # {} PROVE Still'
      BY <1>3 DEF Still
    <3>1. UNCHANGED <<tasks, tracking, audioHeld, toRobot, finished>>
      BY <1>3, <1>9
    <3>2. \A i \in 1..Len(toDesktop') : toDesktop'[i].kind = "playback" => toDesktop'[i].state = "started"
      BY <1>1, <1>2 DEF CalmInv, Still
    <3> QED
      BY <1>1, <3>1, <3>2 DEF CalmInv, Still
  <2> QED
    BY <1>1, <1>3, <2>1, <2>2, <2>3 DEF CalmInv
<1>10. \/ ack.status = "accepted" /\ Accepted
       \/ ack.status = "rejected" /\ GiveUp /\ UNCHANGED <<sentChunks, toRobot>>
  BY <1>2, <1>6 DEF AckArrives
<1> QED
  BY <1>6, <1>8, <1>9, <1>10 DEF Accepted, GiveUp

\* A late ack is not calm: an ack that is awaited is under way.
LEMMA NeverLate ==
  ASSUME IInv, Calm, AckTimesOut
  PROVE  ~Calm'
<1>1. CalmInv /\ (Sent \/ Answered) /\ timeouts \in Nat
  BY DEF IInv, CalmInv, AckTimesOut, Awaiting
<1>2. Answerable
  <2>1. CASE Sent
    <3>1. Len(toRobot) \in 1..Len(toRobot) /\ toRobot[Len(toRobot)].live
      BY <1>1, <2>1, TailOf DEF CalmInv, MessagesOK, Sent
    <3> QED
      BY <3>1 DEF Answerable
  <2>2. CASE Answered
    <3>1. 1 \in 1..Len(toDesktop) /\ toDesktop[1].live
      BY <1>1, <2>2, TailOf DEF CalmInv, MessagesOK, Answered
    <3> QED
      BY <3>1 DEF Answerable
  <2> QED
    BY <1>1, <2>1, <2>2
<1>3. timeouts' = timeouts + 1
  BY <1>2 DEF AckTimesOut
<1> QED
  BY <1>1, <1>3 DEF Calm

\* A playback event is the first message only while nothing is awaited.
LEMMA EventHandled ==
  ASSUME IInv, Calm, Calm', PlaybackEventArrives
  PROVE  CalmInv'
<1> USE DEF robotVars
<1>1. CalmInv /\ toDesktop \in Seq(DesktopMessages) /\ toDesktop # <<>>
  BY DEF IInv, CalmInv, MessagesOK, PlaybackEventArrives
<1>2. /\ Head(toDesktop) = toDesktop[1] /\ 1 \in 1..Len(toDesktop)
      /\ toDesktop' \in Seq(DesktopMessages)
      /\ \A i \in 1..Len(toDesktop') : i + 1 \in 1..Len(toDesktop) /\ toDesktop'[i] = toDesktop[i + 1]
  BY <1>1, TailOf DEF PlaybackEventArrives
<1>3. /\ toDesktop[1].kind = "playback" /\ audioHeld' = (toDesktop[1].state = "started")
      /\ UNCHANGED <<announced, step, sentChunks, online, toRobot, tasks, finished, tracking>>
  BY <1>2 DEF PlaybackEventArrives
<1>4. ~Awaiting /\ ~Awaiting'
  BY <1>1, <1>3 DEF CalmInv, Sent, Answered, Awaiting
<1>5. MessagesOK'
  BY <1>1, <1>2, <1>3 DEF CalmInv, MessagesOK
<1>6. Quiet'
  BY <1>1, <1>2, <1>3, <1>4 DEF CalmInv, Quiet
<1>7. Still'
  <2> SUFFICES ASSUME tasks # {} PROVE Still'
    BY <1>3 DEF Still
  <2>1. toDesktop[1].state = "started"
    BY <1>1, <1>2, <1>3 DEF CalmInv, Still
  <2>2. \A i \in 1..Len(toDesktop') : toDesktop'[i].kind = "playback" => toDesktop'[i].state = "started"
    BY <1>1, <1>2 DEF CalmInv, Still
  <2> QED
    BY <1>1, <1>3, <2>1, <2>2 DEF CalmInv, Still
<1> QED
  BY <1>1, <1>3, <1>4, <1>5, <1>6, <1>7 DEF CalmInv

\* The announcer's timer, the end of the reservation, and a face that is seen.
LEMMA GateSteps ==
  ASSUME IInv, Calm, Calm', (\E a \in Announcements : PlaybackTimesOut(a)) \/ HoldExpires \/ Track
  PROVE  CalmInv'
<1> USE DEF robotVars, linkVars, daemonVars
<1>1. CalmInv
  BY DEF IInv
<1>2. CASE \E a \in Announcements : PlaybackTimesOut(a)
  <2>1. UNCHANGED <<announced, step, sentChunks, audioHeld, online, toRobot, toDesktop, tasks, finished, tracking>>
    BY <1>2 DEF PlaybackTimesOut
  <2> QED
    BY <1>1, <2>1 DEF CalmInv, MessagesOK, Awaiting, Quiet, Sent, Answered, Still
<1>3. CASE HoldExpires
  <2>1. /\ step = "idle" /\ tasks = {}
        /\ UNCHANGED <<announced, step, sentChunks, online, toRobot, toDesktop, tasks, finished, tracking>>
    BY <1>3 DEF HoldExpires
  <2> QED
    BY <1>1, <2>1 DEF CalmInv, MessagesOK, Awaiting, Quiet, Still
<1>4. CASE Track
  <2>1. /\ ~audioHeld /\ toRobot' = Append(toRobot, TrackFace(TRUE))
        /\ UNCHANGED <<announced, step, sentChunks, audioHeld, online, toDesktop, tasks, finished, tracking>>
    BY <1>4 DEF Track
  <2>2. ~Awaiting /\ ~Awaiting' /\ tasks = {}
    BY <1>1, <2>1 DEF CalmInv, Awaiting, Still
  <2>3. TrackFace(TRUE) \in RobotMessages /\ TrackFace(TRUE).kind = "trackFace"
    BY DEF RobotMessages, TrackFace
  <2>4. /\ toRobot' \in Seq(RobotMessages)
        /\ \A i \in 1..Len(toRobot) : toRobot'[i] = toRobot[i]
        /\ toRobot'[Len(toRobot) + 1] = TrackFace(TRUE)
        /\ \A i \in 1..Len(toRobot') : i \in 1..Len(toRobot) \/ i = Len(toRobot) + 1
    <3> DEFINE seen == TrackFace(TRUE)
               all == Append(toRobot, seen)
    <3>1. seen \in RobotMessages /\ toRobot \in Seq(RobotMessages) /\ toRobot' = all
      BY <1>1, <2>1, <2>3 DEF CalmInv, MessagesOK
    <3> HIDE DEF seen
    <3>2. /\ all \in Seq(RobotMessages) /\ Len(toRobot) \in Nat /\ Len(all) = Len(toRobot) + 1
          /\ all # <<>> /\ all[Len(toRobot) + 1] = seen
          /\ \A i \in 1..Len(toRobot) : all[i] = toRobot[i]
          /\ \A i \in 1..Len(all) : i \in 1..Len(toRobot) \/ i = Len(toRobot) + 1
      BY <3>1, AppendOf, Zenon
    <3> HIDE DEF all
    <3> QED
      BY <3>1, <3>2 DEF seen
  <2>5. MessagesOK'
    BY <1>1, <2>1, <2>4 DEF CalmInv, MessagesOK
  <2>6. Quiet'
    <3>1. \A i \in 1..Len(toRobot') : toRobot'[i].kind = "trackFace"
      BY <1>1, <2>2, <2>3, <2>4 DEF CalmInv, Quiet
    <3> QED
      BY <1>1, <2>1, <2>2, <3>1 DEF CalmInv, Quiet
  <2>7. Still'
    BY <2>1, <2>2 DEF Still
  <2> QED
    BY <1>1, <2>1, <2>2, <2>5, <2>6, <2>7 DEF CalmInv
<1> QED
  BY <1>2, <1>3, <1>4

-----------------------------------------------------------------------------
(***************************************************************************)
(* The robot.                                                              *)
(***************************************************************************)
\* The two acks of a command, and what may follow the ack of an end.
LEMMA RepliesOK ==
  ASSUME NEW a \in 0..MaxAnnouncements
  PROVE  /\ \A status \in {"accepted", "rejected"} :
              Ack(status, TRUE) \in DesktopMessages /\ Ack(status, TRUE).kind = "ack"
              /\ Ack(status, TRUE).live /\ Ack(status, TRUE).status = status
         /\ \A state \in {"started", "finished", "failed"} :
              Playback(state, a) \in DesktopMessages /\ Playback(state, a).kind = "playback"
              /\ Playback(state, a).state = state
BY DEF DesktopMessages, Ack, Playback

\* Handling the command that is awaited: its ack is the first message then.
LEMMA CommandHandled ==
  ASSUME CalmInv, Awaiting, Sent, Len(toRobot) = 1, RobotReceives
  PROVE  CalmInv'
<1> USE DEF daemonVars
<1> DEFINE command == toRobot[1]
<1>1. toRobot \in Seq(RobotMessages) /\ toRobot # <<>>
  BY DEF CalmInv, MessagesOK, Sent
<1>2. Head(toRobot) = command /\ command \in RobotMessages /\ toRobot' = <<>>
  <2>1. /\ Head(toRobot) = command /\ command \in RobotMessages
        /\ toRobot' \in Seq(RobotMessages) /\ Len(toRobot') = 0
    BY <1>1, TailOf DEF RobotReceives
  <2> QED
    BY <2>1, EmptySeq
<1>3. /\ command.kind # "trackFace" /\ command.live
      /\ command.kind = "playAudioEnd" => step = "end"
      /\ toDesktop = <<>> /\ tasks = {} /\ finished = <<>> /\ ~tracking
  BY DEF Sent
<1>4. command.live = TRUE /\ command.of \in 0..MaxAnnouncements
  BY <1>2, <1>3 DEF RobotMessages
<1>5. UNCHANGED <<announced, step, sentChunks, audioHeld, online>>
  BY DEF RobotReceives
<1> HIDE DEF command
<1>6. \/ PlayAudioStart(command) \/ PlayAudioChunk(command)
      \/ step = "end" /\ PlayAudioEnd(command)
  BY <1>2, <1>3 DEF RobotReceives
<1>7. UNCHANGED <<finished, tracking>>
  BY <1>6 DEF PlayAudioStart, PlayAudioChunk, PlayAudioEnd
<1> DEFINE Reply(status) == toDesktop' = <<Ack(status, TRUE)>> /\ UNCHANGED tasks
<1>8. \/ Reply("accepted")
      \/ Reply("rejected")
      \/ /\ toDesktop' = <<Ack("accepted", TRUE), Playback("started", command.of)>>
         /\ step = "end" /\ tasks' = {command.of}
      \/ /\ toDesktop' = <<Ack("accepted", TRUE), Playback("started", command.of),
                           Playback("failed", command.of)>>
         /\ step = "end" /\ UNCHANGED tasks
  <2> DEFINE yes == Ack("accepted", TRUE)
             no == Ack("rejected", TRUE)
             started == Playback("started", command.of)
             failed == Playback("failed", command.of)
  <2>1. /\ yes \in DesktopMessages /\ no \in DesktopMessages
        /\ started \in DesktopMessages /\ failed \in DesktopMessages
    BY <1>4, RepliesOK
  <2> HIDE DEF yes, no, started, failed
  <2>2. /\ Append(<<>>, yes) = <<yes>> /\ Append(<<>>, no) = <<no>>
        /\ <<>> \o <<yes, started>> = <<yes, started>>
        /\ <<>> \o <<yes, started, failed>> = <<yes, started, failed>>
    BY <2>1, FromEmpty
  <2>3. CASE PlayAudioStart(command) \/ PlayAudioChunk(command)
    <3>1. toDesktop' = Append(<<>>, yes) \/ toDesktop' = Append(<<>>, no)
      BY <1>3, <1>4, <2>3 DEF PlayAudioStart, PlayAudioChunk, Accept, Reject, yes, no
    <3>2. UNCHANGED tasks
      BY <2>3 DEF PlayAudioStart, PlayAudioChunk
    <3>3. toDesktop' = <<yes>> \/ toDesktop' = <<no>>
      BY <2>2, <3>1
    <3> QED
      BY <3>2, <3>3 DEF yes, no
  <2>4. CASE step = "end" /\ PlayAudioEnd(command)
    <3>1. \/ toDesktop' = Append(<<>>, no) /\ UNCHANGED tasks
          \/ toDesktop' = <<>> \o <<yes, started>> /\ tasks' = tasks \cup {command.of}
          \/ toDesktop' = <<>> \o <<yes, started, failed>> /\ UNCHANGED tasks
      BY <1>3, <1>4, <2>4 DEF PlayAudioEnd, Reject, yes, no, started, failed
    <3>2. tasks \cup {command.of} = {command.of}
      BY <1>3
    <3>3. \/ toDesktop' = <<no>> /\ UNCHANGED tasks
          \/ toDesktop' = <<yes, started>> /\ tasks' = {command.of}
          \/ toDesktop' = <<yes, started, failed>> /\ UNCHANGED tasks
      BY <2>2, <3>1, <3>2
    <3> QED
      BY <2>4, <3>3 DEF yes, no, started, failed
  <2> QED
    BY <1>6, <2>3, <2>4
<1>9. /\ toDesktop' \in Seq(DesktopMessages) /\ toDesktop' # <<>>
      /\ toDesktop'[1].kind = "ack" /\ toDesktop'[1].live
      /\ \A i \in 1..Len(toDesktop') : i > 1 => toDesktop'[i].kind = "playback"
      /\ toDesktop'[1].status = "rejected" => Len(toDesktop') = 1 /\ tasks' = {}
      /\ step # "end" => Len(toDesktop') = 1 /\ tasks' = {}
      /\ tasks' # {} => \A i \in 1..Len(toDesktop') :
                           toDesktop'[i].kind = "playback" => toDesktop'[i].state = "started"
      /\ \A a, b \in tasks' : a = b
  <2> DEFINE yes == Ack("accepted", TRUE)
             no == Ack("rejected", TRUE)
             started == Playback("started", command.of)
             failed == Playback("failed", command.of)
  <2>1. /\ yes \in DesktopMessages /\ yes.kind = "ack" /\ yes.live /\ yes.status = "accepted"
        /\ no \in DesktopMessages /\ no.kind = "ack" /\ no.live
        /\ started \in DesktopMessages /\ started.kind = "playback" /\ started.state = "started"
        /\ failed \in DesktopMessages /\ failed.kind = "playback"
    BY <1>4, RepliesOK
  <2> HIDE DEF yes, no, started, failed
  <2>2. CASE toDesktop' = <<yes>> /\ UNCHANGED tasks
    BY <1>3, <2>1, <2>2
  <2>3. CASE toDesktop' = <<no>> /\ UNCHANGED tasks
    BY <1>3, <2>1, <2>3
  <2>4. CASE toDesktop' = <<yes, started>> /\ step = "end" /\ tasks' = {command.of}
    BY <2>1, <2>4
  <2>5. CASE toDesktop' = <<yes, started, failed>> /\ step = "end" /\ UNCHANGED tasks
    BY <1>3, <2>1, <2>5
  <2> QED
    BY <1>8, <2>2, <2>3, <2>4, <2>5 DEF yes, no, started, failed
<1>10. Answered' /\ Awaiting' /\ audioHeld'
  BY <1>2, <1>3, <1>5, <1>7, <1>9 DEF CalmInv, Answered, Awaiting
<1>11. Still'
  BY <1>2, <1>3, <1>7, <1>9, <1>10 DEF Still
<1>12. MessagesOK'
  BY <1>1, <1>2, <1>5, <1>7, <1>9, EmptySeq DEF CalmInv, MessagesOK
<1> QED
  BY <1>5, <1>10, <1>11, <1>12 DEF CalmInv

\* Handling a trackFace command: the last one before the command of playAudio is
\* the one that stops the tracking.
LEMMA TrackFaceHandled ==
  ASSUME CalmInv, RobotReceives, Awaiting => Sent /\ Len(toRobot) # 1
  PROVE  CalmInv'
<1> USE DEF daemonVars
<1>1. toRobot \in Seq(RobotMessages) /\ toRobot # <<>>
  BY DEF CalmInv, MessagesOK, RobotReceives
<1>2. /\ Head(toRobot) = toRobot[1] /\ 1 \in 1..Len(toRobot) /\ Len(toRobot) \in Nat
      /\ toRobot' \in Seq(RobotMessages) /\ Len(toRobot') = Len(toRobot) - 1
      /\ \A i \in 1..Len(toRobot') : i + 1 \in 1..Len(toRobot) /\ toRobot'[i] = toRobot[i + 1]
  BY <1>1, TailOf DEF RobotReceives
<1>3. toRobot[1].kind = "trackFace"
  <2>1. CASE ~Awaiting
    BY <1>2, <2>1 DEF CalmInv, Quiet
  <2>2. CASE Awaiting
    <3>1. 1 < Len(toRobot)
      BY <1>2, <2>2
    <3> QED
      BY <1>2, <2>2, <3>1 DEF Sent
  <2> QED
    BY <2>1, <2>2
<1>4. /\ tracking' = toRobot[1].detected
      /\ UNCHANGED <<announced, step, sentChunks, audioHeld, online, toDesktop, tasks, finished>>
  BY <1>2, <1>3 DEF RobotReceives, PlayAudioStart, PlayAudioChunk, PlayAudioEnd, HandleTrackFace
<1>5. MessagesOK'
  BY <1>2, <1>4 DEF CalmInv, MessagesOK
<1>6. tasks = {} /\ Still'
  BY <1>1, <1>4 DEF CalmInv, Still
<1>7. CASE ~Awaiting
  <2>1. Quiet' /\ ~Awaiting'
    BY <1>2, <1>4, <1>7 DEF CalmInv, Quiet, Awaiting
  <2> QED
    BY <1>4, <1>5, <1>6, <2>1 DEF CalmInv
<1>8. CASE Awaiting
  <2> DEFINE n == Len(toRobot)
  <2>1. /\ Sent /\ n \in Nat /\ n > 1 /\ Len(toRobot') = n - 1
        /\ n - 1 \in 1..Len(toRobot') /\ toRobot'[n - 1] = toRobot[n]
    <3>1. n > 1 /\ n \in Nat /\ Len(toRobot') = n - 1
      BY <1>2, <1>8
    <3>2. n - 1 \in 1..Len(toRobot') /\ (n - 1) + 1 = n
      BY <3>1
    <3> QED
      BY <1>2, <1>8, <3>1, <3>2
  <2>2. \A i \in 1..Len(toRobot') : i < Len(toRobot') => toRobot'[i].kind = "trackFace"
    <3> SUFFICES ASSUME NEW i \in 1..Len(toRobot'), i < Len(toRobot') PROVE toRobot'[i].kind = "trackFace"
      OBVIOUS
    <3>1. i + 1 \in 1..Len(toRobot) /\ toRobot'[i] = toRobot[i + 1]
      BY <1>2
    <3>2. i + 1 < Len(toRobot)
      BY <2>1
    <3> QED
      BY <2>1, <3>1, <3>2 DEF Sent
  <2>3. CASE n = 2
    <3>1. toRobot[1] = TrackFace(FALSE)
      <4>1. Len(toRobot) > 1 /\ Len(toRobot) - 1 = 1
        BY <2>3
      <4> QED
        BY <2>1, <4>1 DEF Sent
    <3>2. ~tracking'
      BY <1>4, <3>1 DEF TrackFace
    <3>3. toRobot'[Len(toRobot')] = toRobot[n] /\ Len(toRobot') = 1 /\ toRobot' # <<>>
      BY <2>1, <2>3, EmptySeq
    <3>4. Sent'
      BY <1>4, <2>1, <2>2, <3>2, <3>3 DEF Sent
    <3> QED
      BY <1>4, <1>5, <1>6, <1>8, <3>4 DEF CalmInv, Awaiting
  <2>4. CASE n > 2
    <3>1. /\ toRobot'[Len(toRobot')] = toRobot[n] /\ Len(toRobot') > 1 /\ toRobot' # <<>>
          /\ Len(toRobot') - 1 \in 1..Len(toRobot') /\ (Len(toRobot') - 1) + 1 = n - 1
      BY <2>1, <2>4, EmptySeq
    <3>2. toRobot'[Len(toRobot') - 1] = TrackFace(FALSE)
      BY <1>2, <2>1, <3>1 DEF Sent
    <3>3. Len(toRobot') # 1
      BY <2>1, <2>4
    <3>4. Sent'
      BY <1>4, <2>1, <2>2, <3>1, <3>2, <3>3 DEF Sent
    <3> QED
      BY <1>4, <1>5, <1>6, <1>8, <3>4 DEF CalmInv, Awaiting
  <2> QED
    BY <2>1, <2>3, <2>4
<1> QED
  BY <1>7, <1>8

LEMMA RobotHandles ==
  ASSUME IInv, Calm, RobotReceives
  PROVE  CalmInv'
<1>1. CalmInv /\ toRobot # <<>>
  BY DEF IInv, RobotReceives
<1>2. Awaiting => Sent
  BY <1>1 DEF CalmInv, Answered
<1> QED
  BY <1>1, <1>2, CommandHandled, TrackFaceHandled

\* The playback of an announcement ends, and its end is reported.
LEMMA PlaybackReported ==
  ASSUME IInv, Calm, (\E a \in Announcements : PlaybackEnds(a)) \/ SendPendingPlaybackEvents
  PROVE  CalmInv'
<1> USE DEF daemonVars, linkVars
<1>1. CalmInv
  BY DEF IInv
<1>2. ASSUME NEW a \in Announcements, PlaybackEnds(a) PROVE CalmInv'
  <2>1. /\ a \in tasks /\ tasks' = tasks \ {a} /\ finished' = Append(finished, a)
        /\ UNCHANGED <<announced, step, sentChunks, audioHeld, online, toRobot, toDesktop, tracking>>
    BY <1>2 DEF PlaybackEnds
  <2>2. tasks' = {} /\ Still'
    BY <1>1, <2>1 DEF CalmInv, Still
  <2>3. finished' \in Seq(Announcements)
    BY <1>1, <1>2, <2>1, AppendProperties DEF CalmInv, MessagesOK
  <2>4. Awaiting => Answered' /\ Awaiting'
    BY <1>1, <2>1 DEF CalmInv, Sent, Answered, Awaiting
  <2>5. ~Awaiting => Quiet' /\ ~Awaiting'
    BY <1>1, <2>1 DEF CalmInv, Quiet, Awaiting
  <2>6. MessagesOK'
    BY <1>1, <2>1, <2>3 DEF CalmInv, MessagesOK
  <2> QED
    BY <1>1, <2>1, <2>2, <2>4, <2>5, <2>6 DEF CalmInv
<1>3. ASSUME SendPendingPlaybackEvents PROVE CalmInv'
  <2> DEFINE events == [i \in 1..Len(finished) |-> Playback("finished", finished[i])]
  <2>1. /\ finished # <<>> /\ finished' = <<>> /\ toDesktop' = toDesktop \o events
        /\ UNCHANGED <<announced, step, sentChunks, audioHeld, online, toRobot, tasks, tracking>>
    BY <1>3 DEF SendPendingPlaybackEvents
  <2>2. tasks = {} /\ Still'
    BY <1>1, <2>1 DEF CalmInv, Still
  <2>3. Len(finished) \in Nat /\ \A i \in 1..Len(finished) : finished[i] \in Announcements
    BY <1>1, LenProperties, ElementOfSeq DEF CalmInv, MessagesOK
  <2>4. \A a \in Announcements : a \in 0..MaxAnnouncements
    BY SpeechAssumption DEF Announcements
  <2>5. \A i \in 1..Len(finished) : events[i] \in DesktopMessages /\ events[i].kind = "playback"
    BY <2>3, <2>4, RepliesOK
  <2>6. events \in Seq(DesktopMessages) /\ Len(events) = Len(finished)
    <3>1. events \in [1..Len(finished) -> DesktopMessages]
      BY <2>5
    <3> HIDE DEF events
    <3> QED
      BY <2>3, <3>1, FunctionIsSeq
  <2> HIDE DEF events
  <2> DEFINE all == toDesktop \o events
  <2>7. /\ toDesktop \in Seq(DesktopMessages) /\ toDesktop' = all
        /\ \A i \in 1..Len(events) : events[i].kind = "playback"
    BY <1>1, <2>1, <2>5, <2>6 DEF CalmInv, MessagesOK
  <2>8. /\ all \in Seq(DesktopMessages) /\ Len(toDesktop) \in Nat /\ Len(events) \in Nat
        /\ Len(all) = Len(toDesktop) + Len(events)
        /\ \A i \in 1..Len(toDesktop) : all[i] = toDesktop[i]
        /\ \A i \in 1..Len(events) : all[Len(toDesktop) + i] = events[i]
        /\ \A i \in 1..Len(all) : i \in 1..Len(toDesktop) \/ \E j \in 1..Len(events) : i = Len(toDesktop) + j
    BY <2>6, <2>7, ConcatOf, Zenon
  <2> HIDE DEF all
  <2>9. MessagesOK'
    BY <1>1, <2>1, <2>7, <2>8, EmptySeq DEF CalmInv, MessagesOK
  <2>10. ASSUME ~Awaiting PROVE Quiet' /\ ~Awaiting'
    <3>1. \A i \in 1..Len(toDesktop') : toDesktop'[i].kind = "playback"
      <4> SUFFICES ASSUME NEW i \in 1..Len(all) PROVE all[i].kind = "playback"
        BY <2>7
      <4>1. CASE i \in 1..Len(toDesktop)
        BY <1>1, <2>8, <2>10, <4>1 DEF CalmInv, Quiet
      <4>2. CASE \E j \in 1..Len(events) : i = Len(toDesktop) + j
        BY <2>7, <2>8, <4>2
      <4> QED
        BY <2>8, <4>1, <4>2
    <3> QED
      BY <1>1, <2>1, <2>10, <3>1 DEF CalmInv, Quiet, Awaiting
  <2>11. ASSUME Awaiting PROVE Answered' /\ Awaiting'
    <3>1. Answered /\ step = "end" /\ toDesktop[1].status # "rejected"
      BY <1>1, <2>1, <2>11 DEF CalmInv, Sent, Answered
    <3>2. 1 \in 1..Len(toDesktop) /\ toDesktop'[1] = toDesktop[1] /\ toDesktop' # <<>>
      <4>1. 1 \in 1..Len(toDesktop)
        BY <2>7, <3>1, TailOf DEF Answered
      <4>2. Len(all) # 0
        BY <2>8, <4>1
      <4> QED
        BY <2>7, <2>8, <4>1, <4>2, EmptySeq
    <3>3. \A i \in 1..Len(toDesktop') : i > 1 => toDesktop'[i].kind = "playback"
      <4> SUFFICES ASSUME NEW i \in 1..Len(all), i > 1 PROVE all[i].kind = "playback"
        BY <2>7
      <4>1. CASE i \in 1..Len(toDesktop)
        BY <2>8, <3>1, <4>1 DEF Answered
      <4>2. CASE \E j \in 1..Len(events) : i = Len(toDesktop) + j
        BY <2>7, <2>8, <4>2
      <4> QED
        BY <2>8, <4>1, <4>2
    <3> QED
      BY <2>1, <2>11, <3>1, <3>2, <3>3 DEF Answered, Awaiting
  <2> QED
    BY <1>1, <2>1, <2>2, <2>9, <2>10, <2>11 DEF CalmInv
<1> QED
  BY <1>2, <1>3

-----------------------------------------------------------------------------
(***************************************************************************)
(* The theorem.                                                            *)
(***************************************************************************)
LEMMA NextIInv == IInv /\ [Next]_vars => IInv'
<1> SUFFICES ASSUME IInv, [Next]_vars PROVE IInv'
  OBVIOUS
<1> USE DEF faultVars
<1>1. outages' \in Nat /\ timeouts' \in Nat
  <2>1. \/ outages' = outages \/ outages' = outages + 1
    BY DEF Next, vars, Announce, SynthesisFails, PlayAudio, AckArrives, AckTimesOut, PlaybackEventArrives,
       HoldExpires, Track, PlaybackTimesOut, PlaybackEnds, RobotReceives, SendPendingPlaybackEvents,
       Lose, Return
  <2>2. \/ timeouts' = timeouts \/ timeouts' = timeouts + 1
    BY DEF Next, vars, Announce, SynthesisFails, PlayAudio, AckArrives, AckTimesOut, PlaybackEventArrives,
       HoldExpires, Track, PlaybackTimesOut, PlaybackEnds, RobotReceives, SendPendingPlaybackEvents,
       Lose, Return
  <2> QED
    BY <2>1, <2>2 DEF IInv
<1>2. Calm' => Calm \/ AckTimesOut \/ Lose
  BY DEF Calm, Next, vars, Announce, SynthesisFails, PlayAudio, AckArrives, PlaybackEventArrives,
     HoldExpires, Track, PlaybackTimesOut, PlaybackEnds, RobotReceives, SendPendingPlaybackEvents,
     Return
<1>3. ASSUME AckTimesOut \/ Lose, Calm' PROVE Calm
  <2>1. outages \in Nat /\ timeouts \in Nat /\ UNCHANGED overlapped
    BY <1>3 DEF IInv, AckTimesOut, Lose
  <2>2. (timeouts' = timeouts \/ timeouts' = timeouts + 1) /\ (outages' = outages \/ outages' = outages + 1)
    BY <1>3 DEF AckTimesOut, Lose
  <2> QED
    BY <1>3, <2>1, <2>2 DEF Calm
<1>4. ASSUME Lose PROVE ~Calm'
  BY <1>4 DEF IInv, Lose, Calm
<1>5. ASSUME Calm, Return PROVE FALSE
  BY <1>5 DEF IInv, CalmInv, Return
<1>6. ASSUME Calm, UNCHANGED vars PROVE CalmInv'
  BY <1>6 DEF IInv, CalmInv, vars, daemonVars, linkVars, robotVars, MessagesOK, Awaiting, Quiet,
     Sent, Answered, Still
<1>7. ASSUME Calm, Calm' PROVE CalmInv'
  BY <1>4, <1>5, <1>6, <1>7, WaitingSteps, PlayAudioSends, AckGoesOn, NeverLate, EventHandled,
     GateSteps, RobotHandles, PlaybackReported DEF Next
<1> QED
  BY <1>1, <1>2, <1>3, <1>7 DEF IInv

\* Face tracking does not move the head while an announcement is played, if the one
\* before it had ended when its transfer began and nothing was lost or late:
\* handle_track_face is never the last to be handled before the playback.
THEOREM StillWhilePlaying == Spec => []StillUnlessOverlapped
<1>1. IInv => StillUnlessOverlapped
  BY DEF IInv, Calm, CalmInv, Still, StillUnlessOverlapped
<1> QED
  BY <1>1, InitIInv, NextIInv, PTL DEF Spec
=============================================================================
