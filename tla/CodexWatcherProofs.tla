------------------------- MODULE CodexWatcherProofs -------------------------
(***************************************************************************)
(* Proofs about CodexWatcher, for every number of entries, timeouts and    *)
(* outages: type correctness, no stranded change, and that a quiet robot   *)
(* shows what was sent last.                                               *)
(***************************************************************************)
EXTENDS CodexWatcher, SequenceTheorems, TLAPS

(***************************************************************************)
(* The inductive invariant. At most one command on the wire is awaited: it *)
(* carries the mode of the attempt, and only hellos and the announcer's    *)
(* commands follow it. An awaited ack was sent by a robot that has applied *)
(* every command of the watcher, and with no change waiting none is under  *)
(* way. Without a connection the robot may show that it has none, until    *)
(* the batch it still works through sets a mode again.                     *)
(***************************************************************************)
Others == {Hello} \cup (IF idled THEN {SetIdle} ELSE {})

NoneSent(s) == \A j \in 1..Len(s) : s[j] \in Others

Shows(mode) == robotMode \in {mode, "connected"} \cup (IF idled THEN {"idle"} ELSE {})
                                \cup (IF online THEN {} ELSE Unconnected)

AwaitedCommand ==
  \A i \in 1..Len(wire) : wire[i].live =>
    /\ inFlight = "sent" /\ wire[i].mode = lastAttemptedMode
    /\ \A j \in 1..Len(wire) : j > i => wire[j] \in Others

AwaitedAck ==
  \A i \in 1..Len(acks) : acks[i] =>
    inFlight = "sent" /\ NoneSent(wire) /\ Shows(lastAttemptedMode)

Attempted == inFlight # "no" => lastAttemptedMode # None

OfflineLink == ~online => acks = <<>>

Quiet ==
  pendingChange = None =>
    inFlight = "no" /\ NoneSent(wire) /\ Shows(lastSentMode)

IInv == /\ TypeOK
        /\ AwaitedCommand /\ AwaitedAck /\ Attempted /\ OfflineLink /\ Quiet
        /\ NoStrandedChange

(***************************************************************************)
(* Lemmas on the helpers over the two sequences.                           *)
(***************************************************************************)

\* A function on 1..Len(s) is a sequence as long as s.
LEMMA FunctionIsSeq ==
  ASSUME NEW S, NEW T, NEW s \in Seq(S), NEW f \in [1..Len(s) -> T]
  PROVE  f \in Seq(T) /\ Len(f) = Len(s) /\ DOMAIN f = 1..Len(s)
<1>1. Len(s) \in Nat
  BY LenProperties
<1>2. f \in Seq(T)
  BY <1>1, SeqDef
<1>3. DOMAIN f = 1..Len(s) /\ DOMAIN f = 1..Len(f) /\ Len(f) \in Nat
  BY <1>2, LenProperties
<1> QED
  BY <1>1, <1>2, <1>3

\* Marking commands stale keeps them commands, in the same number and order, and
\* touches none of the others'.
LEMMA StaleCommands ==
  ASSUME NEW s \in Seq(Commands)
  PROVE  /\ Stale(s) \in Seq(Commands) /\ Len(Stale(s)) = Len(s)
         /\ \A i \in 1..Len(Stale(s)) : ~Stale(s)[i].live
         /\ NoneSent(s) => NoneSent(Stale(s))
<1>1. DOMAIN s = 1..Len(s) /\ s \in [1..Len(s) -> Commands] /\ Len(s) \in Nat
  BY LenProperties
<1>2. \A i \in 1..Len(s) : [mode |-> s[i].mode, live |-> FALSE] \in Commands
  BY <1>1 DEF Commands
<1>3. Stale(s) \in [1..Len(s) -> Commands]
  BY <1>1, <1>2 DEF Stale
<1>4. Stale(s) \in Seq(Commands) /\ Len(Stale(s)) = Len(s)
  BY <1>3, FunctionIsSeq
<1>5. \A i \in 1..Len(s) : ~Stale(s)[i].live
  BY <1>1 DEF Stale, Commands, Hello
<1>6. NoneSent(s) => \A i \in 1..Len(s) : Stale(s)[i] \in Others
  <2>1. \A c \in Others : [mode |-> c.mode, live |-> FALSE] = c
    BY DEF Others, Hello, SetIdle
  <2>2. \A i \in 1..Len(s) : Stale(s)[i] = [mode |-> s[i].mode, live |-> FALSE]
    BY <1>1, Zenon DEF Stale
  <2> QED
    BY <2>1, <2>2, Zenon DEF NoneSent
<1> QED
  BY <1>4, <1>5, <1>6 DEF NoneSent

\* Marking acks stale leaves none that is awaited.
LEMMA StaleAnswers ==
  ASSUME NEW s \in Seq(BOOLEAN)
  PROVE  /\ StaleAcks(s) \in Seq(BOOLEAN)
         /\ \A i \in 1..Len(StaleAcks(s)) : ~StaleAcks(s)[i]
         /\ s = <<>> => StaleAcks(s) = <<>>
<1>1. DOMAIN s = 1..Len(s) /\ Len(s) \in Nat
  BY LenProperties
<1>2. StaleAcks(s) \in [1..Len(s) -> BOOLEAN]
  BY <1>1 DEF StaleAcks
<1>3. StaleAcks(s) \in Seq(BOOLEAN) /\ Len(StaleAcks(s)) = Len(s)
  BY <1>2, FunctionIsSeq
<1>4. \A i \in 1..Len(s) : ~StaleAcks(s)[i]
  BY <1>1 DEF StaleAcks
<1>5. s = <<>> => StaleAcks(s) = <<>>
  BY <1>3, EmptySeq
<1> QED
  BY <1>3, <1>4, <1>5

-----------------------------------------------------------------------------
LEMMA InitIInv == Init => IInv
<1> SUFFICES ASSUME Init PROVE IInv
  OBVIOUS
<1> USE DEF Init, Modes, Unconnected, None, Commands, Hello
<1>1. TypeOK
  <2>1. wire \in Seq(Commands) /\ acks \in Seq(BOOLEAN) /\ taken \in 0..Len(wire)
    BY EmptySeq
  <2>2. 0 \in 0..MaxEntries /\ 0 \in 0..MaxTimeouts /\ 0 \in 0..MaxOutages /\ 0 \in 0..MaxPlaybacks
    BY BoundsAssumption
  <2> QED
    BY <2>1, <2>2 DEF TypeOK
<1>2. AwaitedCommand /\ AwaitedAck
  BY DEF AwaitedCommand, AwaitedAck
<1>3. Attempted /\ OfflineLink /\ Quiet /\ NoStrandedChange
  BY DEF Attempted, OfflineLink, Quiet, NoStrandedChange, NoneSent, Shows
<1> QED
  BY <1>1, <1>2, <1>3 DEF IInv

(***************************************************************************)
(* A step that leaves the link, the robot and the attempt alone.           *)
(***************************************************************************)
LEMMA LinkKept ==
  ASSUME AwaitedCommand, AwaitedAck, OfflineLink,
         UNCHANGED <<linkVars, robotVars, inFlight, lastAttemptedMode>>
  PROVE  AwaitedCommand' /\ AwaitedAck' /\ OfflineLink' /\ Others' = Others
         /\ NoneSent(wire)' = NoneSent(wire)
<1> USE DEF linkVars, robotVars, NoneSent, Others, Shows
<1>1. AwaitedCommand' /\ OfflineLink'
  BY DEF AwaitedCommand, OfflineLink
<1>2. AwaitedAck'
  BY DEF AwaitedAck
<1> QED
  BY <1>1, <1>2

LEMMA QuietKept ==
  ASSUME Quiet, UNCHANGED <<linkVars, robotVars, inFlight, pendingChange, lastSentMode>>
  PROVE  Quiet'
  BY DEF linkVars, robotVars, Quiet, NoneSent, Others, Shows

(***************************************************************************)
(* A dispatch puts the one awaited command last on the wire.               *)
(***************************************************************************)
LEMMA AppendAwaited ==
  ASSUME IInv, NEW mode \in Modes, NEW timer, inFlight = "no", DispatchModeChange(mode, timer)
  PROVE  wire' \in Seq(Commands) /\ taken' \in 0..Len(wire') /\ AwaitedCommand'
<1> DEFINE c == [mode |-> mode, live |-> TRUE]
<1>1. c \in Commands /\ c.mode = mode /\ c.live = TRUE
  BY DEF Commands
<1>2. /\ wire \in Seq(Commands) /\ online \in BOOLEAN /\ lastAttemptedMode' = mode
      /\ taken \in 0..Len(wire) /\ taken' = taken /\ Len(wire) \in Nat
  BY LenProperties DEF IInv, TypeOK, DispatchModeChange
<1>3. \A i \in 1..Len(wire) : ~wire[i].live
  BY DEF IInv, AwaitedCommand
<1>4. CASE online
  <2>1. wire' = Append(wire, c) /\ inFlight' = "sent"
    BY <1>4 DEF DispatchModeChange
  <2>2. /\ Append(wire, c) \in Seq(Commands) /\ Len(wire) \in Nat
        /\ Len(Append(wire, c)) = Len(wire) + 1
        /\ \A i \in 1..Len(wire) : Append(wire, c)[i] = wire[i]
        /\ Append(wire, c)[Len(wire) + 1] = c
    BY <1>1, <1>2, AppendProperties, LenProperties
  <2> HIDE DEF c
  <2> QED
    BY <1>1, <1>2, <1>3, <2>1, <2>2 DEF AwaitedCommand
<1>5. CASE ~online
  BY <1>2, <1>3, <1>5 DEF DispatchModeChange, AwaitedCommand
<1> QED
  BY <1>2, <1>4, <1>5

(***************************************************************************)
(* applyChange preserves the invariant, whoever calls it.                  *)
(***************************************************************************)
LEMMA ApplyChangeIInv ==
  ASSUME IInv, NEW mode \in Modes, ApplyChange(mode),
         machineMode' \in Modes, activeTurn' \in BOOLEAN, entries' \in 0..MaxEntries,
         UNCHANGED <<running, lastSentMode, robotVars, timeouts, outages, playbacks>>
  PROVE  IInv'
<1> USE DEF IInv, TypeOK, Modes, None, robotVars, attemptVars, linkVars
<1>1. resumeTimer' \in BOOLEAN
  BY DEF ApplyChange, Temporary
<1>2. CASE lastSentMode = mode
  <2>1. UNCHANGED <<pendingChange, attemptVars, retryTimer, linkVars>>
    BY <1>2 DEF ApplyChange
  <2> QED
    BY <1>1, <2>1, LinkKept, QuietKept DEF Attempted, NoStrandedChange
<1>3. CASE lastSentMode # mode
  <2>1. pendingChange' = mode /\ DispatchPendingModeChange(mode, retryTimer)
    BY <1>3 DEF ApplyChange
  <2>2. CASE UNCHANGED <<attemptVars, linkVars>> /\ (inFlight # "no" \/ retryTimer' # "off")
             /\ retryTimer' \in {"off", "early", "late"}
    BY <1>1, <2>1, <2>2, LinkKept DEF Attempted, Quiet, NoStrandedChange
  <2>3. CASE inFlight = "no" /\ DispatchModeChange(mode, retryTimer)
    <3>1. /\ inFlight' \in {"sent", "unsent"} /\ cooldown' = TRUE /\ lastAttemptedMode' = mode
          /\ retryTimer' \in {"off", "early", "late"} /\ acks' = acks /\ taken' = taken
          /\ inFlight' = (IF online THEN "sent" ELSE "unsent") /\ idled' = FALSE
      BY <2>3 DEF DispatchModeChange
    <3>2. wire' \in Seq(Commands) /\ taken' \in 0..Len(wire') /\ AwaitedCommand'
      BY <2>3, AppendAwaited
    <3>3. AwaitedAck'
      BY <2>3, <3>1 DEF AwaitedAck
    <3>4. OfflineLink'
      BY <2>3, <3>1 DEF OfflineLink, DispatchModeChange
    <3>5. TypeOK'
      BY <1>1, <2>1, <3>1, <3>2
    <3>6. Attempted' /\ Quiet' /\ NoStrandedChange'
      BY <2>1, <3>1 DEF Attempted, Quiet, NoStrandedChange
    <3> QED
      BY <3>2, <3>3, <3>4, <3>5, <3>6
  <2> QED
    BY <2>1, <2>2, <2>3 DEF DispatchPendingModeChange
<1> QED
  BY <1>2, <1>3

-----------------------------------------------------------------------------
(***************************************************************************)
(* One lemma per group of steps that do not call applyChange.              *)
(***************************************************************************)
LEMMA RetryFiresIInv == IInv /\ RetryFires => IInv'
<1> SUFFICES ASSUME IInv, RetryFires PROVE IInv'
  OBVIOUS
<1> USE DEF IInv, TypeOK, Modes, None, robotVars, attemptVars, linkVars, machineVars, boundVars
<1> DEFINE rest == <<machineVars, running, pendingChange, lastSentMode, resumeTimer, robotVars, boundVars>>
<1>0. UNCHANGED rest
  BY DEF RetryFires
<1>1. CASE pendingChange = None
  BY <1>0, <1>1, LinkKept, QuietKept DEF RetryFires, Attempted, NoStrandedChange
<1>2. CASE pendingChange # None
  <2>1. DispatchPendingModeChange(pendingChange, "off") /\ pendingChange \in Modes
    BY <1>2 DEF RetryFires
  <2>2. CASE UNCHANGED <<attemptVars, linkVars>> /\ (inFlight # "no" \/ retryTimer' # "off")
             /\ retryTimer' \in {"off", "early", "late"}
    BY <1>0, <2>1, <2>2, LinkKept DEF Attempted, Quiet, NoStrandedChange
  <2>3. CASE inFlight = "no" /\ DispatchModeChange(pendingChange, "off")
    <3>1. /\ inFlight' = IF online THEN "sent" ELSE "unsent"
          /\ cooldown' = TRUE /\ lastAttemptedMode' = pendingChange
          /\ retryTimer' = "off" /\ acks' = acks /\ taken' = taken /\ idled' = FALSE
      BY <2>3 DEF DispatchModeChange
    <3>2. wire' \in Seq(Commands) /\ taken' \in 0..Len(wire') /\ AwaitedCommand'
      BY <1>0, <2>1, <2>3, AppendAwaited
    <3>3. AwaitedAck'
      BY <1>0, <2>3, <3>1 DEF AwaitedAck
    <3>4. OfflineLink'
      BY <1>0, <2>3, <3>1 DEF OfflineLink, DispatchModeChange
    <3>5. TypeOK'
      <4>1. /\ inFlight' \in {"no", "sent", "unsent"} /\ cooldown' \in BOOLEAN
            /\ retryTimer' \in {"off", "early", "late"} /\ idled' \in BOOLEAN
            /\ acks' \in Seq(BOOLEAN) /\ lastAttemptedMode' \in Modes \cup {None}
        BY <2>1, <3>1
      <4>2. TypeOK /\ taken' = taken /\ (online => taken = 0) /\ wire' \in Seq(Commands)
        BY <3>1, <3>2
      <4> QED
        BY <1>0, <3>2, <4>1, <4>2
    <3>6. Attempted' /\ Quiet' /\ NoStrandedChange'
      BY <1>0, <2>1, <3>1 DEF Attempted, Quiet, NoStrandedChange
    <3> QED
      BY <3>2, <3>3, <3>4, <3>5, <3>6
  <2> QED
    BY <2>1, <2>2, <2>3 DEF DispatchPendingModeChange
<1> QED
  BY <1>1, <1>2

\* Steps of the log and of the timers other than the retry timer.
LEMMA ChangeIInv ==
  ASSUME IInv,
         \/ \E mode \in Modes : LogEntry(mode) \/ AttachFile(mode)
         \/ ResumeFires
  PROVE  IInv'
<1> USE DEF boundVars
<1>1. ASSUME NEW mode \in Modes, LogEntry(mode) PROVE IInv'
  <2>1. activeTurn' \in BOOLEAN
    BY <1>1 DEF LogEntry, ActiveAfter
  <2>2. entries' \in 0..MaxEntries
    BY <1>1, BoundsAssumption DEF IInv, TypeOK, LogEntry
  <2> QED
    BY <1>1, <2>1, <2>2, ApplyChangeIInv DEF LogEntry
<1>2. ASSUME NEW mode \in Modes, AttachFile(mode) PROVE IInv'
  <2>1. activeTurn' \in BOOLEAN
    BY <1>2 DEF AttachFile, ActiveAfter
  <2>2. entries' \in 0..MaxEntries
    BY <1>2, BoundsAssumption DEF IInv, TypeOK, AttachFile
  <2> QED
    BY <1>2, <2>1, <2>2, ApplyChangeIInv DEF AttachFile
<1>3. CASE ResumeFires
  <2>1. ResumeMode \in Modes
    BY DEF ResumeMode, Modes
  <2>2. activeTurn' \in BOOLEAN /\ entries' \in 0..MaxEntries
    BY <1>3 DEF IInv, TypeOK, ResumeFires
  <2> QED
    BY <1>3, <2>1, <2>2, ApplyChangeIInv DEF ResumeFires
<1> QED
  BY <1>1, <1>2, <1>3

LEMMA CooldownOrStopIInv == IInv /\ (CooldownEnds \/ Stop) => IInv'
<1> SUFFICES ASSUME IInv, CooldownEnds \/ Stop PROVE IInv'
  OBVIOUS
<1> USE DEF machineVars, attemptVars, robotVars, linkVars, boundVars
<1>1. CASE CooldownEnds
  <2>1. TypeOK'
    <3>1. /\ TypeOK /\ cooldown' = FALSE
          /\ UNCHANGED <<machineVars, running, pendingChange, lastSentMode, inFlight,
                         lastAttemptedMode, retryTimer, resumeTimer, robotVars, linkVars, boundVars>>
      BY <1>1 DEF IInv, CooldownEnds
    <3>2. cooldown' \in BOOLEAN
      BY <3>1
    <3> QED
      BY <3>1, <3>2 DEF TypeOK
  <2> QED
    BY <1>1, <2>1, LinkKept, QuietKept DEF IInv, CooldownEnds, Attempted, NoStrandedChange
<1>2. CASE Stop
  <2>1. TypeOK'
    BY <1>2 DEF IInv, TypeOK, Stop
  <2> QED
    BY <1>2, <2>1, LinkKept, QuietKept DEF IInv, Stop, Attempted, NoStrandedChange
<1> QED
  BY <1>1, <1>2

\* The end of a dispatch: accepted only when the robot has applied the mode.
LEMMA AckArrivesIInv == IInv /\ AckArrives => IInv'
<1> SUFFICES ASSUME IInv, AckArrives PROVE IInv'
  OBVIOUS
<1> USE DEF machineVars, robotVars, boundVars
<1>1. /\ wire \in Seq(Commands) /\ acks \in Seq(BOOLEAN) /\ acks # <<>>
      /\ UNCHANGED <<machineVars, running, cooldown, lastAttemptedMode, resumeTimer, robotVars, taken,
                     idled, boundVars>>
  BY DEF IInv, TypeOK, AckArrives
<1>2. /\ Head(acks) = acks[1] /\ Tail(acks) \in Seq(BOOLEAN)
      /\ Len(acks) \in Nat /\ 1 \in 1..Len(acks)
      /\ Len(Tail(acks)) = Len(acks) - 1
      /\ \A i \in 1..Len(Tail(acks)) : i + 1 \in 1..Len(acks) /\ Tail(acks)[i] = acks[i + 1]
  <2>1. Len(acks) \in Nat \ {0}
    BY <1>1, EmptySeq
  <2> QED
    BY <1>1, <2>1, HeadTailProperties
<1>3. CASE Head(acks)
  <2>1. inFlight = "sent" /\ NoneSent(wire) /\ Shows(lastAttemptedMode)
    BY <1>2, <1>3 DEF IInv, AwaitedAck
  <2>2. Accepted /\ wire' = Stale(wire) /\ acks' = StaleAcks(Tail(acks))
    BY <1>3 DEF AckArrives
  <2>3. /\ NoneSent(wire') /\ wire' \in Seq(Commands) /\ acks' \in Seq(BOOLEAN)
        /\ \A i \in 1..Len(acks') : ~acks'[i]
        /\ Len(wire') = Len(wire) /\ \A i \in 1..Len(wire') : ~wire'[i].live
    BY <1>1, <1>2, <2>1, <2>2, StaleCommands, StaleAnswers
  <2>4. TypeOK'
    BY <1>1, <2>2, <2>3 DEF IInv, TypeOK, Accepted
  <2>5. AwaitedCommand' /\ AwaitedAck'
    BY <2>3 DEF AwaitedCommand, AwaitedAck
  <2>6. OfflineLink'
    <3>1. online
      BY <1>1, <2>1 DEF IInv, OfflineLink
    <3> QED
      BY <1>1, <3>1 DEF OfflineLink
  <2>7. Attempted' /\ Quiet' /\ NoStrandedChange'
    BY <1>1, <2>1, <2>2, <2>3 DEF Accepted, Attempted, Quiet, NoStrandedChange, NoneSent, Others, Shows
  <2> QED
    BY <2>4, <2>5, <2>6, <2>7 DEF IInv
<1>4. CASE ~Head(acks)
  <2>1. acks' = Tail(acks) /\ UNCHANGED <<wire, lastSentMode, pendingChange, inFlight, retryTimer>>
    BY <1>4 DEF AckArrives
  <2>2. AwaitedAck' /\ OfflineLink'
    BY <1>1, <1>2, <2>1 DEF IInv, AwaitedAck, OfflineLink, NoneSent, Others, Shows
  <2>3. TypeOK'
    BY <1>1, <1>2, <2>1 DEF IInv, TypeOK
  <2> QED
    BY <1>1, <2>1, <2>2, <2>3 DEF IInv, AwaitedCommand, Attempted, Quiet, NoStrandedChange,
       NoneSent, Others, Shows
<1> QED
  BY <1>3, <1>4

LEMMA NotAcceptedIInv == IInv /\ (AckTimeout \/ DispatchNotSent) => IInv'
<1> SUFFICES ASSUME IInv, AckTimeout \/ DispatchNotSent PROVE IInv'
  OBVIOUS
<1> USE DEF machineVars, robotVars, boundVars, linkVars
<1>1. /\ NotAccepted /\ inFlight # "no" /\ timeouts' \in 0..MaxTimeouts
      /\ UNCHANGED <<machineVars, running, cooldown, lastAttemptedMode, resumeTimer, robotVars, taken,
                     idled, entries, outages, playbacks>>
  BY BoundsAssumption DEF IInv, TypeOK, AckTimeout, DispatchNotSent
<1>2. lastAttemptedMode \in Modes
  BY <1>1 DEF IInv, TypeOK, Attempted
<1>3. /\ wire' \in Seq(Commands) /\ Len(wire') = Len(wire) /\ acks' \in Seq(BOOLEAN)
      /\ acks = <<>> => acks' = <<>>
      /\ (\A i \in 1..Len(wire') : ~wire'[i].live) /\ (\A i \in 1..Len(acks') : ~acks'[i])
  <2>1. wire \in Seq(Commands) /\ acks \in Seq(BOOLEAN)
    BY DEF IInv, TypeOK
  <2>2. CASE AckTimeout
    BY <2>1, <2>2, StaleCommands, StaleAnswers DEF AckTimeout
  <2>3. CASE DispatchNotSent
    <3>1. inFlight = "unsent" /\ wire' = wire /\ acks' = acks
      BY <2>3 DEF DispatchNotSent
    <3> QED
      BY <2>1, <3>1 DEF IInv, AwaitedCommand, AwaitedAck
  <2> QED
    BY <2>2, <2>3
<1>4. TypeOK'
  BY <1>1, <1>2, <1>3 DEF IInv, TypeOK, NotAccepted, ScheduleRetry
<1>5. AwaitedCommand' /\ AwaitedAck' /\ OfflineLink'
  BY <1>1, <1>3 DEF IInv, AwaitedCommand, AwaitedAck, OfflineLink
<1>6. Attempted' /\ Quiet' /\ NoStrandedChange'
  BY <1>1, <1>2 DEF IInv, NotAccepted, ScheduleRetry, Attempted, Quiet, NoStrandedChange, Modes, None
<1> QED
  BY <1>4, <1>5, <1>6 DEF IInv

\* What the tail of the wire holds.
LEMMA TailOfWire ==
  ASSUME NEW s \in Seq(Commands), s # <<>>
  PROVE  /\ Head(s) = s[1] /\ s[1] \in Commands /\ 1 \in 1..Len(s)
         /\ Tail(s) \in Seq(Commands) /\ Len(Tail(s)) = Len(s) - 1 /\ Len(s) \in Nat
         /\ \A i \in 1..Len(Tail(s)) : i + 1 \in 1..Len(s) /\ i + 1 > 1 /\ Tail(s)[i] = s[i + 1]
<1>1. Len(s) \in Nat \ {0}
  BY EmptySeq
<1>2. Head(s) = s[1] /\ s[1] \in Commands
  BY <1>1, HeadTailProperties, ElementOfSeq
<1>3. Tail(s) \in Seq(Commands) /\ Len(Tail(s)) = Len(s) - 1
      /\ \A i \in 1..Len(Tail(s)) : Tail(s)[i] = s[i + 1]
  BY <1>1, HeadTailProperties
<1> QED
  BY <1>1, <1>2, <1>3

\* The robot takes the oldest message: none of the watcher's follows an
\* awaited command.
LEMMA RobotAppliesIInv == IInv /\ RobotApplies => IInv'
<1> SUFFICES ASSUME IInv, RobotApplies PROVE IInv'
  OBVIOUS
<1> USE DEF machineVars, attemptVars, boundVars
<1>0. TypeOK /\ online \in BOOLEAN
  BY DEF IInv, TypeOK
<1>1. /\ wire \in Seq(Commands) /\ acks \in Seq(BOOLEAN) /\ wire # <<>>
      /\ taken \in 0..Len(wire) /\ (online => taken = 0) /\ taken' = IF taken > 0 THEN taken - 1 ELSE 0
      /\ robotMode' = Head(wire).mode /\ wire' = Tail(wire)
      /\ acks' = IF online /\ Head(wire) # Hello THEN Append(acks, Head(wire).live) ELSE acks
      /\ UNCHANGED <<machineVars, running, pendingChange, lastSentMode, attemptVars, retryTimer,
                     resumeTimer, online, idled, boundVars>>
  BY DEF IInv, TypeOK, RobotApplies
<1>2. /\ Head(wire) = wire[1] /\ wire[1] \in Commands /\ 1 \in 1..Len(wire)
      /\ Tail(wire) \in Seq(Commands) /\ Len(Tail(wire)) = Len(wire) - 1 /\ Len(wire) \in Nat
      /\ \A i \in 1..Len(Tail(wire)) :
            i + 1 \in 1..Len(wire) /\ i + 1 > 1 /\ Tail(wire)[i] = wire[i + 1]
  BY <1>1, TailOfWire
<1>3. wire[1].mode \in Modes \cup {"connected"} /\ wire[1].live \in BOOLEAN
  BY <1>2 DEF Commands, Hello
<1>4. Others' = Others /\ (NoneSent(wire) => wire[1] \in Others /\ NoneSent(wire'))
  BY <1>1, <1>2 DEF NoneSent, Others
<1>5. AwaitedCommand'
  <2>1. ASSUME NEW i \in 1..Len(Tail(wire)), Tail(wire)[i].live
        PROVE  /\ inFlight = "sent" /\ Tail(wire)[i].mode = lastAttemptedMode
               /\ \A j \in 1..Len(Tail(wire)) : j > i => Tail(wire)[j] \in Others
    <3>1. i + 1 \in 1..Len(wire) /\ Tail(wire)[i] = wire[i + 1]
      BY <1>2
    <3>2. wire[i + 1].live
      BY <2>1, <3>1, Zenon
    <3>3. /\ inFlight = "sent" /\ wire[i + 1].mode = lastAttemptedMode
          /\ \A j \in 1..Len(wire) : j > i + 1 => wire[j] \in Others
      BY <3>1, <3>2, Zenon DEF IInv, AwaitedCommand
    <3>4. ASSUME NEW j \in 1..Len(Tail(wire)), j > i PROVE Tail(wire)[j] \in Others
      <4>1. j + 1 > i + 1
        BY <3>4
      <4>2. j + 1 \in 1..Len(wire) /\ Tail(wire)[j] = wire[j + 1]
        BY <1>2
      <4> QED
        BY <3>3, <4>1, <4>2, Zenon
    <3> QED
      BY <3>1, <3>3, <3>4, Zenon
  <2> QED
    BY <1>1, <1>4, <2>1 DEF AwaitedCommand
<1>6. ASSUME acks' \in Seq(BOOLEAN) PROVE TypeOK'
  <2>1. wire' \in Seq(Commands) /\ taken' \in 0..Len(wire') /\ (online => taken' = 0)
    BY <1>1, <1>2
  <2>2. robotMode' \in Modes \cup {"connected"} \cup Unconnected
    BY <1>1, <1>2, <1>3
  <2> QED
    BY <1>0, <1>1, <1>6, <2>1, <2>2 DEF TypeOK
<1>7. ASSUME acks' = acks, \A mode : wire[1] \in Others => Shows(mode)', ~online \/ \A mode : Shows(mode)'
      PROVE  IInv'
  <2>1. acks' \in Seq(BOOLEAN) /\ online' = online
    BY <1>1, <1>7
  <2>2. AwaitedAck'
    <3>1. CASE online
      BY <1>1, <1>4, <1>7, <3>1 DEF IInv, AwaitedAck, NoneSent
    <3>2. CASE ~online
      BY <1>7, <3>2, EmptySeq DEF IInv, OfflineLink, AwaitedAck
    <3> QED
      BY <3>1, <3>2
  <2>3. Quiet'
    BY <1>1, <1>4, <1>7 DEF IInv, Quiet, NoneSent
  <2> QED
    BY <1>1, <1>5, <1>6, <1>7, <2>1, <2>2, <2>3 DEF IInv, OfflineLink, Attempted, NoStrandedChange
<1>8. \A mode : wire[1] \in Others => Shows(mode)'
  BY <1>1, <1>2 DEF Others, Hello, SetIdle, Shows
<1>9. CASE ~online
  BY <1>1, <1>7, <1>8, <1>9
<1>10. CASE online /\ Head(wire) = Hello
  <2>1. wire[1] \in Others
    BY <1>2, <1>10 DEF Others
  <2> QED
    BY <1>1, <1>7, <1>8, <1>10, <2>1
<1>11. CASE online /\ Head(wire) # Hello
  <2>1. /\ acks' \in Seq(BOOLEAN) /\ Len(acks) \in Nat /\ Len(acks') = Len(acks) + 1
        /\ \A i \in 1..Len(acks) : acks'[i] = acks[i]
        /\ acks'[Len(acks) + 1] = wire[1].live
    BY <1>1, <1>2, <1>3, <1>11, AppendProperties, LenProperties
  <2>2. TypeOK'
    BY <1>6, <2>1
  <2>3. \A i \in 1..Len(acks') : i \in 1..Len(acks) \/ i = Len(acks) + 1
    BY <2>1
  <2>4. CASE wire[1] \in Others
    <3>1. wire[1] = SetIdle /\ idled
      BY <1>2, <1>11, <2>4 DEF Others
    <3>2. wire[1].live = FALSE /\ \A mode : Shows(mode)'
      BY <1>8, <2>4, <3>1 DEF SetIdle
    <3>3. ASSUME NEW i \in 1..Len(acks'), acks'[i]
          PROVE  inFlight = "sent" /\ NoneSent(wire)
      <4>1. i \in 1..Len(acks) /\ acks[i]
        BY <2>1, <2>3, <3>2, <3>3
      <4> QED
        BY <4>1 DEF IInv, AwaitedAck
    <3>4. AwaitedAck'
      BY <1>1, <1>4, <3>2, <3>3 DEF AwaitedAck, NoneSent
    <3>5. Quiet'
      BY <1>1, <1>4, <3>2 DEF IInv, Quiet, NoneSent
    <3> QED
      BY <1>1, <1>5, <1>11, <2>2, <3>4, <3>5 DEF IInv, OfflineLink, Attempted, NoStrandedChange
  <2>5. CASE wire[1] \notin Others
    <3>1. ~NoneSent(wire) /\ pendingChange # None /\ \A i \in 1..Len(acks) : ~acks[i]
      BY <1>4, <2>5 DEF IInv, AwaitedAck, Quiet
    <3>2. wire[1].live => /\ inFlight = "sent" /\ wire[1].mode = lastAttemptedMode
                          /\ \A j \in 1..Len(wire) : j > 1 => wire[j] \in Others
      BY <1>2, Zenon DEF IInv, AwaitedCommand
    <3>3. wire[1].live => inFlight = "sent" /\ NoneSent(Tail(wire)) /\ Shows(lastAttemptedMode)'
      BY <1>1, <1>2, <3>2 DEF NoneSent, Shows
    <3>4. ASSUME NEW i \in 1..Len(acks'), acks'[i] PROVE wire[1].live
      BY <2>1, <2>3, <3>1, <3>4, Zenon
    <3>5. AwaitedAck'
      BY <1>1, <1>4, <3>3, <3>4 DEF AwaitedAck, NoneSent
    <3> QED
      BY <1>1, <1>5, <1>11, <2>2, <3>1, <3>5 DEF IInv, OfflineLink, Attempted, Quiet, NoStrandedChange
  <2> QED
    BY <2>4, <2>5
<1> QED
  BY <1>0, <1>9, <1>10, <1>11

LEMMA ConnectionLostIInv == IInv /\ ConnectionLost => IInv'
<1> SUFFICES ASSUME IInv, ConnectionLost PROVE IInv'
  OBVIOUS
<1> USE DEF machineVars, attemptVars
<1>1. PICK n \in 0..Len(wire), k \in 0..Len(wire) :
             k <= n /\ wire' = SubSeq(wire, 1, n) /\ taken' = k
  BY DEF ConnectionLost
<1>2. /\ acks' = <<>> /\ online' = FALSE /\ robotMode' = "disconnected" /\ outages' \in 0..MaxOutages
      /\ UNCHANGED <<machineVars, running, pendingChange, lastSentMode, attemptVars, retryTimer,
                     resumeTimer, idled, entries, timeouts, playbacks>>
  BY BoundsAssumption DEF IInv, TypeOK, ConnectionLost
<1>3. wire \in Seq(Commands) /\ Len(wire) \in Nat
  BY LenProperties DEF IInv, TypeOK
<1>4. /\ wire' \in Seq(Commands) /\ Len(wire') = n
      /\ \A i \in 1..n : i \in 1..Len(wire) /\ wire'[i] = wire[i]
  BY <1>1, <1>3, SubSeqProperties
<1>5. TypeOK'
  <2>1. acks' \in Seq(BOOLEAN) /\ taken' \in 0..Len(wire')
    BY <1>1, <1>2, <1>3, <1>4, EmptySeq
  <2>2. TypeOK /\ wire' \in Seq(Commands) /\ online' = FALSE
    BY <1>2, <1>4 DEF IInv
  <2>3. robotMode' \in Modes \cup {"connected"} \cup Unconnected
    BY <1>2 DEF Unconnected
  <2> QED
    BY <1>2, <2>1, <2>2, <2>3 DEF TypeOK
<1>6. Others' = Others /\ \A mode : Shows(mode)'
  BY <1>2 DEF Others, Shows, Unconnected
<1>7. AwaitedCommand'
  BY <1>2, <1>4, <1>6, Zenon DEF IInv, AwaitedCommand
<1>8. NoneSent(wire) => NoneSent(wire)'
  BY <1>4, <1>6 DEF NoneSent
<1>9. AwaitedAck' /\ OfflineLink'
  BY <1>2, EmptySeq DEF AwaitedAck, OfflineLink
<1> QED
  BY <1>2, <1>5, <1>6, <1>7, <1>8, <1>9 DEF IInv, Attempted, Quiet, NoStrandedChange

LEMMA ConnectIInv == IInv /\ Connect => IInv'
<1> SUFFICES ASSUME IInv, Connect PROVE IInv'
  OBVIOUS
<1> USE DEF machineVars, attemptVars, linkVars, boundVars
<1>1. /\ ~online /\ robotMode' \in Unconnected
      /\ UNCHANGED <<machineVars, running, pendingChange, lastSentMode, attemptVars, retryTimer,
                     resumeTimer, online, linkVars, boundVars>>
  BY DEF Connect
<1>2. TypeOK'
  BY <1>1 DEF IInv, TypeOK
<1>3. Others' = Others /\ NoneSent(wire)' = NoneSent(wire) /\ \A mode : Shows(mode)'
  BY <1>1 DEF Others, NoneSent, Shows
<1>4. AwaitedCommand' /\ OfflineLink'
  BY <1>1, <1>3 DEF IInv, AwaitedCommand, OfflineLink
<1>5. AwaitedAck'
  BY <1>1, <1>3 DEF IInv, AwaitedAck
<1> QED
  BY <1>1, <1>2, <1>3, <1>4, <1>5 DEF IInv, Attempted, Quiet, NoStrandedChange

\* A message that is appended comes last, and nothing else changes on the wire.
LEMMA AppendedTo ==
  ASSUME NEW s \in Seq(Commands), NEW c \in Commands
  PROVE  /\ Append(s, c) \in Seq(Commands)
         /\ Len(Append(s, c)) = Len(s) + 1 /\ Len(s) \in Nat
         /\ \A i \in 1..Len(Append(s, c)) :
              \/ i \in 1..Len(s) /\ Append(s, c)[i] = s[i]
              \/ i = Len(s) + 1 /\ Append(s, c)[i] = c
<1>1. /\ Append(s, c) \in Seq(Commands) /\ Len(s) \in Nat /\ Len(Append(s, c)) = Len(s) + 1
      /\ \A i \in 1..Len(s) : Append(s, c)[i] = s[i]
      /\ Append(s, c)[Len(s) + 1] = c
  BY AppendProperties, LenProperties
<1>2. \A i \in 1..Len(Append(s, c)) : i \in 1..Len(s) \/ i = Len(s) + 1
  BY <1>1
<1> QED
  BY <1>1, <1>2, Zenon

\* One that nobody awaits does not disturb what is awaited.
LEMMA AppendKeepsAwaited ==
  ASSUME AwaitedCommand, wire \in Seq(Commands), NEW c \in Commands, ~c.live, c \in Others',
         wire' = Append(wire, c), Others \subseteq Others', UNCHANGED <<inFlight, lastAttemptedMode>>
  PROVE  AwaitedCommand'
<1>1. \A i \in 1..Len(wire') : \/ i \in 1..Len(wire) /\ wire'[i] = wire[i]
                               \/ wire'[i] = c
  BY AppendedTo
<1> SUFFICES ASSUME NEW i \in 1..Len(wire'), wire'[i].live
             PROVE  /\ inFlight' = "sent" /\ wire'[i].mode = lastAttemptedMode'
                    /\ \A j \in 1..Len(wire') : j > i => wire'[j] \in Others'
  BY DEF AwaitedCommand
<1>2. i \in 1..Len(wire) /\ wire'[i] = wire[i]
  BY <1>1
<1>3. /\ inFlight = "sent" /\ wire[i].mode = lastAttemptedMode
      /\ \A j \in 1..Len(wire) : j > i => wire[j] \in Others
  BY <1>2, Zenon DEF AwaitedCommand
<1>4. \A j \in 1..Len(wire') : j > i => wire'[j] \in Others'
  BY <1>1, <1>3
<1> QED
  BY <1>2, <1>3, <1>4, Zenon

LEMMA ReconnectedIInv == IInv /\ Reconnected => IInv'
<1> SUFFICES ASSUME IInv, Reconnected PROVE IInv'
  OBVIOUS
<1> USE DEF machineVars, attemptVars, boundVars
<1>1. /\ acks = <<>> /\ online' = TRUE /\ robotMode' = "connected" /\ wire' = Append(wire, Hello)
      /\ UNCHANGED <<machineVars, running, pendingChange, lastSentMode, attemptVars, retryTimer,
                     resumeTimer, acks, taken, idled, boundVars>>
      /\ taken = 0
  BY DEF IInv, OfflineLink, Reconnected
<1>2. wire \in Seq(Commands) /\ Hello \in Commands
  BY DEF IInv, TypeOK, Commands, Hello
<1>3. /\ wire' \in Seq(Commands) /\ Len(wire') = Len(wire) + 1 /\ Len(wire) \in Nat
      /\ \A i \in 1..Len(wire') : \/ i \in 1..Len(wire) /\ wire'[i] = wire[i]
                                  \/ wire'[i] = Hello
  BY <1>1, <1>2, AppendedTo
<1>4. TypeOK'
  BY <1>1, <1>3 DEF IInv, TypeOK
<1>5. Others' = Others /\ Hello \in Others' /\ ~Hello.live
  BY <1>1 DEF Others, Hello
<1>6. AwaitedCommand'
  BY <1>1, <1>2, <1>5, AppendKeepsAwaited DEF IInv
<1>7. NoneSent(wire) => NoneSent(wire)'
  BY <1>3, <1>5 DEF NoneSent
<1>8. \A mode : Shows(mode)'
  BY <1>1 DEF Shows
<1>9. AwaitedAck' /\ OfflineLink'
  BY <1>1, EmptySeq DEF AwaitedAck, OfflineLink
<1> QED
  BY <1>1, <1>4, <1>6, <1>7, <1>8, <1>9 DEF IInv, Attempted, Quiet, NoStrandedChange

\* The announcer's command is not the watcher's.
LEMMA AnnouncerSetsIdleIInv == IInv /\ AnnouncerSetsIdle => IInv'
<1> SUFFICES ASSUME IInv, AnnouncerSetsIdle PROVE IInv'
  OBVIOUS
<1> USE DEF machineVars, attemptVars, robotVars
<1>1. /\ wire' = Append(wire, SetIdle) /\ idled' = TRUE /\ playbacks' \in 0..MaxPlaybacks
      /\ UNCHANGED <<machineVars, running, pendingChange, lastSentMode, attemptVars, retryTimer,
                     resumeTimer, robotVars, acks, taken, entries, timeouts, outages>>
  BY BoundsAssumption DEF IInv, TypeOK, AnnouncerSetsIdle
<1>2. wire \in Seq(Commands) /\ SetIdle \in Commands
  BY DEF IInv, TypeOK, Commands, Modes, SetIdle
<1>3. /\ wire' \in Seq(Commands) /\ Len(wire') = Len(wire) + 1 /\ Len(wire) \in Nat
      /\ \A i \in 1..Len(wire') : \/ i \in 1..Len(wire) /\ wire'[i] = wire[i]
                                  \/ wire'[i] = SetIdle
  BY <1>1, <1>2, AppendedTo
<1>4. TypeOK'
  BY <1>1, <1>3 DEF IInv, TypeOK
<1>5. SetIdle \in Others' /\ Others \subseteq Others' /\ ~SetIdle.live
  BY <1>1 DEF Others, SetIdle
<1>6. AwaitedCommand'
  BY <1>1, <1>2, <1>5, AppendKeepsAwaited DEF IInv
<1>7. NoneSent(wire) => NoneSent(wire)'
  BY <1>3, <1>5 DEF NoneSent
<1>8. \A mode : Shows(mode) => Shows(mode)'
  BY <1>1 DEF Shows
<1>9. AwaitedAck' /\ OfflineLink'
  BY <1>1, <1>7, <1>8 DEF IInv, AwaitedAck, OfflineLink
<1> QED
  BY <1>1, <1>4, <1>6, <1>7, <1>8, <1>9 DEF IInv, Attempted, Quiet, NoStrandedChange

LEMMA StutterIInv == IInv /\ UNCHANGED vars => IInv'
  BY DEF IInv, TypeOK, vars, machineVars, attemptVars, robotVars, linkVars, boundVars,
     AwaitedCommand, AwaitedAck, Attempted, OfflineLink, Quiet, NoStrandedChange, NoneSent, Others, Shows

-----------------------------------------------------------------------------
(***************************************************************************)
(* The theorems.                                                           *)
(***************************************************************************)

LEMMA SpecIInv == Spec => []IInv
<1>1. IInv /\ [Next]_vars => IInv'
  BY ChangeIInv, RetryFiresIInv, CooldownOrStopIInv, AckArrivesIInv, NotAcceptedIInv,
     RobotAppliesIInv, ConnectionLostIInv, ConnectIInv, ReconnectedIInv, AnnouncerSetsIdleIInv, StutterIInv DEF Next
<1> QED
  BY <1>1, InitIInv, PTL DEF Spec

\* The variables keep their types.
THEOREM TypeCorrect == Spec => []TypeOK
<1>1. IInv => TypeOK
  BY DEF IInv
<1> QED
  BY <1>1, SpecIInv, PTL

\* No waiting change is left without a dispatch in flight or an armed retry timer:
\* the guard against a mode that is never sent again after a failed dispatch.
THEOREM NeverStranded == Spec => []NoStrandedChange
<1>1. IInv => NoStrandedChange
  BY DEF IInv
<1> QED
  BY <1>1, SpecIInv, PTL

\* When the watcher has nothing left to do, the robot shows the mode it believes
\* accepted, unless it has reconnected, lost the connection or been told of an
\* announcement's end since: commandIds keep late acks and late commands of earlier
\* attempts apart, even in a batch that outlives its connection.
THEOREM QuietShowsLastSent == Spec => []QuietRobotShowsLastSent
<1>1. IInv => QuietRobotShowsLastSent
  BY DEF IInv, Quiet, Shows, QuietRobotShowsLastSent
<1> QED
  BY <1>1, SpecIInv, PTL
=============================================================================
