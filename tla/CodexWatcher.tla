---------------------------- MODULE CodexWatcher ----------------------------
(***************************************************************************)
(* How the desktop daemon mirrors Codex activity on the robot:             *)
(* CodexSessionStateMachine turns log entries into modes, and              *)
(* CodexSessionWatcher dispatches the modes one at a time, with a retry    *)
(* timer and a timer that ends temporary modes. Behind the watcher's back  *)
(* CodexCompletionAnnouncer sets the mode to idle after an announcement.   *)
(*                                                                         *)
(* A commandId is abstracted to whether the controller still waits for it: *)
(* `live` on a command or an ack says that its id is in pendingAcks.       *)
(* MODE_RETRY_MS is abstracted to the flag `cooldown` (less than that time *)
(* has passed since lastAttemptAt) and to whether the retry timer was      *)
(* armed before ("early") or after ("late") the latest attempt: only a     *)
(* late one is known to outlast the cooldown. The change in flight is the  *)
(* one with mode lastAttemptedMode, which only the next dispatch changes;  *)
(* inFlight says whether its command left for a session.                   *)
(***************************************************************************)
EXTENDS Naturals, Sequences

CONSTANTS MaxEntries,    \* log entries applied
          MaxTimeouts,   \* acks that come too late although nothing was lost
          MaxOutages,    \* connection losses of the robot
          MaxPlaybacks   \* announcements that are played to their end

ASSUME BoundsAssumption ==
  /\ MaxEntries \in Nat /\ MaxTimeouts \in Nat /\ MaxOutages \in Nat /\ MaxPlaybacks \in Nat

Modes == {"idle", "thinking", "speaking", "error"}
None  == "none"

\* What the robot sets its mode to by itself while it has no connection: "error" when
\* not even a socket can be created.
Unconnected == {"connecting", "disconnected", "error"}

VARIABLES activeTurn, machineMode,                      \* the state machine
          running, pendingChange, lastSentMode, lastAttemptedMode,
          inFlight, cooldown, retryTimer, resumeTimer,  \* the watcher
          online, wire, acks, robotMode,                \* connection and robot
          taken,                                        \* messages of the batch the robot was
                                                        \* working through when it lost the connection
          idled,                                        \* history: the announcer has sent a
                                                        \* setMode since the watcher did
          entries, timeouts, outages, playbacks         \* the bounds

machineVars == <<activeTurn, machineMode>>
attemptVars == <<inFlight, cooldown, lastAttemptedMode>>
robotVars   == <<online, robotMode>>
linkVars    == <<wire, acks, taken, idled>>
boundVars   == <<entries, timeouts, outages, playbacks>>
vars == <<machineVars, running, pendingChange, lastSentMode, attemptVars,
          retryTimer, resumeTimer, robotVars, linkVars, boundVars>>

\* What the robot receives: setMode commands, and the daemon.hello of a session.
\* The watcher awaits no ack of the announcer's command.
Hello    == [mode |-> "connected", live |-> FALSE]
SetIdle  == [mode |-> "idle", live |-> FALSE]
Commands == [mode : Modes \cup {"connected"}, live : BOOLEAN]

TypeOK ==
  /\ activeTurn \in BOOLEAN /\ machineMode \in Modes
  /\ running \in BOOLEAN
  /\ pendingChange \in Modes \cup {None}
  /\ lastSentMode \in Modes \cup {None} /\ lastAttemptedMode \in Modes \cup {None}
  /\ inFlight \in {"no", "sent", "unsent"}
  /\ cooldown \in BOOLEAN /\ resumeTimer \in BOOLEAN
  /\ retryTimer \in {"off", "early", "late"}
  /\ online \in BOOLEAN /\ robotMode \in Modes \cup {"connected"} \cup Unconnected
  /\ wire \in Seq(Commands) /\ taken \in 0..Len(wire) /\ (online => taken = 0)
  /\ acks \in Seq(BOOLEAN) /\ idled \in BOOLEAN
  /\ entries \in 0..MaxEntries /\ timeouts \in 0..MaxTimeouts /\ outages \in 0..MaxOutages
  /\ playbacks \in 0..MaxPlaybacks

Init ==
  /\ activeTurn = FALSE /\ machineMode = "idle"
  /\ running = TRUE
  /\ pendingChange = None /\ lastSentMode = None /\ lastAttemptedMode = None
  /\ inFlight = "no" /\ cooldown = FALSE
  /\ retryTimer = "off" /\ resumeTimer = FALSE
  /\ online = TRUE /\ robotMode = "connected"
  /\ wire = <<>> /\ taken = 0 /\ acks = <<>> /\ idled = FALSE
  /\ entries = 0 /\ timeouts = 0 /\ outages = 0 /\ playbacks = 0

(***************************************************************************)
(* CodexSessionStateMachine: the modes an entry can ask for.               *)
(***************************************************************************)
Temporary(mode) == mode \in {"error", "speaking"}          \* carries ttlMs

\* activeTurn: set by everything that thinks, cleared by a final answer or a
\* completed task (the entries with mode idle).
ActiveAfter(mode, active) == mode = "thinking" \/ (active /\ mode # "idle")

\* Mutant: resume what was shown last.
ResumeLastSent == lastSentMode

ResumeMode == IF activeTurn THEN "thinking" ELSE "idle"

(***************************************************************************)
(* The retry timer and the dispatch of the pending change.                 *)
(***************************************************************************)
ScheduleRetry == retryTimer' = IF retryTimer = "off" THEN "late" ELSE retryTimer

\* dispatchModeChange up to its await: the command leaves only when a session
\* is active. A retry timer that is still armed now predates the attempt.
DispatchModeChange(mode, timer) ==
  /\ inFlight' = IF online THEN "sent" ELSE "unsent"
  /\ cooldown' = TRUE
  /\ lastAttemptedMode' = mode
  /\ retryTimer' = IF timer = "off" THEN "off" ELSE "early"
  /\ wire' = IF online THEN Append(wire, [mode |-> mode, live |-> TRUE]) ELSE wire
  /\ idled' = FALSE
  /\ UNCHANGED <<acks, taken>>

\* dispatchPendingModeChange with pendingChange = mode and the given timer.
DispatchPendingModeChange(mode, timer) ==
  \/ /\ inFlight # "no"
     /\ retryTimer' = timer
     /\ UNCHANGED <<attemptVars, linkVars>>
  \/ /\ inFlight = "no"
     /\ lastAttemptedMode = mode /\ cooldown
     /\ retryTimer' = IF timer = "off" THEN "late" ELSE timer
     /\ UNCHANGED <<attemptVars, linkVars>>
  \/ /\ inFlight = "no"
     /\ lastAttemptedMode # mode \/ ~cooldown
     /\ DispatchModeChange(mode, timer)

ApplyChange(mode) ==
  /\ resumeTimer' = Temporary(mode)
  /\ \/ /\ lastSentMode # mode
        /\ pendingChange' = mode
        /\ DispatchPendingModeChange(mode, retryTimer)
     \/ /\ lastSentMode = mode
        /\ UNCHANGED <<pendingChange, attemptVars, retryTimer, linkVars>>

-----------------------------------------------------------------------------
(***************************************************************************)
(* The watcher's steps.                                                    *)
(***************************************************************************)

\* readNewLines: an appended line changes the mode. A tick that was reading when
\* stop was called still applies its lines, hence no guard on running.
LogEntry(mode) ==
  /\ entries < MaxEntries /\ entries' = entries + 1
  /\ machineMode' = mode
  /\ activeTurn' = ActiveAfter(mode, activeTurn)
  /\ ApplyChange(mode)
  /\ UNCHANGED <<running, lastSentMode, robotVars, timeouts, outages, playbacks>>

\* initializeFile: the whole file goes through the machine, the last change is
\* applied; whether the turn was left active depends on the lines before it.
AttachFile(mode) ==
  /\ entries < MaxEntries /\ entries' = entries + 1
  /\ machineMode' = mode
  /\ \E active \in BOOLEAN : activeTurn' = ActiveAfter(mode, active)
  /\ ApplyChange(mode)
  /\ UNCHANGED <<running, lastSentMode, robotVars, timeouts, outages, playbacks>>

\* The ttl of a temporary mode is over: resumeAfterTemporary.
ResumeFires ==
  /\ resumeTimer
  /\ machineMode' = ResumeMode
  /\ ApplyChange(ResumeMode)
  /\ UNCHANGED <<activeTurn, running, lastSentMode, robotVars, boundVars>>

RetryFires ==
  /\ retryTimer = "early" \/ (retryTimer = "late" /\ ~cooldown)
  /\ \/ /\ pendingChange # None
        /\ DispatchPendingModeChange(pendingChange, "off")
     \/ /\ pendingChange = None
        /\ retryTimer' = "off"
        /\ UNCHANGED <<attemptVars, linkVars>>
  /\ UNCHANGED <<machineVars, running, pendingChange, lastSentMode, resumeTimer, robotVars, boundVars>>

\* MODE_RETRY_MS has passed since the latest attempt, whose own ack timeout is
\* shorter than that.
CooldownEnds ==
  /\ inFlight = "no"
  /\ cooldown /\ cooldown' = FALSE
  /\ UNCHANGED <<machineVars, running, pendingChange, lastSentMode, inFlight, lastAttemptedMode,
                 retryTimer, resumeTimer, robotVars, linkVars, boundVars>>

Stop ==
  /\ running /\ running' = FALSE
  /\ retryTimer' = "off" /\ resumeTimer' = FALSE
  /\ UNCHANGED <<machineVars, pendingChange, lastSentMode, attemptVars, robotVars, linkVars, boundVars>>

-----------------------------------------------------------------------------
(***************************************************************************)
(* The end of a dispatch. What is still under way for it becomes stale.    *)
(***************************************************************************)
Stale(commands) == [i \in DOMAIN commands |-> [mode |-> commands[i].mode, live |-> FALSE]]

StaleAcks(answers) == [i \in DOMAIN answers |-> FALSE]

Accepted ==
  /\ lastSentMode' = lastAttemptedMode
  /\ pendingChange' = None
  /\ inFlight' = "no"
  /\ UNCHANGED retryTimer

\* Mutant: a failed dispatch puts its change back but arms no timer.
NotAcceptedNoRetry ==
  /\ pendingChange' = lastAttemptedMode
  /\ inFlight' = "no"
  /\ UNCHANGED <<lastSentMode, retryTimer>>

NotAccepted ==
  /\ pendingChange' = lastAttemptedMode
  /\ inFlight' = "no"
  /\ ScheduleRetry
  /\ UNCHANGED lastSentMode

\* Mutant: any ack resolves the dispatch in flight.
AckArrivesAnyId ==
  /\ acks # <<>>
  /\ \/ inFlight # "no" /\ Accepted
     \/ inFlight = "no" /\ UNCHANGED <<lastSentMode, pendingChange, inFlight, retryTimer>>
  /\ wire' = Stale(wire) /\ acks' = StaleAcks(Tail(acks))
  /\ UNCHANGED <<machineVars, running, cooldown, lastAttemptedMode, resumeTimer, robotVars, taken,
                 idled, boundVars>>

\* handleDeviceEvent: an ack resolves the dispatch whose id it carries, any
\* other ack is dropped.
AckArrives ==
  /\ acks # <<>>
  /\ \/ /\ Head(acks)
        /\ Accepted
        /\ wire' = Stale(wire) /\ acks' = StaleAcks(Tail(acks))
     \/ /\ ~Head(acks)
        /\ acks' = Tail(acks)
        /\ UNCHANGED <<wire, lastSentMode, pendingChange, inFlight, retryTimer>>
  /\ UNCHANGED <<machineVars, running, cooldown, lastAttemptedMode, resumeTimer, robotVars, taken,
                 idled, boundVars>>

AwaitedSomewhere ==
  \/ \E i \in DOMAIN wire : wire[i].live
  \/ \E i \in DOMAIN acks : acks[i]

\* waitForAck's timer: the command or its ack was lost, or is late.
AckTimeout ==
  /\ inFlight = "sent"
  /\ \/ /\ ~AwaitedSomewhere \/ ~online
        /\ UNCHANGED timeouts
     \/ /\ AwaitedSomewhere /\ online
        /\ timeouts < MaxTimeouts /\ timeouts' = timeouts + 1
  /\ NotAccepted
  /\ wire' = Stale(wire) /\ acks' = StaleAcks(acks)
  /\ UNCHANGED <<machineVars, running, cooldown, lastAttemptedMode, resumeTimer, robotVars, taken,
                 idled, entries, outages, playbacks>>

\* sendToActiveDevice found no session: sent = false.
DispatchNotSent ==
  /\ inFlight = "unsent"
  /\ NotAccepted
  /\ UNCHANGED <<machineVars, running, cooldown, lastAttemptedMode, resumeTimer, robotVars, linkVars, boundVars>>

-----------------------------------------------------------------------------
(***************************************************************************)
(* CodexCompletionAnnouncer: an announcement that a log entry has caused   *)
(* is over, or the announcer has waited for its end long enough. Without a *)
(* session nothing is sent, and the ack is not looked at.                  *)
(***************************************************************************)
AnnouncerSetsIdle ==
  /\ entries > 0 /\ playbacks < MaxPlaybacks /\ playbacks' = playbacks + 1
  /\ online /\ wire' = Append(wire, SetIdle)
  /\ idled' = TRUE
  /\ UNCHANGED <<machineVars, running, pendingChange, lastSentMode, attemptVars, retryTimer,
                 resumeTimer, robotVars, acks, taken, entries, timeouts, outages>>

-----------------------------------------------------------------------------
(***************************************************************************)
(* The robot: setMode sets _local_state and acknowledges; a new connection *)
(* and its daemon.hello set it to Connected, a lost one to Disconnected.   *)
(* `wire` is what is on its way and what waits in _msg_queue, which        *)
(* process_messages takes as a whole, only while connected. A batch that   *)
(* has been taken is worked through whatever happens to the connection,    *)
(* and what was received and not taken survives it.                        *)
(***************************************************************************)

\* What the robot answers without a connection is cleared before the next one.
RobotApplies ==
  /\ wire # <<>>
  /\ online \/ taken > 0
  /\ robotMode' = Head(wire).mode
  /\ acks' = IF online /\ Head(wire) # Hello THEN Append(acks, Head(wire).live) ELSE acks
  /\ wire' = Tail(wire)
  /\ taken' = IF taken > 0 THEN taken - 1 ELSE 0
  /\ UNCHANGED <<machineVars, running, pendingChange, lastSentMode, attemptVars, retryTimer,
                 resumeTimer, online, idled, boundVars>>

\* OnDisconnected, in the network's task. The first n messages had reached the robot,
\* whose main loop has k of them still to handle; its outgoing queue is cleared.
ConnectionLost ==
  /\ online /\ outages < MaxOutages
  /\ online' = FALSE /\ outages' = outages + 1
  /\ robotMode' = "disconnected"
  /\ \E n \in 0..Len(wire), k \in 0..Len(wire) :
       k <= n /\ wire' = SubSeq(wire, 1, n) /\ taken' = k
  /\ acks' = <<>>
  /\ UNCHANGED <<machineVars, running, pendingChange, lastSentMode, attemptVars, retryTimer,
                 resumeTimer, idled, entries, timeouts, playbacks>>

\* connect, called by the main loop behind the batch: it begins, or has failed.
Connect ==
  /\ ~online /\ taken = 0
  /\ robotMode' \in Unconnected
  /\ UNCHANGED <<machineVars, running, pendingChange, lastSentMode, attemptVars, retryTimer,
                 resumeTimer, online, linkVars, boundVars>>

\* connect succeeds: OnConnected, the handshake and the daemon's answer to it.
Reconnected ==
  /\ ~online /\ taken = 0 /\ online' = TRUE
  /\ robotMode' = "connected"
  /\ wire' = Append(wire, Hello)
  /\ UNCHANGED <<machineVars, running, pendingChange, lastSentMode, attemptVars, retryTimer,
                 resumeTimer, acks, taken, idled, boundVars>>

Next ==
  \/ \E mode \in Modes : LogEntry(mode) \/ AttachFile(mode)
  \/ ResumeFires \/ RetryFires \/ CooldownEnds \/ Stop
  \/ AckArrives \/ AckTimeout \/ DispatchNotSent \/ AnnouncerSetsIdle
  \/ RobotApplies \/ ConnectionLost \/ Connect \/ Reconnected

Spec == Init /\ [][Next]_vars

\* Timers fire, the robot works through its commands and comes back after an
\* outage; nothing forces the log to grow, the link to fail or the watcher to stop.
Fairness ==
  /\ WF_vars(ResumeFires) /\ WF_vars(RetryFires) /\ WF_vars(CooldownEnds)
  /\ WF_vars(AckArrives) /\ WF_vars(AckTimeout) /\ WF_vars(DispatchNotSent)
  /\ WF_vars(RobotApplies) /\ WF_vars(Reconnected)

FairSpec == Spec /\ Fairness

-----------------------------------------------------------------------------
(***************************************************************************)
(* Properties.                                                             *)
(***************************************************************************)

\* A change that is waiting is never forgotten: while the watcher runs, either a
\* dispatch is in flight, whose end looks at it again, or the retry timer is armed.
NoStrandedChange ==
  running /\ pendingChange # None => inFlight # "no" \/ retryTimer # "off"

\* With nothing waiting and nothing in flight, the robot shows the mode that the
\* watcher believes it accepted last, the connected state it enters on a new
\* connection, idle if an announcement has ended since, or, without a connection, that
\* it has none: no command of an earlier, timed-out attempt overtakes the accepted one,
\* not even out of a batch that outlives the connection, and no announcement one the
\* watcher sent later.
QuietRobotShowsLastSent ==
  pendingChange = None /\ inFlight = "no" /\ lastSentMode # None
    => robotMode \in {lastSentMode, "connected"} \cup (IF idled THEN {"idle"} ELSE {})
                       \cup (IF online THEN {} ELSE Unconnected)

\* A waiting change does not wait for ever: it is accepted in the end, through
\* timeouts, outages and retries (unless the watcher is stopped).
PendingChangeSettles ==
  (running /\ pendingChange # None) ~> (pendingChange = None \/ ~running)

\* README.md: the daemon "mirrors Codex activity into hardware states": once the
\* log is quiet and the timers have run, the robot shows the machine's mode.
MirrorsActivity ==
  <>[](running /\ entries > 0 => robotMode = machineMode)
=============================================================================
