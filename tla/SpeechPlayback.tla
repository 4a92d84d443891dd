--------------------------- MODULE SpeechPlayback ---------------------------
(***************************************************************************)
(* How a spoken announcement reaches the robot and keeps face tracking     *)
(* from moving its head: CodexCompletionAnnouncer, playAudio and the       *)
(* motion gate of RobotController, and the robot's audio transfer and      *)
(* playback tasks.                                                         *)
(*                                                                         *)
(* Announcements are numbered; so are the chunks of their audio. A command *)
(* is `live` while its ack is awaited, and so is the ack. The debounce of  *)
(* the announcer only forbids what need not happen here, and is left out.  *)
(***************************************************************************)
EXTENDS Naturals, Sequences

CONSTANTS MaxAnnouncements,  \* bound on announcements
          Chunks,            \* chunks of an announcement's audio
          MaxOutages,        \* bound on lost connections
          MaxTimeouts        \* bound on acks that come too late

ASSUME SpeechAssumption ==
  /\ MaxAnnouncements \in Nat /\ Chunks \in Nat \ {0}
  /\ MaxOutages \in Nat /\ MaxTimeouts \in Nat

VARIABLES announced,         \* the latest announcement
          step,              \* what it waits for; "idle" when it is not inFlight
          sentChunks,        \* chunks sent to the robot
          pendingPlayback,   \* announcements whose end was accepted
          audioHeld,         \* the audio reservation of the motion arbitrator
          online, toRobot, toDesktop,
          transfer,          \* _audio_transfer
          tasks,             \* announcements that a playback task plays
          finished,          \* _playback_events
          tracking,          \* _face_tracking_target.detected
          settled,           \* history: announcements that the robot has played or
                             \* could not play, or that were never synthesized
          overlapped,        \* history: an announcement was transferred before the
                             \* one before it had ended
          outages, timeouts

daemonVars == <<announced, step, sentChunks, pendingPlayback, audioHeld>>
linkVars   == <<online, toRobot, toDesktop>>
robotVars  == <<transfer, tasks, finished, tracking, settled>>
faultVars  == <<outages, timeouts>>
vars == <<daemonVars, linkVars, robotVars, overlapped, faultVars>>

Announcements == 1..MaxAnnouncements

Command(kind, a, index) == [kind |-> kind, of |-> a, index |-> index, live |-> TRUE]
TrackFace(detected) == [kind |-> "trackFace", detected |-> detected, live |-> FALSE]
Ack(status, live)   == [kind |-> "ack", status |-> status, live |-> live]
Playback(state, a)  == [kind |-> "playback", state |-> state, of |-> a, live |-> FALSE]

\* request 0 stands for an inactive transfer.
NoTransfer == [request |-> 0, next |-> 0, bytes |-> 0]

TypeOK ==
  /\ announced \in 0..MaxAnnouncements
  /\ step \in {"idle", "synthesis", "start", "chunk", "end"}
  /\ sentChunks \in 0..Chunks
  /\ pendingPlayback \subseteq Announcements /\ tasks \subseteq Announcements
  /\ audioHeld \in BOOLEAN /\ online \in BOOLEAN /\ tracking \in BOOLEAN
  /\ \A i \in 1..Len(toRobot) :
       toRobot[i].kind \in {"trackFace", "playAudioStart", "playAudioChunk", "playAudioEnd"}
  /\ \A i \in 1..Len(toDesktop) : toDesktop[i].kind \in {"ack", "playback"}
  /\ transfer \in [request : 0..MaxAnnouncements, next : 0..Chunks, bytes : 0..Chunks]
  /\ finished \in Seq(Announcements) /\ settled \subseteq Announcements
  /\ overlapped \in BOOLEAN
  /\ outages \in 0..MaxOutages /\ timeouts \in 0..MaxTimeouts

Init ==
  /\ announced = 0 /\ step = "idle" /\ sentChunks = 0
  /\ pendingPlayback = {} /\ audioHeld = FALSE
  /\ online = TRUE /\ toRobot = <<>> /\ toDesktop = <<>>
  /\ transfer = NoTransfer /\ tasks = {} /\ finished = <<>> /\ settled = {}
  /\ tracking = FALSE /\ overlapped = FALSE
  /\ outages = 0 /\ timeouts = 0

-----------------------------------------------------------------------------
(***************************************************************************)
(* The announcer and playAudio.                                            *)
(***************************************************************************)
Announce ==
  /\ step = "idle" /\ announced < MaxAnnouncements
  /\ announced' = announced + 1 /\ step' = "synthesis"
  /\ UNCHANGED <<sentChunks, pendingPlayback, audioHeld, linkVars, robotVars, overlapped, faultVars>>

SynthesisFails ==
  /\ step = "synthesis" /\ step' = "idle"
  /\ settled' = settled \cup {announced}
  /\ UNCHANGED <<announced, sentChunks, pendingPlayback, audioHeld, linkVars,
                 transfer, tasks, finished, tracking, overlapped, faultVars>>

\* playAudio gives up: it releases the gate and returns.
GiveUp ==
  /\ step' = "idle" /\ audioHeld' = FALSE
  /\ UNCHANGED <<announced, pendingPlayback>>

\* An announcement has not ended, or the daemon has not heard of its end.
Playing ==
  \/ tasks # {} \/ finished # <<>>
  \/ \E i \in 1..Len(toDesktop) : toDesktop[i].kind = "playback"

\* Mutant: face tracking is not told to stop.
PlayAudioUnsuspended ==
  /\ step = "synthesis"
  /\ IF online
     THEN /\ audioHeld' = TRUE /\ step' = "start"
          /\ toRobot' = Append(toRobot, Command("playAudioStart", announced, 0))
          /\ UNCHANGED <<announced, pendingPlayback>>
     ELSE GiveUp /\ UNCHANGED toRobot
  /\ sentChunks' = 0
  /\ overlapped' = (overlapped \/ Playing)
  /\ UNCHANGED <<online, toDesktop, robotVars, faultVars>>

PlayAudio ==
  /\ step = "synthesis"
  /\ IF online
     THEN /\ audioHeld' = TRUE /\ step' = "start"
          /\ toRobot' = toRobot \o <<TrackFace(FALSE), Command("playAudioStart", announced, 0)>>
          /\ UNCHANGED <<announced, pendingPlayback>>
     ELSE GiveUp /\ UNCHANGED toRobot
  /\ sentChunks' = 0
  /\ overlapped' = (overlapped \/ Playing)
  /\ UNCHANGED <<online, toDesktop, robotVars, faultVars>>

NextCommand ==
  IF sentChunks < Chunks THEN Command("playAudioChunk", announced, sentChunks)
  ELSE Command("playAudioEnd", announced, 0)

\* The ack of the command that playAudio waits for.
Accepted ==
  \/ /\ step \in {"start", "chunk"}
     /\ step' = IF sentChunks < Chunks THEN "chunk" ELSE "end"
     /\ sentChunks' = IF sentChunks < Chunks THEN sentChunks + 1 ELSE sentChunks
     /\ toRobot' = Append(toRobot, NextCommand)
     /\ UNCHANGED <<announced, pendingPlayback, audioHeld>>
  \/ /\ step = "end" /\ step' = "idle"
     /\ pendingPlayback' = pendingPlayback \cup {announced}
     /\ UNCHANGED <<announced, sentChunks, audioHeld, toRobot>>

AckArrives ==
  /\ toDesktop # <<>> /\ Head(toDesktop).kind = "ack"
  /\ toDesktop' = Tail(toDesktop)
  /\ LET ack == Head(toDesktop) IN
       \/ ack.live /\ ack.status = "accepted" /\ Accepted
       \/ ack.live /\ ack.status = "rejected" /\ GiveUp /\ UNCHANGED <<sentChunks, toRobot>>
       \/ ~ack.live /\ UNCHANGED <<daemonVars, toRobot>>
  /\ UNCHANGED <<online, robotVars, overlapped, faultVars>>

Answerable == \E queue \in {toRobot, toDesktop} :
                \E i \in 1..Len(queue) : queue[i].live

Forget(queue) == [i \in 1..Len(queue) |-> [queue[i] EXCEPT !.live = FALSE]]

AckTimesOut ==
  /\ step \in {"start", "chunk", "end"}
  /\ timeouts' = IF Answerable THEN timeouts + 1 ELSE timeouts
  /\ timeouts' <= MaxTimeouts
  /\ toRobot' = Forget(toRobot) /\ toDesktop' = Forget(toDesktop)
  /\ GiveUp
  /\ UNCHANGED <<sentChunks, online, robotVars, overlapped, outages>>

(***************************************************************************)
(* Playback events, the announcer's timer, the motion gate.                *)
(***************************************************************************)

\* handleDeviceEvent of the controller, then handlePlaybackEvent of the announcer.
PlaybackEventArrives ==
  /\ toDesktop # <<>> /\ Head(toDesktop).kind = "playback"
  /\ toDesktop' = Tail(toDesktop)
  /\ LET event == Head(toDesktop) IN
       /\ audioHeld' = (event.state = "started")
       /\ pendingPlayback' = IF event.state = "started" THEN pendingPlayback
                             ELSE pendingPlayback \ {event.of}
  /\ UNCHANGED <<announced, step, sentChunks, online, toRobot, robotVars, overlapped, faultVars>>

PlaybackTimesOut(a) ==
  /\ a \in pendingPlayback /\ pendingPlayback' = pendingPlayback \ {a}
  /\ UNCHANGED <<announced, step, sentChunks, audioHeld, linkVars, robotVars, overlapped, faultVars>>

\* The reservation outlasts an announcement.
HoldExpires ==
  /\ step = "idle" /\ tasks = {} /\ toRobot = <<>>
  /\ audioHeld /\ audioHeld' = FALSE
  /\ UNCHANGED <<announced, step, sentChunks, pendingPlayback, linkVars, robotVars, overlapped, faultVars>>

\* A face is seen. A second command like the one under way changes nothing.
Track ==
  /\ ~audioHeld /\ online
  /\ \A i \in 1..Len(toRobot) : toRobot[i] # TrackFace(TRUE)
  /\ toRobot' = Append(toRobot, TrackFace(TRUE))
  /\ UNCHANGED <<daemonVars, online, toDesktop, robotVars, overlapped, faultVars>>

-----------------------------------------------------------------------------
(***************************************************************************)
(* The robot handles a command.                                            *)
(***************************************************************************)
Reject(live) == toDesktop' = Append(toDesktop, Ack("rejected", live))
Accept(live) == toDesktop' = Append(toDesktop, Ack("accepted", live))

\* Mutant: the audio of a transfer that was given up is kept.
StartKeepsAudio(command) ==
  /\ transfer' = [transfer EXCEPT !.request = command.of, !.next = 0]
  /\ Accept(command.live)
  /\ UNCHANGED <<tasks, finished, tracking, settled>>

PlayAudioStart(command) ==
  /\ transfer' = [request |-> command.of, next |-> 0, bytes |-> 0]
  /\ Accept(command.live)
  /\ UNCHANGED <<tasks, finished, tracking, settled>>

PlayAudioChunk(command) ==
  /\ \/ /\ transfer.request = command.of
        /\ transfer.next = command.index /\ transfer.bytes < Chunks
        /\ transfer' = [transfer EXCEPT !.next = @ + 1, !.bytes = @ + 1]
        /\ Accept(command.live)
     \/ /\ \/ transfer.request # command.of
           \/ transfer.next # command.index
           \/ transfer.bytes >= Chunks
        /\ Reject(command.live) /\ UNCHANGED transfer
  /\ UNCHANGED <<tasks, finished, tracking, settled>>

Complete == transfer.next = Chunks /\ transfer.bytes = Chunks

PlayAudioEnd(command) ==
  /\ transfer' = IF transfer.request = command.of THEN NoTransfer ELSE transfer
  /\ \/ /\ transfer.request # command.of \/ ~Complete
        /\ Reject(command.live) /\ UNCHANGED <<tasks, settled>>
     \/ /\ transfer.request = command.of /\ Complete
        /\ tasks' = tasks \cup {command.of}
        /\ toDesktop' = toDesktop \o <<Ack("accepted", command.live), Playback("started", command.of)>>
        /\ UNCHANGED settled
     \/ /\ transfer.request = command.of /\ Complete            \* no task for it
        /\ toDesktop' = toDesktop \o <<Ack("accepted", command.live), Playback("started", command.of),
                                       Playback("failed", command.of)>>
        /\ settled' = settled \cup {command.of} /\ UNCHANGED tasks
  /\ UNCHANGED <<finished, tracking>>

HandleTrackFace(command) ==
  /\ tracking' = command.detected
  /\ UNCHANGED <<transfer, tasks, finished, settled, toDesktop>>

RobotReceives ==
  /\ online /\ toRobot # <<>> /\ toRobot' = Tail(toRobot)
  /\ LET command == Head(toRobot) IN
       \/ command.kind = "playAudioStart" /\ PlayAudioStart(command)
       \/ command.kind = "playAudioChunk" /\ PlayAudioChunk(command)
       \/ command.kind = "playAudioEnd" /\ PlayAudioEnd(command)
       \/ command.kind = "trackFace" /\ HandleTrackFace(command)
  /\ UNCHANGED <<daemonVars, online, overlapped, faultVars>>

PlaybackEnds(a) ==
  /\ a \in tasks /\ tasks' = tasks \ {a}
  /\ finished' = Append(finished, a)
  /\ settled' = settled \cup {a}
  /\ UNCHANGED <<daemonVars, linkVars, transfer, tracking, overlapped, faultVars>>

SendPendingPlaybackEvents ==
  /\ online /\ finished # <<>> /\ finished' = <<>>
  /\ toDesktop' = toDesktop \o [i \in 1..Len(finished) |-> Playback("finished", finished[i])]
  /\ UNCHANGED <<daemonVars, online, toRobot, transfer, tasks, tracking, settled, overlapped, faultVars>>

(***************************************************************************)
(* The connection. The robot still handles what it had received, and       *)
(* keeps its transfer.                                                     *)
(***************************************************************************)
Lose ==
  /\ outages < MaxOutages /\ outages' = outages + 1
  /\ online /\ online' = FALSE /\ toDesktop' = <<>>
  /\ \E received \in 0..Len(toRobot) : toRobot' = SubSeq(toRobot, 1, received)
  /\ UNCHANGED <<daemonVars, robotVars, overlapped, timeouts>>

Return ==
  /\ ~online /\ online' = TRUE
  /\ UNCHANGED <<daemonVars, toRobot, toDesktop, robotVars, overlapped, faultVars>>

Next ==
  \/ Announce \/ SynthesisFails \/ PlayAudio \/ AckArrives \/ AckTimesOut
  \/ PlaybackEventArrives \/ HoldExpires \/ Track
  \/ \E a \in Announcements : PlaybackTimesOut(a) \/ PlaybackEnds(a)
  \/ RobotReceives \/ SendPendingPlaybackEvents
  \/ Lose \/ Return

(***************************************************************************)
(* Synthesis answers, timers fire, messages arrive and tasks run.          *)
(***************************************************************************)
Fairness ==
  /\ WF_vars(SynthesisFails \/ PlayAudio) /\ WF_vars(AckTimesOut)
  /\ WF_vars(AckArrives) /\ WF_vars(PlaybackEventArrives)
  /\ WF_vars(RobotReceives) /\ WF_vars(SendPendingPlaybackEvents)
  /\ \A a \in Announcements : WF_vars(PlaybackEnds(a))

Spec     == Init /\ [][Next]_vars
FairSpec == Spec /\ Fairness

-----------------------------------------------------------------------------
(***************************************************************************)
(* Properties.                                                             *)
(***************************************************************************)

\* Face tracking does not move the head while an announcement is played
\* (docs/face-tracking-pipeline.md:238) whose transfer began after the one before it
\* had ended, if no message was lost or late: the gate and the stop command together.
StillUnlessOverlapped ==
  ~overlapped /\ outages = 0 /\ timeouts = 0 => (tasks # {} => ~tracking)

\* Once connections and acks no longer fail, whatever a transfer that was given
\* up left behind on the robot or under way, the next audio sent is played.
FaultsOver == outages = MaxOutages /\ timeouts = MaxTimeouts /\ online

FreshTransferPlays ==
  \A a \in Announcements :
    (FaultsOver /\ announced = a /\ step = "synthesis") ~> (a \in settled)
=============================================================================
