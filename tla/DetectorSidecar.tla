-------------------------- MODULE DetectorSidecar --------------------------
(***************************************************************************)
(* The face detector (PythonSidecarFaceDetector) and the process it talks  *)
(* to (face_detector.py): requests by frame id, lines written to the       *)
(* process, lines read from it, and the events of its end.                 *)
(*                                                                         *)
(* A robot numbers its frames from its start, so a frame is an id and a    *)
(* boot. Ids are only compared: an id that no frame of the boot has any    *)
(* more is as good as a new one, and MaxIds only has to outnumber them. An *)
(* answer without a face and an error are both "none".                     *)
(***************************************************************************)
EXTENDS Naturals, Sequences, FiniteSets

CONSTANTS MaxIds,
          MaxFaults    \* bound on timeouts, ends and failed starts of the process,
                       \* restarts of the robot and outages, together

ASSUME SidecarAssumption == MaxIds \in Nat /\ MaxFaults \in Nat

VARIABLES
  child,       \* "none", "running", "exited" (the exit event is due), or "failed": the
               \* process was not spawned, and no exit event follows the error event
  pipe,        \* frames written to the process that it has not answered
  answers,     \* lines of its output that are not read yet
  pending,     \* frames of the requests that wait
  mistaken,    \* history: an answer was taken for one to another frame
  overruns, exits, failedStarts

sidecarVars == <<child, pipe, answers, pending, mistaken, overruns, exits, failedStarts>>

Frames  == [id : 1..MaxIds, boot : 0..MaxFaults]
Answers == [frame : Frames, found : {"face", "none"}]

SidecarTypeOK ==
  /\ child \in {"none", "running", "exited", "failed"}
  /\ pipe \in Seq(Frames) /\ answers \in Seq(Answers) /\ pending \subseteq Frames
  /\ mistaken \in BOOLEAN
  /\ overruns \in 0..MaxFaults /\ exits \in 0..MaxFaults /\ failedStarts \in 0..MaxFaults

SidecarInit ==
  /\ child = "none" /\ pipe = <<>> /\ answers = <<>> /\ pending = {}
  /\ mistaken = FALSE /\ overruns = 0 /\ exits = 0 /\ failedStarts = 0

-----------------------------------------------------------------------------
(***************************************************************************)
(* detect: the request is pending, its frame on its way to the process.    *)
(***************************************************************************)
Request(frame) ==
  /\ child # "failed"
  /\ child' = IF child = "none" THEN "running" ELSE child
  /\ pipe' = Append(pipe, frame)
  /\ pending' = {other \in pending : other.id # frame.id} \cup {frame}
  /\ UNCHANGED <<answers, mistaken, overruns, exits, failedStarts>>

\* The process cannot be spawned: the error event rejects the request. From then
\* on there is a child, not killed, and no request can be written to it.
SpawnFails ==
  /\ child = "none" /\ child' = "failed" /\ failedStarts' = failedStarts + 1
  /\ UNCHANGED <<pipe, answers, pending, mistaken, overruns, exits>>

NotRunning == child = "failed" /\ UNCHANGED sidecarVars

\* Mutant: the oldest request gets the answer, whatever its frame.
AwaitedInOrder(answer) == pending

\* The requests that handleLine settles with an answer.
Awaited(answer) == {frame \in pending : frame.id = answer.frame.id}

ReadLine ==
  /\ answers # <<>> /\ answers' = Tail(answers)
  /\ pending' = pending \ Awaited(Head(answers))
  /\ mistaken' = (mistaken \/ \E frame \in Awaited(Head(answers)) : frame # Head(answers).frame)
  /\ UNCHANGED <<child, pipe, overruns, exits, failedStarts>>

Timeout(frame) ==
  /\ frame \in pending /\ pending' = pending \ {frame}
  /\ overruns' = overruns + 1
  /\ UNCHANGED <<child, pipe, answers, mistaken, exits, failedStarts>>

\* The exit event: rejectAll, and the next request spawns a new process. The lines
\* that the old one has written are still read.
ExitEvent ==
  /\ child = "exited" /\ child' = "none"
  /\ pipe' = <<>> /\ pending' = {}
  /\ UNCHANGED <<answers, mistaken, overruns, exits, failedStarts>>

(***************************************************************************)
(* The process.                                                            *)
(***************************************************************************)
ProcessAnswers ==
  /\ child = "running" /\ pipe # <<>>
  /\ pipe' = Tail(pipe)
  /\ \E found \in {"face", "none"} :
       answers' = Append(answers, [frame |-> Head(pipe), found |-> found])
  /\ UNCHANGED <<child, pending, mistaken, overruns, exits, failedStarts>>

\* Its dependencies or its model are missing, or it crashes.
ProcessExits ==
  /\ child = "running" /\ child' = "exited"
  /\ exits' = exits + 1
  /\ UNCHANGED <<pipe, answers, pending, mistaken, overruns, failedStarts>>

\* The daemon ends: its process ends with it, and what it waited for is gone.
SidecarEnds ==
  /\ child' = "none" /\ pipe' = <<>> /\ answers' = <<>> /\ pending' = {}
  /\ UNCHANGED <<mistaken, overruns, exits, failedStarts>>
=============================================================================
