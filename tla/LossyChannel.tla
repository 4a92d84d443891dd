---------------------------- MODULE LossyChannel ----------------------------
(***************************************************************************)
(* What the robot promises of the messages of one priority: they may be    *)
(* dropped at any time, but the ones that arrive arrive once and in the    *)
(* order in which they were produced. Messages are numbered in that order. *)
(* The numbers of one channel need not be consecutive: several channels    *)
(* draw them from one counter.                                             *)
(***************************************************************************)
EXTENDS Naturals

VARIABLES waiting,   \* the numbers of the messages produced and not yet sent
          newest,    \* the greatest number produced
          last       \* the number of the last message sent, 0 when none was

channelVars == <<waiting, newest, last>>

Init == waiting = {} /\ newest = 0 /\ last = 0

\* A message is produced, here or on another channel; older ones may give way.
Produce ==
  /\ newest' > newest
  /\ waiting' \subseteq waiting \cup {newest'}
  /\ UNCHANGED last

Lose == waiting' \subseteq waiting /\ UNCHANGED <<newest, last>>

\* The oldest message is sent.
Send ==
  /\ last' \in waiting
  /\ \A number \in waiting : last' <= number
  /\ waiting' = waiting \ {last'}
  /\ UNCHANGED newest

Next == Produce \/ Lose \/ Send

Spec == Init /\ [][Next]_channelVars

InOrder == \A number \in waiting : last < number /\ number <= newest
=============================================================================
