----------------------------- MODULE CodexTail -----------------------------
(***************************************************************************)
(* How CodexSessionWatcher follows Codex's session logs: it attaches to    *)
(* the log that was written last, reads what is appended, and reports each *)
(* completed task under an id made of the path and the line's offset.      *)
(*                                                                         *)
(* tick() is asynchronous and the poll interval does not wait for it: the  *)
(* steps below are the code between two awaits, and two ticks may be under *)
(* way at once. A log is written byte by byte, since it can be read while  *)
(* a line is being written. A line is three bytes long: a character of two *)
(* bytes, which stands for those of several bytes, and LF, or, in a log    *)
(* with such line ends, one of a single byte and CR LF. Every line is a    *)
(* completion: what other lines do is in CodexWatcher.                     *)
(*                                                                         *)
(* Every read is decoded by itself: a character that the end of a read     *)
(* cuts is two U+FFFD in the text, of three bytes each when the text is    *)
(* measured. JSON.parse accepts them in a line like other characters.      *)
(***************************************************************************)
EXTENDS Integers, Sequences, FiniteSets

CONSTANTS Files, CrlfFiles,    \* the logs, and those whose lines end in CR LF
          MaxOverlaps,
          MaxLines, MaxFaults  \* bounds: overlapping ticks, lines, truncations and failed reads

ASSUME CrlfAssumption == CrlfFiles \subseteq Files
ASSUME BoundsAssumption == MaxOverlaps \in Nat /\ MaxLines \in Nat /\ MaxFaults \in Nat

None == "none"
ASSUME NoneAssumption == None \notin Files

VARIABLES
  content, latest,                        \* the logs, and the one written last
  currentFile, offset, pending,           \* the watcher
  scanDue,                                \* lastLatestScanAt is long ago
  ticks,                                  \* the ticks under way
  announced,                              \* completions reported to the announcer
  crashed,                                \* an unhandled rejection ended the process
  from, clean,                            \* history: see below
  overlaps, lines, truncations, failures

logVars == <<content, latest, lines, truncations>>
watcherVars == <<currentFile, offset, pending>>
faultVars == <<crashed, overlaps, failures>>
vars == <<logVars, watcherVars, scanDue, ticks, announced, from, clean, faultVars>>

Ticks   == {1, 2}
Lines   == 1..MaxLines
Byte    == [line : 0..MaxLines, at : 1..3, crlf : BOOLEAN]
Decoded == [byte : Byte, torn : BOOLEAN]   \* torn: U+FFFD in the byte's place
Nul     == [line |-> 0, at |-> 1, crlf |-> TRUE]   \* a whole character, of no line: what a
                                                   \* buffer holds where nothing was read
Sizes   == 0..(3 * MaxLines + 2)
Steps   == {"off", "stat", "statted", "open", "read", "scan", "init", "attach"}

TypeOK ==
  /\ content \in [Files -> Seq(Byte)] /\ latest \in Files \cup {None}
  /\ currentFile \in Files \cup {None} /\ offset \in Sizes
  /\ pending \in Seq(Decoded) /\ scanDue \in BOOLEAN /\ crashed \in BOOLEAN
  /\ ticks \in [Ticks -> [step : Steps, file : Files \cup {None}, size : Sizes, prev : Sizes,
                          pos : Sizes, again : BOOLEAN, seen : -1..(MaxFaults + MaxOverlaps)]]
  /\ announced \subseteq [file : Files, at : Nat, line : Lines, exact : BOOLEAN]
  /\ from \in Sizes /\ clean \in BOOLEAN
  /\ overlaps \in 0..MaxOverlaps
  /\ lines \in 0..MaxLines /\ truncations \in 0..MaxFaults /\ failures \in 0..MaxFaults

\* clean: ticks have taken turns and no log was truncated since the watcher read the log
\* whole to attach; from: the size it took it to have, which only matters while clean.
\* An announcement is exact if up to its line the text it was found in holds no torn
\* character and no earlier CR LF.
Disturbances == overlaps + truncations

Off == [step |-> "off", file |-> None, size |-> 0, prev |-> 0, pos |-> 0, again |-> FALSE, seen |-> 0]

Init ==
  /\ content = [f \in Files |-> <<>>] /\ latest = None
  /\ currentFile = None /\ offset = 0 /\ pending = <<>> /\ scanDue = TRUE
  /\ ticks = [t \in Ticks |-> Off] /\ announced = {} /\ crashed = FALSE
  /\ from = 0 /\ clean = TRUE
  /\ overlaps = 0 /\ lines = 0 /\ truncations = 0 /\ failures = 0

-----------------------------------------------------------------------------
(***************************************************************************)
(* Codex.                                                                  *)
(***************************************************************************)
End(byte) == byte.at = 3

NextByte(byte) == [byte EXCEPT !.at = @ + 1]

HalfWritten(f) == content[f] # <<>> /\ ~End(content[f][Len(content[f])])

Write(f) ==
  /\ ~crashed
  /\ IF HalfWritten(f)
     THEN /\ content' = [content EXCEPT ![f] = Append(@, NextByte(@[Len(@)]))]
          /\ UNCHANGED lines
     ELSE /\ lines < MaxLines /\ lines' = lines + 1
          /\ content' = [content EXCEPT ![f] = Append(@, [line |-> lines', at |-> 1, crlf |-> f \in CrlfFiles])]
  /\ latest' = f
  /\ UNCHANGED <<watcherVars, scanDue, ticks, announced, from, clean, truncations, faultVars>>

\* A log that is not followed may be truncated as well: nobody sees it.
Truncate ==
  /\ ~crashed /\ truncations + failures < MaxFaults /\ truncations' = truncations + 1
  /\ currentFile # None /\ content[currentFile] # <<>>
  /\ content' = [content EXCEPT ![currentFile] = <<>>]
  /\ latest' = currentFile /\ clean' = FALSE /\ from' = 0
  /\ UNCHANGED <<watcherVars, scanDue, ticks, announced, lines, faultVars>>

-----------------------------------------------------------------------------
(***************************************************************************)
(* Text: what toString("utf8") makes of bytes, and how long it is then.    *)
(***************************************************************************)
\* A byte of the two-byte character without the other one beside it.
Cut(bytes, i) ==
  \/ /\ bytes[i].at = 1 /\ ~bytes[i].crlf
     /\ i = Len(bytes) \/ bytes[i + 1] # [bytes[i] EXCEPT !.at = 2]
  \/ /\ bytes[i].at = 2 /\ ~bytes[i].crlf
     /\ i = 1 \/ bytes[i - 1] # [bytes[i] EXCEPT !.at = 1]

Decode(bytes) == [i \in 1..Len(bytes) |-> [byte |-> bytes[i], torn |-> Cut(bytes, i)]]

Torn(text) == {i \in 1..Len(text) : text[i].torn}

\* Buffer.byteLength: three bytes for U+FFFD.
ByteLength(text) == Len(text) + 2 * Cardinality(Torn(text))

Cr(byte) == byte.at = 2 /\ byte.crlf

\* The ends of lines that split(/\r?\n/) takes two bytes for.
CrlfEnds(text) == {i \in 2..Len(text) : End(text[i].byte) /\ Cr(text[i - 1].byte)}

-----------------------------------------------------------------------------
(***************************************************************************)
(* The steps of a tick.                                                    *)
(***************************************************************************)
Running(t, step) == ~crashed /\ ticks[t].step = step

Goes(t, tick) == ticks' = [ticks EXCEPT ![t] = tick]

Alone(t) == \A u \in Ticks \ {t} : ticks[u].step = "off"

\* The first read of a tick is followed by a scan when one is due.
AfterRead(t) ==
  IF ~ticks[t].again /\ scanDue THEN [Off EXCEPT !.step = "scan"] ELSE Off

\* A tick that starts takes the first number that is free.
TickStarts(t) ==
  /\ Running(t, "off") /\ \A u \in Ticks : u < t => ticks[u].step # "off"
  /\ IF Alone(t) THEN UNCHANGED <<overlaps, clean, from>>
     ELSE overlaps < MaxOverlaps /\ overlaps' = overlaps + 1 /\ clean' = FALSE /\ from' = 0
  /\ Goes(t, IF currentFile = None THEN [Off EXCEPT !.step = "scan"]
             ELSE [Off EXCEPT !.step = "stat", !.file = currentFile])
  /\ UNCHANGED <<logVars, currentFile, offset, pending, scanDue, announced, crashed, failures>>

Stat(t) ==
  /\ Running(t, "stat")
  /\ Goes(t, [ticks[t] EXCEPT !.step = "statted", !.size = Len(content[ticks[t].file])])
  /\ UNCHANGED <<logVars, watcherVars, scanDue, announced, from, clean, faultVars>>

\* Mutant: a log that has become shorter is not attached to again.
CompareIgnoresTruncation(t) ==
  /\ Running(t, "statted")
  /\ Goes(t, IF ticks[t].size <= offset THEN AfterRead(t)
             ELSE [ticks[t] EXCEPT !.step = "open", !.prev = offset])
  /\ UNCHANGED <<logVars, watcherVars, scanDue, announced, from, clean, faultVars>>

Compare(t) ==
  /\ Running(t, "statted")
  /\ Goes(t, CASE ticks[t].size < offset -> [ticks[t] EXCEPT !.step = "init", !.size = 0]
               [] ticks[t].size = offset -> AfterRead(t)
               [] OTHER -> [ticks[t] EXCEPT !.step = "open", !.prev = offset])
  /\ UNCHANGED <<logVars, watcherVars, scanDue, announced, from, clean, faultVars>>

\* The position is taken from this.offset when the file is open.
Open(t) ==
  /\ Running(t, "open")
  /\ Goes(t, [ticks[t] EXCEPT !.step = "read", !.pos = offset])
  /\ UNCHANGED <<logVars, watcherVars, scanDue, announced, from, clean, faultVars>>

\* length is size - prev; what the file does not have there stays zero.
Buffer(t) ==
  [i \in 1..(ticks[t].size - ticks[t].prev) |->
     IF ticks[t].pos + i <= Len(content[ticks[t].file])
     THEN content[ticks[t].file][ticks[t].pos + i] ELSE Nul]

\* The ends of the lines in text that JSON.parse accepts: all bytes of one line, torn
\* or not, and nothing else between two line ends.
Parsed(text) ==
  {i \in 3..Len(text) :
     /\ End(text[i].byte)
     /\ text[i - 1].byte = [text[i].byte EXCEPT !.at = 2]
     /\ text[i - 2].byte = [text[i].byte EXCEPT !.at = 1]
     /\ i = 3 \/ End(text[i - 3].byte)}

\* Mutant: a line that is not complete yet is dropped.
NoRest(text) == <<>>

\* What follows the last line end.
Rest(text) ==
  LET after == {i \in 1..Len(text) : \A j \in i..Len(text) : ~End(text[j].byte)}
  IN  SubSeq(text, Len(text) - Cardinality(after) + 1, Len(text))

\* Mutant: offsets are counted from the bytes just read.
FirstLineRead(t) == ticks[t].prev

\* Where the first line starts.
FirstLine(t) ==
  IF ticks[t].prev > ByteLength(pending) THEN ticks[t].prev - ByteLength(pending) ELSE 0

\* Where the line behind the first n bytes starts: every line before it is measured, and
\* one byte is added for its end.
LineOffset(t, text, n) ==
  LET before == SubSeq(text, 1, n)
  IN  FirstLine(t) + ByteLength(before) - Cardinality(CrlfEnds(before))

\* The completion whose line ends at i.
Completion(t, text, i) ==
  [file |-> ticks[t].file, line |-> text[i].byte.line, at |-> LineOffset(t, text, i - 3),
   exact |-> (\A j \in 1..i : ~text[j].torn) /\ CrlfEnds(SubSeq(text, 1, i - 3)) = {}]

Read(t) ==
  /\ Running(t, "read")
  /\ \E text \in {pending \o Decode(Buffer(t))} :
       /\ pending' = Rest(text)
       /\ announced' = announced \cup {Completion(t, text, i) : i \in Parsed(text)}
  /\ offset' = ticks[t].size
  /\ Goes(t, AfterRead(t))
  /\ UNCHANGED <<logVars, currentFile, scanDue, from, clean, faultVars>>

\* The log with the latest mtime.
FindLatestSessionFile == latest

Scan(t) ==
  /\ Running(t, "scan")
  /\ scanDue' = FALSE
  /\ Goes(t, LET found == FindLatestSessionFile IN
             IF found = None THEN Off
             ELSE [Off EXCEPT !.step = IF found = currentFile THEN "stat" ELSE "init",
                              !.file = found, !.again = TRUE])
  /\ UNCHANGED <<logVars, watcherVars, announced, from, clean, faultVars>>

\* The log is measured when it has been decoded: two bytes too long when it ends within
\* a character.
WholeSize(f) == ByteLength(Decode(content[f]))

ReadWhole(t) ==
  /\ Running(t, "init")
  /\ Goes(t, [ticks[t] EXCEPT !.step = "attach", !.size = WholeSize(ticks[t].file),
                          !.seen = IF Alone(t) THEN Disturbances ELSE -1])
  /\ UNCHANGED <<logVars, watcherVars, scanDue, announced, from, clean, faultVars>>

Attach(t) ==
  /\ Running(t, "attach")
  /\ currentFile' = ticks[t].file /\ offset' = ticks[t].size /\ pending' = <<>>
  /\ clean' = (Alone(t) /\ ticks[t].seen = Disturbances)
  /\ from' = IF clean' THEN ticks[t].size ELSE 0
  /\ Goes(t, AfterRead(t))
  /\ UNCHANGED <<logVars, scanDue, announced, faultVars>>

\* Only the first read of a tick, and what it attaches, is guarded. An open or a
\* read that fails is no different from a stat that does.
Fail(t) ==
  /\ truncations + failures < MaxFaults /\ failures' = failures + 1
  /\ ~crashed /\ ticks[t].step \in {"stat", "init"}
  /\ IF ticks[t].again
     THEN crashed' = TRUE /\ UNCHANGED <<currentFile, ticks>>
     ELSE /\ currentFile' = None /\ Goes(t, [Off EXCEPT !.step = "scan"])
          /\ UNCHANGED crashed
  /\ UNCHANGED <<logVars, offset, pending, scanDue, announced, from, clean, overlaps>>

ScanBecomesDue ==
  /\ ~scanDue /\ ~crashed /\ scanDue' = TRUE
  /\ UNCHANGED <<logVars, watcherVars, ticks, announced, from, clean, faultVars>>

Step(t) ==
  TickStarts(t) \/ Stat(t) \/ Compare(t) \/ Open(t) \/ Read(t) \/ Scan(t) \/ ReadWhole(t) \/ Attach(t)

Next ==
  \/ Truncate \/ \E f \in Files : Write(f)
  \/ \E t \in Ticks : Step(t) \/ Fail(t)
  \/ ScanBecomesDue

Spec == Init /\ [][Next]_vars

\* The poll timer fires and the file system answers. Fairness of the ticks together is
\* that of each: while one waits the others only add overlaps, which are bounded.
FairSpec == Spec /\ WF_vars(ScanBecomesDue) /\ WF_vars(\E t \in Ticks : Step(t))

-----------------------------------------------------------------------------
Whole(f) == {i \in 1..Len(content[f]) : End(content[f][i])}

(***************************************************************************)
(* What has been read has been reported: since the watcher attached, and   *)
(* as long as its ticks take turns and nothing is truncated, every line    *)
(* that lies whole between the size at that time and the offset is a       *)
(* completion the announcer has heard of, however the reads cut it or one  *)
(* of its characters.                                                      *)
(***************************************************************************)
NothingMissed ==
  clean /\ currentFile # None =>
    \A i \in Whole(currentFile) :
      i - 3 >= from /\ i <= offset =>
        \E event \in announced :
          event.file = currentFile /\ event.line = content[currentFile][i].line

(***************************************************************************)
(* The announcer knows a completion by its id, the path and an offset. A   *)
(* completion is reported only once, no line that was there when the       *)
(* watcher attached is, and the offset is the one its line was written at, *)
(* unless a character that a read has cut or a CR LF before it in the same *)
(* text shifts it (session-watcher.ts:167-175).                            *)
(***************************************************************************)
NamedRightly ==
  [][clean => \A event \in announced' \ announced :
       /\ \E k \in 1..Len(content[event.file]) :
            /\ content[event.file][k].line = event.line /\ content[event.file][k].at = 1
            /\ k > from
            /\ event.exact => event.at = k - 1
       /\ \A earlier \in announced : earlier.line # event.line]_vars

(***************************************************************************)
(* Whatever overlapping ticks, truncations and failed reads have left      *)
(* behind, the watcher comes back to the end of the latest log, as far as  *)
(* the bytes or the decoded text of the log put it.                        *)
(***************************************************************************)
CatchesUp ==
  []<>(crashed \/ latest = None
        \/ (currentFile = latest /\ offset \in {Len(content[latest]), WholeSize(latest)}))
=============================================================================
