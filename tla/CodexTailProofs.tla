--------------------------- MODULE CodexTailProofs ---------------------------
(***************************************************************************)
(* Whatever way reads cut the log into pieces, no completed line between   *)
(* the size at which the watcher attached and its offset is missed, while  *)
(* ticks take turns and nothing is truncated. For every set of files,      *)
(* whatever line ends they have, and every bound.                          *)
(*                                                                         *)
(* NothingMissed says nothing of the line that is cut in two, nor of what  *)
(* a tick carries across an await. Attached and Following add both: the    *)
(* watcher holds exactly the unfinished line before its offset, and the    *)
(* tick under way is about to read what follows it.                        *)
(*                                                                         *)
(* NamedRightly needs more of the past. NamesInv adds that a line starts   *)
(* once in a log, that of the lines behind the size the watcher attached   *)
(* at only those before its offset are announced, and none yet of those    *)
(* behind the size a tick is about to attach at.                           *)
(***************************************************************************)
EXTENDS CodexTail, SequenceTheorems, FiniteSetTheorems, TLAPS

Tick == [step : Steps, file : Files \cup {None}, size : Nat, prev : Nat, pos : Nat,
         again : BOOLEAN, seen : Int]

TypeInv ==
  /\ content \in [Files -> Seq(Byte)] /\ latest \in Files \cup {None}
  /\ currentFile \in Files \cup {None} /\ offset \in Nat /\ from \in Nat
  /\ pending \in Seq(Decoded)
  /\ clean \in BOOLEAN /\ scanDue \in BOOLEAN
  /\ ticks \in [Ticks -> Tick]
  /\ lines \in 0..MaxLines /\ overlaps \in Nat /\ truncations \in Nat

\* The next byte of the same line.
Follows(byte, next) ==
  next.line = byte.line /\ next.crlf = byte.crlf /\ next.at = byte.at + 1

\* A log is lines of three bytes, the last of them perhaps half written.
WellFormed(log) ==
  \A i \in 1..Len(log) :
    IF log[i].at = 1 THEN i = 1 \/ End(log[i - 1])
    ELSE i > 1 /\ Follows(log[i - 1], log[i])

Logs == \A f \in Files : WellFormed(content[f])

\* What a tick knows of its file.
Known ==
  \A t \in Ticks :
    /\ ticks[t].seen <= Disturbances
    /\ ticks[t].step \in {"stat", "statted", "open", "read", "init", "attach"} => ticks[t].file \in Files

Turns ==
  clean => \A t, u \in Ticks : ticks[t].step # "off" /\ ticks[u].step # "off" => t = u

\* Where the text that is still pending starts.
Start == offset - Len(pending)

\* What is pending of a log is its unfinished line, or what follows the size the watcher
\* attached at.
Unfinished(log) ==
  /\ from <= Start /\ (Start = from \/ End(log[Start]))
  /\ \A i \in 1..Len(pending) : pending[i].byte = log[Start + i] /\ ~End(log[Start + i])

\* The log may be shorter than the size that its decoded text had.
Attached ==
  clean /\ currentFile # None =>
    /\ from <= offset /\ (offset > from => offset <= Len(content[currentFile]))
    /\ Unfinished(content[currentFile])

\* The step a tick is at, and what it has read so far, fit the watcher's offset.
Fits(tick) ==
  /\ currentFile # None /\ tick.file = currentFile
  /\ tick.step # "stat" => tick.size <= Len(content[currentFile])
  /\ tick.step \in {"open", "read"} => tick.prev = offset /\ offset < tick.size
  /\ tick.step = "read" => tick.pos = offset

Following ==
  clean => \A t \in Ticks : ticks[t].step \in {"stat", "statted", "open", "read"} => Fits(ticks[t])

\* What the logs and the watcher hold, and what was announced, has been written.
Written == [line : 0..lines, at : 1..3, crlf : BOOLEAN]

Texts(S) == Seq([byte : S, torn : BOOLEAN])

Fresh ==
  /\ \A f \in Files : content[f] \in Seq(Written)
  /\ pending \in Texts(Written)
  /\ \A event \in announced : event.line \in 0..lines

\* A line starts once in a log.
StartsOnce ==
  \A f \in Files : \A i, j \in 1..Len(content[f]) :
    content[f][i].at = 1 /\ content[f][j].at = 1 /\ content[f][i].line = content[f][j].line => i = j

\* No line that starts behind the size a tick is about to attach at is announced yet.
Unheard(f, size) ==
  \A event \in announced : \A k \in 1..Len(content[f]) :
    k > size /\ content[f][k].at = 1 => content[f][k].line # event.line

Attaching ==
  \A t \in Ticks : ticks[t].step = "attach" /\ ticks[t].seen = Disturbances =>
    Alone(t) /\ Unheard(ticks[t].file, ticks[t].size)

\* What is announced of the lines behind the size the watcher attached at lies before
\* its offset.
Named ==
  clean /\ currentFile # None =>
    \A event \in announced : \A k \in 1..Len(content[currentFile]) :
      k > from /\ content[currentFile][k].at = 1 /\ content[currentFile][k].line = event.line
        => k + 2 <= offset

NamesInv == Fresh /\ StartsOnce /\ Attaching /\ Named

Inv ==
  /\ TypeInv /\ Logs /\ Known /\ Turns /\ Attached /\ Following
  /\ NothingMissed

-----------------------------------------------------------------------------
(***************************************************************************)
(* Text: how long it is, and what is left of it.                           *)
(***************************************************************************)
LEMMA TornCount ==
  ASSUME NEW S, NEW text \in Seq(S)
  PROVE  /\ Cardinality(Torn(text)) \in Nat
         /\ ByteLength(text) \in Nat /\ Len(text) <= ByteLength(text)
         /\ Torn(text) = {} => ByteLength(text) = Len(text)
<1>1. Len(text) \in Nat /\ Torn(text) \subseteq 1..Len(text)
  BY DEF Torn
<1>2. IsFiniteSet(1..Len(text))
  BY <1>1, FS_Interval
<1>3. Cardinality(Torn(text)) \in Nat
  BY <1>1, <1>2, FS_Subset, FS_CardinalityType
<1>4. Torn(text) = {} => Cardinality(Torn(text)) = 0
  BY FS_EmptySet
<1> QED
  BY <1>1, <1>3, <1>4 DEF ByteLength

LEMMA DecodeKeeps ==
  ASSUME NEW S, NEW bytes \in Seq(S)
  PROVE  /\ Decode(bytes) \in Texts(S) /\ Len(Decode(bytes)) = Len(bytes)
         /\ \A i \in 1..Len(bytes) : Decode(bytes)[i].byte = bytes[i]
<1>1. Len(bytes) \in Nat
  OBVIOUS
<1>2. ASSUME NEW i \in 1..Len(bytes)
      PROVE  [byte |-> bytes[i], torn |-> Cut(bytes, i)] \in [byte : S, torn : BOOLEAN]
  <2>1. Cut(bytes, i) \in BOOLEAN
    BY DEF Cut
  <2>2. bytes[i] \in S
    BY <1>2
  <2> HIDE DEF Cut
  <2> QED
    BY <2>1, <2>2
<1>3. Decode(bytes) \in [1..Len(bytes) -> [byte : S, torn : BOOLEAN]]
  BY <1>2 DEF Decode
<1>4. Decode(bytes) \in Texts(S)
  <2> DEFINE n == Len(bytes)
             T == [byte : S, torn : BOOLEAN]
  <2>1. n \in Nat /\ Decode(bytes) \in [1..n -> T]
    BY <1>1, <1>3
  <2> HIDE DEF n, T
  <2>2. Decode(bytes) \in Seq(T)
    BY <2>1
  <2> QED
    BY <2>2 DEF T, Texts
<1>5. Len(Decode(bytes)) = Len(bytes)
  <2>1. DOMAIN Decode(bytes) = 1..Len(bytes)
    BY <1>3
  <2> QED
    BY <1>1, <1>4, <2>1, LenProperties DEF Texts
<1>6. \A i \in 1..Len(bytes) : Decode(bytes)[i].byte = bytes[i]
  BY DEF Decode
<1> QED
  BY <1>4, <1>5, <1>6

LEMMA WholeSizeTypes ==
  ASSUME TypeInv, NEW f \in Files
  PROVE  /\ content[f] \in Seq(Byte) /\ Len(content[f]) \in Nat
         /\ WholeSize(f) \in Nat /\ Len(content[f]) <= WholeSize(f)
<1>1. content[f] \in Seq(Byte) /\ Len(content[f]) \in Nat
  BY DEF TypeInv
<1>2. Decode(content[f]) \in Texts(Byte) /\ Len(Decode(content[f])) = Len(content[f])
  BY <1>1, DecodeKeeps
<1> QED
  BY <1>1, <1>2, TornCount DEF WholeSize, Texts

\* A read adds as many bytes as it was to read.
LEMMA TextTypes ==
  ASSUME TypeInv, Known, NEW t \in Ticks, ticks[t].step = "read",
         NEW S, Nul \in S, content[ticks[t].file] \in Seq(S), pending \in Texts(S)
  PROVE  /\ Buffer(t) \in Seq(S) /\ Decode(Buffer(t)) \in Texts(S)
         /\ pending \o Decode(Buffer(t)) \in Texts(S)
<1> DEFINE log == content[ticks[t].file]
           pos == ticks[t].pos
           n == ticks[t].size - ticks[t].prev
<1>1. log \in Seq(S) /\ pos \in Nat /\ n \in Int
  BY DEF TypeInv, Tick
<1>2. Buffer(t) = [i \in 1..n |-> IF pos + i <= Len(log) THEN log[pos + i] ELSE Nul]
  BY DEF Buffer
<1> HIDE DEF log, pos, n
<1>3. ASSUME NEW i \in 1..n
      PROVE  (IF pos + i <= Len(log) THEN log[pos + i] ELSE Nul) \in S
  <2>1. CASE pos + i <= Len(log)
    <3>1. pos + i \in 1..Len(log)
      BY <1>1, <2>1
    <3> QED
      BY <1>1, <2>1, <3>1
  <2> QED
    BY <2>1
<1>4. \E m \in Nat : 1..n = 1..m
  <2>1. CASE n >= 0
    BY <1>1, <2>1
  <2>2. CASE n < 0
    <3>1. 1..n = {} /\ 1..0 = {}
      BY <1>1, <2>2
    <3> QED
      BY <3>1
  <2> QED
    BY <1>1, <2>1, <2>2
<1>5. Buffer(t) \in Seq(S)
  <2>1. PICK m \in Nat : 1..n = 1..m
    BY <1>4
  <2>2. Buffer(t) \in [1..m -> S]
    BY <1>2, <1>3, <2>1
  <2> QED
    BY <2>2
<1>6. Decode(Buffer(t)) \in Texts(S)
  BY <1>5, DecodeKeeps
<1> QED
  BY <1>5, <1>6, ConcatProperties DEF Texts

LEMMA Suffix ==
  ASSUME NEW S, NEW text \in Seq(S), NEW m \in 0..Len(text)
  PROVE  /\ Len(SubSeq(text, m + 1, Len(text))) = Len(text) - m
         /\ \A i \in 1..(Len(text) - m) : SubSeq(text, m + 1, Len(text))[i] = text[m + i]
<1> DEFINE n == Len(text)
           rest == SubSeq(text, m + 1, n)
<1>1. n \in Nat /\ m \in Nat /\ m <= n
  OBVIOUS
<1>2. \A i \in (m + 1)..n : text[i] \in S
  BY <1>1, ElementOfSeq
<1> HIDE DEF n
<1>3. m + 1 \in Int /\ n \in Int
  BY <1>1
<1>4. /\ Len(rest) = IF m + 1 <= n THEN n - (m + 1) + 1 ELSE 0
      /\ \A i \in 1..(n - (m + 1) + 1) : rest[i] = text[(m + 1) + i - 1]
  BY <1>2, <1>3, SubSeqProperties
<1> HIDE DEF rest
<1>5. Len(rest) = n - m
  BY <1>1, <1>4
<1>6. ASSUME NEW i \in 1..(n - m)
      PROVE  rest[i] = text[m + i]
  <2>1. i \in 1..(n - (m + 1) + 1) /\ (m + 1) + i - 1 = m + i
    BY <1>1
  <2> QED
    BY <1>4, <2>1
<1> QED
  BY <1>5, <1>6 DEF n, rest

LEMMA RestKeeps ==
  ASSUME NEW S, NEW text \in Seq(S)
  PROVE  Rest(text) \in Seq(S)
<1> DEFINE n == Len(text)
           after == {i \in 1..Len(text) : \A j \in i..Len(text) : ~End(text[j].byte)}
<1>1. n \in Nat /\ after \subseteq 1..n
  OBVIOUS
<1>2. IsFiniteSet(1..n) /\ Cardinality(1..n) = n
  <2> HIDE DEF n
  <2>1. Cardinality(1..n) = IF 1 > n THEN 0 ELSE n - 1 + 1
    BY <1>1, FS_Interval
  <2> QED
    BY <1>1, <2>1, FS_Interval
<1>3. Cardinality(after) \in Nat /\ Cardinality(after) <= n
  BY <1>1, <1>2, FS_Subset, FS_CardinalityType
<1>4. Rest(text) = SubSeq(text, n - Cardinality(after) + 1, n)
  BY DEF Rest
<1> HIDE DEF after, n
<1>5. n - Cardinality(after) + 1 \in 1..(n + 1) /\ n \in Nat
  BY <1>1, <1>3
<1> QED
  BY <1>4, <1>5, SubSeqProperties DEF n

-----------------------------------------------------------------------------
(***************************************************************************)
(* Types.                                                                  *)
(***************************************************************************)
LEMMA OffTypes ==
  /\ Off \in Tick /\ [Off EXCEPT !.step = "scan"] \in Tick
  /\ \A f \in Files \cup {None} :
       /\ [Off EXCEPT !.step = "stat", !.file = f] \in Tick
       /\ [Off EXCEPT !.step = "stat", !.file = f, !.again = TRUE] \in Tick
       /\ [Off EXCEPT !.step = "init", !.file = f, !.again = TRUE] \in Tick
<1>1. Off \in Tick
  BY DEF Off, Tick, Steps
<1>2. [Off EXCEPT !.step = "scan"] \in Tick
  BY <1>1 DEF Tick, Steps
<1>3. ASSUME NEW f \in Files \cup {None}
      PROVE  [Off EXCEPT !.step = "stat", !.file = f] \in Tick
  BY <1>1 DEF Tick, Steps
<1>4. ASSUME NEW f \in Files \cup {None}, NEW step \in {"stat", "init"}
      PROVE  [Off EXCEPT !.step = step, !.file = f, !.again = TRUE] \in Tick
  BY <1>1 DEF Tick, Steps
<1> QED
  BY <1>1, <1>2, <1>3, <1>4

LEMMA AfterReadTypes ==
  ASSUME TypeInv, NEW t \in Ticks
  PROVE  /\ AfterRead(t) \in Tick
         /\ AfterRead(t).step \in {"off", "scan"}
         /\ AfterRead(t).seen = 0
BY OffTypes DEF AfterRead, Off

LEMMA Counts == ASSUME TypeInv PROVE Disturbances \in Nat
BY DEF TypeInv, Disturbances

\* What a tick notes when it has read a log whole.
Noted(t) == IF Alone(t) THEN Disturbances ELSE -1

LEMMA NotedTypes == ASSUME TypeInv, NEW t \in Ticks PROVE Noted(t) \in Int /\ Noted(t) <= Disturbances
BY Counts DEF Noted

LEMMA GoesOnly ==
  ASSUME TypeInv, NEW t \in Ticks, NEW tick, Goes(t, tick)
  PROVE  ticks'[t] = tick /\ \A u \in Ticks : u # t => ticks'[u] = ticks[u]
BY DEF TypeInv, Goes

LEMMA StepTypes ==
  ASSUME TypeInv, Known, NEW t \in Ticks, Step(t)
  PROVE  TypeInv'
<1> USE DEF TypeInv, faultVars
<1>1. CASE TickStarts(t)
  <2>1. [Off EXCEPT !.step = "scan"] \in Tick /\ [Off EXCEPT !.step = "stat", !.file = currentFile] \in Tick
    BY OffTypes
  <2>2. ticks' \in [Ticks -> Tick]
    BY <1>1, <2>1 DEF TickStarts, Goes
  <2>3. clean' \in BOOLEAN /\ overlaps' \in Nat /\ from' \in Nat
    <3>1. CASE Alone(t)
      BY <1>1, <3>1 DEF TickStarts
    <3>2. CASE ~Alone(t)
      <4>1. overlaps' = overlaps + 1 /\ clean' = FALSE /\ from' = 0
        BY <1>1, <3>2 DEF TickStarts
      <4>2. overlaps + 1 \in Nat
        OBVIOUS
      <4> QED
        BY <4>1, <4>2
    <3> QED
      BY <3>1, <3>2
  <2> QED
    BY <1>1, <2>2, <2>3 DEF TickStarts, logVars
<1>2. CASE Stat(t)
  <2>1. Len(content[ticks[t].file]) \in Nat
    BY <1>2, WholeSizeTypes DEF Stat, Running, Known
  <2>2. [ticks[t] EXCEPT !.step = "statted", !.size = Len(content[ticks[t].file])] \in Tick
    BY <2>1 DEF Tick, Steps
  <2>3. ticks' \in [Ticks -> Tick]
    BY <1>2, <2>2 DEF Stat, Goes
  <2> QED
    BY <1>2, <2>3 DEF Stat, logVars, watcherVars
<1>3. CASE Compare(t)
  <2>1. /\ [ticks[t] EXCEPT !.step = "init", !.size = 0] \in Tick
        /\ [ticks[t] EXCEPT !.step = "open", !.prev = offset] \in Tick
    BY DEF Tick, Steps
  <2>2. ticks' \in [Ticks -> Tick]
    BY <1>3, <2>1, AfterReadTypes DEF Compare, Goes
  <2> QED
    BY <1>3, <2>2 DEF Compare, logVars, watcherVars
<1>4. CASE Open(t)
  <2>1. [ticks[t] EXCEPT !.step = "read", !.pos = offset] \in Tick
    BY DEF Tick, Steps
  <2>2. ticks' \in [Ticks -> Tick]
    BY <1>4, <2>1 DEF Open, Goes
  <2> QED
    BY <1>4, <2>2 DEF Open, logVars, watcherVars
<1>5. CASE Read(t)
  <2>1. ticks' \in [Ticks -> Tick] /\ offset' \in Nat
    BY <1>5, AfterReadTypes DEF Read, Goes, Tick
  <2>2. pending' \in Seq(Decoded)
    <3>1. ticks[t].file \in Files /\ ticks[t].step = "read"
      BY <1>5 DEF Read, Running, Known
    <3>2. Nul \in Byte
      BY BoundsAssumption DEF Nul, Byte
    <3>3. pending \o Decode(Buffer(t)) \in Seq(Decoded)
      BY <3>1, <3>2, TextTypes DEF Texts, Decoded
    <3> QED
      BY <1>5, <3>3, RestKeeps DEF Read
  <2> QED
    BY <1>5, <2>1, <2>2 DEF Read, logVars
<1>6. CASE Scan(t)
  <2>1. latest # None =>
          /\ [Off EXCEPT !.step = "stat", !.file = latest, !.again = TRUE] \in Tick
          /\ [Off EXCEPT !.step = "init", !.file = latest, !.again = TRUE] \in Tick
    BY OffTypes
  <2>2. ticks' \in [Ticks -> Tick]
    BY <1>6, <2>1, OffTypes DEF Scan, Goes, FindLatestSessionFile
  <2> QED
    BY <1>6, <2>2 DEF Scan, logVars, watcherVars
<1>7. CASE ReadWhole(t)
  <2>1. WholeSize(ticks[t].file) \in Nat
    BY <1>7, WholeSizeTypes DEF ReadWhole, Running, Known
  <2>2. [ticks[t] EXCEPT !.step = "attach", !.size = WholeSize(ticks[t].file), !.seen = Noted(t)] \in Tick
    BY <2>1, NotedTypes DEF Tick, Steps
  <2>3. ticks' \in [Ticks -> Tick]
    BY <1>7, <2>2 DEF ReadWhole, Goes, Noted
  <2> QED
    BY <1>7, <2>3 DEF ReadWhole, logVars, watcherVars, faultVars
<1>8. CASE Attach(t)
  <2>1. ticks' \in [Ticks -> Tick]
    BY <1>8, AfterReadTypes DEF Attach, Goes
  <2>2. currentFile' \in Files \cup {None} /\ offset' \in Nat /\ from' \in Nat
    BY <1>8 DEF Attach, Tick
  <2>3. clean' \in BOOLEAN /\ pending' \in Seq(Decoded)
    BY <1>8 DEF Attach
  <2> QED
    BY <1>8, <2>1, <2>2, <2>3 DEF Attach, logVars
<1> QED
  BY <1>1, <1>2, <1>3, <1>4, <1>5, <1>6, <1>7, <1>8 DEF Step

\* A write starts a line, or goes on with the last one.
LEMMA Appends ==
  ASSUME TypeInv, NEW f \in Files, Write(f)
  PROVE  \E byte \in Byte :
           /\ content' = [content EXCEPT ![f] = Append(@, byte)]
           /\ lines' \in Nat /\ lines <= lines'
           /\ IF byte.at = 1
              THEN /\ Len(content[f]) = 0 \/ End(content[f][Len(content[f])])
                   /\ byte.line = lines' /\ lines' = lines + 1
              ELSE Len(content[f]) > 0 /\ Follows(content[f][Len(content[f])], byte)
<1>1. content[f] \in Seq(Byte) /\ Len(content[f]) \in Nat /\ lines \in Nat
  BY DEF TypeInv
<1>2. CASE HalfWritten(f)
  <2> DEFINE half == content[f][Len(content[f])]
             next == NextByte(half)
  <2>1. Len(content[f]) > 0 /\ half \in Byte /\ half.at \in {1, 2}
    <3>1. content[f] # <<>> /\ ~End(half)
      BY <1>2 DEF HalfWritten
    <3>2. Len(content[f]) > 0 /\ half \in Byte
      BY <1>1, <3>1
    <3> HIDE DEF half
    <3> QED
      BY <3>1, <3>2 DEF End, Byte
  <2>2. next \in Byte /\ next.at # 1 /\ Follows(half, next)
    BY <2>1 DEF NextByte, Byte, Follows
  <2>3. content' = [content EXCEPT ![f] = Append(@, next)] /\ lines' = lines
    BY <1>2 DEF Write
  <2> HIDE DEF next
  <2> QED
    <3> USE <2>2
    <3> WITNESS next \in Byte
    <3> QED
      BY <1>1, <2>1, <2>2, <2>3
<1>3. CASE ~HalfWritten(f)
  <2> DEFINE next == [line |-> lines', at |-> 1, crlf |-> f \in CrlfFiles]
  <2>1. lines' = lines + 1 /\ lines < MaxLines
    BY <1>3 DEF Write
  <2>2. next \in Byte /\ next.at = 1 /\ next.line = lines'
    BY <1>1, <2>1, BoundsAssumption DEF Byte
  <2>3. content' = [content EXCEPT ![f] = Append(@, next)]
    BY <1>3 DEF Write
  <2>4. Len(content[f]) = 0 \/ End(content[f][Len(content[f])])
    BY <1>1, <1>3 DEF HalfWritten
  <2> HIDE DEF next
  <2> QED
    <3> USE <2>2
    <3> WITNESS next \in Byte
    <3> QED
      BY <1>1, <2>1, <2>2, <2>3, <2>4
<1> QED
  BY <1>2, <1>3

LEMMA OtherTypes ==
  ASSUME TypeInv, Truncate \/ (\E f \in Files : Write(f)) \/ (\E t \in Ticks : Fail(t)) \/ ScanBecomesDue
  PROVE  TypeInv'
<1> USE DEF TypeInv, faultVars
<1>1. CASE Truncate
  <2>1. content' \in [Files -> Seq(Byte)] /\ latest' \in Files
    BY <1>1 DEF Truncate
  <2>2. truncations' \in Nat
    BY <1>1 DEF Truncate
  <2>3. clean' = FALSE /\ from' = 0
    BY <1>1 DEF Truncate
  <2>4. UNCHANGED <<currentFile, offset, pending, scanDue, ticks, lines, overlaps>>
    BY <1>1 DEF Truncate, watcherVars
  <2> QED
    BY <2>1, <2>2, <2>3, <2>4
<1>2. ASSUME NEW f \in Files, Write(f)
      PROVE  TypeInv'
  <2>1. PICK byte \in Byte : content' = [content EXCEPT ![f] = Append(@, byte)]
    BY <1>2, Appends
  <2>2. content' \in [Files -> Seq(Byte)]
    BY <2>1
  <2>3. lines' \in 0..MaxLines
    BY <1>2, BoundsAssumption DEF Write
  <2> QED
    BY <1>2, <2>2, <2>3 DEF Write, watcherVars
<1>3. ASSUME NEW t \in Ticks, Fail(t)
      PROVE  TypeInv'
  <2>1. [Off EXCEPT !.step = "scan"] \in Tick
    BY OffTypes
  <2>2. ticks' \in [Ticks -> Tick] /\ currentFile' \in Files \cup {None}
    BY <1>3, <2>1 DEF Fail, Goes
  <2> QED
    BY <1>3, <2>2 DEF Fail, logVars
<1>4. CASE ScanBecomesDue
  BY <1>4 DEF ScanBecomesDue, logVars, watcherVars
<1> QED
  BY <1>1, <1>2, <1>3, <1>4

-----------------------------------------------------------------------------
(***************************************************************************)
(* The logs, and what a tick knows of them.                                *)
(***************************************************************************)
\* A write leaves what was there, and keeps the lines in form.
LEMMA WriteGrows ==
  ASSUME TypeInv, Logs, NEW f \in Files, Write(f)
  PROVE  /\ Logs'
         /\ \A g \in Files :
              /\ Len(content[g]) <= Len(content'[g])
              /\ \A i \in 1..Len(content[g]) : content'[g][i] = content[g][i]
<1>1. content[f] \in Seq(Byte)
  BY DEF TypeInv
<1>2. PICK byte \in Byte :
        /\ content' = [content EXCEPT ![f] = Append(@, byte)]
        /\ IF byte.at = 1 THEN Len(content[f]) = 0 \/ End(content[f][Len(content[f])])
           ELSE Len(content[f]) > 0 /\ Follows(content[f][Len(content[f])], byte)
  BY Appends
<1>3. content'[f] = Append(content[f], byte) /\ \A g \in Files : g # f => content'[g] = content[g]
  BY <1>2 DEF TypeInv
<1>4. /\ Len(content'[f]) = Len(content[f]) + 1
      /\ \A i \in 1..Len(content[f]) : content'[f][i] = content[f][i]
      /\ content'[f][Len(content[f]) + 1] = byte
  BY <1>1, <1>3
<1>5. Len(content[f]) \in Nat
  BY <1>1
<1>6. WellFormed(content'[f])
  <2>1. SUFFICES ASSUME NEW i \in 1..Len(content'[f])
                 PROVE  IF content'[f][i].at = 1 THEN i = 1 \/ End(content'[f][i - 1])
                        ELSE i > 1 /\ Follows(content'[f][i - 1], content'[f][i])
    BY DEF WellFormed
  <2>2. CASE i <= Len(content[f])
    <3>1. i \in 1..Len(content[f]) /\ (i > 1 => i - 1 \in 1..Len(content[f]))
      BY <1>5, <2>2
    <3>2. content'[f][i] = content[f][i] /\ (i > 1 => content'[f][i - 1] = content[f][i - 1])
      BY <1>4, <3>1
    <3>3. IF content[f][i].at = 1 THEN i = 1 \/ End(content[f][i - 1])
          ELSE i > 1 /\ Follows(content[f][i - 1], content[f][i])
      BY <3>1 DEF Logs, WellFormed
    <3>4. i = 1 \/ i > 1
      BY <1>5, <3>1
    <3> QED
      BY <3>2, <3>3, <3>4
  <2>3. CASE i = Len(content[f]) + 1
    <3>1. Len(content[f]) > 0 => content'[f][i - 1] = content[f][Len(content[f])]
      BY <1>4, <1>5, <2>3
    <3>2. content'[f][i] = byte /\ (Len(content[f]) > 0 <=> i > 1)
      BY <1>4, <1>5, <2>3
    <3>3. CASE byte.at = 1
      BY <1>2, <1>5, <2>3, <3>1, <3>2, <3>3
    <3>4. CASE byte.at # 1
      BY <1>2, <3>1, <3>2, <3>4
    <3> QED
      BY <3>3, <3>4
  <2> QED
    BY <1>4, <1>5, <2>2, <2>3
<1>7. Logs'
  BY <1>3, <1>6 DEF Logs
<1>8. \A g \in Files : Len(content[g]) \in Nat
  BY WholeSizeTypes
<1> QED
  BY <1>3, <1>4, <1>5, <1>7, <1>8

LEMMA LogsKept ==
  ASSUME TypeInv, Logs, [Next]_vars
  PROVE  Logs'
<1>1. ASSUME UNCHANGED content PROVE Logs'
  BY <1>1 DEF Logs
<1>2. CASE Truncate
  BY <1>2 DEF Truncate, Logs, WellFormed, TypeInv
<1>3. CASE \E f \in Files : Write(f)
  BY <1>3, WriteGrows
<1>4. CASE \E t \in Ticks : Step(t) \/ Fail(t)
  BY <1>1, <1>4 DEF Step, TickStarts, Stat, Compare, Open, Read, Scan, ReadWhole, Attach, Fail, logVars
<1>5. CASE ScanBecomesDue \/ UNCHANGED vars
  BY <1>1, <1>5 DEF ScanBecomesDue, vars, logVars
<1> QED
  BY <1>2, <1>3, <1>4, <1>5 DEF Next

\* The tick a step leads to, and that the others are as they were.
StepsTo(t, tick) ==
  tick \in Tick /\ ticks'[t] = tick /\ \A u \in Ticks : u # t => ticks'[u] = ticks[u]

LEMMA WhereTicksGo ==
  ASSUME TypeInv, Known, NEW t \in Ticks
  PROVE  /\ TickStarts(t) =>
              StepsTo(t, IF currentFile = None THEN [Off EXCEPT !.step = "scan"]
                         ELSE [Off EXCEPT !.step = "stat", !.file = currentFile])
         /\ Stat(t) => StepsTo(t, [ticks[t] EXCEPT !.step = "statted", !.size = Len(content[ticks[t].file])])
         /\ Compare(t) => \/ ticks[t].size < offset /\ StepsTo(t, [ticks[t] EXCEPT !.step = "init", !.size = 0])
                          \/ ticks[t].size = offset /\ StepsTo(t, AfterRead(t))
                          \/ /\ ~(ticks[t].size < offset) /\ ticks[t].size # offset
                             /\ StepsTo(t, [ticks[t] EXCEPT !.step = "open", !.prev = offset])
         /\ Open(t) => StepsTo(t, [ticks[t] EXCEPT !.step = "read", !.pos = offset])
         /\ Read(t) => StepsTo(t, AfterRead(t))
         /\ Scan(t) => StepsTo(t, IF latest = None THEN Off
                                  ELSE [Off EXCEPT !.step = IF latest = currentFile THEN "stat" ELSE "init",
                                                   !.file = latest, !.again = TRUE])
         /\ ReadWhole(t) => StepsTo(t, [ticks[t] EXCEPT !.step = "attach", !.size = WholeSize(ticks[t].file),
                                                        !.seen = Noted(t)])
         /\ Attach(t) => StepsTo(t, AfterRead(t))
         /\ Fail(t) => \/ ticks' = ticks /\ currentFile' = currentFile
                       \/ currentFile' = None /\ StepsTo(t, [Off EXCEPT !.step = "scan"])
<1>1. ASSUME NEW tick, Goes(t, tick), TypeInv'
      PROVE  StepsTo(t, tick)
  <2>1. ticks'[t] = tick /\ \A u \in Ticks : u # t => ticks'[u] = ticks[u]
    BY <1>1, GoesOnly
  <2>2. ticks'[t] \in Tick
    BY <1>1 DEF TypeInv
  <2> QED
    BY <2>1, <2>2 DEF StepsTo
<1>2. Step(t) => TypeInv'
  BY StepTypes
<1>3. Fail(t) => TypeInv'
  BY OtherTypes
<1>4. /\ TickStarts(t) => Step(t)
      /\ Stat(t) => Step(t)
      /\ Compare(t) => Step(t)
      /\ Open(t) => Step(t)
      /\ Read(t) => Step(t)
      /\ Scan(t) => Step(t)
      /\ ReadWhole(t) => Step(t)
      /\ Attach(t) => Step(t)
  BY DEF Step
<1>5. /\ TickStarts(t) =>
              StepsTo(t, IF currentFile = None THEN [Off EXCEPT !.step = "scan"]
                         ELSE [Off EXCEPT !.step = "stat", !.file = currentFile])
      /\ Stat(t) => StepsTo(t, [ticks[t] EXCEPT !.step = "statted", !.size = Len(content[ticks[t].file])])
      /\ Open(t) => StepsTo(t, [ticks[t] EXCEPT !.step = "read", !.pos = offset])
  BY <1>1, <1>2, <1>4 DEF TickStarts, Stat, Open
<1>6. Read(t) \/ Attach(t) => StepsTo(t, AfterRead(t))
  BY <1>1, <1>2, <1>4 DEF Read, Attach
<1>7. Scan(t) => StepsTo(t, IF latest = None THEN Off
                            ELSE [Off EXCEPT !.step = IF latest = currentFile THEN "stat" ELSE "init",
                                             !.file = latest, !.again = TRUE])
  BY <1>1, <1>2, <1>4 DEF Scan, FindLatestSessionFile
<1>8. ReadWhole(t) => StepsTo(t, [ticks[t] EXCEPT !.step = "attach", !.size = WholeSize(ticks[t].file),
                                                  !.seen = Noted(t)])
  BY <1>1, <1>2, <1>4 DEF ReadWhole, Noted
<1>9. Fail(t) => \/ ticks' = ticks /\ currentFile' = currentFile
                 \/ currentFile' = None /\ StepsTo(t, [Off EXCEPT !.step = "scan"])
  BY <1>1, <1>3 DEF Fail
<1>10. ASSUME Compare(t)
       PROVE  \/ ticks[t].size < offset /\ StepsTo(t, [ticks[t] EXCEPT !.step = "init", !.size = 0])
              \/ ticks[t].size = offset /\ StepsTo(t, AfterRead(t))
              \/ /\ ~(ticks[t].size < offset) /\ ticks[t].size # offset
                 /\ StepsTo(t, [ticks[t] EXCEPT !.step = "open", !.prev = offset])
  <2>1. TypeInv'
    BY <1>2, <1>4, <1>10
  <2>2. Goes(t, CASE ticks[t].size < offset -> [ticks[t] EXCEPT !.step = "init", !.size = 0]
                  [] ticks[t].size = offset -> AfterRead(t)
                  [] OTHER -> [ticks[t] EXCEPT !.step = "open", !.prev = offset])
    BY <1>10 DEF Compare
  <2>3. ticks[t].size \in Nat /\ offset \in Nat
    BY DEF TypeInv, Tick
  <2>4. \/ ticks[t].size < offset /\ Goes(t, [ticks[t] EXCEPT !.step = "init", !.size = 0])
        \/ ticks[t].size = offset /\ Goes(t, AfterRead(t))
        \/ /\ ~(ticks[t].size < offset) /\ ticks[t].size # offset
           /\ Goes(t, [ticks[t] EXCEPT !.step = "open", !.prev = offset])
    BY <2>2, <2>3
  <2> QED
    BY <1>1, <2>1, <2>4
<1> QED
  BY <1>5, <1>6, <1>7, <1>8, <1>9, <1>10

\* The fields of the records above.
LEMMA TickFields ==
  ASSUME TypeInv, NEW t \in Ticks, NEW size \in Nat
  PROVE  /\ [Off EXCEPT !.step = "scan"].step = "scan" /\ [Off EXCEPT !.step = "scan"].seen = 0
         /\ LET tick == [Off EXCEPT !.step = "stat", !.file = currentFile] IN
              tick.step = "stat" /\ tick.file = currentFile /\ tick.seen = 0
         /\ LET tick == [ticks[t] EXCEPT !.step = "statted", !.size = size] IN
              tick.step = "statted" /\ tick.file = ticks[t].file /\ tick.size = size
              /\ tick.seen = ticks[t].seen
         /\ LET tick == [ticks[t] EXCEPT !.step = "init", !.size = 0] IN
              tick.step = "init" /\ tick.file = ticks[t].file /\ tick.seen = ticks[t].seen
         /\ LET tick == [ticks[t] EXCEPT !.step = "open", !.prev = offset] IN
              /\ tick.step = "open" /\ tick.file = ticks[t].file /\ tick.size = ticks[t].size
              /\ tick.prev = offset /\ tick.seen = ticks[t].seen
         /\ LET tick == [ticks[t] EXCEPT !.step = "read", !.pos = offset] IN
              /\ tick.step = "read" /\ tick.file = ticks[t].file /\ tick.size = ticks[t].size
              /\ tick.prev = ticks[t].prev /\ tick.pos = offset /\ tick.seen = ticks[t].seen
         /\ \A step \in {"stat", "init"} :
              LET tick == [Off EXCEPT !.step = step, !.file = latest, !.again = TRUE] IN
                tick.step = step /\ tick.file = latest /\ tick.seen = 0
         /\ LET tick == [ticks[t] EXCEPT !.step = "attach", !.size = size, !.seen = Noted(t)] IN
              tick.step = "attach" /\ tick.file = ticks[t].file /\ tick.size = size
              /\ tick.seen = Noted(t)
         /\ Off.step = "off" /\ Off.seen = 0
BY DEF TypeInv, Tick, Off

\* What Known says of one tick.
Knows(tick) ==
  /\ tick.seen <= Disturbances
  /\ tick.step \in {"stat", "statted", "open", "read", "init", "attach"} => tick.file \in Files

LEMMA KnownLocal ==
  ASSUME TypeInv, Known, NEW t \in Ticks, NEW tick, StepsTo(t, tick), Knows(tick),
         UNCHANGED <<content, Disturbances>>
  PROVE  Known'
BY DEF Known, Knows, StepsTo

LEMMA KnownKept ==
  ASSUME TypeInv, TypeInv', Known, Logs, [Next]_vars
  PROVE  Known'
<1>1. ASSUME NEW t \in Ticks, Step(t)
      PROVE  Known'
  <2>1. Stat(t) \/ Compare(t) \/ Open(t) \/ Read(t) \/ Scan(t) \/ ReadWhole(t) \/ Attach(t) =>
          UNCHANGED <<content, Disturbances>>
    BY DEF Stat, Compare, Open, Read, Scan, ReadWhole, Attach, logVars, faultVars, Disturbances
  <2>2. ticks[t].seen <= Disturbances /\ Disturbances \in Nat /\ ticks[t].seen \in Int
    BY Counts DEF Known, TypeInv, Tick
  <2>3. ticks[t].step \in {"stat", "statted", "open", "read", "init", "attach"} => ticks[t].file \in Files
    BY DEF Known
  <2>4. CASE TickStarts(t)
    <3>1. content' = content /\ (Disturbances' = Disturbances \/ Disturbances' = Disturbances + 1)
      BY <2>4 DEF TickStarts, logVars, Disturbances, TypeInv
    <3>2. ticks'[t].seen = 0 /\ ticks'[t].step \in {"scan", "stat"}
          /\ (ticks'[t].step = "stat" => ticks'[t].file \in Files)
      <4>1. CASE currentFile = None
        <5>1. StepsTo(t, [Off EXCEPT !.step = "scan"])
          BY <2>4, <4>1, WhereTicksGo
        <5> QED
          BY <5>1, TickFields DEF StepsTo
      <4>2. CASE currentFile # None
        <5>1. StepsTo(t, [Off EXCEPT !.step = "stat", !.file = currentFile])
          BY <2>4, <4>2, WhereTicksGo
        <5> QED
          BY <4>2, <5>1, TickFields DEF StepsTo, TypeInv
      <4> QED
        BY <4>1, <4>2
    <3>3. \A u \in Ticks : u # t => ticks'[u] = ticks[u]
      BY <2>4, GoesOnly DEF TickStarts
    <3>4. ASSUME NEW u \in Ticks, u # t
          PROVE  Knows(ticks[u])'
      <4>1. Knows(ticks[u]) /\ ticks[u].seen \in Int
        BY DEF Known, Knows, TypeInv, Tick
      <4> QED
        BY <2>2, <3>1, <3>3, <3>4, <4>1 DEF Knows
    <3>5. Knows(ticks[t])'
      BY <2>2, <3>1, <3>2 DEF Knows
    <3> QED
      BY <3>4, <3>5 DEF Known, Knows
  <2>5. CASE Stat(t)
    <3>1. ticks[t].file \in Files /\ Len(content[ticks[t].file]) \in Nat
      BY <2>3, <2>5, WholeSizeTypes DEF Stat, Running
    <3> DEFINE tick == [ticks[t] EXCEPT !.step = "statted", !.size = Len(content[ticks[t].file])]
    <3>2. StepsTo(t, tick)
      BY <2>5, WhereTicksGo
    <3>3. Knows(tick)
      BY <2>2, <3>1, TickFields DEF Knows
    <3> HIDE DEF tick
    <3> QED
      BY <2>1, <2>5, <3>2, <3>3, KnownLocal
  <2>6. CASE Compare(t)
    <3>1. PICK tick \in {[ticks[t] EXCEPT !.step = "init", !.size = 0], AfterRead(t),
                         [ticks[t] EXCEPT !.step = "open", !.prev = offset]} : StepsTo(t, tick)
      BY <2>6, WhereTicksGo
    <3>2. ticks[t].file \in Files
      BY <2>3, <2>6 DEF Compare, Running
    <3>3. Knows(AfterRead(t)) /\ Knows([ticks[t] EXCEPT !.step = "init", !.size = 0])
          /\ Knows([ticks[t] EXCEPT !.step = "open", !.prev = offset])
      <4>1. Knows(AfterRead(t))
        BY <2>2, AfterReadTypes DEF Knows
      <4>2. Knows([ticks[t] EXCEPT !.step = "init", !.size = 0])
        BY <2>2, <3>2, TickFields DEF Knows, TypeInv
      <4>3. Knows([ticks[t] EXCEPT !.step = "open", !.prev = offset])
        BY <2>2, <3>2, TickFields DEF Knows, TypeInv
      <4> QED
        BY <4>1, <4>2, <4>3
    <3> QED
      BY <2>1, <2>6, <3>1, <3>3, KnownLocal
  <2>7. CASE Open(t)
    <3> DEFINE tick == [ticks[t] EXCEPT !.step = "read", !.pos = offset]
    <3>1. StepsTo(t, tick)
      BY <2>7, WhereTicksGo
    <3>2. ticks[t].file \in Files
      BY <2>3, <2>7 DEF Open, Running
    <3>3. Knows(tick)
      BY <2>2, <3>2, TickFields DEF Knows, TypeInv
    <3> HIDE DEF tick
    <3> QED
      BY <2>1, <2>7, <3>1, <3>3, KnownLocal
  <2>8. CASE Read(t) \/ Attach(t)
    <3>1. StepsTo(t, AfterRead(t))
      BY <2>8, WhereTicksGo
    <3>2. Knows(AfterRead(t))
      BY <2>2, AfterReadTypes DEF Knows
    <3> QED
      BY <2>1, <2>8, <3>1, <3>2, KnownLocal
  <2>9. CASE Scan(t)
    <3>1. CASE latest = None
      <4>1. StepsTo(t, Off)
        BY <2>9, <3>1, WhereTicksGo
      <4>2. Knows(Off)
        BY <2>2 DEF Knows, Off
      <4> QED
        BY <2>1, <2>9, <4>1, <4>2, KnownLocal
    <3>2. CASE latest # None
      <4>1. PICK step \in {"stat", "init"} :
              StepsTo(t, [Off EXCEPT !.step = step, !.file = latest, !.again = TRUE])
        BY <2>9, <3>2, WhereTicksGo
      <4> DEFINE tick == [Off EXCEPT !.step = step, !.file = latest, !.again = TRUE]
      <4>2. tick.step = step /\ tick.file = latest /\ tick.seen = 0
        BY TickFields DEF TypeInv
      <4>3. StepsTo(t, tick)
        BY <4>1
      <4>4. latest \in Files
        BY <3>2 DEF TypeInv
      <4> HIDE DEF tick
      <4>5. Knows(tick)
        BY <2>2, <4>2, <4>4 DEF Knows
      <4> QED
        BY <2>1, <2>9, <4>3, <4>5, KnownLocal
    <3> QED
      BY <3>1, <3>2
  <2>10. CASE ReadWhole(t)
    <3>1. ticks[t].file \in Files /\ WholeSize(ticks[t].file) \in Nat
      BY <2>3, <2>10, WholeSizeTypes DEF ReadWhole, Running
    <3> DEFINE tick == [ticks[t] EXCEPT !.step = "attach", !.size = WholeSize(ticks[t].file),
                                        !.seen = Noted(t)]
    <3>2. StepsTo(t, tick)
      BY <2>10, WhereTicksGo
    <3>3. Knows(tick)
      BY <2>2, <3>1, NotedTypes, TickFields DEF Knows
    <3> HIDE DEF tick
    <3> QED
      BY <2>1, <2>10, <3>2, <3>3, KnownLocal
  <2> QED
    BY <1>1, <2>4, <2>5, <2>6, <2>7, <2>8, <2>9, <2>10 DEF Step
<1>2. ASSUME NEW t \in Ticks, Fail(t)
      PROVE  Known'
  <2>1. UNCHANGED <<content, Disturbances>>
    BY <1>2 DEF Fail, logVars, Disturbances
  <2>2. CASE ticks' = ticks
    BY <2>1, <2>2 DEF Known
  <2>3. CASE StepsTo(t, [Off EXCEPT !.step = "scan"])
    <3>1. Knows([Off EXCEPT !.step = "scan"])
      BY Counts, TickFields DEF Knows
    <3> QED
      BY <2>1, <2>3, <3>1, KnownLocal
  <2> QED
    BY <1>2, <2>2, <2>3, WhereTicksGo
<1>3. CASE Truncate
  <2>1. ticks' = ticks /\ Disturbances' = Disturbances + 1
    BY <1>3 DEF Truncate, Disturbances, TypeInv, faultVars
  <2>2. \A t \in Ticks : ticks[t].seen \in Int
    BY DEF TypeInv, Tick
  <2> QED
    BY <2>1, <2>2, Counts DEF Known
<1>4. ASSUME NEW f \in Files, Write(f)
      PROVE  Known'
  <2>1. UNCHANGED <<ticks, Disturbances>>
    BY <1>4 DEF Write, faultVars, Disturbances
  <2> QED
    BY <2>1 DEF Known
<1>5. CASE ScanBecomesDue \/ UNCHANGED vars
  BY <1>5 DEF ScanBecomesDue, vars, logVars, faultVars, Disturbances, Known
<1> QED
  BY <1>1, <1>2, <1>3, <1>4, <1>5 DEF Next

-----------------------------------------------------------------------------
(***************************************************************************)
(* While the watcher is clean, one tick is under way.                      *)
(***************************************************************************)
LEMMA OthersRest ==
  ASSUME TypeInv, Known, Turns, NEW t \in Ticks, Step(t) \/ Fail(t), clean'
  PROVE  \A u \in Ticks : u # t => ticks[u].step = "off" /\ ticks'[u] = ticks[u]
<1>1. \A u \in Ticks : u # t => ticks'[u] = ticks[u]
  BY WhereTicksGo DEF StepsTo, Step
<1>2. CASE TickStarts(t) \/ Attach(t)
  <2>1. Alone(t)
    BY <1>2 DEF TickStarts, Attach
  <2>2. \A u \in Ticks \ {t} : ticks[u].step = "off"
    BY <2>1 DEF Alone
  <2> QED
    BY <1>1, <2>2
<1>3. CASE Stat(t) \/ Compare(t) \/ Open(t) \/ Read(t) \/ Scan(t) \/ ReadWhole(t) \/ Fail(t)
  <2>1. clean' = clean /\ ticks[t].step # "off"
    BY <1>3 DEF Stat, Compare, Open, Read, Scan, ReadWhole, Fail, Running
  <2> QED
    BY <1>1, <2>1 DEF Turns
<1> QED
  BY <1>2, <1>3 DEF Step

LEMMA TurnsKept ==
  ASSUME TypeInv, Known, Turns, [Next]_vars
  PROVE  Turns'
<1>1. ASSUME NEW t \in Ticks, Step(t) \/ Fail(t), clean'
      PROVE  Turns'
  BY <1>1, OthersRest DEF Turns
<1>2. CASE ~clean' \/ Truncate
  BY <1>2 DEF Truncate, Turns
<1>3. CASE (\E f \in Files : Write(f)) \/ ScanBecomesDue \/ UNCHANGED vars
  BY <1>3 DEF Write, ScanBecomesDue, vars, Turns
<1> QED
  BY <1>1, <1>2, <1>3 DEF Next

-----------------------------------------------------------------------------
(***************************************************************************)
(* What one read does to the text: it continues the log from where the     *)
(* pending text starts.                                                    *)
(***************************************************************************)
Reading(t) ==
  clean /\ ticks[t].step = "read" /\ TypeInv /\ Known /\ Logs /\ Attached /\ Fits(ticks[t])

LEMMA ReadPlace ==
  ASSUME NEW t \in Ticks, Reading(t)
  PROVE  LET log == content[currentFile]
             size == ticks[t].size
         IN  /\ currentFile \in Files /\ log \in Seq(Byte) /\ Len(log) \in Nat /\ WellFormed(log)
             /\ ticks[t].file = currentFile /\ ticks[t].prev = offset /\ ticks[t].pos = offset
             /\ offset \in Nat /\ from \in Nat /\ size \in Nat /\ from <= offset
             /\ offset < size /\ size <= Len(log)
             /\ Unfinished(log) /\ pending \in Seq(Decoded)
             /\ Len(pending) \in Nat /\ Start \in Nat /\ from <= Start
<1>1. /\ currentFile \in Files /\ ticks[t].file = currentFile
      /\ ticks[t].prev = offset /\ ticks[t].pos = offset
      /\ offset < ticks[t].size /\ ticks[t].size <= Len(content[currentFile])
  BY DEF Reading, Fits, TypeInv
<1>2. content[currentFile] \in Seq(Byte) /\ Len(content[currentFile]) \in Nat /\ WellFormed(content[currentFile])
  BY <1>1, WholeSizeTypes DEF Reading, Logs
<1>3. offset \in Nat /\ from \in Nat /\ ticks[t].size \in Nat /\ pending \in Seq(Decoded)
  BY DEF Reading, TypeInv, Tick
<1>4. from <= offset /\ Unfinished(content[currentFile])
  BY DEF Reading, Fits, Attached
<1>5. Len(pending) \in Nat
  BY <1>3
<1>6. Start \in Int /\ from <= Start
  BY <1>3, <1>4, <1>5 DEF Unfinished, Start
<1> QED
  BY <1>1, <1>2, <1>3, <1>4, <1>5, <1>6

LEMMA ReadText ==
  ASSUME NEW t \in Ticks, Reading(t)
  PROVE  LET text == pending \o Decode(Buffer(t)) IN
           /\ text \in Seq(Decoded) /\ Len(text) = ticks[t].size - Start
           /\ \A k \in 1..Len(pending) : text[k] = pending[k]
           /\ \A k \in 1..Len(text) : text[k].byte = content[currentFile][Start + k]
<1> DEFINE log == content[currentFile]
           size == ticks[t].size
           read == Decode(Buffer(t))
           text == pending \o read
<1>1. /\ currentFile \in Files /\ log \in Seq(Byte) /\ Len(log) \in Nat
      /\ ticks[t].file = currentFile /\ ticks[t].prev = offset /\ ticks[t].pos = offset
      /\ offset \in Nat /\ size \in Nat /\ offset < size /\ size <= Len(log)
      /\ Unfinished(log) /\ pending \in Seq(Decoded)
      /\ Len(pending) \in Nat /\ Start \in Nat
  BY ReadPlace
<1>2. Buffer(t) \in Seq(Byte) /\ read \in Seq(Decoded) /\ text \in Seq(Decoded)
  <2>1. Nul \in Byte
    BY BoundsAssumption DEF Nul, Byte
  <2> QED
    BY <1>1, <2>1, TextTypes DEF Reading, Texts, Decoded
<1>3. Buffer(t) = [i \in 1..(size - offset) |-> log[offset + i]]
  BY <1>1 DEF Buffer
<1>4. Len(Buffer(t)) = size - offset
  <2>1. DOMAIN Buffer(t) = 1..(size - offset) /\ size - offset \in Nat
    BY <1>1, <1>3
  <2> QED
    BY <1>2, <2>1, LenProperties
<1>5. Len(read) = size - offset /\ \A i \in 1..(size - offset) : read[i].byte = log[offset + i]
  BY <1>2, <1>3, <1>4, DecodeKeeps
<1>6. /\ Len(text) = Len(pending) + Len(read)
      /\ \A k \in 1..(Len(pending) + Len(read)) :
           text[k] = IF k <= Len(pending) THEN pending[k] ELSE read[k - Len(pending)]
  BY <1>1, <1>2, ConcatProperties
<1>7. \A i \in 1..Len(pending) : pending[i].byte = log[Start + i]
  BY <1>1 DEF Unfinished
<1>8. Start = offset - Len(pending)
  BY DEF Start
<1> HIDE DEF log, size, read, text
<1>9. Len(text) = size - Start /\ \A k \in 1..Len(pending) : text[k] = pending[k]
  BY <1>1, <1>5, <1>6, <1>8
<1>10. ASSUME NEW k \in 1..Len(text)
       PROVE  text[k].byte = log[Start + k]
  <2>1. k \in Nat /\ k >= 1 /\ k <= Len(pending) + Len(read)
    BY <1>1, <1>5, <1>6
  <2>2. CASE k <= Len(pending)
    BY <1>1, <1>6, <1>7, <2>1, <2>2
  <2>3. CASE k > Len(pending)
    <3>1. text[k] = read[k - Len(pending)]
      BY <1>1, <1>6, <2>1, <2>3
    <3>2. k - Len(pending) \in 1..(size - offset) /\ offset + (k - Len(pending)) = Start + k
      BY <1>1, <1>5, <1>8, <2>1, <2>3
    <3> QED
      BY <1>5, <3>1, <3>2
  <2> QED
    BY <1>1, <2>1, <2>2, <2>3
<1> QED
  BY <1>2, <1>9, <1>10 DEF log, size, read, text

\* The bytes before the end of a line.
LEMMA WholeLine ==
  ASSUME NEW log \in Seq(Byte), WellFormed(log), NEW i \in 1..Len(log), End(log[i])
  PROVE  /\ i >= 3 /\ log[i - 1] = [log[i] EXCEPT !.at = 2] /\ log[i - 2] = [log[i] EXCEPT !.at = 1]
         /\ i = 3 \/ End(log[i - 3])
<1>1. Len(log) \in Nat /\ i \in Nat /\ \A j \in 1..Len(log) : log[j] \in Byte
  OBVIOUS
<1>2. i > 1 /\ Follows(log[i - 1], log[i]) /\ log[i].at = 3
  BY DEF WellFormed, End
<1>3. i - 1 \in 1..Len(log) /\ log[i - 1].at = 2
  <2>1. i - 1 \in 1..Len(log)
    BY <1>1, <1>2
  <2>2. log[i - 1].at \in Nat /\ log[i].at = log[i - 1].at + 1
    BY <1>1, <1>2, <2>1 DEF Follows, Byte
  <2> QED
    BY <1>2, <2>1, <2>2
<1>4. i - 1 > 1 /\ Follows(log[i - 2], log[i - 1])
  <2>1. (i - 1) - 1 = i - 2
    BY <1>1
  <2>2. i - 1 > 1 /\ Follows(log[(i - 1) - 1], log[i - 1])
    BY <1>3 DEF WellFormed
  <2> QED
    BY <2>1, <2>2
<1>5. i - 2 \in 1..Len(log) /\ log[i - 2].at = 1
  <2>1. i - 2 \in 1..Len(log)
    BY <1>1, <1>3, <1>4
  <2>2. log[i - 2] \in Byte
    BY <2>1
  <2>3. log[i - 2].at \in 1..3 /\ log[i - 1].at = log[i - 2].at + 1
    BY <1>4, <2>2 DEF Follows, Byte
  <2> QED
    BY <1>3, <2>1, <2>3
<1>6. (i - 2 = 1 \/ End(log[(i - 2) - 1])) /\ (i - 2) - 1 = i - 3
  BY <1>1, <1>5 DEF WellFormed
<1>7. ASSUME NEW byte \in Byte, byte.line = log[i].line, byte.crlf = log[i].crlf
      PROVE  byte = [log[i] EXCEPT !.at = byte.at]
  <2> DEFINE other == [log[i] EXCEPT !.at = byte.at]
  <2>1. other \in Byte /\ other.line = byte.line /\ other.crlf = byte.crlf /\ other.at = byte.at
    BY <1>1, <1>7 DEF Byte
  <2>2. \A a, b \in Byte : a.line = b.line /\ a.at = b.at /\ a.crlf = b.crlf => a = b
    BY DEF Byte
  <2> HIDE DEF other
  <2>3. byte = other
    BY <2>1, <2>2
  <2> QED
    BY <2>3 DEF other
<1>8. log[i - 1] = [log[i] EXCEPT !.at = 2]
  BY <1>1, <1>2, <1>3, <1>7 DEF Follows
<1>9. log[i - 2] = [log[i] EXCEPT !.at = 1]
  BY <1>1, <1>2, <1>4, <1>5, <1>7 DEF Follows
<1> QED
  BY <1>1, <1>4, <1>6, <1>8, <1>9

\* A line that this read completes is one that it reports.
LEMMA ReadReports ==
  ASSUME NEW t \in Ticks, Reading(t), Read(t),
         NEW i \in Whole(currentFile), i - 3 >= from, i > offset, i <= ticks[t].size
  PROVE  \E event \in announced' :
           event.file = currentFile /\ event.line = content[currentFile][i].line
<1> DEFINE text == pending \o Decode(Buffer(t))
           log == content[currentFile]
           k == i - Start
<1>1. /\ currentFile \in Files /\ log \in Seq(Byte) /\ Len(log) \in Nat /\ WellFormed(log)
      /\ ticks[t].file = currentFile /\ offset \in Nat /\ ticks[t].size \in Nat
      /\ ticks[t].size <= Len(log) /\ from \in Nat
      /\ Unfinished(log) /\ Len(pending) \in Nat /\ Start \in Nat
  BY ReadPlace
<1>2. /\ Len(text) = ticks[t].size - Start
      /\ \A j \in 1..Len(text) : text[j].byte = log[Start + j]
  BY ReadText
<1>3. i \in 1..Len(log) /\ End(log[i]) /\ i \in Nat
  BY <1>1 DEF Whole
<1>4. /\ i >= 3 /\ log[i - 1] = [log[i] EXCEPT !.at = 2] /\ log[i - 2] = [log[i] EXCEPT !.at = 1]
      /\ i = 3 \/ End(log[i - 3])
  BY <1>1, <1>3, WholeLine
<1>5. ~End(log[i - 1]) /\ ~End(log[i - 2])
  <2>1. log[i] \in Byte
    BY <1>1, <1>3
  <2>2. [log[i] EXCEPT !.at = 2].at = 2 /\ [log[i] EXCEPT !.at = 1].at = 1
    BY <2>1 DEF Byte
  <2> QED
    BY <1>4, <2>2 DEF End
<1>6. i - Start >= 3
  <2>1. Start = from \/ End(log[Start])
    BY <1>1 DEF Unfinished
  <2>2. Start <= offset /\ Start < i
    BY <1>1, <1>3 DEF Start
  <2>3. Start = from \/ (Start # i - 1 /\ Start # i - 2)
    BY <1>5, <2>1
  <2> QED
    BY <1>1, <1>3, <2>2, <2>3
<1> HIDE DEF text, log
<1>7. /\ k \in 3..Len(text) /\ Start + k = i /\ Start + (k - 1) = i - 1
      /\ Start + (k - 2) = i - 2 /\ Start + (k - 3) = i - 3
  BY <1>1, <1>2, <1>3, <1>6
<1>8. /\ text[k].byte = log[i] /\ text[k - 1].byte = log[i - 1] /\ text[k - 2].byte = log[i - 2]
      /\ k # 3 => text[k - 3].byte = log[i - 3]
  <2>1. Len(text) \in Nat
    BY <1>1, <1>2
  <2>2. /\ k \in 1..Len(text) /\ k - 1 \in 1..Len(text) /\ k - 2 \in 1..Len(text)
        /\ k # 3 => k - 3 \in 1..Len(text)
    <3> HIDE DEF k
    <3> QED
      BY <1>7, <2>1
  <2> HIDE DEF k
  <2> QED
    BY <1>2, <1>7, <2>2
<1>9. k = 3 \/ End(text[k - 3].byte)
  <2>1. k # 3 => i # 3
    BY <1>1, <1>3, <1>6
  <2> QED
    BY <1>4, <1>8, <2>1
<1>10. k \in Parsed(text)
  BY <1>3, <1>4, <1>7, <1>8, <1>9 DEF Parsed
<1>11. Completion(t, text, k) \in announced'
  BY <1>10 DEF Read, text
<1>12. Completion(t, text, k).file = currentFile /\ Completion(t, text, k).line = log[i].line
  BY <1>1, <1>8 DEF Completion
<1> QED
  BY <1>11, <1>12 DEF log

\* What is kept after a read is what follows the last end of a line.
LEMMA ReadRest ==
  ASSUME NEW t \in Ticks, Reading(t)
  PROVE  LET text == pending \o Decode(Buffer(t)) IN
           \E m \in 0..Len(text) :
             /\ Rest(text) = SubSeq(text, m + 1, Len(text))
             /\ \A j \in (m + 1)..Len(text) : ~End(text[j].byte)
             /\ m = 0 \/ End(text[m].byte)
<1> DEFINE text == pending \o Decode(Buffer(t))
           log == content[currentFile]
           n == Len(text)
           after == {i \in 1..Len(text) : \A j \in i..Len(text) : ~End(text[j].byte)}
<1>1. /\ log \in Seq(Byte) /\ Len(log) \in Nat /\ WellFormed(log) /\ Start \in Nat
      /\ ticks[t].size \in Nat /\ offset \in Nat /\ offset < ticks[t].size
      /\ ticks[t].size <= Len(log) /\ Len(pending) \in Nat
  BY ReadPlace
<1>2. n = ticks[t].size - Start /\ \A j \in 1..n : text[j].byte = log[Start + j]
  BY ReadText
<1>3. n \in Nat /\ n > 0 /\ Start + n <= Len(log)
  BY <1>1, <1>2 DEF Start
<1>4. Rest(text) = SubSeq(text, n - Cardinality(after) + 1, n)
  BY DEF Rest
<1>5. \A i : i \in after <=> i \in 1..n /\ \A j \in i..n : ~End(text[j].byte)
  OBVIOUS
<1> HIDE DEF text, log, after, n
<1>6. \A j \in 1..n : log[Start + j] \in Byte /\ Start + j \in 1..Len(log)
  BY <1>1, <1>3
\* A byte that is not the first of its line follows the one before it.
<1>7. \A j \in 2..n : IF text[j].byte.at = 1 THEN End(text[j - 1].byte)
                      ELSE text[j].byte.at = text[j - 1].byte.at + 1
  <2>1. SUFFICES ASSUME NEW j \in 2..n
                 PROVE  IF text[j].byte.at = 1 THEN End(text[j - 1].byte)
                        ELSE text[j].byte.at = text[j - 1].byte.at + 1
    OBVIOUS
  <2>2. j \in 1..n /\ j - 1 \in 1..n /\ Start + (j - 1) = (Start + j) - 1 /\ Start + j # 1
    BY <1>1, <1>3
  <2>3. text[j].byte = log[Start + j] /\ text[j - 1].byte = log[(Start + j) - 1]
    BY <1>2, <2>2
  <2> QED
    BY <1>1, <1>6, <2>2, <2>3 DEF WellFormed, Follows
<1>8. \A j \in 1..n : text[j].byte.at \in 1..3
  BY <1>2, <1>6 DEF Byte
<1>9. \E m \in 0..n : (\A j \in (m + 1)..n : ~End(text[j].byte)) /\ (m = 0 \/ End(text[m].byte))
  <2>1. CASE End(text[n].byte)
    <3>1. n \in 0..n /\ \A j \in (n + 1)..n : FALSE
      BY <1>3
    <3> QED
      BY <2>1, <3>1
  <2>2. CASE ~End(text[n].byte) /\ (n = 1 \/ End(text[n - 1].byte))
    <3>1. n - 1 \in 0..n /\ (n = 1 => n - 1 = 0) /\ \A j \in ((n - 1) + 1)..n : j = n
      BY <1>3
    <3> QED
      BY <2>2, <3>1
  <2>3. CASE ~End(text[n].byte) /\ n # 1 /\ ~End(text[n - 1].byte)
    <3>1. n \in 2..n /\ n - 1 \in 1..n
      BY <1>3, <2>3
    <3>2. text[n].byte.at = text[n - 1].byte.at + 1 /\ text[n].byte.at # 3 /\ text[n - 1].byte.at = 1
      BY <1>7, <1>8, <2>3, <3>1 DEF End
    <3>3. n = 2 \/ End(text[n - 2].byte)
      <4>1. SUFFICES ASSUME n # 2 PROVE End(text[n - 2].byte)
        OBVIOUS
      <4>2. n - 1 \in 2..n /\ (n - 1) - 1 = n - 2
        BY <1>3, <3>1, <4>1
      <4> QED
        BY <1>7, <3>2, <4>2
    <3>4. n - 2 \in 0..n /\ (n = 2 => n - 2 = 0) /\ \A j \in ((n - 2) + 1)..n : j = n \/ j = n - 1
      BY <1>3, <3>1
    <3> QED
      BY <2>3, <3>3, <3>4
  <2> QED
    BY <2>1, <2>2, <2>3
<1>10. PICK m \in 0..n : (\A j \in (m + 1)..n : ~End(text[j].byte)) /\ (m = 0 \/ End(text[m].byte))
  BY <1>9
<1>11. after = (m + 1)..n
  <2>1. ASSUME NEW i \in (m + 1)..n PROVE i \in after
    <3>1. i \in 1..n /\ \A j \in i..n : j \in (m + 1)..n
      BY <1>3, <2>1
    <3> QED
      BY <1>5, <1>10, <3>1
  <2>2. ASSUME NEW i \in after PROVE i \in (m + 1)..n
    <3>1. i \in 1..n
      BY <1>5
    <3>2. i <= m => m \in i..n /\ m # 0
      BY <1>3, <3>1
    <3>3. ~(i <= m)
      BY <1>5, <1>10, <3>2
    <3> QED
      BY <1>3, <3>1, <3>3
  <2> QED
    BY <2>1, <2>2
<1>12. n - Cardinality(after) + 1 = m + 1
  <2>1. Cardinality((m + 1)..n) = IF m + 1 > n THEN 0 ELSE n - (m + 1) + 1
    BY <1>3, FS_Interval
  <2> QED
    BY <1>3, <1>11, <2>1
<1>13. Rest(text) = SubSeq(text, m + 1, n)
  BY <1>4, <1>12
<1> QED
  BY <1>10, <1>13 DEF text, n

-----------------------------------------------------------------------------
(***************************************************************************)
(* The watcher and the tick under way stay at one place of one log.        *)
(***************************************************************************)
LEMMA AttachedKept ==
  ASSUME Inv, [Next]_vars, TypeInv'
  PROVE  Attached'
<1>1. ASSUME UNCHANGED <<clean, content, currentFile, offset, from, pending>>
      PROVE  Attached'
  BY <1>1 DEF Inv, Attached, Unfinished, Start
<1>2. ASSUME NEW t \in Ticks, Step(t), clean', currentFile' # None
      PROVE  Attached'
  <2>1. CASE TickStarts(t) \/ Stat(t) \/ Compare(t) \/ Open(t) \/ Scan(t) \/ ReadWhole(t)
    <3>1. UNCHANGED <<clean, content, currentFile, offset, from, pending>>
      BY <1>2, <2>1 DEF TickStarts, Stat, Compare, Open, Scan, ReadWhole, logVars, watcherVars
    <3> QED
      BY <1>1, <3>1
  <2>2. CASE Read(t)
    <3>1. UNCHANGED <<clean, content, currentFile, from>> /\ offset' = ticks[t].size
          /\ ticks[t].step = "read" /\ pending' = Rest(pending \o Decode(Buffer(t)))
      BY <2>2 DEF Read, Running, logVars
    <3>2. Reading(t)
      BY <1>2, <3>1 DEF Inv, Following, Reading
    <3> DEFINE text == pending \o Decode(Buffer(t))
               log == content[currentFile]
               size == ticks[t].size
    <3>3. /\ from <= offset /\ offset < size /\ size <= Len(log) /\ Len(log) \in Nat
          /\ from \in Nat /\ offset \in Nat /\ size \in Nat
          /\ Start \in Nat /\ from <= Start /\ Start <= offset /\ (Start = from \/ End(log[Start]))
      BY <3>2, ReadPlace DEF Unfinished, Start
    <3>4. text \in Seq(Decoded) /\ Len(text) = size - Start /\ \A k \in 1..Len(text) : text[k].byte = log[Start + k]
      BY <3>2, ReadText
    <3>5. PICK m \in 0..Len(text) :
            /\ Rest(text) = SubSeq(text, m + 1, Len(text))
            /\ \A j \in (m + 1)..Len(text) : ~End(text[j].byte)
            /\ m = 0 \/ End(text[m].byte)
      BY <3>2, ReadRest
    <3> HIDE DEF text, log, size
    <3>6. m \in Nat /\ Len(text) \in Nat /\ m <= Len(text)
      BY <3>3, <3>4, <3>5
    <3>7. /\ Len(pending') = Len(text) - m
          /\ \A i \in 1..(Len(text) - m) : pending'[i] = text[m + i]
      <4>1. pending' = SubSeq(text, m + 1, Len(text))
        BY <3>1, <3>5 DEF text
      <4> QED
        BY <3>4, <4>1, Suffix
    <3>8. Start' = Start + m /\ from <= Start + m
      <4>1. Start' = size - (Len(text) - m)
        BY <3>1, <3>7 DEF Start, size
      <4> QED
        BY <3>3, <3>4, <3>6, <4>1
    <3>9. Start + m = from \/ End(log[Start + m])
      <4>1. m = 0 => Start + m = Start
        BY <3>3
      <4>2. m # 0 => m \in 1..Len(text)
        BY <3>6
      <4> QED
        BY <3>3, <3>4, <3>5, <4>1, <4>2
    <3>10. ASSUME NEW i \in 1..(Len(text) - m)
           PROVE  pending'[i].byte = log[(Start + m) + i] /\ ~End(log[(Start + m) + i])
      <4>1. m + i \in (m + 1)..Len(text) /\ m + i \in 1..Len(text) /\ Start + (m + i) = (Start + m) + i
        BY <3>3, <3>6
      <4>2. text[m + i].byte = log[(Start + m) + i] /\ ~End(text[m + i].byte)
        BY <3>4, <3>5, <4>1
      <4> QED
        BY <3>7, <4>2
    <3>11. content'[currentFile'] = log /\ offset' = size /\ from' = from
      BY <3>1 DEF log, size
    <3>12. Unfinished(log)'
      BY <3>7, <3>8, <3>9, <3>10, <3>11 DEF Unfinished, log
    <3> QED
      BY <3>1, <3>3, <3>11, <3>12 DEF Attached, log, size
  <2>3. CASE Attach(t)
    <3>1. offset' = ticks[t].size /\ from' = ticks[t].size /\ pending' = <<>>
      BY <1>2, <2>3 DEF Attach
    <3>2. offset' = from' /\ offset' \in Nat
      BY <3>1 DEF Inv, TypeInv, Tick
    <3>3. Start' = from' /\ Len(pending') = 0
      BY <3>1, <3>2 DEF Start
    <3> QED
      BY <3>2, <3>3 DEF Attached, Unfinished
  <2> QED
    BY <1>2, <2>1, <2>2, <2>3 DEF Step
<1>3. ASSUME NEW f \in Files, Write(f)
      PROVE  Attached'
  <2>1. UNCHANGED <<clean, currentFile, offset, from, pending>>
    BY <1>3 DEF Write, watcherVars
  <2>2. SUFFICES ASSUME clean, currentFile # None
                 PROVE  Attached'
    BY <2>1 DEF Attached
  <2> DEFINE log == content[currentFile]
  <2>3. /\ currentFile \in Files /\ offset \in Nat /\ from \in Nat /\ Len(pending) \in Nat
        /\ from <= offset /\ (offset > from => offset <= Len(log)) /\ Unfinished(log)
    BY <2>2 DEF Inv, TypeInv, Attached
  <2>4. /\ Len(log) <= Len(log') /\ \A i \in 1..Len(log) : log'[i] = log[i]
        /\ Len(log) \in Nat /\ Len(log') \in Nat
    <3>1. log' = content'[currentFile]
      BY <2>1
    <3>2. Len(content[currentFile]) \in Nat /\ Len(content'[currentFile]) \in Nat
      BY <2>3, WholeSizeTypes DEF Inv, TypeInv
    <3>3. /\ Len(content[currentFile]) <= Len(content'[currentFile])
          /\ \A i \in 1..Len(content[currentFile]) : content'[currentFile][i] = content[currentFile][i]
      BY <1>3, <2>3, WriteGrows DEF Inv
    <3> QED
      BY <3>1, <3>2, <3>3
  <2>5. Start' = Start /\ Start \in Nat /\ from <= Start /\ Start <= offset
    BY <2>1, <2>3 DEF Start, Unfinished
  <2> HIDE DEF log
  <2>6. Start > from => log'[Start] = log[Start]
    BY <2>3, <2>4, <2>5
  <2>7. \A i \in 1..Len(pending) : log'[Start + i] = log[Start + i]
    <3>1. SUFFICES ASSUME NEW i \in 1..Len(pending) PROVE log'[Start + i] = log[Start + i]
      OBVIOUS
    <3>2. Start + i <= offset /\ offset > from /\ Start + i \in Nat /\ Start + i >= 1
      BY <2>3, <2>5 DEF Start
    <3> QED
      BY <2>3, <2>4, <3>2
  <2>8. Unfinished(log)'
    BY <2>1, <2>3, <2>5, <2>6, <2>7 DEF Unfinished
  <2> QED
    BY <2>1, <2>3, <2>4, <2>8 DEF Attached, log
<1>4. ASSUME NEW t \in Ticks, Fail(t), currentFile' # None
      PROVE  Attached'
  BY <1>1, <1>4 DEF Fail, logVars
<1>5. CASE Truncate \/ ~clean' \/ currentFile' = None
  BY <1>5 DEF Truncate, Attached
<1>6. CASE ScanBecomesDue \/ UNCHANGED vars
  BY <1>1, <1>6 DEF ScanBecomesDue, vars, logVars, watcherVars
<1> QED
  BY <1>2, <1>3, <1>4, <1>5, <1>6 DEF Next

\* One tick is looked at, since the others rest.
LEMMA FollowingLocal ==
  ASSUME Inv, NEW t \in Ticks, Step(t), clean', NEW tick, StepsTo(t, tick),
         tick.step \in {"stat", "statted", "open", "read"} => Fits(tick)'
  PROVE  Following'
<1>1. \A u \in Ticks : u # t => ticks'[u].step = "off"
  BY OthersRest DEF Inv
<1>2. ticks'[t] = tick
  BY DEF StepsTo
<1> QED
  BY <1>1, <1>2 DEF Following, Fits

LEMMA FollowingKept ==
  ASSUME Inv, [Next]_vars, TypeInv'
  PROVE  Following'
<1> USE DEF Inv
<1>1. ASSUME NEW t \in Ticks, Step(t), clean'
      PROVE  Following'
  <2>1. CASE TickStarts(t)
    <3>1. UNCHANGED <<content, currentFile, offset>>
      BY <2>1 DEF TickStarts, logVars
    <3>2. CASE currentFile = None
      <4>1. StepsTo(t, [Off EXCEPT !.step = "scan"])
        BY <2>1, <3>2, WhereTicksGo
      <4> QED
        BY <1>1, <4>1, FollowingLocal, TickFields DEF TypeInv
    <3>3. CASE currentFile # None
      <4> DEFINE tick == [Off EXCEPT !.step = "stat", !.file = currentFile]
      <4>1. StepsTo(t, tick) /\ tick.step = "stat" /\ tick.file = currentFile
        BY <2>1, <3>3, WhereTicksGo, TickFields DEF TypeInv
      <4> HIDE DEF tick
      <4> QED
        BY <1>1, <3>1, <3>3, <4>1, FollowingLocal DEF Fits
    <3> QED
      BY <3>2, <3>3
  <2>2. CASE Stat(t)
    <3>1. UNCHANGED <<clean, content, currentFile, offset>> /\ ticks[t].step = "stat"
      BY <2>2 DEF Stat, Running, logVars, watcherVars
    <3>2. /\ currentFile # None /\ ticks[t].file = currentFile /\ currentFile \in Files
          /\ Len(content[currentFile]) \in Nat
      BY <1>1, <3>1, WholeSizeTypes DEF Following, Fits, TypeInv
    <3> DEFINE tick == [ticks[t] EXCEPT !.step = "statted", !.size = Len(content[ticks[t].file])]
    <3>3. StepsTo(t, tick)
      BY <2>2, WhereTicksGo
    <3>4. tick.step = "statted" /\ tick.file = currentFile /\ tick.size = Len(content[currentFile])
      BY <3>2, TickFields
    <3> HIDE DEF tick
    <3> QED
      BY <1>1, <3>1, <3>2, <3>3, <3>4, FollowingLocal DEF Fits
  <2>3. CASE Compare(t)
    <3>1. UNCHANGED <<clean, content, currentFile, offset>> /\ ticks[t].step = "statted"
      BY <2>3 DEF Compare, Running, logVars, watcherVars
    <3>2. Fits(ticks[t])
      BY <1>1, <3>1 DEF Following
    <3>3. ticks[t].size \in Nat /\ offset \in Nat
      BY DEF TypeInv, Tick
    <3>4. \/ ticks[t].size < offset /\ StepsTo(t, [ticks[t] EXCEPT !.step = "init", !.size = 0])
          \/ ticks[t].size = offset /\ StepsTo(t, AfterRead(t))
          \/ /\ ~(ticks[t].size < offset) /\ ticks[t].size # offset
             /\ StepsTo(t, [ticks[t] EXCEPT !.step = "open", !.prev = offset])
      BY <2>3, WhereTicksGo, Zenon
    <3>5. CASE ticks[t].size = offset
      <4>1. StepsTo(t, AfterRead(t))
        BY <3>3, <3>5, <3>4
      <4> QED
        BY <1>1, <4>1, FollowingLocal, AfterReadTypes
    <3>6. CASE ticks[t].size < offset
      <4> DEFINE tick == [ticks[t] EXCEPT !.step = "init", !.size = 0]
      <4>1. StepsTo(t, tick) /\ tick.step = "init"
        BY <3>3, <3>4, <3>6, TickFields DEF TypeInv
      <4> HIDE DEF tick
      <4> QED
        BY <1>1, <4>1, FollowingLocal
    <3>7. CASE ticks[t].size > offset
      <4> DEFINE tick == [ticks[t] EXCEPT !.step = "open", !.prev = offset]
      <4>1. StepsTo(t, tick)
        BY <3>3, <3>4, <3>7
      <4>2. /\ tick.step = "open" /\ tick.file = ticks[t].file /\ tick.size = ticks[t].size
            /\ tick.prev = offset
        BY TickFields DEF TypeInv
      <4> HIDE DEF tick
      <4> QED
        BY <1>1, <3>1, <3>2, <3>3, <3>7, <4>1, <4>2, FollowingLocal DEF Fits
    <3> QED
      BY <3>3, <3>5, <3>6, <3>7
  <2>4. CASE Open(t)
    <3>1. UNCHANGED <<clean, content, currentFile, offset>> /\ ticks[t].step = "open"
      BY <2>4 DEF Open, Running, logVars, watcherVars
    <3>2. Fits(ticks[t])
      BY <1>1, <3>1 DEF Following
    <3> DEFINE tick == [ticks[t] EXCEPT !.step = "read", !.pos = offset]
    <3>3. /\ StepsTo(t, tick) /\ tick.step = "read" /\ tick.file = ticks[t].file
          /\ tick.size = ticks[t].size /\ tick.prev = ticks[t].prev /\ tick.pos = offset
      BY <2>4, WhereTicksGo, TickFields DEF TypeInv
    <3> HIDE DEF tick
    <3> QED
      BY <1>1, <3>1, <3>2, <3>3, FollowingLocal DEF Fits
  <2>5. CASE Read(t) \/ Attach(t)
    <3>1. StepsTo(t, AfterRead(t))
      BY <2>5, WhereTicksGo
    <3> QED
      BY <1>1, <3>1, FollowingLocal, AfterReadTypes
  <2>6. CASE Scan(t)
    <3>1. UNCHANGED <<content, currentFile, offset>>
      BY <2>6 DEF Scan, logVars, watcherVars
    <3>2. CASE latest = None
      <4>1. StepsTo(t, Off) /\ Off.step = "off"
        BY <2>6, <3>2, WhereTicksGo DEF Off
      <4> QED
        BY <1>1, <4>1, FollowingLocal
    <3>3. CASE latest # None /\ latest = currentFile
      <4> DEFINE tick == [Off EXCEPT !.step = "stat", !.file = latest, !.again = TRUE]
      <4>1. StepsTo(t, tick)
        BY <2>6, <3>3, WhereTicksGo
      <4>2. tick.step = "stat" /\ tick.file = latest
        BY TickFields DEF TypeInv
      <4> HIDE DEF tick
      <4> QED
        BY <1>1, <3>1, <3>3, <4>1, <4>2, FollowingLocal DEF Fits
    <3>4. CASE latest # None /\ latest # currentFile
      <4> DEFINE tick == [Off EXCEPT !.step = "init", !.file = latest, !.again = TRUE]
      <4>1. StepsTo(t, tick)
        BY <2>6, <3>4, WhereTicksGo
      <4>2. tick.step = "init"
        BY TickFields DEF TypeInv
      <4> HIDE DEF tick
      <4> QED
        BY <1>1, <4>1, <4>2, FollowingLocal
    <3> QED
      BY <3>2, <3>3, <3>4
  <2>7. CASE ReadWhole(t)
    <3> DEFINE tick == [ticks[t] EXCEPT !.step = "attach", !.size = WholeSize(ticks[t].file),
                                        !.seen = Noted(t)]
    <3>1. StepsTo(t, tick)
      BY <2>7, WhereTicksGo
    <3>2. WholeSize(ticks[t].file) \in Nat
      BY <2>7, WholeSizeTypes DEF ReadWhole, Running, Known
    <3>3. tick.step = "attach"
      BY <3>2, TickFields
    <3> HIDE DEF tick
    <3> QED
      BY <1>1, <3>1, <3>3, FollowingLocal
  <2> QED
    BY <1>1, <2>1, <2>2, <2>3, <2>4, <2>5, <2>6, <2>7 DEF Step
<1>2. ASSUME NEW t \in Ticks, Fail(t), clean'
      PROVE  Following'
  <2>1. UNCHANGED <<content, offset, clean>> /\ ticks[t].step # "off"
    BY <1>2 DEF Fail, logVars
  <2>2. CASE UNCHANGED <<ticks, currentFile>>
    BY <2>1, <2>2 DEF Following, Fits
  <2>3. CASE StepsTo(t, [Off EXCEPT !.step = "scan"])
    <3>1. \A u \in Ticks : ticks'[u].step \in {"off", "scan"}
      <4>1. ticks'[t].step = "scan"
        BY <2>3 DEF StepsTo, Off
      <4>2. \A u \in Ticks : u # t => ticks'[u].step = "off"
        BY <1>2, OthersRest
      <4> QED
        BY <4>1, <4>2
    <3> QED
      BY <3>1 DEF Following
  <2> QED
    BY <1>2, <2>2, <2>3, WhereTicksGo
<1>3. ASSUME NEW f \in Files, Write(f)
      PROVE  Following'
  <2>1. UNCHANGED <<clean, ticks, currentFile, offset>>
    BY <1>3 DEF Write, watcherVars
  <2>2. \A g \in Files : /\ Len(content[g]) <= Len(content'[g])
                         /\ Len(content[g]) \in Nat /\ Len(content'[g]) \in Nat
    BY <1>3, WriteGrows, WholeSizeTypes DEF TypeInv
  <2>3. SUFFICES ASSUME clean, NEW t \in Ticks,
                        ticks[t].step \in {"stat", "statted", "open", "read"}
                 PROVE  Fits(ticks[t])'
    BY <2>1 DEF Following
  <2>4. Fits(ticks[t]) /\ ticks[t].size \in Nat /\ currentFile \in Files
    BY <2>3 DEF Following, TypeInv, Tick, Fits
  <2> QED
    BY <2>1, <2>2, <2>4 DEF Fits
<1>4. CASE Truncate \/ ~clean'
  BY <1>4 DEF Truncate, Following
<1>5. CASE ScanBecomesDue \/ UNCHANGED vars
  BY <1>5 DEF ScanBecomesDue, vars, logVars, watcherVars, Following, Fits
<1> QED
  BY <1>1, <1>2, <1>3, <1>4, <1>5 DEF Next

LEMMA NothingMissedKept ==
  ASSUME Inv, [Next]_vars, TypeInv'
  PROVE  NothingMissed'
<1>1. ASSUME UNCHANGED <<clean, content, currentFile, offset, from>>, announced \subseteq announced'
      PROVE  NothingMissed'
  BY <1>1 DEF Inv, NothingMissed, Whole
<1>2. ASSUME NEW t \in Ticks, Step(t), clean', currentFile' # None
      PROVE  NothingMissed'
  <2>1. CASE TickStarts(t) \/ Stat(t) \/ Compare(t) \/ Open(t) \/ Scan(t) \/ ReadWhole(t)
    <3>1. UNCHANGED <<clean, content, currentFile, offset, from, announced>>
      BY <1>2, <2>1 DEF TickStarts, Stat, Compare, Open, Scan, ReadWhole, logVars, watcherVars
    <3> QED
      BY <1>1, <3>1
  <2>2. CASE Read(t)
    <3>1. UNCHANGED <<clean, content, currentFile, from>> /\ offset' = ticks[t].size
          /\ ticks[t].step = "read" /\ announced \subseteq announced'
      BY <2>2 DEF Read, Running, logVars
    <3>2. Reading(t)
      BY <1>2, <3>1 DEF Inv, Following, Reading
    <3>3. ASSUME NEW i \in Whole(currentFile), i - 3 >= from, i <= ticks[t].size
          PROVE  \E event \in announced' :
                   event.file = currentFile /\ event.line = content[currentFile][i].line
      <4>1. CASE i <= offset
        BY <1>2, <3>1, <3>3, <4>1 DEF Inv, NothingMissed
      <4>2. CASE i > offset
        BY <2>2, <3>2, <3>3, <4>2, ReadReports
      <4>3. i \in Nat /\ offset \in Nat
        BY DEF Whole, Inv, TypeInv
      <4> QED
        BY <4>1, <4>2, <4>3
    <3> QED
      BY <3>1, <3>3 DEF NothingMissed, Whole
  <2>3. CASE Attach(t)
    <3>1. offset' = from' /\ from' \in Nat
      BY <1>2, <2>3 DEF Attach, TypeInv
    <3>2. \A i \in Whole(currentFile)' : i \in Int
      BY DEF Whole
    <3> QED
      BY <3>1, <3>2 DEF NothingMissed
  <2> QED
    BY <1>2, <2>1, <2>2, <2>3 DEF Step
<1>3. ASSUME NEW f \in Files, Write(f)
      PROVE  NothingMissed'
  <2>1. UNCHANGED <<clean, currentFile, offset, from, announced>>
    BY <1>3 DEF Write, watcherVars
  <2>2. SUFFICES ASSUME clean, currentFile # None
                 PROVE  NothingMissed'
    BY <2>1 DEF NothingMissed
  <2>3. /\ currentFile \in Files /\ offset \in Nat /\ from \in Nat
        /\ offset > from => offset <= Len(content[currentFile])
    BY <2>2 DEF Inv, TypeInv, Attached
  <2>4. \A i \in 1..Len(content[currentFile]) : content'[currentFile][i] = content[currentFile][i]
    BY <1>3, <2>3, WriteGrows DEF Inv
  <2>5. Len(content[currentFile]) \in Nat /\ Len(content'[currentFile]) \in Nat
    BY <2>3, WholeSizeTypes DEF TypeInv
  <2>6. ASSUME NEW i \in Whole(currentFile)', i - 3 >= from, i <= offset
        PROVE  i \in Whole(currentFile) /\ content'[currentFile][i] = content[currentFile][i]
    <3>1. i \in 1..Len(content[currentFile]) /\ End(content'[currentFile][i])
      BY <2>1, <2>3, <2>5, <2>6 DEF Whole, End
    <3> QED
      BY <2>4, <3>1 DEF Whole, End
  <2> QED
    BY <2>1, <2>2, <2>6 DEF Inv, NothingMissed
<1>4. ASSUME NEW t \in Ticks, Fail(t), currentFile' # None
      PROVE  NothingMissed'
  BY <1>1, <1>4 DEF Fail, logVars
<1>5. CASE Truncate \/ ~clean' \/ currentFile' = None
  BY <1>5 DEF Truncate, NothingMissed
<1>6. CASE ScanBecomesDue \/ UNCHANGED vars
  BY <1>1, <1>6 DEF ScanBecomesDue, vars, logVars, watcherVars
<1> QED
  BY <1>2, <1>3, <1>4, <1>5, <1>6 DEF Next

-----------------------------------------------------------------------------
(***************************************************************************)
(* What is announced has been written: a line that is written now is new.  *)
(***************************************************************************)
LEMMA NoneWritten == <<>> \in Seq(Written) /\ <<>> \in Texts(Written)
BY DEF Texts

LEMMA WrittenGrows ==
  ASSUME lines \in Nat, lines' \in Nat, lines <= lines'
  PROVE  /\ \A log \in Seq(Written) : log \in Seq(Written')
         /\ \A text \in Texts(Written) : text \in Texts(Written')
<1>1. Written \subseteq Written'
  BY DEF Written
<1> HIDE DEF Written
<1>2. [byte : Written, torn : BOOLEAN] \subseteq [byte : Written', torn : BOOLEAN]
  BY <1>1
<1>3. \A log \in Seq(Written) : log \in Seq(Written')
  BY <1>1, SeqMonotonic
<1>4. \A text \in Texts(Written) : text \in Texts(Written')
  BY <1>2, SeqMonotonic DEF Texts
<1> QED
  BY <1>3, <1>4

LEMMA FreshKept ==
  ASSUME TypeInv, TypeInv', Known, Fresh, [Next]_vars
  PROVE  Fresh'
<1>1. ASSUME UNCHANGED <<content, lines, announced>>, pending' = pending \/ pending' = <<>>
      PROVE  Fresh'
  <2>1. Written' = Written
    BY <1>1 DEF Written
  <2>2. pending' \in Texts(Written)
    BY <1>1, NoneWritten DEF Fresh
  <2> QED
    BY <1>1, <2>1, <2>2 DEF Fresh
<1>2. CASE Truncate
  <2>1. Written' = Written /\ UNCHANGED <<pending, announced, lines>>
    BY <1>2 DEF Truncate, Written, watcherVars
  <2>2. ASSUME NEW f \in Files
        PROVE  content'[f] \in Seq(Written)
    <3>1. content'[f] = content[f] \/ content'[f] = <<>>
      BY <1>2 DEF Truncate, TypeInv
    <3> QED
      BY <3>1, NoneWritten DEF Fresh
  <2> QED
    BY <2>1, <2>2 DEF Fresh
<1>3. ASSUME NEW f \in Files, Write(f)
      PROVE  Fresh'
  <2>1. PICK byte \in Byte :
          /\ content' = [content EXCEPT ![f] = Append(@, byte)]
          /\ lines' \in Nat /\ lines <= lines'
          /\ IF byte.at = 1 THEN byte.line = lines'
             ELSE Len(content[f]) > 0 /\ Follows(content[f][Len(content[f])], byte)
    BY <1>3, Appends
  <2>2. lines \in Nat /\ content[f] \in Seq(Written)
    BY DEF TypeInv, Fresh
  <2>3. /\ \A log \in Seq(Written) : log \in Seq(Written')
        /\ \A text \in Texts(Written) : text \in Texts(Written')
    BY <2>1, <2>2, WrittenGrows
  <2>4. byte \in Written'
    <3>1. byte.line \in 0..lines'
      <4>1. CASE byte.at = 1
        BY <2>1, <4>1
      <4>2. CASE byte.at # 1
        <5>1. content[f][Len(content[f])] \in Written /\ byte.line = content[f][Len(content[f])].line
          BY <2>1, <2>2, <4>2 DEF Follows
        <5>2. byte.line \in 0..lines
          BY <5>1 DEF Written
        <5> QED
          BY <2>1, <2>2, <5>2
      <4> QED
        BY <4>1, <4>2
    <3> QED
      BY <3>1 DEF Written, Byte
  <2>5. ASSUME NEW g \in Files
        PROVE  content'[g] \in Seq(Written')
    <3>1. content[g] \in Seq(Written')
      BY <2>3 DEF Fresh
    <3>2. content'[g] = IF g = f THEN Append(content[g], byte) ELSE content[g]
      BY <2>1 DEF TypeInv
    <3> HIDE DEF Written
    <3> QED
      BY <2>4, <3>1, <3>2
  <2>6. pending' \in Texts(Written')
    BY <1>3, <2>3 DEF Fresh, Write, watcherVars
  <2>7. \A event \in announced' : event.line \in 0..lines'
    <3>1. announced' = announced
      BY <1>3 DEF Write
    <3>2. 0..lines \subseteq 0..lines'
      BY <2>1, <2>2
    <3> QED
      BY <3>1, <3>2 DEF Fresh
  <2> QED
    BY <2>5, <2>6, <2>7 DEF Fresh, Texts
<1>4. ASSUME NEW t \in Ticks, Read(t)
      PROVE  Fresh'
  <2> DEFINE text == pending \o Decode(Buffer(t))
  <2>1. text \in Texts(Written)
    <3>1. ticks[t].step = "read" /\ content[ticks[t].file] \in Seq(Written)
      BY <1>4 DEF Read, Running, Known, Fresh
    <3>2. Nul \in Written
      BY DEF TypeInv, Nul, Written
    <3> QED
      BY <3>1, <3>2, TextTypes DEF Fresh
  <2>2. pending' = Rest(text) /\ UNCHANGED <<content, lines>>
    BY <1>4 DEF Read, logVars
  <2>3. pending' \in Texts(Written)
    BY <2>1, <2>2, RestKeeps DEF Texts
  <2>4. ASSUME NEW i \in Parsed(text)
        PROVE  Completion(t, text, i).line \in 0..lines
    <3>1. i \in 1..Len(text) /\ Completion(t, text, i).line = text[i].byte.line
      <4>1. Len(text) \in Nat
        BY <2>1 DEF Texts
      <4> HIDE DEF text
      <4> QED
        BY <2>4, <4>1 DEF Parsed, Completion
    <3>2. text[i].byte \in Written
      <4>1. text[i] \in [byte : Written, torn : BOOLEAN]
        BY <2>1, <3>1, ElementOfSeq DEF Texts
      <4> HIDE DEF text, Written
      <4> QED
        BY <4>1
    <3> QED
      BY <3>1, <3>2 DEF Written
  <2>5. announced' = announced \cup {Completion(t, text, i) : i \in Parsed(text)}
    BY <1>4 DEF Read
  <2> HIDE DEF text
  <2>6. \A event \in announced' : event.line \in 0..lines
    BY <2>4, <2>5 DEF Fresh
  <2>7. Written' = Written
    BY <2>2 DEF Written
  <2> HIDE DEF Written
  <2> QED
    BY <2>2, <2>3, <2>6, <2>7 DEF Fresh
<1>5. ASSUME NEW t \in Ticks, Step(t) \/ Fail(t), ~Read(t)
      PROVE  Fresh'
  BY <1>1, <1>5 DEF Step, TickStarts, Stat, Compare, Open, Scan, ReadWhole, Attach, Fail, logVars, watcherVars
<1>6. CASE ScanBecomesDue \/ UNCHANGED vars
  BY <1>1, <1>6 DEF ScanBecomesDue, vars, logVars, watcherVars
<1> QED
  BY <1>2, <1>3, <1>4, <1>5, <1>6 DEF Next

LEMMA StartsOnceKept ==
  ASSUME TypeInv, Fresh, StartsOnce, [Next]_vars
  PROVE  StartsOnce'
<1>1. ASSUME UNCHANGED content PROVE StartsOnce'
  BY <1>1 DEF StartsOnce
<1>2. CASE Truncate
  BY <1>2 DEF Truncate, StartsOnce, TypeInv
<1>3. ASSUME NEW f \in Files, Write(f)
      PROVE  StartsOnce'
  <2>1. PICK byte \in Byte :
          /\ content' = [content EXCEPT ![f] = Append(@, byte)]
          /\ byte.at = 1 => byte.line = lines + 1
    BY <1>3, Appends
  <2>2. /\ content'[f] = Append(content[f], byte)
        /\ \A g \in Files : g # f => content'[g] = content[g]
    BY <2>1 DEF TypeInv
  <2>3. content[f] \in Seq(Written) /\ Len(content[f]) \in Nat /\ lines \in Nat
    BY DEF Fresh, TypeInv
  <2>4. /\ Len(content'[f]) = Len(content[f]) + 1
        /\ \A i \in 1..Len(content[f]) : content'[f][i] = content[f][i]
        /\ content'[f][Len(content[f]) + 1] = byte
    BY <2>2, <2>3
  <2>5. ASSUME NEW i \in 1..Len(content[f])
        PROVE  content[f][i].line <= lines /\ content[f][i].line \in Nat
    <3>1. content[f][i] \in Written
      BY <2>3
    <3> QED
      BY <2>3, <3>1 DEF Written
  <2>6. ASSUME NEW i \in 1..Len(content'[f]), NEW j \in 1..Len(content'[f]),
               content'[f][i].at = 1, content'[f][j].at = 1, content'[f][i].line = content'[f][j].line
        PROVE  i = j
    <3>1. \A k \in 1..Len(content'[f]) : k \in 1..Len(content[f]) \/ k = Len(content[f]) + 1
      BY <2>3, <2>4
    <3>2. \A k \in 1..Len(content[f]) : content'[f][k].line # lines + 1
      BY <2>3, <2>4, <2>5
    <3>3. CASE i \in 1..Len(content[f]) /\ j \in 1..Len(content[f])
      BY <2>4, <2>6, <3>3 DEF StartsOnce
    <3> QED
      BY <2>1, <2>4, <2>6, <3>1, <3>2, <3>3
  <2> QED
    BY <2>2, <2>6 DEF StartsOnce
<1>4. ASSUME NEW t \in Ticks, Step(t) \/ Fail(t)
      PROVE  StartsOnce'
  BY <1>1, <1>4 DEF Step, TickStarts, Stat, Compare, Open, Read, Scan, ReadWhole, Attach, Fail, logVars
<1>5. CASE ScanBecomesDue \/ UNCHANGED vars
  BY <1>1, <1>5 DEF ScanBecomesDue, vars, logVars
<1> QED
  BY <1>2, <1>3, <1>4, <1>5 DEF Next

\* A write starts no line that was announced, and moves none.
LEMMA WriteUnheard ==
  ASSUME TypeInv, Fresh, NEW f \in Files, Write(f), NEW g \in Files,
         NEW event \in announced, NEW k \in 1..Len(content'[g]),
         content'[g][k].at = 1, content'[g][k].line = event.line
  PROVE  k \in 1..Len(content[g]) /\ content'[g][k] = content[g][k]
<1>1. PICK byte \in Byte :
        /\ content' = [content EXCEPT ![f] = Append(@, byte)]
        /\ byte.at = 1 => byte.line = lines + 1
  BY Appends
<1>2. /\ content'[f] = Append(content[f], byte)
      /\ \A h \in Files : h # f => content'[h] = content[h]
      /\ content[f] \in Seq(Byte)
  BY <1>1 DEF TypeInv
<1>3. event.line <= lines /\ event.line \in Int /\ lines \in Nat
  BY DEF Fresh, TypeInv
<1>4. CASE g = f
  <2>1. k \in 1..(Len(content[f]) + 1) /\ Len(content[f]) \in Nat
    BY <1>2, <1>4
  <2>2. content'[f][Len(content[f]) + 1] = byte
    BY <1>2
  <2>3. k # Len(content[f]) + 1
    BY <1>1, <1>3, <1>4, <2>2
  <2> QED
    BY <1>2, <1>4, <2>1, <2>3
<1> QED
  BY <1>2, <1>4

LEMMA AttachingKept ==
  ASSUME TypeInv, TypeInv', Known, Fresh, Attaching, [Next]_vars
  PROVE  Attaching'
<1>1. \A u \in Ticks : ticks[u].seen <= Disturbances /\ ticks[u].seen \in Int /\ Disturbances \in Nat
  BY Counts DEF Known, TypeInv, Tick
<1>2. ASSUME NEW t \in Ticks, Step(t) \/ Fail(t)
      PROVE  Attaching'
  <2>1. SUFFICES ASSUME NEW u \in Ticks, ticks'[u].step = "attach", ticks'[u].seen = Disturbances'
                 PROVE  Alone(u)' /\ Unheard(ticks[u].file, ticks[u].size)'
    BY DEF Attaching
  <2>2. \A v \in Ticks : v # t => ticks'[v] = ticks[v]
    BY <1>2, WhereTicksGo DEF StepsTo, Step
  <2>3. CASE u # t
    <3>1. ticks[u].step = "attach" /\ ticks[u].seen = Disturbances' /\ ~Alone(t)
      BY <2>1, <2>2, <2>3 DEF Alone
    <3>2. CASE TickStarts(t)
      <4>1. Disturbances' = Disturbances + 1
        BY <3>1, <3>2 DEF TickStarts, logVars, Disturbances, TypeInv
      <4> QED
        BY <1>1, <3>1, <4>1
    <3>3. CASE ~TickStarts(t)
      <4>1. Disturbances' = Disturbances /\ ticks[t].step # "off"
        BY <1>2, <3>3 DEF Step, Stat, Compare, Open, Read, Scan, ReadWhole, Attach, Fail, Running,
                          logVars, faultVars, Disturbances
      <4>2. Alone(u)
        BY <3>1, <4>1 DEF Attaching
      <4> QED
        BY <2>3, <4>1, <4>2 DEF Alone
    <3> QED
      BY <3>2, <3>3
  <2>4. CASE u = t /\ ReadWhole(t)
    <3>1. UNCHANGED <<content, announced, Disturbances>> /\ ticks[t].file \in Files
      BY <2>4 DEF ReadWhole, Running, Known, logVars, faultVars, Disturbances
    <3> DEFINE tick == [ticks[t] EXCEPT !.step = "attach", !.size = WholeSize(ticks[t].file), !.seen = Noted(t)]
    <3>2. ticks'[t] = tick
      BY <2>4, WhereTicksGo DEF StepsTo
    <3>3. tick.file = ticks[t].file /\ tick.size = WholeSize(ticks[t].file) /\ tick.seen = Noted(t)
      BY <3>1, WholeSizeTypes, TickFields
    <3> HIDE DEF tick
    <3>4. Alone(t)
      BY <1>1, <2>1, <2>4, <3>1, <3>2, <3>3 DEF Noted
    <3>5. Alone(t)'
      BY <2>2, <3>4 DEF Alone
    <3>6. Unheard(ticks[t].file, ticks[t].size)'
      BY <3>1, <3>2, <3>3, WholeSizeTypes DEF Unheard
    <3> QED
      BY <2>4, <3>5, <3>6
  <2>5. CASE u = t /\ ~ReadWhole(t)
    <3>1. ticks'[t].step # "attach"
      <4>1. CASE TickStarts(t)
        BY <4>1, WhereTicksGo, TickFields DEF StepsTo
      <4>2. CASE Stat(t)
        <5> DEFINE tick == [ticks[t] EXCEPT !.step = "statted", !.size = Len(content[ticks[t].file])]
        <5>1. Len(content[ticks[t].file]) \in Nat
          BY <4>2, WholeSizeTypes DEF Stat, Running, Known
        <5>2. tick.step = "statted"
          BY <5>1, TickFields
        <5>3. ticks'[t] = tick
          BY <4>2, WhereTicksGo DEF StepsTo
        <5> HIDE DEF tick
        <5> QED
          BY <5>2, <5>3
      <4>3. CASE Compare(t) \/ Read(t) \/ Attach(t)
        <5>1. ticks'[t] \in {[ticks[t] EXCEPT !.step = "init", !.size = 0], AfterRead(t),
                             [ticks[t] EXCEPT !.step = "open", !.prev = offset]}
          BY <4>3, WhereTicksGo DEF StepsTo
        <5>2. [ticks[t] EXCEPT !.step = "init", !.size = 0].step = "init"
              /\ [ticks[t] EXCEPT !.step = "open", !.prev = offset].step = "open"
          BY TickFields DEF TypeInv
        <5> QED
          BY <5>1, <5>2, AfterReadTypes
      <4>4. CASE Open(t)
        <5> DEFINE tick == [ticks[t] EXCEPT !.step = "read", !.pos = offset]
        <5>1. tick.step = "read"
          BY TickFields DEF TypeInv
        <5>2. ticks'[t] = tick
          BY <4>4, WhereTicksGo DEF StepsTo
        <5> HIDE DEF tick
        <5> QED
          BY <5>1, <5>2
      <4>5. CASE Scan(t)
        <5>1. ticks'[t] = Off \/ \E step \in {"stat", "init"} :
                ticks'[t] = [Off EXCEPT !.step = step, !.file = latest, !.again = TRUE]
          BY <4>5, WhereTicksGo DEF StepsTo
        <5>2. \A step \in {"stat", "init"} :
                [Off EXCEPT !.step = step, !.file = latest, !.again = TRUE].step = step
          BY TickFields DEF TypeInv
        <5>3. Off.step = "off"
          BY DEF Off
        <5> QED
          BY <5>1, <5>2, <5>3
      <4>6. CASE Fail(t)
        <5>1. ticks[t].step \in {"stat", "init"}
          BY <4>6 DEF Fail
        <5> QED
          BY <4>6, <5>1, WhereTicksGo DEF StepsTo, Off
      <4> QED
        BY <1>2, <2>5, <4>1, <4>2, <4>3, <4>4, <4>5, <4>6 DEF Step
    <3> QED
      BY <2>1, <2>5, <3>1
  <2> QED
    BY <2>3, <2>4, <2>5
<1>3. CASE Truncate
  <2>1. ticks' = ticks /\ Disturbances' = Disturbances + 1
    BY <1>3 DEF Truncate, Disturbances, TypeInv, faultVars
  <2> QED
    BY <1>1, <2>1 DEF Attaching
<1>4. ASSUME NEW f \in Files, Write(f)
      PROVE  Attaching'
  <2>1. UNCHANGED <<ticks, announced, Disturbances>>
    BY <1>4 DEF Write, faultVars, Disturbances
  <2>2. SUFFICES ASSUME NEW u \in Ticks, ticks[u].step = "attach", ticks[u].seen = Disturbances
                 PROVE  Alone(u) /\ Unheard(ticks[u].file, ticks[u].size)'
    BY <2>1 DEF Attaching, Alone
  <2>3. Alone(u) /\ Unheard(ticks[u].file, ticks[u].size) /\ ticks[u].file \in Files
    BY <2>2 DEF Attaching, Known
  <2>4. Unheard(ticks[u].file, ticks[u].size)'
    BY <1>4, <2>1, <2>3, WriteUnheard DEF Unheard
  <2> QED
    BY <2>3, <2>4
<1>5. CASE ScanBecomesDue \/ UNCHANGED vars
  BY <1>5 DEF ScanBecomesDue, vars, logVars, faultVars, Disturbances, Attaching, Alone, Unheard
<1> QED
  BY <1>2, <1>3, <1>4, <1>5 DEF Next

-----------------------------------------------------------------------------
(***************************************************************************)
(* Names. A read reports lines that end behind the offset, each under the  *)
(* offset at which it starts when nothing in the text shifts that.         *)
(***************************************************************************)
LEMMA ReadNames ==
  ASSUME NEW t \in Ticks, Reading(t), Read(t), NEW event \in announced' \ announced
  PROVE  /\ event.file = currentFile
         /\ \E k \in 1..Len(content[currentFile]) :
              /\ content[currentFile][k].line = event.line /\ content[currentFile][k].at = 1
              /\ k > from /\ offset < k + 2 /\ k + 2 <= ticks[t].size
              /\ event.exact => event.at = k - 1
<1> DEFINE text == pending \o Decode(Buffer(t))
           log == content[currentFile]
           size == ticks[t].size
<1>1. /\ currentFile \in Files /\ log \in Seq(Byte) /\ Len(log) \in Nat
      /\ ticks[t].file = currentFile /\ ticks[t].prev = offset
      /\ offset \in Nat /\ from \in Nat /\ size \in Nat /\ size <= Len(log)
      /\ Unfinished(log) /\ pending \in Seq(Decoded)
      /\ Len(pending) \in Nat /\ Start \in Nat /\ from <= Start
  BY ReadPlace
<1>2. /\ text \in Seq(Decoded) /\ Len(text) = size - Start
      /\ \A j \in 1..Len(pending) : text[j] = pending[j]
      /\ \A j \in 1..Len(text) : text[j].byte = log[Start + j]
  BY ReadText
<1>3. PICK i \in Parsed(text) : event = Completion(t, text, i)
  BY DEF Read
<1> HIDE DEF text, log, size
<1>4. /\ i \in 3..Len(text) /\ End(text[i].byte)
      /\ text[i - 2].byte = [text[i].byte EXCEPT !.at = 1]
  BY <1>3 DEF Parsed
<1>5. i \in Nat /\ i >= 3 /\ Len(text) \in Nat /\ i <= Len(text)
  BY <1>1, <1>2, <1>4
<1>6. i > Len(pending)
  <2>1. SUFFICES ASSUME i <= Len(pending) PROVE FALSE
    BY <1>1, <1>5
  <2>2. i \in 1..Len(pending) /\ i \in 1..Len(text)
    BY <1>1, <1>5, <2>1
  <2>3. text[i].byte = log[Start + i] /\ ~End(log[Start + i])
    BY <1>1, <1>2, <2>2 DEF Unfinished
  <2> QED
    BY <1>4, <2>3
<1> DEFINE k == Start + (i - 2)
<1>7. /\ k \in 1..Len(log) /\ k > from /\ offset < k + 2 /\ k + 2 <= size
  BY <1>1, <1>2, <1>5, <1>6 DEF Start
<1>8. log[k].line = event.line /\ log[k].at = 1 /\ event.file = currentFile
  <2>1. i \in 1..Len(text) /\ i - 2 \in 1..Len(text)
    BY <1>5
  <2>2. text[i].byte \in Byte
    <3>1. text[i] \in Decoded
      BY <1>2, <2>1, ElementOfSeq
    <3> QED
      BY <3>1 DEF Decoded
  <2>3. log[k] = [text[i].byte EXCEPT !.at = 1]
    BY <1>2, <1>4, <2>1
  <2>4. [text[i].byte EXCEPT !.at = 1].line = text[i].byte.line /\ [text[i].byte EXCEPT !.at = 1].at = 1
    BY <2>2 DEF Byte
  <2>5. event.line = text[i].byte.line /\ event.file = ticks[t].file
    BY <1>3 DEF Completion
  <2> QED
    BY <1>1, <2>3, <2>4, <2>5
<1>9. event.exact => event.at = k - 1
  <2>1. SUFFICES ASSUME event.exact PROVE event.at = k - 1
    OBVIOUS
  <2> DEFINE before == SubSeq(text, 1, i - 3)
  <2>2. (\A j \in 1..i : ~text[j].torn) /\ CrlfEnds(before) = {}
    BY <1>3, <2>1 DEF Completion
  <2>3. event.at = FirstLine(t) + ByteLength(before) - Cardinality(CrlfEnds(before))
    BY <1>3 DEF Completion, LineOffset
  <2>4. ByteLength(pending) = Len(pending)
    <3>1. \A j \in 1..Len(pending) : j \in 1..i /\ text[j] = pending[j]
      BY <1>1, <1>2, <1>5, <1>6
    <3>2. Torn(pending) = {}
      BY <2>2, <3>1 DEF Torn
    <3> QED
      BY <1>1, <3>2, TornCount
  <2>5. ByteLength(before) = i - 3
    <3>1. \A j \in 1..(i - 3) : j \in 1..i /\ text[j] \in Decoded
      BY <1>2, <1>5
    <3>2. /\ before \in Seq(Decoded)
          /\ Len(before) = IF 1 <= i - 3 THEN (i - 3) - 1 + 1 ELSE 0
          /\ \A j \in 1..((i - 3) - 1 + 1) : before[j] = text[1 + j - 1]
      BY <1>5, <3>1, SubSeqProperties
    <3>3. Len(before) = i - 3
      BY <1>5, <3>2
    <3> HIDE DEF before
    <3>4. \A j \in 1..Len(before) : ~before[j].torn
      <4>1. SUFFICES ASSUME NEW j \in 1..Len(before) PROVE ~before[j].torn
        OBVIOUS
      <4>2. j \in 1..((i - 3) - 1 + 1) /\ 1 + j - 1 = j /\ j \in 1..i
        BY <1>5, <3>3
      <4> QED
        BY <2>2, <3>2, <4>2
    <3>5. Torn(before) = {}
      BY <3>4 DEF Torn
    <3> QED
      BY <3>2, <3>3, <3>5, TornCount
  <2>6. Cardinality(CrlfEnds(before)) = 0
    BY <2>2, FS_EmptySet
  <2>7. FirstLine(t) = Start
    <3>1. Start = offset - Len(pending)
      BY DEF Start
    <3> QED
      BY <1>1, <2>4, <3>1 DEF FirstLine
  <2> HIDE DEF before
  <2> QED
    BY <1>1, <1>5, <2>3, <2>5, <2>6, <2>7
<1> HIDE DEF k
<1> QED
  BY <1>7, <1>8, <1>9 DEF log, size

LEMMA NamedKept ==
  ASSUME Inv, NamesInv, [Next]_vars, TypeInv'
  PROVE  Named'
<1> USE DEF Inv, NamesInv
<1>1. ASSUME UNCHANGED <<clean, content, currentFile, offset, from, announced>>
      PROVE  Named'
  BY <1>1 DEF Named
<1>2. ASSUME NEW t \in Ticks, Step(t), clean', currentFile' # None
      PROVE  Named'
  <2>1. CASE TickStarts(t) \/ Stat(t) \/ Compare(t) \/ Open(t) \/ Scan(t) \/ ReadWhole(t)
    <3>1. UNCHANGED <<clean, content, currentFile, offset, from, announced>>
      BY <1>2, <2>1 DEF TickStarts, Stat, Compare, Open, Scan, ReadWhole, logVars, watcherVars
    <3> QED
      BY <1>1, <3>1
  <2>2. CASE Read(t)
    <3>1. UNCHANGED <<clean, content, currentFile, from>> /\ ticks[t].step = "read" /\ offset' = ticks[t].size
      BY <2>2 DEF Read, Running, logVars
    <3>2. Reading(t)
      BY <1>2, <3>1 DEF Following, Reading
    <3>3. currentFile \in Files /\ offset \in Nat /\ ticks[t].size \in Nat /\ offset < ticks[t].size
          /\ Len(content[currentFile]) \in Nat
      BY <3>2, ReadPlace
    <3>4. ASSUME NEW event \in announced', NEW k \in 1..Len(content[currentFile]),
                 k > from, content[currentFile][k].at = 1, content[currentFile][k].line = event.line
          PROVE  k + 2 <= ticks[t].size
      <4>1. CASE event \in announced
        <5>1. k + 2 <= offset
          BY <1>2, <3>1, <3>4, <4>1 DEF Named
        <5> QED
          BY <3>3, <5>1
      <4>2. CASE event \notin announced
        <5>1. PICK j \in 1..Len(content[currentFile]) :
                /\ content[currentFile][j].line = event.line /\ content[currentFile][j].at = 1
                /\ j + 2 <= ticks[t].size
          BY <2>2, <3>2, <3>4, <4>2, ReadNames
        <5>2. j = k
          BY <3>3, <3>4, <5>1 DEF StartsOnce
        <5> QED
          BY <5>1, <5>2
      <4> QED
        BY <4>1, <4>2
    <3> QED
      BY <3>1, <3>4 DEF Named
  <2>3. CASE Attach(t)
    <3>1. /\ currentFile' = ticks[t].file /\ from' = ticks[t].size
          /\ content' = content /\ announced' = announced
          /\ ticks[t].step = "attach" /\ ticks[t].seen = Disturbances
      BY <1>2, <2>3 DEF Attach, Running, logVars
    <3>2. Unheard(ticks[t].file, ticks[t].size)
      BY <3>1 DEF Attaching
    <3> QED
      BY <3>1, <3>2 DEF Named, Unheard
  <2> QED
    BY <1>2, <2>1, <2>2, <2>3 DEF Step
<1>3. ASSUME NEW f \in Files, Write(f)
      PROVE  Named'
  <2>1. UNCHANGED <<clean, currentFile, offset, from, announced>>
    BY <1>3 DEF Write, watcherVars
  <2>2. SUFFICES ASSUME clean, currentFile # None, NEW event \in announced,
                        NEW k \in 1..Len(content'[currentFile]),
                        k > from, content'[currentFile][k].at = 1,
                        content'[currentFile][k].line = event.line
                 PROVE  k + 2 <= offset
    BY <2>1 DEF Named
  <2>3. currentFile \in Files
    BY <2>2 DEF TypeInv
  <2>4. k \in 1..Len(content[currentFile]) /\ content'[currentFile][k] = content[currentFile][k]
    BY <1>3, <2>2, <2>3, WriteUnheard
  <2> QED
    BY <2>2, <2>4 DEF Named
<1>4. ASSUME NEW t \in Ticks, Fail(t), currentFile' # None
      PROVE  Named'
  BY <1>1, <1>4 DEF Fail, logVars
<1>5. CASE Truncate \/ ~clean' \/ currentFile' = None
  BY <1>5 DEF Truncate, Named
<1>6. CASE ScanBecomesDue \/ UNCHANGED vars
  BY <1>1, <1>6 DEF ScanBecomesDue, vars, logVars, watcherVars
<1> QED
  BY <1>2, <1>3, <1>4, <1>5, <1>6 DEF Next

-----------------------------------------------------------------------------
LEMMA InitInv == Init => Inv
<1> SUFFICES ASSUME Init PROVE Inv
  OBVIOUS
<1>1. content \in [Files -> Seq(Byte)] /\ \A f \in Files : content[f] = <<>>
  BY DEF Init
<1>2. ticks = [t \in Ticks |-> Off] /\ ticks \in [Ticks -> Tick] /\ Off.step = "off" /\ Off.seen = 0
  BY OffTypes DEF Init, Off
<1>3. \A t \in Ticks : ticks[t].step = "off" /\ ticks[t].seen = 0
  BY <1>2
<1>4. currentFile = None /\ clean = TRUE /\ scanDue = TRUE
  BY DEF Init
<1>5. TypeInv
  BY <1>1, <1>2, <1>4, BoundsAssumption DEF Init, TypeInv
<1>6. Logs
  BY <1>1 DEF Logs, WellFormed
<1>7. Known /\ Turns /\ Following
  BY <1>3, <1>5, Counts DEF Known, Turns, Following
<1>8. Attached /\ NothingMissed
  BY <1>4 DEF Attached, NothingMissed
<1> QED
  BY <1>5, <1>6, <1>7, <1>8 DEF Inv

LEMMA NextTypes ==
  ASSUME Inv, [Next]_vars
  PROVE  TypeInv'
<1>1. CASE UNCHANGED vars
  BY <1>1 DEF Inv, TypeInv, vars, logVars, watcherVars, faultVars
<1>2. CASE \E t \in Ticks : Step(t)
  BY <1>2, StepTypes DEF Inv
<1> QED
  BY <1>1, <1>2, OtherTypes DEF Inv, Next

LEMMA NextInv ==
  ASSUME Inv, [Next]_vars
  PROVE  Inv'
<1>1. TypeInv'
  BY NextTypes
<1>2. Logs' /\ Known' /\ Turns'
  BY <1>1, LogsKept, KnownKept, TurnsKept DEF Inv
<1>3. Attached' /\ Following' /\ NothingMissed'
  BY <1>1, AttachedKept, FollowingKept, NothingMissedKept
<1> QED
  BY <1>1, <1>2, <1>3 DEF Inv

\* While ticks take turns and nothing is truncated, every line written since the
\* watcher attached (readNew) is reported once the offset is past it, however the
\* reads cut the lines and their characters, and whatever the line ends are.
THEOREM NothingIsMissed == Spec => []NothingMissed
<1>1. Inv => NothingMissed
  BY DEF Inv
<1> QED
  BY <1>1, InitInv, NextInv, PTL DEF Spec

LEMMA InitNames == Init => NamesInv
<1> SUFFICES ASSUME Init PROVE NamesInv
  OBVIOUS
<1>1. /\ \A f \in Files : content[f] = <<>>
      /\ announced = {} /\ pending = <<>> /\ currentFile = None
      /\ \A t \in Ticks : ticks[t].step = "off"
  BY DEF Init, Off
<1>2. Fresh /\ StartsOnce
  <2>1. Fresh
    BY <1>1, NoneWritten DEF Fresh
  <2>2. \A f \in Files : 1..Len(content[f]) = {}
    BY <1>1
  <2> QED
    BY <2>1, <2>2 DEF StartsOnce
<1>3. Attaching /\ Named
  BY <1>1 DEF Attaching, Named
<1> QED
  BY <1>2, <1>3 DEF NamesInv

LEMMA NextNames ==
  ASSUME Inv, NamesInv, [Next]_vars
  PROVE  NamesInv'
<1>1. TypeInv'
  BY NextTypes
<1>2. TypeInv /\ Known
  BY DEF Inv
<1>3. Fresh' /\ StartsOnce' /\ Attaching'
  BY <1>1, <1>2, FreshKept, StartsOnceKept, AttachingKept DEF NamesInv
<1>4. Named'
  BY <1>1, NamedKept
<1> QED
  BY <1>3, <1>4 DEF NamesInv

\* What is new in announced is a line behind the size the watcher attached at, under the
\* offset of its line if that is exact, and the line was not announced before.
LEMMA StepNames ==
  ASSUME Inv, NamesInv, [Next]_vars, clean, NEW event \in announced' \ announced
  PROVE  /\ \E k \in 1..Len(content[event.file]) :
              /\ content[event.file][k].line = event.line /\ content[event.file][k].at = 1
              /\ k > from
              /\ event.exact => event.at = k - 1
         /\ \A earlier \in announced : earlier.line # event.line
<1>1. PICK t \in Ticks : Read(t)
  BY DEF Next, Step, Truncate, Write, ScanBecomesDue, Fail, TickStarts, Stat, Compare, Open, Scan,
         ReadWhole, Attach, vars
<1>2. Reading(t)
  BY <1>1 DEF Inv, Following, Reading, Read, Running
<1>3. currentFile \in Files /\ currentFile # None /\ offset \in Nat /\ Len(content[currentFile]) \in Nat
  BY <1>2, ReadPlace DEF Reading, Fits
<1>4. event.file = currentFile
  BY <1>1, <1>2, ReadNames
<1>5. PICK k \in 1..Len(content[currentFile]) :
        /\ content[currentFile][k].line = event.line /\ content[currentFile][k].at = 1
        /\ k > from /\ offset < k + 2
        /\ event.exact => event.at = k - 1
  BY <1>1, <1>2, ReadNames
<1>6. ASSUME NEW earlier \in announced, earlier.line = event.line
      PROVE  FALSE
  <2>1. k + 2 <= offset
    BY <1>3, <1>5, <1>6 DEF NamesInv, Named
  <2> QED
    BY <1>3, <1>5, <2>1
<1> QED
  BY <1>4, <1>5, <1>6

\* While ticks take turns and nothing is truncated, a completion that is reported was
\* written since the watcher attached and was never reported before, not even by an
\* earlier, muddled read, and its id (emitCompletion) has the offset its line was
\* written at, unless a cut character or a CR LF before it in the text shifts it.
THEOREM CompletionsNamedRightly == Spec => NamedRightly
<1>1. Inv /\ NamesInv /\ [Next]_vars =>
        Inv' /\ NamesInv' /\ [clean => \A event \in announced' \ announced :
            /\ \E k \in 1..Len(content[event.file]) :
                 /\ content[event.file][k].line = event.line /\ content[event.file][k].at = 1
                 /\ k > from
                 /\ event.exact => event.at = k - 1
            /\ \A earlier \in announced : earlier.line # event.line]_vars
  BY NextInv, NextNames, StepNames
<1> QED
  BY <1>1, InitInv, InitNames, PTL DEF Spec, NamedRightly
=============================================================================
