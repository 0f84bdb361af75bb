------------------------------ MODULE TailScan ------------------------------
(***************************************************************************)
(* scanJSONLTail (internal/parser/tail.go): reading the unread bytes of    *)
(* one log that a writer is appending to, fragment by fragment, and the    *)
(* cursor that carries an unfinished line to the next refresh.             *)
(*                                                                         *)
(* FileIndex takes a log as a sequence of records; this module says how    *)
(* records are cut out of bytes.  The alphabet keeps what the scanner      *)
(* tells apart: line feed, carriage return, and the bytes of a JSON object *)
(* as far as json.Valid needs them (open, close, anything inside).  A log  *)
(* that is truncated or replaced gets a new cursor: that is FileIndex.     *)
(***************************************************************************)
EXTENDS Integers, Sequences, FiniteSets

CONSTANTS
    Lines,      \* what the writer puts on one line, the line feed excluded
    MaxLine,    \* maxJSONLLineBytes
    BufSize,    \* size of the bufio.Reader
    MaxLines,   \* bound: lines written
    MaxAborts   \* bound: scans whose result is thrown away

LF == "lf"
CR == "cr"
Open == "{"
Close == "}"
Inside == "x"
Bytes == {LF, CR, Open, Close, Inside}

ASSUME LinesAssumption == Lines \subseteq Seq(Bytes \ {LF})
ASSUME SizesAssumption == MaxLine \in Nat \ {0} /\ BufSize \in Nat \ {0}
ASSUME BoundsAssumption == MaxLines \in Nat /\ MaxAborts \in Nat

VARIABLES
    file,       \* the bytes of the log
    writing,    \* what the writer has still to write of the current line
    lines,      \* lines begun by the writer
    cursor,     \* streamCursor: offset, pending, discarding
    delivered,  \* records of the scans that succeeded, in order
    oversized,  \* oversizedLines of the scans that succeeded
    pc,         \* "idle" or "scan"
    pos,        \* cursor.offset + bytesRead
    pending,    \* the part of the current line read so far
    discarding, \* skipping the rest of a line that is too long
    out,        \* records visited by this scan
    over,       \* oversizedLines of this scan
    aborts

log == <<file, writing, lines>>
kept == <<cursor, delivered, oversized>>
scan == <<pos, pending, discarding, out, over>>
vars == <<log, kept, scan, pc, aborts>>

\* json.Valid, on lines of these bytes: one object, between white space.
Valid(s) ==
    \E i, j \in 1..Len(s) :
        /\ i < j
        /\ s[i] = Open
        /\ s[j] = Close
        /\ \A k \in 1..Len(s) :
               /\ i < k /\ k < j => s[k] = Inside
               /\ k < i \/ j < k => s[k] = CR

\* A line is an object, a blank line, or garbage: no proper part of it that
\* a scan may find at the end of the file is a complete object.
ASSUME NoEarlyObject ==
    \A l \in Lines : \A n \in 1..(Len(l) - 1) :
        Valid(SubSeq(l, 1, n)) => n = Len(l) - 1 /\ l[Len(l)] = CR

Trim(s) == IF s # <<>> /\ s[Len(s)] = CR THEN SubSeq(s, 1, Len(s) - 1) ELSE s

Newlines(n) == {k \in 1..n : file[k] = LF}

\* Where the line that byte n + 1 belongs to begins.
LineStart(n) == IF Newlines(n) = {} THEN 0
                ELSE CHOOSE k \in Newlines(n) : \A m \in Newlines(n) : m <= k

Init ==
    /\ file = <<>>
    /\ writing = <<>>
    /\ lines = 0
    /\ cursor = [offset |-> 0, pending |-> <<>>, discarding |-> FALSE]
    /\ delivered = <<>>
    /\ oversized = 0
    /\ pc = "idle"
    /\ pos = 0
    /\ pending = <<>>
    /\ discarding = FALSE
    /\ out = <<>>
    /\ over = 0
    /\ aborts = 0

-----------------------------------------------------------------------------
(* The writer appends a line in as many pieces as it likes.                *)

Flush(text) ==
    \E n \in 1..Len(text) :
        /\ file' = file \o SubSeq(text, 1, n)
        /\ writing' = SubSeq(text, n + 1, Len(text))

Write ==
    /\ \/ /\ writing # <<>>
          /\ Flush(writing)
          /\ UNCHANGED lines
       \/ /\ writing = <<>>
          /\ lines < MaxLines
          /\ lines' = lines + 1
          /\ \E l \in Lines : Flush(Append(l, LF))
    /\ UNCHANGED <<kept, scan, pc, aborts>>

-----------------------------------------------------------------------------
(* The scan.  Each step is one ReadSlice and what follows it.              *)

\* Indexer scans a log that has grown; the scan works on copies.
BeginScan ==
    /\ pc = "idle"
    /\ Len(file) > cursor.offset
    /\ pc' = "scan"
    /\ pos' = cursor.offset
    /\ pending' = cursor.pending
    /\ discarding' = cursor.discarding
    /\ out' = <<>>
    /\ over' = 0
    /\ UNCHANGED <<log, kept, aborts>>

Fits(content) == Len(pending) + Len(content) <= MaxLine

\* A record, with the place its line begins: what a visit gets to see.
Visit(text, n) == Append(out, [from |-> LineStart(n), text |-> text])

\* Bytes pos + 1 .. n end with the line feed at n.
EndLine(n) ==
    LET content == SubSeq(file, pos + 1, n - 1)
        record == Trim(pending \o content)
    IN  /\ discarding' = FALSE
        /\ pending' = <<>>
        /\ \/ /\ discarding
              /\ UNCHANGED <<out, over>>
           \/ /\ ~discarding
              /\ ~Fits(content)
              /\ over' = over + 1
              /\ UNCHANGED out
           \/ /\ ~discarding
              /\ Fits(content)
              /\ out' = IF record = <<>> THEN out ELSE Visit(record, n - 1)
              /\ UNCHANGED over

\* Bytes pos + 1 .. n hold no line feed: the line goes on.  What is held of
\* it after the fragment, and whether the rest is skipped.
KeepPart(n) ==
    LET content == SubSeq(file, pos + 1, n)
    IN  IF discarding \/ ~Fits(content)
        THEN [pending |-> <<>>, discarding |-> TRUE,
              over |-> over + (IF discarding THEN 0 ELSE 1)]
        ELSE [pending |-> pending \o content, discarding |-> FALSE, over |-> over]

Buffered == {k \in (pos + 1)..(pos + BufSize) : k <= Len(file)}

ReadLine ==
    /\ pc = "scan"
    /\ \E n \in Buffered :
          /\ file[n] = LF
          /\ \A k \in Buffered : file[k] = LF => n <= k
          /\ EndLine(n)
          /\ pos' = n
    /\ UNCHANGED <<log, kept, pc, aborts>>

\* bufio.ErrBufferFull: no line feed in a whole buffer.
ReadPart ==
    /\ pc = "scan"
    /\ Cardinality(Buffered) = BufSize
    /\ \A k \in Buffered : file[k] # LF
    /\ LET part == KeepPart(pos + BufSize)
       IN  /\ pending' = part.pending
           /\ discarding' = part.discarding
           /\ over' = part.over
    /\ pos' = pos + BufSize
    /\ UNCHANGED <<log, kept, pc, out, aborts>>

\* Faulty: the record is delivered and carried to the next refresh as well.
DeliveredTailKept(part) == part.pending

\* Faulty: a complete record waits for its line feed.
DeliverNothing(part) == out

\* At the end of the file a line that is a complete record is not kept ...
CarriedTail(part) == IF Valid(part.pending) THEN <<>> ELSE part.pending

\* ... but delivered at once, without waiting for its line feed.
DeliverTail(part) ==
    IF Valid(part.pending) THEN Visit(part.pending, Len(file)) ELSE out

\* Faulty: the cursor forgets that the rest of a line is to be skipped.
CursorForgets(part) ==
    [offset |-> Len(file), pending |-> CarriedTail(part), discarding |-> FALSE]

CursorAfter(part) ==
    [offset |-> Len(file), pending |-> CarriedTail(part), discarding |-> part.discarding]

\* io.EOF: the cursor and the result are returned and kept by the indexer.
ReachEOF ==
    /\ pc = "scan"
    /\ Cardinality(Buffered) < BufSize
    /\ \A k \in Buffered : file[k] # LF
    /\ LET part == KeepPart(Len(file))
       IN  /\ cursor' = CursorAfter(part)
           /\ delivered' = delivered \o DeliverTail(part)
           /\ oversized' = oversized + part.over
    /\ pc' = "idle"
    /\ UNCHANGED <<log, scan, aborts>>

\* An expired context, a read error, or an indexer that does not accept what
\* was read: the cursor and the records of before stay.
Abort ==
    /\ pc = "scan"
    /\ aborts < MaxAborts
    /\ aborts' = aborts + 1
    /\ pc' = "idle"
    /\ UNCHANGED <<log, kept, scan>>

ScanStep == ReadLine \/ ReadPart \/ ReachEOF \/ Abort

Quiescent ==
    /\ pc = "idle"
    /\ writing = <<>>
    /\ lines = MaxLines
    /\ cursor.offset = Len(file)
    /\ UNCHANGED vars

Next == Write \/ BeginScan \/ ScanStep \/ Quiescent

Spec == Init /\ [][Next]_vars

-----------------------------------------------------------------------------
Records == [from : Nat, text : Seq(Bytes \ {LF})]

TypeOK ==
    /\ file \in Seq(Bytes)
    /\ writing \in Seq(Bytes)
    /\ lines \in 0..MaxLines
    /\ cursor \in [offset : Nat, pending : Seq(Bytes \ {LF}), discarding : BOOLEAN]
    /\ cursor.offset <= Len(file)
    /\ Len(cursor.pending) <= MaxLine
    /\ delivered \in Seq(Records)
    /\ oversized \in Nat
    /\ pc \in {"idle", "scan"}
    /\ pos \in 0..Len(file)
    /\ pending \in Seq(Bytes \ {LF})
    /\ Len(pending) <= MaxLine
    /\ discarding \in BOOLEAN
    /\ out \in Seq(Records)
    /\ over \in Nat
    /\ aborts \in 0..MaxAborts

\* The lines that begin within the first n bytes, each by where it begins.
Starts(n) == {s \in {0} \cup Newlines(n) : s < n}

\* As much of the line that begins at s as lies within the first n bytes.
LineText(s, n) ==
    LET stop == {k \in (s + 1)..n : file[k] = LF}
    IN  IF stop = {} THEN SubSeq(file, s + 1, n)
        ELSE SubSeq(file, s + 1, (CHOOSE k \in stop : \A m \in stop : k <= m) - 1)

Finished(s, n) == \E k \in (s + 1)..n : file[k] = LF

DeliveredFrom == {delivered[a].from : a \in DOMAIN delivered}

\* However a line is cut up by the writer, by the buffer and by the ends of
\* the refreshes, and whatever scans were thrown away: the records delivered
\* are lines of the file, whole, in order, none of them twice, and every
\* finished line that is neither blank nor too long is among them.
EveryRecordOnce ==
    /\ \A a, b \in DOMAIN delivered :
           a < b => delivered[a].from < delivered[b].from
    /\ \A a \in DOMAIN delivered :
           /\ Len(delivered[a].text) <= MaxLine
           /\ Trim(LineText(delivered[a].from, cursor.offset))
                 \in {delivered[a].text, Trim(delivered[a].text)}
    /\ \A s \in Starts(cursor.offset) :
           LET text == LineText(s, cursor.offset)
           IN  /\ Finished(s, cursor.offset)
               /\ Trim(text) # <<>>
               /\ Len(text) <= MaxLine
               => s \in DeliveredFrom

\* A record that is complete when the scan reaches the end of the file is
\* delivered by that scan, though the line feed has not been written yet.
TailNotHeldBack ==
    LET s == LineStart(cursor.offset)
        text == LineText(s, cursor.offset)
    IN  Len(text) <= MaxLine /\ Valid(text) => s \in DeliveredFrom

\* A line that is too long is counted, once, by the scan that finds it so, and
\* skipped to its end, over however many refreshes it is read.
OversizedOnce ==
    oversized = Cardinality({s \in Starts(cursor.offset) :
                                /\ Len(LineText(s, cursor.offset)) > MaxLine
                                /\ s \notin DeliveredFrom})
=============================================================================
