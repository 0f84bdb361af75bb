---------------------------- MODULE TailScanProofs ----------------------------
(***************************************************************************)
(* Proofs about TailScan, for every set of lines and every size of line    *)
(* and buffer: no record is lost, torn, repeated or held back, and every   *)
(* line that is too long is counted once.                                  *)
(*                                                                         *)
(* ScanInv says all a scan has to know of the bytes it has read: what was  *)
(* delivered is sound and complete, and the line it stands in is held, or  *)
(* being skipped, or delivered already before its line feed was there.  It *)
(* is the same invariant for the cursor, over the records of the scans     *)
(* that succeeded, and for a scan that runs, over those and its own; so a  *)
(* scan that is thrown away leaves nothing to repair.  Two facts about the *)
(* writer complete it: every line in the file, the last one too, is a      *)
(* prefix of one of Lines (LinesOf), and the rest of the last one is what  *)
(* the writer has still to write (Writer).                                 *)
(*                                                                         *)
(* NoEarlyObject is used for the line delivered early: what follows an     *)
(* object on its line is at most the carriage return that ends it, so the  *)
(* rest of that line is blank and no second record is made of it.          *)
(***************************************************************************)
EXTENDS TailScan, SequenceTheorems, FiniteSetTheorems, WellFoundedInduction, TLAPS

\* Bytes a + 1 .. b.
Piece(f, a, b) == SubSeq(f, a + 1, b)

From(recs) == {recs[a].from : a \in DOMAIN recs}

\* Where the lines of the first p bytes begin, the one that p ends included.
Begins(f, p) == {0} \cup {k \in 1..p : f[k] = LF}

Unbroken(f, a, b) == \A k \in (a + 1)..b : f[k] # LF

\* As far as the first p bytes go, the line that begins at s ends at e.
IsEnd(f, s, p, e) ==
    /\ Unbroken(f, s, e)
    /\ e = p \/ (e < p /\ f[e + 1] = LF)

-----------------------------------------------------------------------------
LEMMA Least ==
    ASSUME NEW S \in SUBSET Nat, S # {}
    PROVE  \E x \in S : \A y \in S : x <= y
<1> DEFINE R == {ss \in Nat \X Nat : ss[1] < ss[2]}
<1>1. IsWellFoundedOn(R, Nat)
    BY NatLessThanWellFounded, Zenon DEF OpToRel
<1>2. \A x, y \in Nat : y < x => <<y, x>> \in R
    OBVIOUS
<1> HIDE DEF R
<1>3. PICK x \in S : \A y \in S : ~(<<y, x>> \in R)
    BY <1>1, WFMin
<1>4. \A y \in S : ~(y < x)
    BY <1>2, <1>3
<1>5. x \in Nat /\ \A y \in S : y \in Nat
    OBVIOUS
<1>6. \A y \in S : x <= y
    BY <1>4, <1>5
<1> QED BY <1>6

LEMMA Greatest ==
    ASSUME NEW n \in Nat, NEW S \in SUBSET (0..n), S # {}
    PROVE  \E x \in S : \A y \in S : y <= x
<1> DEFINE T == {n - x : x \in S}
<1>1. T \in SUBSET Nat /\ T # {}
    <2>1. \A x \in S : n - x \in Nat
        OBVIOUS
    <2> QED BY <2>1
<1>2. PICK t \in T : \A u \in T : t <= u
    BY <1>1, Least
<1>3. PICK x \in S : t = n - x
    BY <1>2
<1>4. \A y \in S : y <= x
    BY <1>2, <1>3
<1> QED BY <1>4

LEMMA Letters == LF \in Bytes /\ CR \in Bytes /\ CR # LF /\ CR # Close /\ CR \in Bytes \ {LF}
    BY Zenon DEF LF, CR, Close, Bytes

\* From here on bytes are only compared.
LEMMA PieceFacts ==
    ASSUME NEW f \in Seq(Bytes), NEW b \in 0..Len(f), NEW a \in 0..b
    PROVE  /\ Piece(f, a, b) \in Seq(Bytes)
           /\ Len(Piece(f, a, b)) = b - a
           /\ DOMAIN Piece(f, a, b) = 1..(b - a)
           /\ \A i \in 1..(b - a) : Piece(f, a, b)[i] = f[a + i]
<1>1. a + 1 \in Int /\ b \in Int /\ \A i \in (a + 1)..b : f[i] \in Bytes
    OBVIOUS
<1>2. /\ Piece(f, a, b) \in Seq(Bytes)
      /\ Len(Piece(f, a, b)) = IF a + 1 <= b THEN b - (a + 1) + 1 ELSE 0
      /\ \A i \in 1..(b - (a + 1) + 1) : Piece(f, a, b)[i] = f[(a + 1) + i - 1]
    BY <1>1, SubSeqProperties DEF Piece
<1>3. Len(Piece(f, a, b)) = b - a
    BY <1>2
<1> QED BY <1>2, <1>3, LenProperties

LEMMA PieceText ==
    ASSUME NEW f \in Seq(Bytes), NEW b \in 0..Len(f), NEW a \in 0..b, Unbroken(f, a, b)
    PROVE  Piece(f, a, b) \in Seq(Bytes \ {LF})
<1>1. a + 1 \in Int /\ b \in Int /\ \A i \in (a + 1)..b : f[i] \in Bytes \ {LF}
    BY DEF Unbroken
<1> QED BY <1>1, SubSeqProperties DEF Piece

LEMMA PieceEmpty ==
    ASSUME NEW f \in Seq(Bytes), NEW a \in 0..Len(f)
    PROVE  Piece(f, a, a) = <<>>
    BY PieceFacts, EmptySeq

LEMMA PieceGlue ==
    ASSUME NEW f \in Seq(Bytes), NEW c \in 0..Len(f), NEW b \in 0..c, NEW a \in 0..b
    PROVE  Piece(f, a, b) \o Piece(f, b, c) = Piece(f, a, c)
    BY ConcatAdjacentSubSeq, a + 1 \in 1..Len(f) + 1, b \in a..Len(f), c \in b..Len(f) DEF Piece

\* f and g have their first p bytes in common.
Agree(f, g, p) == p <= Len(f) /\ p <= Len(g) /\ \A i \in 1..p : f[i] = g[i]

LEMMA PieceAgree ==
    ASSUME NEW f \in Seq(Bytes), NEW g \in Seq(Bytes), NEW p \in Nat, Agree(f, g, p),
           NEW b \in 0..p, NEW a \in 0..b
    PROVE  Piece(f, a, b) = Piece(g, a, b)
<1>1. b \in 0..Len(f) /\ b \in 0..Len(g)
    BY DEF Agree
<1>2. \A i \in 1..(b - a) : f[a + i] = g[a + i]
    BY DEF Agree
<1>3. /\ Piece(f, a, b) \in Seq(Bytes) /\ Piece(g, a, b) \in Seq(Bytes)
      /\ Len(Piece(f, a, b)) = b - a /\ Len(Piece(g, a, b)) = b - a
      /\ \A i \in 1..(b - a) : Piece(f, a, b)[i] = Piece(g, a, b)[i]
    BY <1>1, <1>2, PieceFacts
<1> QED BY <1>3, SeqEqual

\* A line has one end.
LEMMA EndUnique ==
    ASSUME NEW f, NEW p \in Nat, NEW s \in 0..p, NEW e \in s..p, NEW d \in s..p,
           IsEnd(f, s, p, e), IsEnd(f, s, p, d)
    PROVE  e = d
    BY DEF IsEnd, Unbroken

LEMMA EndExists ==
    ASSUME NEW f, NEW p \in Nat, NEW s \in 0..p
    PROVE  \E e \in s..p : IsEnd(f, s, p, e)
<1> DEFINE S == {k \in (s + 1)..p : f[k] = LF}
<1>1. CASE S = {}
    BY <1>1 DEF IsEnd, Unbroken
<1>2. CASE S # {}
    <2>1. PICK k \in S : \A m \in S : k <= m
        <3>1. S \in SUBSET Nat
            OBVIOUS
        <3> QED BY <1>2, <3>1, Least
    <2>2. IsEnd(f, s, p, k - 1) /\ k - 1 \in s..p
        BY <2>1 DEF IsEnd, Unbroken
    <2> QED BY <2>2
<1> QED BY <1>1, <1>2

\* What the model calls the text of a line.
LEMMA LineTextIs ==
    ASSUME file \in Seq(Bytes), NEW p \in 0..Len(file), NEW s \in 0..p, NEW e \in s..p,
           IsEnd(file, s, p, e)
    PROVE  /\ LineText(s, p) = Piece(file, s, e)
           /\ Finished(s, p) <=> e < p
<1> DEFINE stop == {k \in (s + 1)..p : file[k] = LF}
<1>1. CASE e = p
    BY <1>1 DEF IsEnd, Unbroken, LineText, Finished, Piece
<1>2. CASE e < p
    <2>1. e + 1 \in stop /\ \A m \in stop : e + 1 <= m
        BY <1>2 DEF IsEnd, Unbroken
    <2>2. (CHOOSE k \in stop : \A m \in stop : k <= m) = e + 1
        BY <2>1
    <2>3. LineText(s, p) = SubSeq(file, s + 1, (e + 1) - 1)
        BY <2>1, <2>2 DEF LineText
    <2> QED BY <1>2, <2>1, <2>3 DEF Finished, Piece
<1> QED BY <1>1, <1>2

LEMMA StartIs ==
    ASSUME file \in Seq(Bytes), NEW p \in 0..Len(file), NEW s \in Begins(file, p),
           Unbroken(file, s, p)
    PROVE  LineStart(p) = s
<1>1. \A k \in Newlines(p) : k <= s
    BY DEF Newlines, Unbroken, Begins
<1>2. CASE s = 0
    BY <1>1, <1>2 DEF LineStart, Newlines
<1>3. CASE s # 0
    <2>1. s \in Newlines(p)
        BY <1>3 DEF Newlines, Begins
    <2>2. (CHOOSE k \in Newlines(p) : \A m \in Newlines(p) : m <= k) = s
        BY <1>1, <2>1 DEF Newlines
    <2> QED BY <2>1, <2>2 DEF LineStart
<1> QED BY <1>2, <1>3

LEMMA StartExists ==
    ASSUME NEW f, NEW p \in Nat
    PROVE  \E s \in Begins(f, p) : Unbroken(f, s, p)
<1>1. Begins(f, p) \in SUBSET (0..p) /\ Begins(f, p) # {}
    BY DEF Begins
<1>2. PICK s \in Begins(f, p) : \A t \in Begins(f, p) : t <= s
    BY <1>1, Greatest
<1>3. Unbroken(f, s, p)
    BY <1>1, <1>2 DEF Begins, Unbroken
<1> QED BY <1>3

-----------------------------------------------------------------------------
(* Objects and carriage returns.                                           *)

\* Valid, of bytes s + 1 .. p.
ValidAt(f, s, p) ==
    \E i, j \in 1..(p - s) :
        /\ i < j
        /\ f[s + i] = Open
        /\ f[s + j] = Close
        /\ \A k \in 1..(p - s) :
               /\ i < k /\ k < j => f[s + k] = Inside
               /\ k < i \/ j < k => f[s + k] = CR

LEMMA ValidPiece ==
    ASSUME NEW f \in Seq(Bytes), NEW p \in 0..Len(f), NEW s \in 0..p
    PROVE  Valid(Piece(f, s, p)) <=> ValidAt(f, s, p)
<1> DEFINE t == Piece(f, s, p)
<1>1. Len(t) = p - s /\ \A i \in 1..(p - s) : t[i] = f[s + i]
    BY PieceFacts
<1> HIDE DEF t
<1>2. ASSUME Valid(t) PROVE ValidAt(f, s, p)
    <2>1. PICK i, j \in 1..Len(t) :
            /\ i < j
            /\ t[i] = Open
            /\ t[j] = Close
            /\ \A k \in 1..Len(t) :
                   /\ i < k /\ k < j => t[k] = Inside
                   /\ k < i \/ j < k => t[k] = CR
        BY <1>2 DEF Valid
    <2>2. /\ i \in 1..(p - s) /\ j \in 1..(p - s) /\ i < j
          /\ f[s + i] = Open /\ f[s + j] = Close
          /\ \A k \in 1..(p - s) :
                   /\ i < k /\ k < j => f[s + k] = Inside
                   /\ k < i \/ j < k => f[s + k] = CR
        BY <1>1, <2>1
    <2> QED BY <2>2 DEF ValidAt
<1>3. ASSUME ValidAt(f, s, p) PROVE Valid(t)
    <2>1. PICK i, j \in 1..(p - s) :
            /\ i < j
            /\ f[s + i] = Open
            /\ f[s + j] = Close
            /\ \A k \in 1..(p - s) :
                   /\ i < k /\ k < j => f[s + k] = Inside
                   /\ k < i \/ j < k => f[s + k] = CR
        BY <1>3 DEF ValidAt
    <2>2. /\ i \in 1..Len(t) /\ j \in 1..Len(t) /\ i < j /\ t[i] = Open /\ t[j] = Close
          /\ \A k \in 1..Len(t) :
                   /\ i < k /\ k < j => t[k] = Inside
                   /\ k < i \/ j < k => t[k] = CR
        BY <1>1, <2>1
    <2> QED BY <2>2 DEF Valid
<1> QED BY <1>2, <1>3 DEF t

LEMMA ValidEnds ==
    ASSUME NEW f \in Seq(Bytes), NEW p \in 0..Len(f), NEW s \in 0..p, Valid(Piece(f, s, p))
    PROVE  s < p
    BY ValidPiece DEF ValidAt

\* A carriage return after an object changes nothing, ...
LEMMA ValidThenReturn ==
    ASSUME NEW f \in Seq(Bytes), NEW p \in 0..Len(f), NEW s \in 0..p,
           Valid(Piece(f, s, p)), p + 1 <= Len(f), f[p + 1] = CR
    PROVE  Valid(Piece(f, s, p + 1))
<1>1. PICK i, j \in 1..(p - s) :
        /\ i < j
        /\ f[s + i] = Open
        /\ f[s + j] = Close
        /\ \A k \in 1..(p - s) :
               /\ i < k /\ k < j => f[s + k] = Inside
               /\ k < i \/ j < k => f[s + k] = CR
    BY ValidPiece DEF ValidAt
<1>2. i \in 1..((p + 1) - s) /\ j \in 1..((p + 1) - s)
    OBVIOUS
<1>3. \A k \in 1..((p + 1) - s) : k \in 1..(p - s) \/ (s + k = p + 1 /\ j < k)
    OBVIOUS
<1>4. \A k \in 1..((p + 1) - s) :
               /\ i < k /\ k < j => f[s + k] = Inside
               /\ k < i \/ j < k => f[s + k] = CR
    BY <1>1, <1>3
<1>5. ValidAt(f, s, p + 1)
    BY <1>1, <1>2, <1>4 DEF ValidAt
<1> QED BY <1>5, ValidPiece

\* ... and neither does taking one away.
LEMMA ValidBeforeReturn ==
    ASSUME NEW f \in Seq(Bytes), NEW p \in 0..Len(f), NEW s \in 0..p,
           Valid(Piece(f, s, p)), f[p] = CR
    PROVE  p - 1 \in s..Len(f) /\ Valid(Piece(f, s, p - 1))
<1>1. PICK i, j \in 1..(p - s) :
        /\ i < j
        /\ f[s + i] = Open
        /\ f[s + j] = Close
        /\ \A k \in 1..(p - s) :
               /\ i < k /\ k < j => f[s + k] = Inside
               /\ k < i \/ j < k => f[s + k] = CR
    BY ValidPiece DEF ValidAt
<1>2. s + j # p
    BY <1>1, Letters
<1>3. i \in 1..((p - 1) - s) /\ j \in 1..((p - 1) - s) /\ p - 1 \in s..Len(f)
    BY <1>1, <1>2
<1>4. \A k \in 1..((p - 1) - s) : k \in 1..(p - s)
    OBVIOUS
<1>5. \A k \in 1..((p - 1) - s) :
               /\ i < k /\ k < j => f[s + k] = Inside
               /\ k < i \/ j < k => f[s + k] = CR
    BY <1>1, <1>4
<1>6. ValidAt(f, s, p - 1)
    BY <1>1, <1>3, <1>5 DEF ValidAt
<1> QED BY <1>3, <1>6, ValidPiece

LEMMA NothingValid == ~Valid(<<>>) /\ ~Valid(<<CR>>)
<1>1. ~Valid(<<>>)
    BY EmptySeq DEF Valid
<1>2. ~Valid(<<CR>>)
    <2>1. Len(<<CR>>) = 1
        OBVIOUS
    <2> QED BY <2>1 DEF Valid
<1> QED BY <1>1, <1>2

LEMMA TrimPiece ==
    ASSUME NEW f \in Seq(Bytes), NEW p \in 0..Len(f), NEW s \in 0..p
    PROVE  /\ s < p /\ f[p] = CR => Trim(Piece(f, s, p)) = Piece(f, s, p - 1)
           /\ s = p \/ f[p] # CR => Trim(Piece(f, s, p)) = Piece(f, s, p)
<1> DEFINE t == Piece(f, s, p)
<1>1. t \in Seq(Bytes) /\ Len(t) = p - s /\ \A i \in 1..(p - s) : t[i] = f[s + i]
    BY PieceFacts
<1>2. ASSUME s < p, f[p] = CR PROVE Trim(t) = Piece(f, s, p - 1)
    <2>1. t # <<>> /\ t[Len(t)] = CR
        BY <1>1, <1>2, EmptySeq
    <2>2. Trim(t) = SubSeq(t, 1, Len(t) - 1)
        BY <2>1 DEF Trim
    <2>3. SubSeq(t, 1, (p - 1) - s) = Piece(t, 0, (p - 1) - s)
        BY DEF Piece
    <2>4. /\ Piece(t, 0, (p - 1) - s) \in Seq(Bytes)
          /\ Len(Piece(t, 0, (p - 1) - s)) = (p - 1) - s
          /\ \A i \in 1..((p - 1) - s) : Piece(t, 0, (p - 1) - s)[i] = t[0 + i]
        <3>1. (p - 1) - s \in 0..Len(t) /\ 0 \in 0..((p - 1) - s)
            BY <1>1, <1>2
        <3>2. ((p - 1) - s) - 0 = (p - 1) - s
            OBVIOUS
        <3> HIDE DEF t
        <3> QED BY <1>1, <3>1, <3>2, PieceFacts
    <2>5. /\ Piece(f, s, p - 1) \in Seq(Bytes)
          /\ Len(Piece(f, s, p - 1)) = (p - 1) - s
          /\ \A i \in 1..((p - 1) - s) : Piece(f, s, p - 1)[i] = f[s + i]
        <3>1. p - 1 \in 0..Len(f) /\ s \in 0..(p - 1)
            BY <1>2
        <3> QED BY <3>1, PieceFacts
    <2>6. \A i \in 1..((p - 1) - s) :
              Piece(t, 0, (p - 1) - s)[i] = Piece(f, s, p - 1)[i]
        BY <1>1, <2>4, <2>5
    <2>7. Piece(t, 0, (p - 1) - s) = Piece(f, s, p - 1)
        BY <2>4, <2>5, <2>6, SeqEqual
    <2>8. Len(t) - 1 = (p - 1) - s
        BY <1>1
    <2> QED BY <2>2, <2>3, <2>7, <2>8
<1>3. ASSUME s = p \/ f[p] # CR PROVE Trim(t) = t
    <2>1. t = <<>> \/ t[Len(t)] # CR
        BY <1>1, <1>3, EmptySeq
    <2> QED BY <2>1 DEF Trim
<1> QED BY <1>2, <1>3

LEMMA TrimShort ==
    ASSUME NEW t \in Seq(Bytes \ {LF})
    PROVE  Trim(t) \in Seq(Bytes \ {LF}) /\ Len(Trim(t)) <= Len(t)
<1>1. CASE t # <<>> /\ t[Len(t)] = CR
    <2>1. Len(t) \in Nat \ {0} /\ Trim(t) = SubSeq(t, 1, Len(t) - 1)
        BY <1>1, EmptySeq DEF Trim
    <2>2. 1 \in Int /\ Len(t) - 1 \in Int /\ \A i \in 1..(Len(t) - 1) : t[i] \in Bytes \ {LF}
        BY <2>1, ElementOfSeq
    <2>3. /\ SubSeq(t, 1, Len(t) - 1) \in Seq(Bytes \ {LF})
          /\ Len(SubSeq(t, 1, Len(t) - 1)) =
                IF 1 <= Len(t) - 1 THEN (Len(t) - 1) - 1 + 1 ELSE 0
        BY <2>2, SubSeqProperties
    <2> QED BY <2>1, <2>3
<1>2. CASE ~(t # <<>> /\ t[Len(t)] = CR)
    <2>1. Trim(t) = t
        BY <1>2 DEF Trim
    <2> QED BY <2>1, LenProperties
<1> QED BY <1>1, <1>2

LEMMA TrimReturn == Trim(<<>>) = <<>> /\ Trim(<<CR>>) = <<>>
<1>1. Trim(<<>>) = <<>>
    BY DEF Trim
<1>2. <<CR>> # <<>> /\ Len(<<CR>>) = 1 /\ <<CR>>[1] = CR /\ SubSeq(<<CR>>, 1, 0) = <<>>
    BY SubSeqEmpty
<1>3. Trim(<<CR>>) = SubSeq(<<CR>>, 1, 1 - 1)
    BY <1>2 DEF Trim
<1> QED BY <1>1, <1>2, <1>3

\* Every line, as far as it is in the file, is the beginning of one of Lines.
LinesOf(f) ==
    \A s \in Begins(f, Len(f)) : \A p \in (s + 1)..Len(f) :
        Unbroken(f, s, p) =>
            \E l \in Lines : p - s <= Len(l) /\ \A i \in 1..(p - s) : f[s + i] = l[i]

\* What follows a complete record on its line is one carriage return.
LEMMA AfterRecord ==
    ASSUME NEW f \in Seq(Bytes), LinesOf(f), NEW n \in 0..Len(f), NEW p \in 0..(n - 1),
           NEW s \in Begins(f, n), s <= p, Unbroken(f, s, n), Valid(Piece(f, s, p))
    PROVE  n = p + 1 /\ f[n] = CR /\ f[p] # CR
<1>1. s \in Nat /\ s < p /\ p < n /\ n \in Nat /\ p \in Nat
    BY ValidEnds DEF Begins
<1>2. s \in Begins(f, Len(f)) /\ n \in (s + 1)..Len(f)
    BY <1>1 DEF Begins
<1>3. PICK l \in Lines : n - s <= Len(l) /\ \A i \in 1..(n - s) : f[s + i] = l[i]
    BY <1>2 DEF LinesOf
<1>4. l \in Seq(Bytes) /\ Len(l) \in Nat
    <2>1. l \in Seq(Bytes \ {LF})
        BY LinesAssumption
    <2> QED BY <2>1, SeqMonotonic, LenProperties
<1>5. ASSUME NEW q \in (s + 1)..(n - 1), Valid(Piece(f, s, q))
      PROVE  q - s = Len(l) - 1 /\ l[Len(l)] = CR
    <2>1. Piece(l, 0, q - s) = Piece(f, s, q)
        <3>1. q - s \in 0..Len(l) /\ 0 \in 0..(q - s) /\ q \in 0..Len(f) /\ s \in 0..q
              /\ (q - s) - 0 = q - s
            BY <1>1, <1>3, <1>4
        <3>2. \A i \in 1..(q - s) : l[0 + i] = f[s + i]
            BY <1>1, <1>3, <1>4
        <3>3. /\ Piece(l, 0, q - s) \in Seq(Bytes) /\ Len(Piece(l, 0, q - s)) = q - s
              /\ \A i \in 1..(q - s) : Piece(l, 0, q - s)[i] = l[0 + i]
            BY <1>4, <3>1, PieceFacts
        <3>4. /\ Piece(f, s, q) \in Seq(Bytes) /\ Len(Piece(f, s, q)) = q - s
              /\ \A i \in 1..(q - s) : Piece(f, s, q)[i] = f[s + i]
            BY <3>1, PieceFacts
        <3> QED BY <3>2, <3>3, <3>4, SeqEqual
    <2>2. Piece(l, 0, q - s) = SubSeq(l, 1, q - s)
        BY DEF Piece
    <2>3. q - s \in 1..(Len(l) - 1)
        BY <1>1, <1>3, <1>4
    <2> QED BY <1>5, <2>1, <2>2, <2>3, NoEarlyObject
<1>6. p - s = Len(l) - 1 /\ l[Len(l)] = CR
    BY <1>1, <1>5
<1>7. n = p + 1 /\ f[n] = CR
    <2>1. n - s <= Len(l) /\ p - s = Len(l) - 1
        BY <1>3, <1>6
    <2>2. n = p + 1 /\ n - s = Len(l)
        BY <1>1, <1>4, <2>1
    <2> QED BY <1>1, <1>3, <1>6, <2>2
<1>8. f[p] # CR
    <2> SUFFICES ASSUME f[p] = CR PROVE FALSE
        OBVIOUS
    <2>1. p \in 0..Len(f) /\ s \in 0..p
        BY <1>1
    <2>2. p - 1 \in s..Len(f) /\ Valid(Piece(f, s, p - 1))
        BY <2>1, ValidBeforeReturn
    <2>3. s < p - 1
        <3>1. p - 1 \in 0..Len(f) /\ s \in 0..(p - 1)
            BY <1>1, <2>2
        <3> QED BY <2>2, <3>1, ValidEnds
    <2>4. (p - 1) - s = Len(l) - 1
        BY <1>1, <1>5, <2>2, <2>3
    <2> QED BY <1>1, <1>4, <1>6, <2>4
<1> QED BY <1>7, <1>8

-----------------------------------------------------------------------------
(* What has been made of the first p bytes of f: the part of the current   *)
(* line that is held, whether the rest of it is skipped, the records so    *)
(* far, and how many lines were found to be too long.                      *)

Ordered(recs) == \A a, b \in DOMAIN recs : a < b => recs[a].from < recs[b].from

\* A record is a line, or what there was of it.
IsLine(f, p, r) ==
    /\ r.from \in Begins(f, p)
    /\ Len(r.text) <= MaxLine
    /\ \E e \in r.from..p : /\ IsEnd(f, r.from, p, e)
                            /\ Trim(Piece(f, r.from, e)) \in {r.text, Trim(r.text)}

Sound(f, p, recs) == \A a \in DOMAIN recs : IsLine(f, p, recs[a])

Complete(f, p, recs) ==
    \A s \in Begins(f, p) : \A e \in s..p :
        /\ IsEnd(f, s, p, e)
        /\ e < p
        /\ e - s <= MaxLine
        /\ Trim(Piece(f, s, e)) # <<>>
        => s \in From(recs)

TooLong(f, p, recs) ==
    {s \in Begins(f, p) :
        s \notin From(recs) /\ \E e \in s..p : IsEnd(f, s, p, e) /\ e - s > MaxLine}

\* The current line is held,
Held(f, s, p, pend, disc, recs) ==
    s \notin From(recs) /\ ~disc /\ pend = Piece(f, s, p) /\ p - s <= MaxLine

\* skipped,
Skipping(s, p, pend, disc, recs) ==
    s \notin From(recs) /\ disc /\ pend = <<>> /\ p - s > MaxLine

\* or delivered, before its line feed was there.
Early(f, s, p, pend, disc, recs) ==
    /\ s \in From(recs) /\ ~disc
    /\ Valid(Piece(f, s, p))
    /\ pend = <<>> \/ (pend = <<CR>> /\ f[p] = CR)

Current(f, p, pend, disc, recs) ==
    \E s \in Begins(f, p) :
        /\ Unbroken(f, s, p)
        /\ \/ Held(f, s, p, pend, disc, recs)
           \/ Skipping(s, p, pend, disc, recs)
           \/ Early(f, s, p, pend, disc, recs)

ScanInv(f, p, pend, disc, recs, count) ==
    /\ p \in 0..Len(f)
    /\ recs \in Seq(Records)
    /\ Ordered(recs)
    /\ Sound(f, p, recs)
    /\ Complete(f, p, recs)
    /\ count = Cardinality(TooLong(f, p, recs))
    /\ Current(f, p, pend, disc, recs)

-----------------------------------------------------------------------------
LEMMA BeginsWithin ==
    ASSUME NEW f, NEW p \in Nat
    PROVE  Begins(f, p) \in SUBSET (0..p) /\ 0 \in Begins(f, p)
    BY DEF Begins

LEMMA TooLongFinite ==
    ASSUME NEW f, NEW p \in Nat, NEW recs
    PROVE  IsFiniteSet(TooLong(f, p, recs)) /\ Cardinality(TooLong(f, p, recs)) \in Nat
<1>1. TooLong(f, p, recs) \in SUBSET (0..p)
    BY BeginsWithin DEF TooLong
<1>2. IsFiniteSet(0..p)
    BY FS_Interval
<1>3. IsFiniteSet(TooLong(f, p, recs))
    BY <1>1, <1>2, FS_Subset
<1> QED BY <1>3, FS_CardinalityType

\* Nothing before p changes when the file grows.
LEMMA Grown ==
    ASSUME NEW f \in Seq(Bytes), NEW g \in Seq(Bytes), NEW p \in Nat, Agree(f, g, p),
           NEW pend, NEW disc, NEW recs, NEW count,
           ScanInv(f, p, pend, disc, recs, count)
    PROVE  ScanInv(g, p, pend, disc, recs, count)
<1>1. p \in 0..Len(g)
    BY DEF Agree
<1>2. Begins(g, p) = Begins(f, p)
    BY DEF Begins, Agree
<1>3. \A s \in 0..p : \A e \in s..p : Unbroken(g, s, e) <=> Unbroken(f, s, e)
    BY DEF Unbroken, Agree
<1>4. \A s \in 0..p : \A e \in s..p : IsEnd(g, s, p, e) <=> IsEnd(f, s, p, e)
    BY <1>3 DEF IsEnd, Agree
<1>5. \A s \in 0..p : \A e \in s..p : Piece(g, s, e) = Piece(f, s, e)
    BY PieceAgree
<1>6. Begins(f, p) \in SUBSET (0..p) /\ p \in Nat
    BY BeginsWithin
<1>7. Sound(g, p, recs)
    <2> SUFFICES ASSUME NEW a \in DOMAIN recs PROVE IsLine(g, p, recs[a])
        BY DEF Sound
    <2>1. IsLine(f, p, recs[a])
        BY DEF ScanInv, Sound
    <2>2. recs[a].from \in 0..p
        BY <1>6, <2>1 DEF IsLine
    <2> QED BY <1>2, <1>4, <1>5, <2>1, <2>2 DEF IsLine
<1>8. Complete(g, p, recs)
    BY <1>2, <1>4, <1>5, <1>6 DEF ScanInv, Complete
<1>9. TooLong(g, p, recs) = TooLong(f, p, recs)
    BY <1>2, <1>4, <1>6 DEF TooLong
<1>10. Current(g, p, pend, disc, recs)
    <2>1. PICK s \in Begins(f, p) :
            /\ Unbroken(f, s, p)
            /\ \/ Held(f, s, p, pend, disc, recs)
               \/ Skipping(s, p, pend, disc, recs)
               \/ Early(f, s, p, pend, disc, recs)
        BY DEF ScanInv, Current
    <2>2. s \in 0..p /\ p \in s..p
        BY <1>6
    <2>3. Unbroken(g, s, p) /\ Piece(g, s, p) = Piece(f, s, p)
        BY <1>3, <1>5, <2>1, <2>2
    <2>4. CASE Early(f, s, p, pend, disc, recs)
        <3>1. s < p
            <4>1. p \in 0..Len(f)
                BY DEF Agree
            <4> QED BY <2>2, <2>4, <4>1, ValidEnds DEF Early
        <3>2. g[p] = f[p]
            BY <3>1, <2>2 DEF Agree
        <3> QED BY <1>2, <2>1, <2>3, <2>4, <3>2 DEF Current, Early
    <2>5. CASE Held(f, s, p, pend, disc, recs)
        BY <1>2, <2>1, <2>3, <2>5 DEF Current, Held
    <2> QED BY <1>2, <2>1, <2>3, <2>4, <2>5 DEF Current
<1> QED BY <1>1, <1>7, <1>8, <1>9, <1>10 DEF ScanInv

LEMMA FromAppend ==
    ASSUME NEW recs \in Seq(Records), NEW x \in Records
    PROVE  /\ Append(recs, x) \in Seq(Records)
           /\ From(Append(recs, x)) = From(recs) \cup {x.from}
           /\ \A a \in DOMAIN recs : Append(recs, x)[a] = recs[a]
           /\ Append(recs, x)[Len(recs) + 1] = x
           /\ DOMAIN Append(recs, x) = 1..(Len(recs) + 1) /\ DOMAIN recs = 1..Len(recs)
<1>1. /\ Append(recs, x) \in Seq(Records)
      /\ \A a \in DOMAIN recs : Append(recs, x)[a] = recs[a]
      /\ Append(recs, x)[Len(recs) + 1] = x
      /\ DOMAIN Append(recs, x) = 1..(Len(recs) + 1) /\ DOMAIN recs = 1..Len(recs)
      /\ Len(recs) \in Nat
    OBVIOUS
<1>2. \A a \in DOMAIN Append(recs, x) : a \in DOMAIN recs \/ a = Len(recs) + 1
    BY <1>1
<1>3. Len(recs) + 1 \in DOMAIN Append(recs, x) /\ DOMAIN recs \subseteq DOMAIN Append(recs, x)
    BY <1>1
<1>4. From(Append(recs, x)) = From(recs) \cup {x.from}
    BY <1>1, <1>2, <1>3 DEF From
<1> QED BY <1>1, <1>4

\* A record of the current line, which had none.
LEMMA Recorded ==
    ASSUME NEW f, NEW p \in Nat, NEW recs \in Seq(Records), Ordered(recs), Sound(f, p, recs),
           NEW s \in Begins(f, p), Unbroken(f, s, p), s \notin From(recs),
           NEW x \in Records, x.from = s
    PROVE  Ordered(Append(recs, x))
<1>1. \A a \in DOMAIN recs : recs[a].from < s
    <2> SUFFICES ASSUME NEW a \in DOMAIN recs PROVE recs[a].from < s
        OBVIOUS
    <2>1. recs[a].from \in Begins(f, p) /\ recs[a].from # s
        BY DEF Sound, IsLine, From
    <2> QED BY <2>1 DEF Begins, Unbroken
<1>2. \A a \in DOMAIN recs : a < Len(recs) + 1
    BY FromAppend
<1> QED BY <1>1, <1>2, FromAppend DEF Ordered

\* Where the lines end when more of the current one has been read: s is where
\* it begins.
LEMMA EndsOfPart ==
    ASSUME NEW f, NEW n \in Nat, NEW p \in 0..n, Unbroken(f, p, n),
           NEW s \in Begins(f, p), Unbroken(f, s, p)
    PROVE  /\ Begins(f, n) = Begins(f, p)
           /\ Unbroken(f, s, n)
           /\ \A b \in Begins(f, p) : \A e \in b..n :
                 IsEnd(f, b, n, e) <=> (e < p /\ IsEnd(f, b, p, e)) \/ (e = n /\ b = s)
           /\ \A b \in Begins(f, p) : \A e \in b..p :
                 IsEnd(f, b, p, e) /\ ~(e < p) => e = p /\ b = s
<1>1. Begins(f, n) = Begins(f, p)
    BY DEF Begins, Unbroken
<1>2. Unbroken(f, s, n)
    BY DEF Begins, Unbroken
<1>3. \A b \in Begins(f, p) : b # s => b < s /\ f[s] = LF /\ s \in Nat /\ b \in Nat /\ s <= p
    BY DEF Begins, Unbroken
<1>4. ASSUME NEW b \in Begins(f, p), NEW e \in b..n, IsEnd(f, b, n, e)
      PROVE  (e < p /\ IsEnd(f, b, p, e)) \/ (e = n /\ b = s)
    <2>1. b \in 0..p
        BY DEF Begins
    <2>2. CASE e < p
        BY <1>4, <2>1, <2>2 DEF IsEnd
    <2>3. CASE p <= e /\ e < n
        BY <1>4, <2>1, <2>3 DEF IsEnd, Unbroken
    <2>4. CASE e = n
        BY <1>3, <1>4, <2>1, <2>4 DEF IsEnd, Unbroken
    <2> QED BY <2>1, <2>2, <2>3, <2>4
<1>5. ASSUME NEW b \in Begins(f, p), NEW e \in b..n,
             (e < p /\ IsEnd(f, b, p, e)) \/ (e = n /\ b = s)
      PROVE  IsEnd(f, b, n, e)
    BY <1>2, <1>5 DEF IsEnd
<1>6. ASSUME NEW b \in Begins(f, p), NEW e \in b..p, IsEnd(f, b, p, e), ~(e < p)
      PROVE  e = p /\ b = s
    <2>1. b \in 0..p /\ e = p
        BY <1>6 DEF Begins
    <2> QED BY <1>3, <1>6, <2>1 DEF IsEnd, Unbroken
<1> QED BY <1>1, <1>2, <1>4, <1>5, <1>6

\* More of the current line: KeepPart.
LEMMA PartStep ==
    ASSUME NEW f \in Seq(Bytes), LinesOf(f),
           NEW p, NEW pend, NEW disc, NEW recs, NEW count,
           ScanInv(f, p, pend, disc, recs, count),
           NEW n \in p..Len(f), Unbroken(f, p, n),
           NEW pend2, NEW disc2, NEW count2,
           IF disc \/ ~(Len(pend) + Len(Piece(f, p, n)) <= MaxLine)
           THEN /\ pend2 = <<>> /\ disc2 = TRUE
                /\ count2 = count + (IF disc THEN 0 ELSE 1)
           ELSE pend2 = pend \o Piece(f, p, n) /\ disc2 = FALSE /\ count2 = count
    PROVE  ScanInv(f, n, pend2, disc2, recs, count2)
<1>1. p \in 0..Len(f) /\ p \in Nat /\ n \in Nat /\ p \in 0..n /\ n \in 0..Len(f)
    BY DEF ScanInv
<1>2. PICK s \in Begins(f, p) :
        /\ Unbroken(f, s, p)
        /\ \/ Held(f, s, p, pend, disc, recs)
           \/ Skipping(s, p, pend, disc, recs)
           \/ Early(f, s, p, pend, disc, recs)
    BY DEF ScanInv, Current
<1>3. s \in 0..p /\ s \in 0..n /\ s \in Nat
    BY <1>1, BeginsWithin
<1>4. /\ Begins(f, n) = Begins(f, p)
      /\ Unbroken(f, s, n)
      /\ \A b \in Begins(f, p) : \A e \in b..n :
            IsEnd(f, b, n, e) <=> (e < p /\ IsEnd(f, b, p, e)) \/ (e = n /\ b = s)
      /\ \A b \in Begins(f, p) : \A e \in b..p :
            IsEnd(f, b, p, e) /\ ~(e < p) => e = p /\ b = s
    <2>1. /\ n \in Nat /\ p \in 0..n /\ Unbroken(f, p, n)
          /\ s \in Begins(f, p) /\ Unbroken(f, s, p)
        BY <1>1, <1>2
    <2> QED BY <2>1, EndsOfPart, Zenon
<1>5. /\ Len(Piece(f, p, n)) = n - p /\ Len(Piece(f, s, p)) = p - s
      /\ Piece(f, s, p) \o Piece(f, p, n) = Piece(f, s, n)
      /\ Piece(f, p, n) \in Seq(Bytes)
    BY <1>1, <1>3, PieceFacts, PieceGlue
<1>6. Begins(f, p) \in SUBSET (0..p)
    BY <1>1, BeginsWithin
<1>7. IsEnd(f, s, p, p) /\ IsEnd(f, s, n, n)
    BY <1>2, <1>4 DEF IsEnd
\* A record that was delivered early is followed by one carriage return at most.
<1>8. ASSUME Early(f, s, p, pend, disc, recs), n # p
      PROVE  n = p + 1 /\ f[n] = CR /\ f[p] # CR /\ s < p
    <2>1. Valid(Piece(f, s, p)) /\ p \in 0..(n - 1) /\ s <= p /\ s \in Begins(f, n)
        BY <1>1, <1>3, <1>4, <1>8 DEF Early
    <2> QED BY <1>1, <1>3, <1>4, <2>1, AfterRecord, ValidEnds
<1>9. Sound(f, n, recs)
    <2> SUFFICES ASSUME NEW a \in DOMAIN recs PROVE IsLine(f, n, recs[a])
        BY DEF Sound
    <2> DEFINE r == recs[a]
    <2>1. IsLine(f, p, r)
        BY DEF ScanInv, Sound
    <2>2. PICK e \in r.from..p : /\ IsEnd(f, r.from, p, e)
                                 /\ Trim(Piece(f, r.from, e)) \in {r.text, Trim(r.text)}
        BY <2>1 DEF IsLine
    <2>3. r.from \in Begins(f, p) /\ r.from \in 0..p /\ Len(r.text) <= MaxLine
        BY <1>6, <2>1 DEF IsLine
    <2>4. CASE e < p
        <3>1. e \in r.from..n /\ IsEnd(f, r.from, n, e)
            BY <1>1, <1>4, <2>2, <2>3, <2>4
        <3> QED BY <1>4, <2>2, <2>3, <3>1 DEF IsLine
    <2>5. CASE ~(e < p)
        <3>1. e = p /\ r.from = s
            BY <1>4, <2>2, <2>3, <2>5
        <3>2. s \in From(recs)
            BY <3>1 DEF From
        <3>3. Early(f, s, p, pend, disc, recs)
            BY <1>2, <3>2 DEF Held, Skipping
        <3>4. Trim(Piece(f, s, n)) = Trim(Piece(f, s, p))
            <4>1. CASE n = p
                BY <4>1
            <4>2. CASE n # p
                <5>1. n = p + 1 /\ f[n] = CR /\ f[p] # CR /\ s < p
                    BY <1>8, <3>3, <4>2
                <5>2. Trim(Piece(f, s, n)) = Piece(f, s, n - 1)
                    BY <1>1, <1>3, <5>1, TrimPiece
                <5>3. Trim(Piece(f, s, p)) = Piece(f, s, p)
                    BY <1>1, <1>3, <5>1, TrimPiece
                <5>4. n - 1 = p
                    BY <1>1, <5>1
                <5> QED BY <5>2, <5>3, <5>4
            <4> QED BY <4>1, <4>2
        <3>5. n \in r.from..n /\ Trim(Piece(f, r.from, n)) \in {r.text, Trim(r.text)}
            BY <1>1, <1>3, <2>2, <3>1, <3>4
        <3> QED BY <1>4, <1>7, <2>3, <3>1, <3>5 DEF IsLine
    <2> QED BY <2>4, <2>5
<1>10. Complete(f, n, recs)
    <2> SUFFICES ASSUME NEW b \in Begins(f, n), NEW e \in b..n, IsEnd(f, b, n, e), e < n,
                        e - b <= MaxLine, Trim(Piece(f, b, e)) # <<>>
                 PROVE  b \in From(recs)
        BY DEF Complete
    <2>1. e < p /\ IsEnd(f, b, p, e) /\ b \in Begins(f, p)
        BY <1>1, <1>4
    <2>2. e \in b..p
        BY <1>1, <2>1
    <2> QED BY <2>1, <2>2 DEF ScanInv, Complete
<1> DEFINE New == IF s \notin From(recs) /\ n - s > MaxLine THEN {s} ELSE {}
           Old == IF s \notin From(recs) /\ p - s > MaxLine THEN {s} ELSE {}
           Before == {b \in Begins(f, p) :
                        b \notin From(recs) /\ \E e \in b..p :
                            e < p /\ IsEnd(f, b, p, e) /\ e - b > MaxLine}
<1>11. TooLong(f, n, recs) = Before \cup New
    <2>1. ASSUME NEW b \in TooLong(f, n, recs) PROVE b \in Before \cup New
        <3>1. b \in Begins(f, p) /\ b \in 0..p /\ b \notin From(recs)
            BY <1>4, <1>6 DEF TooLong
        <3>2. PICK e \in b..n : IsEnd(f, b, n, e) /\ e - b > MaxLine
            BY DEF TooLong
        <3>3. CASE e < p /\ IsEnd(f, b, p, e)
            <4>1. e \in b..p
                BY <1>1, <3>3
            <4> QED BY <3>1, <3>2, <3>3, <4>1
        <3>4. CASE e = n /\ b = s
            BY <3>1, <3>2, <3>4
        <3> QED BY <1>4, <3>1, <3>2, <3>3, <3>4
    <2>2. ASSUME NEW b \in Before PROVE b \in TooLong(f, n, recs)
        <3>1. PICK e \in b..p : e < p /\ IsEnd(f, b, p, e) /\ e - b > MaxLine
            OBVIOUS
        <3>2. e \in b..n /\ IsEnd(f, b, n, e)
            BY <1>1, <1>4, <1>6, <3>1
        <3> QED BY <1>4, <3>1, <3>2 DEF TooLong
    <2>3. ASSUME NEW b \in New PROVE b \in TooLong(f, n, recs)
        <3>1. b = s /\ s \notin From(recs) /\ n - s > MaxLine
            OBVIOUS
        <3>2. n \in s..n
            BY <1>1, <1>3
        <3> QED BY <1>4, <1>7, <3>1, <3>2 DEF TooLong
    <2> QED BY <2>1, <2>2, <2>3
<1>12. TooLong(f, p, recs) = Before \cup Old
    <2>1. ASSUME NEW b \in TooLong(f, p, recs) PROVE b \in Before \cup Old
        <3>1. b \in Begins(f, p) /\ b \notin From(recs)
            BY DEF TooLong
        <3>2. PICK e \in b..p : IsEnd(f, b, p, e) /\ e - b > MaxLine
            BY DEF TooLong
        <3> QED BY <1>4, <3>1, <3>2
    <2>2. ASSUME NEW b \in Before PROVE b \in TooLong(f, p, recs)
        BY DEF TooLong
    <2>3. ASSUME NEW b \in Old PROVE b \in TooLong(f, p, recs)
        <3>1. b = s /\ s \notin From(recs) /\ p - s > MaxLine
            OBVIOUS
        <3>2. p \in s..p
            BY <1>1, <1>3
        <3> QED BY <1>7, <3>1, <3>2 DEF TooLong
    <2> QED BY <2>1, <2>2, <2>3
<1>13. s \notin Before
    <2> SUFFICES ASSUME NEW e \in s..p, e < p, IsEnd(f, s, p, e) PROVE FALSE
        OBVIOUS
    <2>1. p \in s..p
        BY <1>1, <1>3
    <2> QED BY <1>1, <1>3, <1>7, <2>1, EndUnique
<1>14. /\ IsFiniteSet(TooLong(f, p, recs))
       /\ count = Cardinality(TooLong(f, p, recs)) /\ count \in Nat
    BY <1>1, TooLongFinite DEF ScanInv
<1> HIDE DEF Before
<1>15. /\ count2 = Cardinality(TooLong(f, n, recs))
       /\ \/ Held(f, s, n, pend2, disc2, recs)
          \/ Skipping(s, n, pend2, disc2, recs)
          \/ Early(f, s, n, pend2, disc2, recs)
    <2>1. CASE Held(f, s, p, pend, disc, recs)
        <3>1. /\ s \notin From(recs) /\ ~disc /\ p - s <= MaxLine /\ Len(pend) = p - s
              /\ pend \o Piece(f, p, n) = Piece(f, s, n)
            BY <1>5, <2>1 DEF Held
        <3>2. Len(pend) + Len(Piece(f, p, n)) = n - s
            BY <1>1, <1>3, <1>5, <3>1
        <3>3. TooLong(f, p, recs) = Before
            BY <1>1, <1>3, <1>12, <3>1, SizesAssumption
        <3>4. CASE n - s <= MaxLine
            <4>1. pend2 = Piece(f, s, n) /\ disc2 = FALSE /\ count2 = count
                BY <3>1, <3>2, <3>4
            <4>2. New = {}
                BY <1>1, <1>3, <3>4, SizesAssumption
            <4> QED BY <1>11, <1>14, <3>1, <3>3, <3>4, <4>1, <4>2 DEF Held
        <3>5. CASE ~(n - s <= MaxLine)
            <4>1. pend2 = <<>> /\ disc2 = TRUE /\ count2 = count + 1
                BY <3>1, <3>2, <3>5
            <4>2. n - s > MaxLine
                BY <1>1, <1>3, <3>5, SizesAssumption
            <4>3. TooLong(f, n, recs) = TooLong(f, p, recs) \cup {s}
                BY <1>11, <3>1, <3>3, <4>2
            <4>4. s \notin TooLong(f, p, recs)
                BY <1>13, <3>3
            <4>5. Cardinality(TooLong(f, n, recs)) = count + 1
                BY <1>14, <4>3, <4>4, FS_AddElement
            <4> QED BY <3>1, <4>1, <4>2, <4>5 DEF Skipping
        <3> QED BY <3>4, <3>5
    <2>2. CASE Skipping(s, p, pend, disc, recs)
        <3>1. s \notin From(recs) /\ disc /\ p - s > MaxLine /\ n - s > MaxLine
            BY <1>1, <1>3, <2>2, SizesAssumption DEF Skipping
        <3>2. pend2 = <<>> /\ disc2 = TRUE /\ count2 = count
            BY <1>14, <3>1
        <3> QED BY <1>11, <1>12, <1>14, <3>1, <3>2 DEF Skipping
    <2>3. CASE Early(f, s, p, pend, disc, recs)
        <3>1. s \in From(recs) /\ ~disc /\ Valid(Piece(f, s, p))
              /\ (pend = <<>> \/ (pend = <<CR>> /\ f[p] = CR))
            BY <2>3 DEF Early
        <3>2. TooLong(f, n, recs) = TooLong(f, p, recs)
            BY <1>11, <1>12, <3>1
        <3>3. CASE n = p
            <4>1. Piece(f, p, n) = <<>>
                BY <1>1, <3>3, PieceEmpty
            <4>2. Len(pend) <= 1 /\ pend \o <<>> = pend /\ Len(pend) \in Nat
                <5>1. CASE pend = <<>>
                    BY <5>1
                <5>2. CASE pend = <<CR>>
                    BY <5>2
                <5> QED BY <3>1, <5>1, <5>2
            <4>3. Len(pend) + Len(Piece(f, p, n)) <= MaxLine
                BY <1>1, <1>5, <3>3, <4>2, SizesAssumption
            <4>4. pend2 = pend /\ disc2 = FALSE /\ count2 = count
                BY <3>1, <4>1, <4>2, <4>3
            <4> QED BY <1>14, <2>3, <3>1, <3>2, <3>3, <4>4 DEF Early
        <3>4. CASE n # p
            <4>1. n = p + 1 /\ f[n] = CR /\ f[p] # CR /\ s < p
                BY <1>8, <2>3, <3>4
            <4>2. pend = <<>>
                BY <3>1, <4>1
            <4>3. Piece(f, p, n) = <<CR>>
                <5>1. Len(Piece(f, p, n)) = 1 /\ Piece(f, p, n)[1] = CR
                    <6>1. n - p = 1 /\ p + 1 = n /\ 1 \in 1..(n - p)
                        BY <1>1, <4>1
                    <6>2. /\ Len(Piece(f, p, n)) = n - p
                          /\ \A i \in 1..(n - p) : Piece(f, p, n)[i] = f[p + i]
                        BY <1>1, PieceFacts
                    <6>3. Piece(f, p, n)[1] = f[p + 1]
                        BY <6>1, <6>2
                    <6> QED BY <4>1, <6>1, <6>2, <6>3
                <5>2. <<CR>> \in Seq(Bytes) /\ Len(<<CR>>) = 1 /\ <<CR>>[1] = CR
                    BY Letters
                <5>3. /\ Len(Piece(f, p, n)) = Len(<<CR>>)
                      /\ \A i \in 1..Len(Piece(f, p, n)) : Piece(f, p, n)[i] = <<CR>>[i]
                    BY <5>1, <5>2
                <5> QED BY <1>5, <5>2, <5>3, SeqEqual
            <4>4. Len(pend) + Len(Piece(f, p, n)) <= MaxLine
                <5>1. Len(pend) = 0
                    BY <4>2
                <5> QED BY <1>1, <1>5, <4>1, <5>1, SizesAssumption
            <4>5. pend \o Piece(f, p, n) = <<CR>>
                BY <4>2, <4>3, Letters, ConcatEmptySeq, <<CR>> \in Seq(Bytes)
            <4>6. pend2 = <<CR>> /\ disc2 = FALSE /\ count2 = count
                BY <3>1, <4>4, <4>5
            <4>7. Valid(Piece(f, s, n))
                BY <1>1, <1>3, <3>1, <4>1, ValidThenReturn
            <4> QED BY <1>14, <3>1, <3>2, <4>1, <4>6, <4>7 DEF Early
        <3> QED BY <3>3, <3>4
    <2> QED BY <1>2, <2>1, <2>2, <2>3
<1>16. Current(f, n, pend2, disc2, recs)
    BY <1>4, <1>15 DEF Current
<1> QED BY <1>1, <1>9, <1>10, <1>15, <1>16 DEF ScanInv

\* The line feed: what EndLine does with the rest of a line that has been read
\* up to it.
LEMMA LineStep ==
    ASSUME NEW f \in Seq(Bytes), NEW p, NEW pend, NEW disc, NEW recs, NEW count,
           ScanInv(f, p, pend, disc, recs, count),
           p + 1 <= Len(f), f[p + 1] = LF,
           NEW s \in Begins(f, p), Unbroken(f, s, p),
           NEW recs2,
           IF disc \/ Trim(pend) = <<>> THEN recs2 = recs
           ELSE recs2 = Append(recs, [from |-> s, text |-> Trim(pend)])
    PROVE  ScanInv(f, p + 1, <<>>, FALSE, recs2, count)
<1> DEFINE n == p + 1
<1>1. /\ p \in 0..Len(f) /\ p \in Nat /\ n \in Nat /\ p < n /\ n \in 0..Len(f) /\ n \in 1..n
      /\ f[n] = LF
    BY DEF ScanInv
<1>a. n = p + 1
    OBVIOUS
<1> HIDE DEF n
<1>2. \/ Held(f, s, p, pend, disc, recs)
      \/ Skipping(s, p, pend, disc, recs)
      \/ Early(f, s, p, pend, disc, recs)
    <2>1. PICK t \in Begins(f, p) :
            /\ Unbroken(f, t, p)
            /\ \/ Held(f, t, p, pend, disc, recs)
               \/ Skipping(t, p, pend, disc, recs)
               \/ Early(f, t, p, pend, disc, recs)
        BY DEF ScanInv, Current
    <2>2. t = s
        BY <1>1, <2>1 DEF Begins, Unbroken
    <2> QED BY <2>1, <2>2
<1>3. Begins(f, p) \in SUBSET (0..p) /\ s \in 0..p /\ s \in Nat
    BY <1>1, BeginsWithin
<1>4. Begins(f, n) = Begins(f, p) \cup {n} /\ n \notin Begins(f, p)
    BY <1>1, <1>a DEF Begins
<1>5. \A b \in Begins(f, p) : \A e \in b..n : IsEnd(f, b, n, e) <=> e <= p /\ IsEnd(f, b, p, e)
    <2> SUFFICES ASSUME NEW b \in Begins(f, p), NEW e \in b..n
                 PROVE  IsEnd(f, b, n, e) <=> e <= p /\ IsEnd(f, b, p, e)
        OBVIOUS
    <2>1. b \in 0..p /\ e \in Nat
        BY <1>1, <1>3
    <2>2. CASE e = n
        BY <1>1, <1>a, <2>1, <2>2 DEF IsEnd, Unbroken
    <2>3. CASE e = p
        BY <1>1, <1>a, <2>1, <2>3 DEF IsEnd
    <2>4. CASE e < p
        BY <1>1, <1>a, <2>1, <2>4 DEF IsEnd
    <2> QED BY <1>1, <1>a, <2>1, <2>2, <2>3, <2>4
<1>6. \A e \in n..n : e = n
    BY <1>1
<1>7. \A b \in Begins(f, p) : IsEnd(f, b, p, p) => b = s
    BY <1>1, <1>3 DEF IsEnd, Begins, Unbroken
<1>8. IsEnd(f, s, p, p)
    BY DEF IsEnd
<1>9. recs \in Seq(Records) /\ Ordered(recs) /\ Sound(f, p, recs) /\ Complete(f, p, recs)
    BY DEF ScanInv
\* Records stay records.
<1>10. ASSUME NEW r, IsLine(f, p, r) PROVE IsLine(f, n, r)
    <2>1. PICK e \in r.from..p : /\ IsEnd(f, r.from, p, e)
                                 /\ Trim(Piece(f, r.from, e)) \in {r.text, Trim(r.text)}
        BY <1>10 DEF IsLine
    <2>2. r.from \in Begins(f, p) /\ r.from \in 0..p
        BY <1>3, <1>10 DEF IsLine
    <2>3. e \in r.from..n /\ e <= p
        BY <1>1, <2>1, <2>2
    <2>4. IsEnd(f, r.from, n, e)
        BY <1>5, <2>1, <2>2, <2>3
    <2> QED BY <1>4, <1>10, <2>1, <2>2, <2>3, <2>4 DEF IsLine
<1>11. ASSUME Held(f, s, p, pend, disc, recs) /\ Trim(pend) # <<>>
       PROVE  /\ Ordered(recs2) /\ recs2 \in Seq(Records) /\ Sound(f, n, recs2)
              /\ From(recs2) = From(recs) \cup {s}
    <2> DEFINE x == [from |-> s, text |-> Trim(pend)]
    <2>1. recs2 = Append(recs, x) /\ s \notin From(recs) /\ pend = Piece(f, s, p) /\ p - s <= MaxLine
        BY <1>11 DEF Held
    <2>2. pend \in Seq(Bytes \ {LF}) /\ Len(pend) = p - s
        BY <1>1, <1>3, <2>1, PieceText, PieceFacts
    <2>3. Trim(pend) \in Seq(Bytes \ {LF}) /\ Len(Trim(pend)) <= p - s
        BY <2>2, TrimShort
    <2>4. x \in Records /\ x.from = s /\ x.text = Trim(pend)
        BY <1>3, <2>3 DEF Records
    <2>5. Len(x.text) <= MaxLine
        BY <1>1, <1>3, <2>1, <2>3, <2>4, LenProperties, SizesAssumption
    <2> HIDE DEF x
    <2>6. IsLine(f, p, x)
        <3>1. p \in s..p
            BY <1>1, <1>3
        <3> QED BY <1>8, <2>1, <2>4, <2>5, <3>1 DEF IsLine
    <2>7. Ordered(recs2) /\ recs2 \in Seq(Records) /\ From(recs2) = From(recs) \cup {s}
        BY <1>1, <1>9, <2>1, <2>4, Recorded, FromAppend
    <2>8. Sound(f, n, recs2)
        <3> SUFFICES ASSUME NEW a \in DOMAIN recs2 PROVE IsLine(f, n, recs2[a])
            BY DEF Sound
        <3>1. recs2[a] = x \/ (a \in DOMAIN recs /\ recs2[a] = recs[a])
            BY <1>9, <2>1, <2>4, FromAppend
        <3>2. IsLine(f, p, recs2[a])
            BY <1>9, <2>6, <3>1 DEF Sound
        <3> QED BY <1>10, <3>2
    <2> QED BY <2>7, <2>8
<1>12. ASSUME ~(Held(f, s, p, pend, disc, recs) /\ Trim(pend) # <<>>)
       PROVE  recs2 = recs /\ Sound(f, n, recs2)
    <2>1. recs2 = recs
        <3>1. CASE Early(f, s, p, pend, disc, recs)
            BY <3>1, TrimReturn DEF Early
        <3>2. CASE Skipping(s, p, pend, disc, recs)
            BY <3>2 DEF Skipping
        <3> QED BY <1>2, <1>12, <3>1, <3>2
    <2>2. Sound(f, n, recs2)
        BY <1>9, <1>10, <2>1 DEF Sound
    <2> QED BY <2>1, <2>2
<1>13. /\ Ordered(recs2) /\ recs2 \in Seq(Records) /\ Sound(f, n, recs2)
       /\ From(recs) \subseteq From(recs2)
       /\ \A b \in From(recs2) : b \in From(recs)
                                 \/ (b = s /\ Held(f, s, p, pend, disc, recs) /\ Trim(pend) # <<>>)
       /\ Held(f, s, p, pend, disc, recs) /\ Trim(pend) # <<>> => s \in From(recs2)
    BY <1>9, <1>11, <1>12
<1>14. Complete(f, n, recs2)
    <2> SUFFICES ASSUME NEW b \in Begins(f, n), NEW e \in b..n, IsEnd(f, b, n, e), e < n,
                        e - b <= MaxLine, Trim(Piece(f, b, e)) # <<>>
                 PROVE  b \in From(recs2)
        BY DEF Complete
    <2>1. b \in Begins(f, p)
        BY <1>1, <1>4
    <2>2. e <= p /\ IsEnd(f, b, p, e) /\ e \in b..p
        BY <1>1, <1>3, <1>5, <2>1
    <2>3. CASE e < p
        BY <1>9, <1>13, <2>1, <2>2, <2>3 DEF Complete
    <2>4. CASE e = p
        <3>1. b = s
            BY <1>7, <2>1, <2>2, <2>4
        <3>2. CASE Held(f, s, p, pend, disc, recs)
            BY <1>13, <2>4, <3>1, <3>2 DEF Held
        <3>3. CASE Skipping(s, p, pend, disc, recs)
            BY <1>1, <1>3, <2>4, <3>1, <3>3, SizesAssumption DEF Skipping
        <3>4. CASE Early(f, s, p, pend, disc, recs)
            BY <1>13, <3>1, <3>4 DEF Early
        <3> QED BY <1>2, <3>2, <3>3, <3>4
    <2> QED BY <1>1, <2>2, <2>3, <2>4
<1>15. TooLong(f, n, recs2) = TooLong(f, p, recs)
    <2>1. ASSUME NEW b \in TooLong(f, n, recs2) PROVE b \in TooLong(f, p, recs)
        <3>1. b \in Begins(f, n) /\ b \notin From(recs2)
            BY DEF TooLong
        <3>2. PICK e \in b..n : IsEnd(f, b, n, e) /\ e - b > MaxLine
            BY DEF TooLong
        <3>3. b \in Begins(f, p)
            BY <1>1, <1>4, <1>6, <3>1, <3>2, SizesAssumption
        <3>4. e <= p /\ IsEnd(f, b, p, e) /\ e \in b..p
            BY <1>1, <1>3, <1>5, <3>2, <3>3
        <3> QED BY <1>13, <3>1, <3>2, <3>3, <3>4 DEF TooLong
    <2>2. ASSUME NEW b \in TooLong(f, p, recs) PROVE b \in TooLong(f, n, recs2)
        <3>1. b \in Begins(f, p) /\ b \notin From(recs) /\ b \in 0..p
            BY <1>3 DEF TooLong
        <3>2. PICK e \in b..p : IsEnd(f, b, p, e) /\ e - b > MaxLine
            BY DEF TooLong
        <3>3. e \in b..n /\ IsEnd(f, b, n, e)
            BY <1>1, <1>5, <3>1, <3>2
        <3>4. b \notin From(recs2)
            <4> SUFFICES ASSUME b = s, Held(f, s, p, pend, disc, recs) PROVE FALSE
                BY <1>13, <3>1
            <4>1. e = p
                <5>1. p \in s..p
                    BY <1>1, <1>3
                <5> QED BY <1>1, <1>3, <1>8, <3>2, <5>1, EndUnique
            <4> QED BY <1>1, <1>3, <3>2, <4>1, SizesAssumption DEF Held
        <3> QED BY <1>4, <3>1, <3>2, <3>3, <3>4 DEF TooLong
    <2> QED BY <2>1, <2>2
<1>16. Current(f, n, <<>>, FALSE, recs2)
    <2>1. n \in Begins(f, n) /\ Unbroken(f, n, n)
        BY <1>1, <1>4 DEF Unbroken
    <2>2. n \notin From(recs2)
        <3> SUFFICES ASSUME n \in From(recs2) PROVE FALSE
            OBVIOUS
        <3>1. n # s
            BY <1>1, <1>3, <1>a
        <3>2. n \in From(recs)
            BY <1>13, <3>1
        <3>3. n \in Begins(f, p)
            BY <1>9, <3>2 DEF From, Sound, IsLine
        <3> QED BY <1>4, <3>3
    <2>3. Piece(f, n, n) = <<>> /\ n - n <= MaxLine
        BY <1>1, PieceEmpty, SizesAssumption
    <2> QED BY <2>1, <2>2, <2>3 DEF Current, Held
<1>17. count = Cardinality(TooLong(f, n, recs2))
    BY <1>15 DEF ScanInv
<1>18. ScanInv(f, n, <<>>, FALSE, recs2, count)
    BY <1>1, <1>13, <1>14, <1>16, <1>17 DEF ScanInv
<1> QED BY <1>18, <1>a

\* A complete record at the end of the file.
LEMMA TailStep ==
    ASSUME NEW f \in Seq(Bytes), NEW p, NEW pend, NEW disc, NEW recs, NEW count,
           ScanInv(f, p, pend, disc, recs, count),
           NEW s \in Begins(f, p), Unbroken(f, s, p), Valid(pend)
    PROVE  ScanInv(f, p, <<>>, disc, Append(recs, [from |-> s, text |-> pend]), count)
<1> DEFINE x == [from |-> s, text |-> pend]
           recs2 == Append(recs, x)
<1>1. /\ p \in 0..Len(f) /\ p \in Nat /\ s \in 0..p /\ s \in Nat
      /\ recs \in Seq(Records) /\ Ordered(recs) /\ Sound(f, p, recs) /\ Complete(f, p, recs)
    BY BeginsWithin DEF ScanInv
<1>2. Held(f, s, p, pend, disc, recs)
    <2>1. PICK t \in Begins(f, p) :
            /\ Unbroken(f, t, p)
            /\ \/ Held(f, t, p, pend, disc, recs)
               \/ Skipping(t, p, pend, disc, recs)
               \/ Early(f, t, p, pend, disc, recs)
        BY DEF ScanInv, Current
    <2>2. t = s
        BY <1>1, <2>1 DEF Begins, Unbroken
    <2> QED BY <2>1, <2>2, NothingValid DEF Skipping, Early
<1>3. s \notin From(recs) /\ ~disc /\ pend = Piece(f, s, p) /\ p - s <= MaxLine
    BY <1>2 DEF Held
<1>4. pend \in Seq(Bytes \ {LF}) /\ Len(pend) = p - s
    BY <1>1, <1>3, PieceText, PieceFacts
<1>5. x \in Records /\ x.from = s /\ x.text = pend
    BY <1>1, <1>4 DEF Records
<1> HIDE DEF x
<1>6. IsEnd(f, s, p, p) /\ p \in s..p
    BY <1>1 DEF IsEnd
<1>7. IsLine(f, p, x)
    BY <1>3, <1>4, <1>5, <1>6 DEF IsLine
<1>8. Ordered(recs2) /\ recs2 \in Seq(Records) /\ From(recs2) = From(recs) \cup {s}
    BY <1>1, <1>3, <1>5, Recorded, FromAppend
<1>9. Sound(f, p, recs2)
    <2> SUFFICES ASSUME NEW a \in DOMAIN recs2 PROVE IsLine(f, p, recs2[a])
        BY DEF Sound
    <2>1. recs2[a] = x \/ (a \in DOMAIN recs /\ recs2[a] = recs[a])
        BY <1>1, <1>5, FromAppend
    <2> QED BY <1>1, <1>7, <2>1 DEF Sound
<1>10. Complete(f, p, recs2)
    BY <1>1, <1>8 DEF Complete
<1>11. TooLong(f, p, recs2) = TooLong(f, p, recs)
    <2>1. ASSUME NEW e \in s..p, IsEnd(f, s, p, e) PROVE ~(e - s > MaxLine)
        <3>1. e = p
            BY <1>1, <1>6, <2>1, EndUnique
        <3> QED BY <1>1, <1>3, <3>1, SizesAssumption
    <2> QED BY <1>8, <2>1 DEF TooLong
<1>12. Current(f, p, <<>>, disc, recs2)
    BY <1>3, <1>8 DEF Current, Early
<1> QED BY <1>1, <1>8, <1>9, <1>10, <1>11, <1>12 DEF ScanInv, x

-----------------------------------------------------------------------------
(* The steps of the scan in these terms.                                   *)

LEMMA LineReach ==
    ASSUME TypeOK, NEW n \in Buffered, file[n] = LF, \A k \in Buffered : file[k] = LF => n <= k
    PROVE  /\ n \in 1..Len(file) /\ n - 1 \in pos..Len(file) /\ n \in Nat
           /\ Unbroken(file, pos, n - 1)
    BY SizesAssumption DEF TypeOK, Buffered, Unbroken

LEMMA PartReach ==
    ASSUME TypeOK, Cardinality(Buffered) = BufSize, \A k \in Buffered : file[k] # LF
    PROVE  pos + BufSize \in pos..Len(file) /\ Unbroken(file, pos, pos + BufSize)
<1>1. /\ pos \in Nat /\ BufSize \in Nat \ {0} /\ Len(file) \in Nat /\ pos <= Len(file)
    BY SizesAssumption DEF TypeOK
<1>2. pos + BufSize <= Len(file)
    <2> SUFFICES ASSUME ~(pos + BufSize <= Len(file)) PROVE FALSE
        OBVIOUS
    <2>1. Buffered = (pos + 1)..Len(file)
        BY <1>1 DEF Buffered
    <2>2. Cardinality((pos + 1)..Len(file)) =
              IF pos + 1 > Len(file) THEN 0 ELSE Len(file) - (pos + 1) + 1
        <3>1. pos + 1 \in Int /\ Len(file) \in Int
            BY <1>1
        <3> QED BY <3>1, FS_Interval
    <2> QED BY <1>1, <2>1, <2>2
<1> QED BY <1>1, <1>2 DEF Buffered, Unbroken

LEMMA LastReach ==
    ASSUME TypeOK, Cardinality(Buffered) < BufSize, \A k \in Buffered : file[k] # LF
    PROVE  Unbroken(file, pos, Len(file))
<1>1. /\ pos \in Nat /\ BufSize \in Nat \ {0} /\ Len(file) \in Nat /\ pos <= Len(file)
    BY SizesAssumption DEF TypeOK
<1>2. Len(file) < pos + BufSize
    <2> SUFFICES ASSUME pos + BufSize <= Len(file) PROVE FALSE
        BY <1>1
    <2>1. Buffered = (pos + 1)..(pos + BufSize)
        BY <1>1 DEF Buffered
    <2>2. Cardinality((pos + 1)..(pos + BufSize)) =
              IF pos + 1 > pos + BufSize THEN 0 ELSE (pos + BufSize) - (pos + 1) + 1
        <3>1. pos + 1 \in Int /\ pos + BufSize \in Int
            BY <1>1
        <3> QED BY <3>1, FS_Interval
    <2> QED BY <1>1, <2>1, <2>2
<1> QED BY <1>1, <1>2 DEF Buffered, Unbroken

LEMMA KeepPartIs ==
    ASSUME TypeOK, NEW n \in pos..Len(file), Unbroken(file, pos, n)
    PROVE  /\ KeepPart(n).pending \in Seq(Bytes \ {LF})
           /\ Len(KeepPart(n).pending) <= MaxLine
           /\ KeepPart(n).discarding \in BOOLEAN
           /\ KeepPart(n).over \in Nat
           /\ IF discarding \/ ~(Len(pending) + Len(Piece(file, pos, n)) <= MaxLine)
              THEN /\ KeepPart(n).pending = <<>> /\ KeepPart(n).discarding = TRUE
                   /\ KeepPart(n).over = over + (IF discarding THEN 0 ELSE 1)
              ELSE /\ KeepPart(n).pending = pending \o Piece(file, pos, n)
                   /\ KeepPart(n).discarding = FALSE /\ KeepPart(n).over = over
<1> DEFINE content == Piece(file, pos, n)
<1>1. /\ pos \in Nat /\ n \in 0..Len(file) /\ pos \in 0..n /\ file \in Seq(Bytes)
      /\ pending \in Seq(Bytes \ {LF}) /\ over \in Nat /\ discarding \in BOOLEAN
    BY DEF TypeOK
<1>2. content \in Seq(Bytes \ {LF})
    BY <1>1, PieceText
<1>3. KeepPart(n) = IF discarding \/ ~(Len(pending) + Len(content) <= MaxLine)
        THEN [pending |-> <<>>, discarding |-> TRUE,
              over |-> over + (IF discarding THEN 0 ELSE 1)]
        ELSE [pending |-> pending \o content, discarding |-> FALSE, over |-> over]
    BY DEF KeepPart, Fits, Piece
<1> HIDE DEF content
<1>4. /\ pending \o content \in Seq(Bytes \ {LF})
      /\ Len(pending \o content) = Len(pending) + Len(content)
    BY <1>1, <1>2, ConcatProperties
<1>5. <<>> \in Seq(Bytes \ {LF}) /\ Len(<<>>) <= MaxLine
    BY EmptySeq, SizesAssumption
<1>6. CASE discarding \/ ~(Len(pending) + Len(content) <= MaxLine)
    BY <1>1, <1>3, <1>5, <1>6 DEF content
<1>7. CASE ~(discarding \/ ~(Len(pending) + Len(content) <= MaxLine))
    BY <1>1, <1>3, <1>4, <1>7 DEF content
<1> QED BY <1>6, <1>7

\* EndLine(n) is KeepPart(n - 1) and the line feed.
LEMMA EndLineIs ==
    ASSUME TypeOK, NEW n \in Nat, n - 1 \in pos..Len(file), Unbroken(file, pos, n - 1), EndLine(n)
    PROVE  /\ pending' = <<>> /\ discarding' = FALSE /\ over' = KeepPart(n - 1).over
           /\ IF KeepPart(n - 1).discarding \/ Trim(KeepPart(n - 1).pending) = <<>>
              THEN out' = out
              ELSE out' = Append(out, [from |-> LineStart(n - 1),
                                       text |-> Trim(KeepPart(n - 1).pending)])
<1> DEFINE content == Piece(file, pos, n - 1)
           part == KeepPart(n - 1)
<1>1. IF discarding \/ ~(Len(pending) + Len(content) <= MaxLine)
      THEN /\ part.pending = <<>> /\ part.discarding = TRUE
           /\ part.over = over + (IF discarding THEN 0 ELSE 1)
      ELSE part.pending = pending \o content /\ part.discarding = FALSE /\ part.over = over
    BY KeepPartIs
<1>2. over \in Nat /\ discarding \in BOOLEAN
    BY DEF TypeOK
<1>3. /\ discarding' = FALSE /\ pending' = <<>>
      /\ \/ discarding /\ out' = out /\ over' = over
         \/ ~discarding /\ ~(Len(pending) + Len(content) <= MaxLine) /\ over' = over + 1 /\ out' = out
         \/ /\ ~discarding /\ Len(pending) + Len(content) <= MaxLine
            /\ out' = IF Trim(pending \o content) = <<>> THEN out
                      ELSE Append(out, [from |-> LineStart(n - 1), text |-> Trim(pending \o content)])
            /\ over' = over
    BY DEF EndLine, Fits, Visit, Piece
<1> HIDE DEF content, part
<1>4. /\ over' = part.over
      /\ IF part.discarding \/ Trim(part.pending) = <<>>
         THEN out' = out
         ELSE out' = Append(out, [from |-> LineStart(n - 1), text |-> Trim(part.pending)])
    <2>1. CASE discarding
        <3>1. part.discarding = TRUE /\ part.over = over + 0
            BY <1>1, <2>1
        <3>2. out' = out /\ over' = over
            BY <1>3, <2>1
        <3>3. over + 0 = over
            BY <1>2
        <3> QED BY <3>1, <3>2, <3>3
    <2>2. CASE ~discarding /\ ~(Len(pending) + Len(content) <= MaxLine)
        BY <1>1, <1>3, <2>2
    <2>3. CASE ~discarding /\ Len(pending) + Len(content) <= MaxLine
        <3>1. part.pending = pending \o content /\ part.discarding = FALSE /\ part.over = over
            BY <1>1, <2>3
        <3>2. /\ out' = IF Trim(pending \o content) = <<>> THEN out
                        ELSE Append(out, [from |-> LineStart(n - 1), text |-> Trim(pending \o content)])
              /\ over' = over
            BY <1>3, <2>3
        <3> QED BY <3>1, <3>2
    <2> QED BY <2>1, <2>2, <2>3
<1> QED BY <1>3, <1>4 DEF part

LEMMA LineStartIs ==
    ASSUME TypeOK, NEW p \in 0..Len(file)
    PROVE  LineStart(p) \in Begins(file, p) /\ LineStart(p) \in Nat /\ Unbroken(file, LineStart(p), p)
<1>1. p \in Nat /\ file \in Seq(Bytes)
    BY DEF TypeOK
<1>2. PICK s \in Begins(file, p) : Unbroken(file, s, p)
    BY <1>1, StartExists
<1>3. LineStart(p) = s
    BY <1>1, <1>2, StartIs
<1> QED BY <1>1, <1>2, <1>3, BeginsWithin

-----------------------------------------------------------------------------
(* Types.                                                                  *)

LEMMA FlushTypes ==
    ASSUME TypeOK, NEW text \in Seq(Bytes), Flush(text)
    PROVE  /\ file' \in Seq(Bytes) /\ writing' \in Seq(Bytes)
           /\ Len(file) <= Len(file') /\ Agree(file, file', Len(file))
<1>1. PICK n \in 1..Len(text) : /\ file' = file \o SubSeq(text, 1, n)
                                /\ writing' = SubSeq(text, n + 1, Len(text))
    BY DEF Flush
<1>2. /\ 1 \in Int /\ n \in Int /\ n + 1 \in Int /\ Len(text) \in Int
      /\ \A i \in 1..Len(text) : text[i] \in Bytes
      /\ \A i \in 1..n : i \in 1..Len(text)
      /\ \A i \in (n + 1)..Len(text) : i \in 1..Len(text)
    BY LenProperties
<1>3. SubSeq(text, 1, n) \in Seq(Bytes) /\ SubSeq(text, n + 1, Len(text)) \in Seq(Bytes)
    BY <1>2, SubSeqProperties
<1>4. file \in Seq(Bytes)
    BY DEF TypeOK
<1>5. /\ file' \in Seq(Bytes) /\ Len(file') = Len(file) + Len(SubSeq(text, 1, n))
      /\ \A i \in 1..Len(file) : file'[i] = file[i]
      /\ Len(file) \in Nat /\ Len(SubSeq(text, 1, n)) \in Nat
    BY <1>1, <1>3, <1>4, ConcatProperties, LenProperties
<1> QED BY <1>1, <1>3, <1>5 DEF Agree

LEMMA WriteTypes ==
    ASSUME TypeOK, Write
    PROVE  /\ file' \in Seq(Bytes) /\ writing' \in Seq(Bytes) /\ lines' \in 0..MaxLines
           /\ Len(file) <= Len(file') /\ Agree(file, file', Len(file))
<1>1. CASE writing # <<>> /\ Flush(writing) /\ UNCHANGED lines
    BY <1>1, FlushTypes DEF TypeOK
<1>2. CASE lines < MaxLines /\ lines' = lines + 1 /\ \E l \in Lines : Flush(Append(l, LF))
    <2>1. PICK l \in Lines : Flush(Append(l, LF))
        BY <1>2
    <2>2. l \in Seq(Bytes)
        <3>1. l \in Seq(Bytes \ {LF})
            BY LinesAssumption
        <3> QED BY <3>1, SeqMonotonic
    <2>3. Append(l, LF) \in Seq(Bytes)
        BY <2>2, Letters, AppendProperties
    <2>4. lines' \in 0..MaxLines
        BY <1>2, BoundsAssumption DEF TypeOK
    <2> QED BY <2>1, <2>3, <2>4, FlushTypes
<1> QED BY <1>1, <1>2 DEF Write

LEMMA TypeInit == Init => TypeOK
<1> SUFFICES ASSUME Init PROVE TypeOK
    OBVIOUS
<1>1. /\ <<>> \in Seq(Bytes) /\ <<>> \in Seq(Bytes \ {LF}) /\ <<>> \in Seq(Records)
      /\ Len(<<>>) = 0
    BY EmptySeq
<1>2. /\ cursor \in [offset : Nat, pending : Seq(Bytes \ {LF}), discarding : BOOLEAN]
      /\ cursor.offset = 0 /\ cursor.pending = <<>>
    BY <1>1 DEF Init
<1>3. Len(file) = 0 /\ 0 <= MaxLine /\ 0 \in 0..MaxLines /\ 0 \in 0..MaxAborts /\ 0 \in 0..0
    BY <1>1, SizesAssumption, BoundsAssumption DEF Init
<1>4. /\ file \in Seq(Bytes) /\ writing \in Seq(Bytes) /\ delivered \in Seq(Records)
      /\ pending \in Seq(Bytes \ {LF}) /\ out \in Seq(Records)
    BY <1>1 DEF Init
<1>5. cursor.offset <= Len(file) /\ Len(cursor.pending) <= MaxLine /\ Len(pending) <= MaxLine
    BY <1>1, <1>2, <1>3 DEF Init
<1>6. oversized \in Nat /\ over \in Nat /\ pos \in 0..Len(file) /\ discarding \in BOOLEAN
    BY <1>3 DEF Init
<1> QED BY <1>2, <1>3, <1>4, <1>5, <1>6 DEF Init, TypeOK

LEMMA TypeStep == TypeOK /\ [Next]_vars => TypeOK'
<1> SUFFICES ASSUME TypeOK, [Next]_vars PROVE TypeOK'
    OBVIOUS
<1>1. CASE Write
    <2>1. UNCHANGED <<cursor, delivered, oversized, pos, pending, discarding, out, over, pc, aborts>>
        BY <1>1 DEF Write, kept, scan
    <2>2. Len(file) \in Nat /\ Len(file') \in Nat
        BY <1>1, WriteTypes, LenProperties DEF TypeOK
    <2>3. /\ cursor.offset \in Nat /\ cursor.offset <= Len(file') /\ pos \in 0..Len(file')
        BY <1>1, <2>2, WriteTypes DEF TypeOK
    <2> QED BY <1>1, <2>1, <2>3, WriteTypes DEF TypeOK
<1>2. CASE BeginScan
    <2>1. /\ pc' = "scan" /\ pos' = cursor.offset /\ pending' = cursor.pending
          /\ discarding' = cursor.discarding /\ out' = <<>> /\ over' = 0
          /\ UNCHANGED <<file, writing, lines, cursor, delivered, oversized, aborts>>
        BY <1>2 DEF BeginScan, log, kept
    <2>2. cursor.offset \in 0..Len(file) /\ cursor.pending \in Seq(Bytes \ {LF})
          /\ cursor.discarding \in BOOLEAN
        BY LenProperties DEF TypeOK
    <2>3. <<>> \in Seq(Records)
        BY EmptySeq
    <2> QED BY <2>1, <2>2, <2>3 DEF TypeOK
<1>3. CASE ReadLine
    <2>1. PICK n \in Buffered : /\ file[n] = LF
                                /\ \A k \in Buffered : file[k] = LF => n <= k
                                /\ EndLine(n)
                                /\ pos' = n
        BY <1>3 DEF ReadLine
    <2>2. /\ n \in 1..Len(file) /\ n - 1 \in pos..Len(file) /\ n \in Nat
          /\ Unbroken(file, pos, n - 1)
        BY <2>1, LineReach
    <2>3. UNCHANGED <<file, writing, lines, cursor, delivered, oversized, pc, aborts>>
        BY <1>3 DEF ReadLine, log, kept
    <2>4. /\ KeepPart(n - 1).pending \in Seq(Bytes \ {LF}) /\ KeepPart(n - 1).over \in Nat
        BY <2>2, KeepPartIs
    <2>5. /\ pending' = <<>> /\ discarding' = FALSE /\ over' = KeepPart(n - 1).over
          /\ IF KeepPart(n - 1).discarding \/ Trim(KeepPart(n - 1).pending) = <<>>
             THEN out' = out
             ELSE out' = Append(out, [from |-> LineStart(n - 1),
                                      text |-> Trim(KeepPart(n - 1).pending)])
        BY <2>1, <2>2, EndLineIs
    <2>6. [from |-> LineStart(n - 1), text |-> Trim(KeepPart(n - 1).pending)] \in Records
        <3>1. n - 1 \in 0..Len(file)
            BY <2>2
        <3> QED BY <2>4, <3>1, LineStartIs, TrimShort DEF Records
    <2>7. out' \in Seq(Records)
        <3>1. out \in Seq(Records)
            BY DEF TypeOK
        <3>2. Append(out, [from |-> LineStart(n - 1), text |-> Trim(KeepPart(n - 1).pending)])
                  \in Seq(Records)
            BY <2>6, <3>1, AppendProperties
        <3> QED BY <2>5, <3>1, <3>2
    <2>8. <<>> \in Seq(Bytes \ {LF}) /\ Len(<<>>) <= MaxLine
        BY EmptySeq, SizesAssumption
    <2>9. pos' \in 0..Len(file)
        BY <2>1, <2>2
    <2> QED BY <2>3, <2>4, <2>5, <2>7, <2>8, <2>9 DEF TypeOK
<1>4. CASE ReadPart
    <2>1. /\ pos' = pos + BufSize
          /\ pending' = KeepPart(pos + BufSize).pending
          /\ discarding' = KeepPart(pos + BufSize).discarding
          /\ over' = KeepPart(pos + BufSize).over
          /\ UNCHANGED <<file, writing, lines, cursor, delivered, oversized, pc, out, aborts>>
        BY <1>4 DEF ReadPart, log, kept
    <2>2. pos + BufSize \in pos..Len(file) /\ Unbroken(file, pos, pos + BufSize)
        BY <1>4, PartReach DEF ReadPart
    <2>3. /\ KeepPart(pos + BufSize).pending \in Seq(Bytes \ {LF})
          /\ Len(KeepPart(pos + BufSize).pending) <= MaxLine
          /\ KeepPart(pos + BufSize).discarding \in BOOLEAN
          /\ KeepPart(pos + BufSize).over \in Nat
        BY <2>2, KeepPartIs
    <2>4. pos' \in 0..Len(file)
        BY <2>1, <2>2 DEF TypeOK
    <2> QED BY <2>1, <2>3, <2>4 DEF TypeOK
<1>5. CASE ReachEOF
    <2> DEFINE part == KeepPart(Len(file))
    <2>1. /\ cursor' = CursorAfter(part)
          /\ delivered' = delivered \o DeliverTail(part)
          /\ oversized' = oversized + part.over
          /\ pc' = "idle"
          /\ UNCHANGED <<file, writing, lines, pos, pending, discarding, out, over, aborts>>
        BY <1>5 DEF ReachEOF, log, scan
    <2>2. Unbroken(file, pos, Len(file)) /\ Len(file) \in pos..Len(file) /\ Len(file) \in 0..Len(file)
          /\ Len(file) \in Nat
        BY <1>5, LastReach, LenProperties DEF ReachEOF, TypeOK
    <2>3. /\ part.pending \in Seq(Bytes \ {LF}) /\ Len(part.pending) <= MaxLine
          /\ part.discarding \in BOOLEAN /\ part.over \in Nat
        BY <2>2, KeepPartIs
    <2> HIDE DEF part
    <2>4. DeliverTail(part) \in Seq(Records)
        <3>1. [from |-> LineStart(Len(file)), text |-> part.pending] \in Records
            BY <2>2, <2>3, LineStartIs DEF Records
        <3> QED BY <3>1, AppendProperties DEF DeliverTail, Visit, TypeOK
    <2>5. delivered' \in Seq(Records)
        BY <2>1, <2>4, ConcatProperties DEF TypeOK
    <2>6. CarriedTail(part) \in Seq(Bytes \ {LF}) /\ Len(CarriedTail(part)) <= MaxLine
        BY <2>3, EmptySeq, SizesAssumption DEF CarriedTail
    <2>7. /\ cursor' \in [offset : Nat, pending : Seq(Bytes \ {LF}), discarding : BOOLEAN]
          /\ cursor'.offset <= Len(file)
          /\ Len(cursor'.pending) <= MaxLine
        BY <2>1, <2>2, <2>3, <2>6 DEF CursorAfter
    <2> QED BY <2>1, <2>3, <2>5, <2>7 DEF TypeOK
<1>6. CASE Abort
    <2>1. aborts' \in 0..MaxAborts
        BY <1>6, BoundsAssumption DEF Abort, TypeOK
    <2> QED BY <1>6, <2>1 DEF Abort, TypeOK, log, kept, scan
<1>7. CASE UNCHANGED vars
    BY <1>7 DEF vars, log, kept, scan, TypeOK
<1> QED BY <1>1, <1>2, <1>3, <1>4, <1>5, <1>6, <1>7 DEF Next, ScanStep, Quiescent

\* Cursors, buffers and counts keep their types whatever is written and
\* however often a scan is thrown away.
THEOREM TypeCorrect == Spec => []TypeOK
    BY TypeInit, TypeStep, PTL DEF Spec

-----------------------------------------------------------------------------
(* The writer.                                                             *)

\* text is the rest of the line that begins at s.
RestOfLine(f, s, text) ==
    \E l \in Lines :
        /\ Len(l) + 1 = (Len(f) - s) + Len(text)
        /\ \A i \in 1..(Len(f) - s) : f[s + i] = l[i]
        /\ \A j \in 1..Len(text) : text[j] = Append(l, LF)[(Len(f) - s) + j]

Writer(f, w) ==
    \E s \in Begins(f, Len(f)) :
        /\ Unbroken(f, s, Len(f))
        /\ \/ w = <<>> /\ s = Len(f)
           \/ w # <<>> /\ RestOfLine(f, s, w)

\* The numbers: N bytes in the file, of which the last N - s begin the line, T
\* to be written of it, n of them now; the line has L bytes and its line feed.
Numbers(N, s, T, n, L) ==
    /\ (N + n) - s = (N - s) + n
    /\ L + 1 = ((N + n) - s) + (T - n)
    /\ \A j \in 1..(T - n) :
          n + j \in 1..T /\ (N - s) + (n + j) = ((N + n) - s) + j
    /\ \A b \in (N + 1)..(N + n) : b - s \in 1..((N - s) + n) /\ s + (b - s) = b /\ b > s
    /\ \A b \in (N + 1)..(N + n) : b - s = L + 1 => b = N + n /\ n = T

LEMMA FlushNumbers ==
    ASSUME NEW N \in Nat, NEW s \in 0..N, NEW T \in Nat, NEW n \in 1..T,
           NEW L \in Nat, L + 1 = (N - s) + T
    PROVE  Numbers(N, s, T, n, L)
    BY DEF Numbers

\* The m bytes from s on are those of the line l, as far as it has any.
Holds(g, s, m, l, L) ==
    \A i \in 1..m : IF i <= L THEN g[s + i] = l[i] /\ g[s + i] # LF
                   ELSE i = L + 1 /\ g[s + i] = LF

\* What is in the file of the line, in terms of the line.
Laid(N, s, T, n, L, f, g, text, l, whole) ==
    /\ \A i \in 1..L : whole[i] = l[i] /\ l[i] # LF
    /\ whole[L + 1] = LF
    /\ \A i \in 1..(N - s) : f[s + i] = whole[i]
    /\ \A j \in 1..T : text[j] = whole[(N - s) + j]
    /\ \A i \in 1..N : g[i] = f[i]
    /\ \A j \in 1..n : g[N + j] = text[j]

LEMMA FlushedLine ==
    ASSUME NEW N \in Nat, NEW s \in 0..N, NEW T \in Nat, NEW n \in 1..T,
           NEW L \in Nat, L + 1 = (N - s) + T,
           NEW f, NEW g, NEW text, NEW l, NEW whole,
           Laid(N, s, T, n, L, f, g, text, l, whole)
    PROVE  Holds(g, s, (N - s) + n, l, L)
<1> SUFFICES ASSUME NEW i \in 1..((N - s) + n)
             PROVE  IF i <= L THEN g[s + i] = l[i] /\ g[s + i] # LF
                    ELSE i = L + 1 /\ g[s + i] = LF
    BY DEF Holds
<1>1. g[s + i] = whole[i]
    <2>1. CASE i <= N - s
        <3>1. i \in 1..(N - s) /\ s + i \in 1..N
            BY <2>1
        <3> QED BY <3>1 DEF Laid
    <2>2. CASE ~(i <= N - s)
        <3> DEFINE j == i - (N - s)
        <3>1. j \in 1..n /\ j \in 1..T /\ s + i = N + j /\ (N - s) + j = i
            BY <2>2
        <3> HIDE DEF j
        <3>2. text[j] = whole[i]
            BY <3>1 DEF Laid
        <3> QED BY <3>1, <3>2 DEF Laid
    <2> QED BY <2>1, <2>2
<1>2. CASE i <= L
    <2>1. i \in 1..L
        BY <1>2
    <2> QED BY <1>1, <1>2, <2>1 DEF Laid
<1>3. CASE ~(i <= L)
    <2>1. i = L + 1
        BY <1>3
    <2> QED BY <1>1, <1>3, <2>1 DEF Laid
<1> QED BY <1>2, <1>3

LEMMA Flushed ==
    ASSUME NEW f \in Seq(Bytes), LinesOf(f),
           NEW s \in Begins(f, Len(f)), Unbroken(f, s, Len(f)),
           NEW text \in Seq(Bytes), RestOfLine(f, s, text),
           NEW n \in 1..Len(text),
           NEW g \in Seq(Bytes), g = f \o SubSeq(text, 1, n),
           NEW w, w = SubSeq(text, n + 1, Len(text))
    PROVE  LinesOf(g) /\ Writer(g, w)
<1>1. PICK l \in Lines :
        /\ Len(l) + 1 = (Len(f) - s) + Len(text)
        /\ \A i \in 1..(Len(f) - s) : f[s + i] = l[i]
        /\ \A j \in 1..Len(text) : text[j] = Append(l, LF)[(Len(f) - s) + j]
    BY DEF RestOfLine
<1>2. /\ l \in Seq(Bytes \ {LF}) /\ l \in Seq(Bytes) /\ Len(l) \in Nat
      /\ \A i \in 1..Len(l) : l[i] # LF
    <2>1. l \in Seq(Bytes \ {LF})
        BY LinesAssumption
    <2> QED BY <2>1, SeqMonotonic, LenProperties, ElementOfSeq
<1>3. Len(f) \in Nat /\ Begins(f, Len(f)) \in SUBSET (0..Len(f))
    BY LenProperties, BeginsWithin
<1>4. /\ Len(f) \in Nat /\ Len(text) \in Nat /\ n \in Nat /\ 1 <= n /\ n <= Len(text)
      /\ s \in Nat /\ s <= Len(f)
    BY <1>3, LenProperties
<1>5. Len(l) \in Nat /\ Len(l) + 1 = (Len(f) - s) + Len(text)
    BY <1>1, <1>2
<1>6. /\ \A i \in 1..Len(l) : Append(l, LF)[i] = l[i]
      /\ Append(l, LF)[Len(l) + 1] = LF
    BY <1>2, Letters, AppendProperties
<1>7. /\ SubSeq(text, 1, n) \in Seq(Bytes) /\ Len(SubSeq(text, 1, n)) = n
      /\ \A j \in 1..n : SubSeq(text, 1, n)[j] = text[j]
    <2>1. n \in 0..Len(text) /\ 0 \in 0..n /\ n - 0 = n /\ \A j \in 1..n : 0 + j = j
        BY <1>4
    <2>2. SubSeq(text, 1, n) = Piece(text, 0, n)
        BY DEF Piece
    <2> QED BY <2>1, <2>2, PieceFacts
<1>8. /\ Len(g) = Len(f) + n
      /\ \A i \in 1..Len(f) : g[i] = f[i]
      /\ \A j \in 1..n : g[Len(f) + j] = text[j]
    <2>1. /\ Len(f \o SubSeq(text, 1, n)) = Len(f) + Len(SubSeq(text, 1, n))
          /\ \A i \in 1..(Len(f) + Len(SubSeq(text, 1, n))) :
                (f \o SubSeq(text, 1, n))[i] =
                    IF i <= Len(f) THEN f[i] ELSE SubSeq(text, 1, n)[i - Len(f)]
        BY <1>7, ConcatProperties
    <2>2. \A j \in 1..n : Len(f) + j \in 1..(Len(f) + n) /\ ~(Len(f) + j <= Len(f))
                          /\ (Len(f) + j) - Len(f) = j
        BY <1>4
    <2>3. \A i \in 1..Len(f) : i \in 1..(Len(f) + n) /\ i <= Len(f)
        BY <1>4
    <2> QED BY <1>7, <2>1, <2>2, <2>3
<1>9. /\ Len(f) \in Nat /\ s \in 0..Len(f) /\ Len(text) \in Nat /\ n \in 1..Len(text)
      /\ Len(l) \in Nat /\ Len(l) + 1 = (Len(f) - s) + Len(text)
    BY <1>4, <1>5, <1>3
<1>10. Numbers(Len(f), s, Len(text), n, Len(l))
    BY <1>9, FlushNumbers
<1>11. \A i \in 1..((Len(f) - s) + n) :
            IF i <= Len(l) THEN g[s + i] = l[i] /\ g[s + i] # LF
            ELSE i = Len(l) + 1 /\ g[s + i] = LF
    <2> DEFINE whole == Append(l, LF)
    <2>1. \A i \in 1..Len(l) : whole[i] = l[i] /\ l[i] # LF
        BY <1>2, <1>6
    <2>2. whole[Len(l) + 1] = LF
        BY <1>6
    <2>3. \A i \in 1..(Len(f) - s) : f[s + i] = whole[i]
        <3>1. \A i \in 1..(Len(f) - s) : i \in 1..Len(l)
            BY <1>4, <1>5
        <3> QED BY <1>1, <2>1, <3>1
    <2>4. \A j \in 1..Len(text) : text[j] = whole[(Len(f) - s) + j]
        BY <1>1
    <2>5. (\A i \in 1..Len(f) : g[i] = f[i]) /\ \A j \in 1..n : g[Len(f) + j] = text[j]
        BY <1>8
    <2> HIDE DEF whole
    <2>6. Holds(g, s, (Len(f) - s) + n, l, Len(l))
        <3>1. Laid(Len(f), s, Len(text), n, Len(l), f, g, text, l, whole)
            BY <2>1, <2>2, <2>3, <2>4, <2>5 DEF Laid
        <3> QED BY <1>9, <3>1, FlushedLine
    <2> QED BY <2>6 DEF Holds
<1>12. \A b \in Begins(g, Len(g)) : b \in Begins(f, Len(f)) \/ (b = Len(g) /\ n = Len(text) /\ b > s)
    <2> SUFFICES ASSUME NEW b \in 1..Len(g), g[b] = LF, ~(b <= Len(f))
                 PROVE  b = Len(g) /\ n = Len(text) /\ b > s
        BY <1>4, <1>8 DEF Begins
    <2>1. b \in (Len(f) + 1)..(Len(f) + n)
        BY <1>4, <1>8
    <2>2. b - s \in 1..((Len(f) - s) + n) /\ s + (b - s) = b /\ b > s
        BY <1>10, <2>1 DEF Numbers
    <2>3. b - s = Len(l) + 1
        BY <1>11, <2>2
    <2>4. b = Len(f) + n /\ n = Len(text)
        <3>1. \A c \in (Len(f) + 1)..(Len(f) + n) : c - s = Len(l) + 1 => c = Len(f) + n /\ n = Len(text)
            BY <1>10 DEF Numbers
        <3> QED BY <2>1, <2>3, <3>1
    <2> QED BY <1>8, <2>2, <2>4
<1>13. LinesOf(g)
    <2> SUFFICES ASSUME NEW b \in Begins(g, Len(g)), NEW p \in (b + 1)..Len(g), Unbroken(g, b, p)
                 PROVE  \E k \in Lines : p - b <= Len(k) /\ \A i \in 1..(p - b) : g[b + i] = k[i]
        BY DEF LinesOf
    <2>1. b \in Begins(f, Len(f)) /\ b \in 0..Len(f) /\ b \in Nat /\ p \in Nat
        <3>1. b < Len(g) /\ b \in Nat /\ p \in Nat
            BY <1>4, <1>8, BeginsWithin
        <3> QED BY <1>3, <1>12, <3>1
    <2>2. CASE p <= Len(f)
        <3>1. Unbroken(f, b, p)
            BY <1>8, <2>1, <2>2 DEF Unbroken
        <3>2. PICK k \in Lines : p - b <= Len(k) /\ \A i \in 1..(p - b) : f[b + i] = k[i]
            <4>1. p \in (b + 1)..Len(f)
                BY <1>4, <2>1, <2>2
            <4> QED BY <2>1, <3>1, <4>1 DEF LinesOf
        <3>3. \A i \in 1..(p - b) : b + i \in 1..Len(f)
            BY <1>4, <2>1, <2>2
        <3> QED BY <1>8, <3>2, <3>3
    <2>3. CASE Len(f) < p
        <3>1. b = s
            <4>1. CASE b < s
                <5>1. s \in 1..Len(f) /\ f[s] = LF /\ s \in (b + 1)..p
                    BY <1>4, <2>1, <2>3, <4>1 DEF Begins
                <5> QED BY <1>8, <5>1 DEF Unbroken
            <4>2. CASE s < b
                BY <1>4, <2>1, <4>2 DEF Begins, Unbroken
            <4> QED BY <1>4, <2>1, <4>1, <4>2
        <3>2. p - s \in 1..((Len(f) - s) + n) /\ s + (p - s) = p
            BY <1>4, <1>8, <2>1, <2>3, <3>1
        <3>3. g[p] # LF
            BY <2>1, <3>1 DEF Unbroken
        <3>4. p - s <= Len(l)
            BY <1>11, <3>2, <3>3
        <3>5. \A i \in 1..(p - s) : i \in 1..((Len(f) - s) + n) /\ i <= Len(l)
            BY <1>2, <1>4, <3>2, <3>4
        <3>6. \A i \in 1..(p - s) : g[s + i] = l[i]
            BY <1>11, <3>5
        <3> QED BY <3>1, <3>4, <3>6
    <2>4. p <= Len(f) \/ Len(f) < p
        BY <1>4, <2>1
    <2> QED BY <2>2, <2>3, <2>4
<1>14. CASE n = Len(text)
    <2>1. w = <<>>
        <3>1. n + 1 \in Int /\ Len(text) \in Int /\ Len(text) < n + 1
            BY <1>4, <1>14
        <3> QED BY <3>1, SubSeqEmpty
    <2>2. g[Len(g)] = LF /\ Len(g) \in Nat \ {0}
        <3>1. Len(l) + 1 \in 1..((Len(f) - s) + n) /\ ~(Len(l) + 1 <= Len(l)) /\ s + (Len(l) + 1) = Len(g)
            BY <1>1, <1>2, <1>4, <1>8, <1>14
        <3> QED BY <1>4, <1>8, <1>11, <3>1
    <2>3. Len(g) \in Begins(g, Len(g)) /\ Unbroken(g, Len(g), Len(g))
        BY <2>2 DEF Begins, Unbroken
    <2> QED BY <1>13, <2>1, <2>3 DEF Writer
<1>15. CASE n < Len(text)
    <2>1. /\ Len(w) = Len(text) - n /\ w # <<>>
          /\ \A j \in 1..Len(w) : w[j] = text[n + j]
        <3>1. Len(text) \in 0..Len(text) /\ n \in 0..Len(text)
            BY <1>4
        <3>2. w = Piece(text, n, Len(text))
            BY DEF Piece
        <3>3. /\ Len(Piece(text, n, Len(text))) = Len(text) - n
              /\ \A j \in 1..(Len(text) - n) : Piece(text, n, Len(text))[j] = text[n + j]
            BY <3>1, PieceFacts
        <3>4. Len(w) = Len(text) - n /\ Len(w) # 0
            BY <1>4, <1>15, <3>2, <3>3
        <3> QED BY <3>2, <3>3, <3>4
    <2>2. s \in Begins(g, Len(g))
        BY <1>4, <1>8 DEF Begins
    <2>3. Unbroken(g, s, Len(g))
        <3> SUFFICES ASSUME NEW k \in (s + 1)..Len(g) PROVE g[k] # LF
            BY DEF Unbroken
        <3>1. k - s \in 1..((Len(f) - s) + n) /\ s + (k - s) = k /\ k - s <= Len(l)
            BY <1>1, <1>2, <1>4, <1>8, <1>15
        <3> QED BY <1>11, <3>1
    <2>4. RestOfLine(g, s, w)
        <3>1. Len(g) = Len(f) + n /\ Len(w) = Len(text) - n
            BY <1>8, <2>1
        <3>2. Len(g) - s = (Len(f) - s) + n /\ Len(l) + 1 = (Len(g) - s) + Len(w)
            <4>1. /\ (Len(f) + n) - s = (Len(f) - s) + n
                  /\ Len(l) + 1 = ((Len(f) + n) - s) + (Len(text) - n)
                BY <1>10 DEF Numbers
            <4> QED BY <3>1, <4>1, Zenon
        <3>3. \A i \in 1..(Len(g) - s) : g[s + i] = l[i]
            <4>1. \A i \in 1..(Len(g) - s) : i \in 1..((Len(f) - s) + n) /\ i <= Len(l)
                BY <1>1, <1>2, <1>4, <1>15, <3>2
            <4> QED BY <1>11, <4>1
        <3>4. \A j \in 1..Len(w) : w[j] = Append(l, LF)[(Len(g) - s) + j]
            <4>1. \A j \in 1..Len(w) : n + j \in 1..Len(text)
                                       /\ (Len(f) - s) + (n + j) = (Len(g) - s) + j
                BY <1>10, <3>1 DEF Numbers
            <4> QED BY <1>1, <2>1, <4>1
        <3> QED BY <3>2, <3>3, <3>4 DEF RestOfLine
    <2> QED BY <1>13, <2>1, <2>2, <2>3, <2>4 DEF Writer
<1> QED BY <1>4, <1>14, <1>15

LEMMA WriterStep ==
    ASSUME TypeOK, LinesOf(file), Writer(file, writing), Write
    PROVE  LinesOf(file') /\ Writer(file', writing')
<1>1. PICK s \in Begins(file, Len(file)) :
        /\ Unbroken(file, s, Len(file))
        /\ \/ writing = <<>> /\ s = Len(file)
           \/ writing # <<>> /\ RestOfLine(file, s, writing)
    BY DEF Writer
<1>2. PICK text \in Seq(Bytes) : RestOfLine(file, s, text) /\ Flush(text)
    <2>1. CASE writing # <<>> /\ Flush(writing)
        BY <1>1, <2>1 DEF TypeOK
    <2>2. CASE writing = <<>> /\ \E l \in Lines : Flush(Append(l, LF))
        <3>1. PICK l \in Lines : Flush(Append(l, LF))
            BY <2>2
        <3>2. l \in Seq(Bytes)
            <4>1. l \in Seq(Bytes \ {LF})
                BY LinesAssumption
            <4> QED BY <4>1, SeqMonotonic
        <3>3. Append(l, LF) \in Seq(Bytes) /\ Len(Append(l, LF)) = Len(l) + 1
            BY <3>2, Letters, AppendProperties
        <3>4. Len(file) - s = 0 /\ Len(file) \in Nat /\ Len(l) \in Nat
            BY <1>1, <2>2, <3>2, LenProperties DEF TypeOK
        <3>5. RestOfLine(file, s, Append(l, LF))
            <4>1. Len(l) + 1 = (Len(file) - s) + Len(Append(l, LF))
                BY <3>3, <3>4
            <4>2. \A i \in 1..(Len(file) - s) : file[s + i] = l[i]
                BY <3>4
            <4>3. \A j \in 1..Len(Append(l, LF)) :
                      Append(l, LF)[j] = Append(l, LF)[(Len(file) - s) + j]
                <5>1. \A j \in 1..Len(Append(l, LF)) : (Len(file) - s) + j = j
                    BY <3>3, <3>4
                <5> QED BY <5>1
            <4> QED BY <4>1, <4>2, <4>3 DEF RestOfLine
        <3> QED BY <3>1, <3>3, <3>5
    <2> QED BY <2>1, <2>2 DEF Write
<1>3. PICK n \in 1..Len(text) : /\ file' = file \o SubSeq(text, 1, n)
                                /\ writing' = SubSeq(text, n + 1, Len(text))
    BY <1>2 DEF Flush
<1>4. file \in Seq(Bytes) /\ file' \in Seq(Bytes)
    BY WriteTypes DEF TypeOK
<1> QED BY <1>1, <1>2, <1>3, <1>4, Flushed

-----------------------------------------------------------------------------
(* The invariant.                                                          *)

TailInv ==
    /\ TypeOK
    /\ LinesOf(file)
    /\ Writer(file, writing)
    /\ ScanInv(file, cursor.offset, cursor.pending, cursor.discarding, delivered, oversized)
    /\ ~Valid(cursor.pending)
    /\ pc = "scan" =>
         ScanInv(file, pos, pending, discarding, delivered \o out, oversized + over)

LEMMA AppendToBoth ==
    ASSUME NEW a \in Seq(Records), NEW b \in Seq(Records), NEW x \in Records
    PROVE  a \o Append(b, x) = Append(a \o b, x)
    OBVIOUS

LEMMA TailInit == Init => TailInv
<1> SUFFICES ASSUME Init PROVE TailInv
    OBVIOUS
<1>1. /\ file = <<>> /\ writing = <<>> /\ cursor.offset = 0 /\ cursor.pending = <<>>
      /\ cursor.discarding = FALSE /\ delivered = <<>> /\ oversized = 0 /\ pc = "idle"
    BY DEF Init
<1>2. Len(file) = 0 /\ file \in Seq(Bytes) /\ <<>> \in Seq(Records) /\ DOMAIN <<>> = {}
    BY <1>1, EmptySeq
<1>3. Begins(file, 0) = {0} /\ From(<<>>) = {} /\ Unbroken(file, 0, 0)
    BY <1>2 DEF Begins, From, Unbroken
<1>4. LinesOf(file)
    BY <1>2, <1>3 DEF LinesOf
<1>5. Writer(file, writing)
    BY <1>1, <1>2, <1>3 DEF Writer
<1>6. ScanInv(file, 0, <<>>, FALSE, <<>>, 0)
    <2>1. Ordered(<<>>) /\ Sound(file, 0, <<>>)
        BY <1>2 DEF Ordered, Sound
    <2>2. Complete(file, 0, <<>>)
        BY <1>3 DEF Complete
    <2>3. Cardinality(TooLong(file, 0, <<>>)) = 0
        <3>1. TooLong(file, 0, <<>>) = {}
            BY <1>3, SizesAssumption DEF TooLong
        <3> QED BY <3>1, FS_EmptySet
    <2>4. Held(file, 0, 0, <<>>, FALSE, <<>>)
        <3>1. Piece(file, 0, 0) = <<>>
            <4>1. 0 \in 0..Len(file) /\ 0 \in 0..0 /\ 0 - 0 = 0
                BY <1>2
            <4>2. Piece(file, 0, 0) \in Seq(Bytes) /\ Len(Piece(file, 0, 0)) = 0
                BY <1>2, <4>1, PieceFacts
            <4> QED BY <4>2, EmptySeq
        <3> QED BY <1>3, <3>1, SizesAssumption DEF Held
    <2>5. Current(file, 0, <<>>, FALSE, <<>>)
        BY <1>3, <2>4 DEF Current
    <2>6. 0 \in 0..Len(file)
        BY <1>2
    <2> QED BY <1>2, <2>1, <2>2, <2>3, <2>5, <2>6 DEF ScanInv
<1>7. ~Valid(<<>>)
    BY NothingValid
<1> QED BY TypeInit, <1>1, <1>4, <1>5, <1>6, <1>7 DEF TailInv

LEMMA WriteKeepsTail == TailInv /\ Write => TailInv'
<1> SUFFICES ASSUME TailInv, Write PROVE TailInv'
    OBVIOUS
<1>1. UNCHANGED <<cursor, delivered, oversized, pos, pending, discarding, out, over, pc, aborts>>
    BY DEF Write, kept, scan
<1>2. /\ file \in Seq(Bytes) /\ file' \in Seq(Bytes) /\ Agree(file, file', Len(file))
      /\ cursor.offset \in 0..Len(file) /\ pos \in 0..Len(file) /\ Len(file) \in Nat
    BY WriteTypes DEF TailInv, TypeOK
<1>3. Agree(file, file', cursor.offset) /\ Agree(file, file', pos)
    BY <1>2 DEF Agree
<1>4. ScanInv(file', cursor.offset, cursor.pending, cursor.discarding, delivered, oversized)
    BY <1>2, <1>3, Grown DEF TailInv
<1>5. pc = "scan" =>
        ScanInv(file', pos, pending, discarding, delivered \o out, oversized + over)
    BY <1>2, <1>3, Grown DEF TailInv
<1>6. LinesOf(file') /\ Writer(file', writing')
    BY WriterStep DEF TailInv
<1>7. TypeOK'
    BY TypeStep DEF TailInv, Next
<1> QED BY <1>1, <1>4, <1>5, <1>6, <1>7 DEF TailInv

LEMMA BeginKeepsTail == TailInv /\ BeginScan => TailInv'
<1> SUFFICES ASSUME TailInv, BeginScan PROVE TailInv'
    OBVIOUS
<1>1. /\ pos' = cursor.offset /\ pending' = cursor.pending
      /\ discarding' = cursor.discarding /\ out' = <<>> /\ over' = 0
      /\ UNCHANGED <<file, writing, lines, cursor, delivered, oversized>>
    BY DEF BeginScan, log, kept
<1>2. delivered \o <<>> = delivered /\ oversized + 0 = oversized
    <2>1. delivered \in Seq(Records) /\ oversized \in Nat
        BY DEF TailInv, TypeOK
    <2> QED BY <2>1, ConcatEmptySeq
<1>3. TypeOK'
    BY TypeStep DEF TailInv, Next
<1> QED BY <1>1, <1>2, <1>3 DEF TailInv

LEMMA ReadKeepsTail ==
    ASSUME TailInv, pc = "scan", ReadLine \/ ReadPart
    PROVE  TailInv'
<1>1. /\ UNCHANGED <<file, writing, lines, cursor, delivered, oversized, pc, aborts>>
      /\ TypeOK /\ LinesOf(file) /\ file \in Seq(Bytes)
      /\ ScanInv(file, pos, pending, discarding, delivered \o out, oversized + over)
    BY DEF ReadLine, ReadPart, log, kept, TailInv, TypeOK
<1>2. TypeOK'
    BY TypeStep DEF TailInv, Next, ScanStep
<1>3. /\ pos \in Nat /\ pos <= Len(file) /\ Len(file) \in Nat /\ oversized \in Nat /\ over \in Nat
      /\ delivered \in Seq(Records) /\ out \in Seq(Records)
    BY <1>1 DEF TypeOK
<1>4. ASSUME NEW n \in pos..Len(file), Unbroken(file, pos, n)
      PROVE  ScanInv(file, n, KeepPart(n).pending, KeepPart(n).discarding,
                     delivered \o out, oversized + KeepPart(n).over)
    <2> DEFINE part == KeepPart(n)
    <2>1. /\ part.over \in Nat
          /\ IF discarding \/ ~(Len(pending) + Len(Piece(file, pos, n)) <= MaxLine)
             THEN /\ part.pending = <<>> /\ part.discarding = TRUE
                  /\ part.over = over + (IF discarding THEN 0 ELSE 1)
             ELSE /\ part.pending = pending \o Piece(file, pos, n)
                  /\ part.discarding = FALSE /\ part.over = over
        BY <1>1, <1>4, KeepPartIs
    <2> HIDE DEF part
    <2>2. IF discarding \/ ~(Len(pending) + Len(Piece(file, pos, n)) <= MaxLine)
          THEN /\ part.pending = <<>> /\ part.discarding = TRUE
               /\ oversized + part.over = (oversized + over) + (IF discarding THEN 0 ELSE 1)
          ELSE /\ part.pending = pending \o Piece(file, pos, n)
               /\ part.discarding = FALSE /\ oversized + part.over = oversized + over
        <3>1. \A d \in Nat : part.over = over + d => oversized + part.over = (oversized + over) + d
            BY <1>3, <2>1
        <3>2. 0 \in Nat /\ 1 \in Nat /\ over + 0 = over
              /\ (oversized + over) + 0 = oversized + over
            BY <1>3
        <3> QED BY <2>1, <3>1, <3>2
    <2>3. ScanInv(file, n, part.pending, part.discarding, delivered \o out, oversized + part.over)
        BY <1>1, <1>4, <2>2, PartStep
    <2> QED BY <2>3 DEF part
<1>5. CASE ReadPart
    <2>1. pos + BufSize \in pos..Len(file) /\ Unbroken(file, pos, pos + BufSize)
        BY <1>1, <1>5, PartReach DEF ReadPart
    <2>2. /\ pos' = pos + BufSize /\ out' = out
          /\ pending' = KeepPart(pos + BufSize).pending
          /\ discarding' = KeepPart(pos + BufSize).discarding
          /\ over' = KeepPart(pos + BufSize).over
        BY <1>5 DEF ReadPart
    <2>3. ScanInv(file, pos', pending', discarding', delivered \o out', oversized + over')
        BY <1>4, <2>1, <2>2
    <2> QED BY <1>1, <1>2, <2>3 DEF TailInv
<1>6. CASE ReadLine
    <2>1. PICK n \in Buffered : /\ file[n] = LF
                                /\ \A k \in Buffered : file[k] = LF => n <= k
                                /\ EndLine(n)
                                /\ pos' = n
        BY <1>6 DEF ReadLine
    <2>2. /\ n \in 1..Len(file) /\ n - 1 \in pos..Len(file) /\ n \in Nat
          /\ Unbroken(file, pos, n - 1)
        BY <1>1, <2>1, LineReach
    <2>3. ScanInv(file, n - 1, KeepPart(n - 1).pending, KeepPart(n - 1).discarding,
                  delivered \o out, oversized + KeepPart(n - 1).over)
        BY <1>4, <2>2
    <2>4. /\ pending' = <<>> /\ discarding' = FALSE /\ over' = KeepPart(n - 1).over
          /\ IF KeepPart(n - 1).discarding \/ Trim(KeepPart(n - 1).pending) = <<>>
             THEN out' = out
             ELSE out' = Append(out, [from |-> LineStart(n - 1),
                                      text |-> Trim(KeepPart(n - 1).pending)])
        BY <1>1, <2>1, <2>2, EndLineIs
    <2>5. /\ LineStart(n - 1) \in Begins(file, n - 1) /\ LineStart(n - 1) \in Nat
          /\ Unbroken(file, LineStart(n - 1), n - 1)
        <3>1. n - 1 \in 0..Len(file)
            BY <1>3, <2>2
        <3> QED BY <1>1, <3>1, LineStartIs
    <2>6. KeepPart(n - 1).pending \in Seq(Bytes \ {LF})
        BY <1>1, <2>2, KeepPartIs
    <2>7. IF KeepPart(n - 1).discarding \/ Trim(KeepPart(n - 1).pending) = <<>>
          THEN delivered \o out' = delivered \o out
          ELSE delivered \o out' =
                 Append(delivered \o out, [from |-> LineStart(n - 1),
                                           text |-> Trim(KeepPart(n - 1).pending)])
        <3>1. [from |-> LineStart(n - 1), text |-> Trim(KeepPart(n - 1).pending)] \in Records
            BY <2>5, <2>6, TrimShort DEF Records
        <3> QED BY <1>3, <2>4, <3>1, AppendToBoth
    <2>8. (n - 1) + 1 = n /\ (n - 1) + 1 <= Len(file) /\ file[(n - 1) + 1] = LF
        BY <1>3, <2>1, <2>2
    <2>9. ScanInv(file, (n - 1) + 1, <<>>, FALSE, delivered \o out',
                  oversized + KeepPart(n - 1).over)
        BY <1>1, <2>3, <2>5, <2>7, <2>8, LineStep
    <2>10. ScanInv(file, pos', pending', discarding', delivered \o out', oversized + over')
        BY <2>1, <2>4, <2>8, <2>9
    <2> QED BY <1>1, <1>2, <2>10 DEF TailInv
<1> QED BY <1>5, <1>6

LEMMA EndKeepsTail == TailInv /\ ReachEOF => TailInv'
<1> SUFFICES ASSUME TailInv, ReachEOF PROVE TailInv'
    OBVIOUS
<1> DEFINE n == Len(file)
           part == KeepPart(n)
<1>1. /\ UNCHANGED <<file, writing, lines, pos, pending, discarding, out, over, aborts>>
      /\ pc' = "idle"
      /\ TypeOK /\ LinesOf(file) /\ file \in Seq(Bytes)
      /\ ScanInv(file, pos, pending, discarding, delivered \o out, oversized + over)
    BY DEF ReachEOF, log, scan, TailInv, TypeOK
<1>2. TypeOK'
    BY TypeStep DEF TailInv, Next, ScanStep
<1>3. /\ pos \in Nat /\ pos <= n /\ n \in Nat /\ oversized \in Nat /\ over \in Nat
      /\ delivered \in Seq(Records) /\ out \in Seq(Records)
      /\ n \in pos..Len(file) /\ n \in 0..Len(file)
    BY <1>1 DEF TypeOK
<1>4. Unbroken(file, pos, n)
    BY <1>1, LastReach DEF ReachEOF
<1>5. /\ part.pending \in Seq(Bytes \ {LF}) /\ part.over \in Nat
      /\ IF discarding \/ ~(Len(pending) + Len(Piece(file, pos, n)) <= MaxLine)
         THEN /\ part.pending = <<>> /\ part.discarding = TRUE
              /\ part.over = over + (IF discarding THEN 0 ELSE 1)
         ELSE /\ part.pending = pending \o Piece(file, pos, n)
              /\ part.discarding = FALSE /\ part.over = over
    BY <1>1, <1>3, <1>4, KeepPartIs
<1>6. /\ cursor' = [offset |-> n, pending |-> CarriedTail(part), discarding |-> part.discarding]
      /\ delivered' = delivered \o DeliverTail(part)
      /\ oversized' = oversized + part.over
    BY DEF ReachEOF, CursorAfter
<1>7. LineStart(n) \in Begins(file, n) /\ LineStart(n) \in Nat /\ Unbroken(file, LineStart(n), n)
    BY <1>1, <1>3, LineStartIs
<1>8. /\ Valid(part.pending) => DeliverTail(part) =
            Append(out, [from |-> LineStart(n), text |-> part.pending])
      /\ ~Valid(part.pending) => DeliverTail(part) = out
      /\ Valid(part.pending) => CarriedTail(part) = <<>>
      /\ ~Valid(part.pending) => CarriedTail(part) = part.pending
    BY DEF DeliverTail, CarriedTail, Visit
<1> HIDE DEF n, part
<1>9. IF discarding \/ ~(Len(pending) + Len(Piece(file, pos, n)) <= MaxLine)
      THEN /\ part.pending = <<>> /\ part.discarding = TRUE
           /\ oversized + part.over = (oversized + over) + (IF discarding THEN 0 ELSE 1)
      ELSE /\ part.pending = pending \o Piece(file, pos, n)
           /\ part.discarding = FALSE /\ oversized + part.over = oversized + over
    BY <1>3, <1>5
<1>10. ScanInv(file, n, part.pending, part.discarding, delivered \o out, oversized + part.over)
    BY <1>1, <1>3, <1>4, <1>9, PartStep
<1>11. /\ ScanInv(file, n, CarriedTail(part), part.discarding, delivered', oversized')
       /\ ~Valid(CarriedTail(part))
    <2>1. CASE Valid(part.pending)
        <3> DEFINE x == [from |-> LineStart(n), text |-> part.pending]
        <3>1. x \in Records
            BY <1>5, <1>7 DEF Records
        <3>2. delivered' = Append(delivered \o out, x)
            BY <1>3, <1>6, <1>8, <2>1, <3>1, AppendToBoth
        <3>3. ScanInv(file, n, <<>>, part.discarding, Append(delivered \o out, x),
                      oversized + part.over)
            BY <1>1, <1>7, <1>10, <2>1, TailStep
        <3> QED BY <1>6, <1>8, <2>1, <3>2, <3>3, NothingValid
    <2>2. CASE ~Valid(part.pending)
        BY <1>6, <1>8, <1>10, <2>2
    <2> QED BY <2>1, <2>2
<1>12. /\ cursor'.offset = n /\ cursor'.pending = CarriedTail(part)
       /\ cursor'.discarding = part.discarding
    BY <1>6
<1>13. /\ ScanInv(file, cursor'.offset, cursor'.pending, cursor'.discarding,
                  delivered', oversized')
       /\ ~Valid(cursor'.pending)
    BY <1>11, <1>12
<1>14. LinesOf(file') /\ Writer(file', writing')
    BY <1>1 DEF TailInv
<1> QED BY <1>1, <1>2, <1>13, <1>14 DEF TailInv

LEMMA TailStays == TailInv /\ [Next]_vars => TailInv'
<1> SUFFICES ASSUME TailInv, [Next]_vars PROVE TailInv'
    OBVIOUS
<1>1. CASE Write
    BY <1>1, WriteKeepsTail
<1>2. CASE BeginScan
    BY <1>2, BeginKeepsTail
<1>3. CASE ReadLine \/ ReadPart
    BY <1>3, ReadKeepsTail DEF ReadLine, ReadPart
<1>4. CASE ReachEOF
    BY <1>4, EndKeepsTail
<1>5. CASE Abort
    <2>1. UNCHANGED <<file, writing, cursor, delivered, oversized>> /\ pc' = "idle"
        BY <1>5 DEF Abort, log, kept
    <2>2. TypeOK'
        BY TypeStep DEF TailInv
    <2> QED BY <2>1, <2>2 DEF TailInv
<1>6. CASE UNCHANGED vars
    <2>1. /\ UNCHANGED <<file, writing, cursor, delivered, oversized>>
          /\ UNCHANGED <<pc, pos, pending, discarding, out, over>>
        BY <1>6 DEF vars, log, kept, scan
    <2>2. TypeOK'
        BY TypeStep DEF TailInv
    <2> QED BY <2>1, <2>2 DEF TailInv
<1> QED BY <1>1, <1>2, <1>3, <1>4, <1>5, <1>6 DEF Next, ScanStep, Quiescent

-----------------------------------------------------------------------------
(* What follows.                                                           *)

LEMMA CursorState ==
    ASSUME TailInv
    PROVE  /\ file \in Seq(Bytes) /\ cursor.offset \in 0..Len(file) /\ cursor.offset \in Nat
           /\ From(delivered) = DeliveredFrom
           /\ Starts(cursor.offset) \in SUBSET Begins(file, cursor.offset)
           /\ \A s \in Begins(file, cursor.offset) :
                 s < cursor.offset => s \in Starts(cursor.offset)
           /\ \A s \in Begins(file, cursor.offset) :
                 \E e \in s..cursor.offset : IsEnd(file, s, cursor.offset, e)
           /\ \A s \in Begins(file, cursor.offset) : \A e \in s..cursor.offset :
                 IsEnd(file, s, cursor.offset, e) =>
                   /\ LineText(s, cursor.offset) = Piece(file, s, e)
                   /\ Len(LineText(s, cursor.offset)) = e - s
                   /\ Finished(s, cursor.offset) <=> e < cursor.offset
<1> DEFINE p == cursor.offset
<1>1. file \in Seq(Bytes) /\ p \in 0..Len(file) /\ p \in Nat
    BY DEF TailInv, TypeOK, ScanInv
<1> HIDE DEF p
<1>2. Begins(file, p) \in SUBSET (0..p)
    BY <1>1, BeginsWithin
<1>3. /\ Starts(p) \in SUBSET Begins(file, p)
      /\ \A s \in Begins(file, p) : s < p => s \in Starts(p)
    BY DEF Starts, Begins, Newlines
<1>4. \A s \in Begins(file, p) : \E e \in s..p : IsEnd(file, s, p, e)
    BY <1>1, <1>2, EndExists
<1>5. ASSUME NEW s \in Begins(file, p), NEW e \in s..p, IsEnd(file, s, p, e)
      PROVE  /\ LineText(s, p) = Piece(file, s, e)
             /\ Len(LineText(s, p)) = e - s
             /\ Finished(s, p) <=> e < p
    <2>1. s \in 0..p
        BY <1>2
    <2>2. LineText(s, p) = Piece(file, s, e) /\ (Finished(s, p) <=> e < p)
        BY <1>1, <1>5, <2>1, LineTextIs
    <2>3. e \in 0..Len(file) /\ s \in 0..e
        BY <1>1, <2>1
    <2>4. Len(Piece(file, s, e)) = e - s
        BY <1>1, <2>3, PieceFacts
    <2> QED BY <2>2, <2>4
<1> QED BY <1>1, <1>3, <1>4, <1>5 DEF p, From, DeliveredFrom

LEMMA DeliveredOnce == TailInv => EveryRecordOnce
<1> SUFFICES ASSUME TailInv PROVE EveryRecordOnce
    OBVIOUS
<1> DEFINE p == cursor.offset
<1>1. Ordered(delivered) /\ Sound(file, p, delivered) /\ Complete(file, p, delivered)
    BY DEF TailInv, ScanInv
<1> HIDE DEF p
<1>2. \A a, b \in DOMAIN delivered : a < b => delivered[a].from < delivered[b].from
    BY <1>1 DEF Ordered
<1>3. ASSUME NEW a \in DOMAIN delivered
      PROVE  /\ Len(delivered[a].text) <= MaxLine
             /\ Trim(LineText(delivered[a].from, p)) \in {delivered[a].text, Trim(delivered[a].text)}
    <2>1. IsLine(file, p, delivered[a])
        BY <1>1 DEF Sound
    <2>2. PICK e \in delivered[a].from..p :
            /\ IsEnd(file, delivered[a].from, p, e)
            /\ Trim(Piece(file, delivered[a].from, e)) \in {delivered[a].text, Trim(delivered[a].text)}
        BY <2>1 DEF IsLine
    <2>3. LineText(delivered[a].from, p) = Piece(file, delivered[a].from, e)
        BY <2>1, <2>2, CursorState DEF IsLine, p
    <2> QED BY <2>1, <2>2, <2>3 DEF IsLine
<1>4. ASSUME NEW s \in Starts(p), Finished(s, p), Trim(LineText(s, p)) # <<>>,
             Len(LineText(s, p)) <= MaxLine
      PROVE  s \in DeliveredFrom
    <2>1. s \in Begins(file, p)
        BY CursorState DEF p
    <2>2. PICK e \in s..p : IsEnd(file, s, p, e)
        BY <2>1, CursorState DEF p
    <2>3. /\ LineText(s, p) = Piece(file, s, e) /\ Len(LineText(s, p)) = e - s
          /\ Finished(s, p) <=> e < p
        BY <2>1, <2>2, CursorState DEF p
    <2>4. e < p /\ e - s <= MaxLine /\ Trim(Piece(file, s, e)) # <<>>
        BY <1>4, <2>3
    <2>5. s \in From(delivered)
        BY <1>1, <2>1, <2>2, <2>4 DEF Complete
    <2> QED BY <2>5, CursorState
<1> QED BY <1>2, <1>3, <1>4 DEF EveryRecordOnce, p

LEMMA TailDelivered == TailInv => TailNotHeldBack
<1> SUFFICES ASSUME TailInv PROVE TailNotHeldBack
    OBVIOUS
<1> DEFINE p == cursor.offset
           s == LineStart(p)
<1>1. file \in Seq(Bytes) /\ p \in 0..Len(file) /\ p \in Nat /\ TypeOK
    BY CursorState DEF TailInv
<1>2. s \in Begins(file, p) /\ s \in Nat /\ Unbroken(file, s, p)
    BY <1>1, LineStartIs
<1>3. Current(file, p, cursor.pending, cursor.discarding, delivered)
    BY DEF TailInv, ScanInv
<1>4. PICK t \in Begins(file, p) :
        /\ Unbroken(file, t, p)
        /\ \/ Held(file, t, p, cursor.pending, cursor.discarding, delivered)
           \/ Skipping(t, p, cursor.pending, cursor.discarding, delivered)
           \/ Early(file, t, p, cursor.pending, cursor.discarding, delivered)
    BY <1>3 DEF Current
<1>5. t = s
    BY <1>1, <1>4, StartIs
<1>6. LineText(s, p) = Piece(file, s, p) /\ Len(LineText(s, p)) = p - s
    <2>1. s \in 0..p /\ p \in s..p
        BY <1>1, <1>2, BeginsWithin
    <2>2. IsEnd(file, s, p, p)
        BY <1>2 DEF IsEnd
    <2> QED BY <1>2, <2>1, <2>2, CursorState
<1> HIDE DEF p, s
<1>7. ASSUME Len(LineText(s, p)) <= MaxLine, Valid(LineText(s, p)) PROVE s \in DeliveredFrom
    <2>1. ~Held(file, s, p, cursor.pending, cursor.discarding, delivered)
        BY <1>6, <1>7 DEF Held, TailInv
    <2>2. ~Skipping(s, p, cursor.pending, cursor.discarding, delivered)
        <3>1. p - s <= MaxLine /\ p - s \in Int /\ MaxLine \in Int
            BY <1>1, <1>2, <1>6, <1>7, SizesAssumption
        <3> QED BY <3>1 DEF Skipping
    <2>3. s \in From(delivered)
        BY <1>4, <1>5, <2>1, <2>2 DEF Early
    <2> QED BY <2>3, CursorState
<1> QED BY <1>7 DEF TailNotHeldBack, p, s

LEMMA CountedOnce == TailInv => OversizedOnce
<1> SUFFICES ASSUME TailInv PROVE OversizedOnce
    OBVIOUS
<1> DEFINE p == cursor.offset
           S == {s \in Starts(p) : Len(LineText(s, p)) > MaxLine /\ s \notin DeliveredFrom}
<1>1. oversized = Cardinality(TooLong(file, p, delivered))
    BY DEF TailInv, ScanInv
<1> HIDE DEF p
<1>2. p \in Nat /\ Begins(file, p) \in SUBSET (0..p)
    BY CursorState, BeginsWithin DEF p
<1>3. ASSUME NEW s \in TooLong(file, p, delivered) PROVE s \in S
    <2>1. PICK e \in s..p : IsEnd(file, s, p, e) /\ e - s > MaxLine
        BY DEF TooLong
    <2>2. s \in Begins(file, p) /\ s \notin DeliveredFrom
        BY CursorState DEF TooLong
    <2>3. Len(LineText(s, p)) = e - s
        BY <2>1, <2>2, CursorState DEF p
    <2>4. s < p
        BY <1>2, <2>1, <2>2, SizesAssumption
    <2>5. s \in Starts(p)
        BY <2>2, <2>4, CursorState DEF p
    <2> QED BY <2>1, <2>2, <2>3, <2>5
<1>4. ASSUME NEW s \in S PROVE s \in TooLong(file, p, delivered)
    <2>1. s \in Begins(file, p) /\ s \notin From(delivered)
        BY CursorState DEF p
    <2>2. PICK e \in s..p : IsEnd(file, s, p, e)
        BY <2>1, CursorState DEF p
    <2>3. Len(LineText(s, p)) = e - s
        BY <2>1, <2>2, CursorState DEF p
    <2> QED BY <2>1, <2>2, <2>3 DEF TooLong
<1>5. TooLong(file, p, delivered) = S
    BY <1>3, <1>4
<1> QED BY <1>1, <1>5 DEF OversizedOnce, p

LEMMA TailAlways == Spec => []TailInv
    BY TailInit, TailStays, PTL DEF Spec

\* However a line is cut up by the writer, the buffer and the refreshes, and
\* whatever scans were thrown away, scanJSONLTail hands over every finished
\* line that is neither blank nor too long, whole, in order and once.
THEOREM EveryRecordIsDelivered == Spec => []EveryRecordOnce
    BY TailAlways, DeliveredOnce, PTL

\* A record that is complete at the end of the file is delivered by the scan
\* that gets there: it does not wait for its line feed.
THEOREM TailIsDelivered == Spec => []TailNotHeldBack
    BY TailAlways, TailDelivered, PTL

\* oversizedLines counts every line that is too long once, over however many
\* refreshes it is skipped.
THEOREM OversizedIsCounted == Spec => []OversizedOnce
    BY TailAlways, CountedOnce, PTL
=============================================================================
