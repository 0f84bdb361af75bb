-------------------------- MODULE CodexUsageProofs --------------------------
(***************************************************************************)
(* That a session is charged for exactly what it used, for any kinds of    *)
(* token, any number of rate limits and any log: however its records are   *)
(* repeated, and however the log is split over refreshes, kept or thrown   *)
(* away.                                                                   *)
(*                                                                         *)
(* Every record is that of a turn, or repeats the one before it or the     *)
(* last of its rate limit (WellWritten).  What the state knows of those    *)
(* read so far (Knows) is enough to tell the two apart: a repeat whose own *)
(* usage would be charged again has a signature the state holds, and a     *)
(* turn that has used anything has none of those.  Totals alone are        *)
(* charged by their growth, for which the high water must be what has been *)
(* charged.                                                                *)
(***************************************************************************)
EXTENDS CodexUsage, TLAPS

\* The mixtures of records that can be charged exactly.  A turn that reports
\* only its own usage does not move the high water, so totals that come without
\* the turn's usage would charge it again; and what an unreadable record hides
\* comes back only with totals that are charged by their growth.
Chargeable(mix) ==
    /\ ~({"total", "last"} \subseteq mix.shapes)
    /\ mix.badStamps => mix.shapes \subseteq {"total"}

Record == [total : Counts \cup {None}, last : Counts \cup {None},
           source : Sources, stamped : BOOLEAN, used : Counts]

AtMost(a, b) == \A k \in Kinds : a[k] <= b[k]

\* c is the most that the records of l at the places D say has been used.
IsMost(l, c, D) ==
    /\ c \in Counts
    /\ \A j \in D : AtMost(l[j].used, c)
    /\ c = Zero \/ \E j \in D : l[j].used = c

Readable(l, n) == {j \in 1..n : l[j].stamped}

\* The record of a turn that used n more than anything reported before it.
IsTurn(l, m) ==
    \E n \in Turn, c \in Counts :
        /\ IsMost(l, c, 1..(m - 1))
        /\ l[m].used = Plus(c, n)
        /\ l[m].last \in {None, n}

\* A record written again: the one before it, or the last of its rate limit.
IsRepeat(l, m) ==
    \E i \in 1..(m - 1) :
        /\ l[i].total # None
        /\ l[m].total = l[i].total /\ l[m].last = l[i].last
        /\ l[m].stamped = l[i].stamped /\ l[m].used = l[i].used
        /\ \/ i = m - 1
           \/ /\ l[i].source = l[m].source
              /\ \A j \in (i + 1)..(m - 1) : l[j].source # l[m].source

Formed(mix, record) ==
    /\ record.total \in {None, record.used}
    /\ record.total = None => "last" \in mix.shapes
    /\ record.last = None => record.total # None /\ "total" \in mix.shapes
    /\ ~record.stamped => mix.badStamps
    /\ mix.badStamps => record.last = None

WellWritten ==
    /\ IsMost(log, spent, DOMAIN log)
    /\ \A m \in DOMAIN log : Formed(mixture, log[m]) /\ (IsTurn(log, m) \/ IsRepeat(log, m))

\* What a state that has seen n records of l, charged with c, knows of them.
Knows(mix, l, st, n, c) ==
    /\ IsMost(l, c, Readable(l, n))
    /\ "last" \notin mix.shapes => st.highWater = c
    /\ st.previousSig = None \/ \E j \in Readable(l, n) : Signature(l[j]) = st.previousSig
    /\ \A s \in Sources : \/ st.signatures[s] = None
                          \/ \E j \in Readable(l, n) : Signature(l[j]) = st.signatures[s]
    /\ ~mix.badStamps =>
           /\ n > 0 => st.previousSig = Signature(l[n])
           /\ \A i \in 1..n :
                  l[i].total # None /\ (\A j \in (i + 1)..n : l[j].source # l[i].source) =>
                      st.signatures[l[i].source] = Signature(l[i])

IInv ==
    /\ TypeOK
    /\ WellWritten
    /\ Knows(mixture, log, state, read, counted)
    /\ scanning => Knows(mixture, log, work, at, sum)

-----------------------------------------------------------------------------
(* Counts *)

LEMMA CountsClosed ==
    /\ Zero \in Counts
    /\ \A a, b \in Counts : /\ Plus(a, b) \in Counts
                            /\ componentMax(a, b) \in Counts
                            /\ componentDelta(a, b) \in Counts
    BY DEF Counts, Zero, Plus, componentMax, componentDelta

LEMMA TurnCounts == Turn \subseteq Counts
    BY DEF Turn, Counts

LEMMA PlusGrows == ASSUME NEW a \in Counts, NEW b \in Counts PROVE AtMost(a, Plus(a, b))
    BY DEF Counts, Plus, AtMost

LEMMA PlusZero == ASSUME NEW a \in Counts PROVE Plus(a, Zero) = a
    BY DEF Counts, Plus, Zero

LEMMA AtMostOrder ==
    ASSUME NEW a \in Counts, NEW b \in Counts, NEW c \in Counts
    PROVE  /\ AtMost(Zero, a)
           /\ AtMost(a, a)
           /\ AtMost(a, b) /\ AtMost(b, c) => AtMost(a, c)
           /\ AtMost(a, b) /\ AtMost(b, a) => a = b
    BY DEF Counts, AtMost, Zero

LEMMA MaxOfLess ==
    ASSUME NEW a \in Counts, NEW b \in Counts, AtMost(a, b)
    PROVE  /\ componentMax(a, b) = b /\ componentMax(b, a) = b
           /\ componentDelta(b, b) = Zero
           /\ Plus(a, componentDelta(b, a)) = b
<1>1. componentMax(a, b) = b /\ componentMax(b, a) = b
    BY DEF Counts, AtMost, componentMax
<1>2. componentDelta(b, b) = Zero
    BY DEF Counts, componentDelta, Zero
<1>3. Plus(a, componentDelta(b, a)) = b
    BY DEF Counts, AtMost, componentDelta, Plus
<1> QED BY <1>1, <1>2, <1>3

LEMMA RecordAt ==
    ASSUME NEW l \in Seq(Record), NEW m \in DOMAIN l
    PROVE  /\ m \in 1..Len(l) /\ l[m] \in Record
           /\ l[m].used \in Counts /\ l[m].total \in Counts \cup {None}
           /\ l[m].last \in Counts \cup {None} /\ l[m].source \in Sources
           /\ l[m].stamped \in BOOLEAN
<1>1. m \in 1..Len(l) /\ l[m] \in Record
    OBVIOUS
<1> QED BY <1>1 DEF Record

LEMMA MostIsOne ==
    ASSUME NEW l \in Seq(Record), NEW D \in SUBSET DOMAIN l, NEW c, NEW d,
           IsMost(l, c, D), IsMost(l, d, D)
    PROVE  c = d
    BY AtMostOrder DEF IsMost

LEMMA MostWith ==
    ASSUME NEW l \in Seq(Record), NEW D \in SUBSET DOMAIN l, NEW m \in DOMAIN l, NEW c,
           IsMost(l, c, D)
    PROVE  /\ AtMost(l[m].used, c) => IsMost(l, c, D \cup {m})
           /\ AtMost(c, l[m].used) => IsMost(l, l[m].used, D \cup {m})
<1>1. c \in Counts /\ l[m].used \in Counts /\ \A j \in D : l[j].used \in Counts
    BY RecordAt DEF IsMost
<1>2. ASSUME AtMost(l[m].used, c) PROVE IsMost(l, c, D \cup {m})
    BY <1>1, <1>2 DEF IsMost
<1>3. ASSUME AtMost(c, l[m].used) PROVE IsMost(l, l[m].used, D \cup {m})
    <2>1. \A j \in D \cup {m} : AtMost(l[j].used, l[m].used)
        BY <1>1, <1>3, AtMostOrder DEF IsMost
    <2> QED BY <1>1, <2>1 DEF IsMost
<1> QED BY <1>2, <1>3

\* UsedBy chooses the most, and there is one.
LEMMA UsedByIsMost ==
    ASSUME TypeOK, NEW n \in 0..Len(log), NEW c, IsMost(log, c, Readable(log, n))
    PROVE  UsedBy(n) = c
<1> DEFINE good == {i \in 1..n : log[i].stamped}
           most == {i \in good : \A j \in good, k \in Kinds : log[j].used[k] <= log[i].used[k]}
<1>1. log \in Seq(Record) /\ good = Readable(log, n) /\ good \subseteq DOMAIN log
    BY DEF TypeOK, Record, Readable
<1>2. \A i \in good : log[i].used \in Counts
    BY <1>1, RecordAt
<1>3. CASE good = {}
    BY <1>1, <1>3 DEF UsedBy, IsMost
<1>4. CASE good # {}
    <2>1. PICK i \in good : log[i].used = c
        <3>1. CASE c = Zero
            <4>1. PICK i \in good : TRUE
                BY <1>4
            <4>2. AtMost(log[i].used, Zero)
                BY <1>1, <3>1, <4>1 DEF IsMost
            <4> QED BY <1>2, <3>1, <4>2, AtMostOrder, CountsClosed
        <3>2. CASE c # Zero
            BY <1>1, <3>2 DEF IsMost
        <3> QED BY <3>1, <3>2
    <2>2. i \in most
        BY <1>1, <2>1 DEF IsMost, AtMost
    <2>3. \A j \in most : log[j].used = c
        <3> SUFFICES ASSUME NEW j \in most PROVE log[j].used = c
            OBVIOUS
        <3>1. AtMost(c, log[j].used) /\ AtMost(log[j].used, c)
            BY <1>1, <2>1 DEF IsMost, AtMost
        <3> QED BY <1>2, <3>1, AtMostOrder DEF IsMost
    <2>4. UsedBy(n) = log[CHOOSE j \in most : TRUE].used
        BY <1>4 DEF UsedBy
    <2>5. (CHOOSE j \in most : TRUE) \in most
        BY <2>2
    <2> QED BY <2>3, <2>4, <2>5
<1> QED BY <1>3, <1>4

LEMMA AllReadable ==
    ASSUME NEW l \in Seq(Record), NEW n \in 0..Len(l), \A j \in 1..n : l[j].stamped
    PROVE  Readable(l, n) = 1..n
    BY DEF Readable

LEMMA ReadableNext ==
    ASSUME NEW l \in Seq(Record), NEW n \in Nat, n < Len(l)
    PROVE  /\ Readable(l, n) \subseteq DOMAIN l
           /\ Readable(l, n + 1) = IF l[n + 1].stamped THEN Readable(l, n) \cup {n + 1}
                                                       ELSE Readable(l, n)
<1>1. 1..(n + 1) = (1..n) \cup {n + 1}
    OBVIOUS
<1> QED BY <1>1 DEF Readable

-----------------------------------------------------------------------------
(* Type correctness *)

LEMMA FreshType == Fresh \in States
<1>1. Zero \in Counts
    BY CountsClosed
<1> QED BY <1>1 DEF Fresh, States

LEMMA SignatureType ==
    ASSUME NEW record \in Record
    PROVE  Signature(record) \in Signatures /\ Signature(record) # None
    BY NilAssumption DEF Signature, Signatures, Record

LEMMA UsageType ==
    ASSUME TypeOK, NEW record \in Record
    PROVE  Usage(record) \in Counts /\ HighWater(record) \in Counts
<1>1. /\ work.highWater \in Counts
      /\ record.total \in Counts \cup {None} /\ record.last \in Counts \cup {None}
    BY DEF TypeOK, States, Record
<1>2. HighWater(record) \in Counts
    BY <1>1, CountsClosed DEF HighWater
<1> QED BY <1>1, <1>2, CountsClosed DEF Usage

LEMMA LogType == TypeOK => log \in Seq(Record)
    BY DEF TypeOK, Record

LEMMA TypeInit == Init => TypeOK
<1> SUFFICES ASSUME Init PROVE TypeOK
    OBVIOUS
<1>1. state \in States /\ state.quota = 0 /\ work \in States /\ work.quota = 0
    BY FreshType DEF Init, Fresh
<1>2. spent \in Counts /\ counted \in Counts /\ sum \in Counts
    BY CountsClosed DEF Init
<1>3. scanning \in BOOLEAN /\ mixture \in Mixtures
    BY DEF Init
<1>4. log = <<>> /\ read = 0 /\ at = 0 /\ aborts \in 0..MaxAborts
    BY BoundsAssumption DEF Init
<1> QED BY <1>1, <1>2, <1>3, <1>4 DEF TypeOK

LEMMA EmitType ==
    ASSUME TypeOK, NEW record \in Record, Emit(record), spent' \in Counts
    PROVE  TypeOK'
<1>1. log' \in Seq(Record) /\ Len(log') = Len(log) + 1
    BY LogType DEF Emit
<1> QED BY <1>1 DEF Emit, TypeOK, Record, entry, scan

LEMMA WrittenRecord ==
    ASSUME TypeOK, WriteLog
    PROVE  \E record \in Record :
              /\ Emit(record)
              /\ spent' \in Counts
              /\ \/ \E n \in Turn, s \in Sources, shape \in mixture.shapes,
                       stamped \in {TRUE, ~mixture.badStamps} :
                       /\ spent' = Plus(spent, n)
                       /\ record = [total |-> IF shape = "last" THEN None ELSE Plus(spent, n),
                                    last |-> IF shape = "total" THEN None ELSE n,
                                    source |-> s, stamped |-> stamped, used |-> Plus(spent, n)]
                 \/ /\ spent' = spent
                    /\ log # <<>> /\ log[Len(log)].total # None
                    /\ \E s \in Sources : record = [log[Len(log)] EXCEPT !.source = s]
                 \/ /\ spent' = spent
                    /\ \E i \in DOMAIN log :
                          /\ log[i].total # None
                          /\ \A j \in (i + 1)..Len(log) : log[j].source # log[i].source
                          /\ record = log[i]
<1> USE LogType
<1>0. spent \in Counts /\ mixture.badStamps \in BOOLEAN
    BY MixturesAssumption DEF TypeOK
<1>1. ASSUME NEW n \in Turn, NEW s \in Sources, NEW shape \in mixture.shapes,
             NEW stamped \in {TRUE, ~mixture.badStamps}, EndTurn(n, s, shape, stamped)
      PROVE  \E record \in Record :
                /\ Emit(record)
                /\ spent' = Plus(spent, n) /\ spent' \in Counts
                /\ record = [total |-> IF shape = "last" THEN None ELSE Plus(spent, n),
                             last |-> IF shape = "total" THEN None ELSE n,
                             source |-> s, stamped |-> stamped, used |-> Plus(spent, n)]
    <2> DEFINE r == [total |-> IF shape = "last" THEN None ELSE Plus(spent, n),
                     last |-> IF shape = "total" THEN None ELSE n,
                     source |-> s, stamped |-> stamped, used |-> Plus(spent, n)]
    <2>1. n \in Counts /\ Plus(spent, n) \in Counts /\ stamped \in BOOLEAN
        BY <1>0, TurnCounts, CountsClosed
    <2>2. r \in Record
        BY <2>1 DEF Record
    <2>3. Emit(r) /\ spent' = Plus(spent, n)
        BY <1>1 DEF EndTurn
    <2> QED BY <2>1, <2>2, <2>3
<1>2. ASSUME NEW s \in Sources, Echo(s)
      PROVE  \E record \in Record :
                /\ Emit(record)
                /\ spent' = spent
                /\ log # <<>> /\ log[Len(log)].total # None
                /\ record = [log[Len(log)] EXCEPT !.source = s]
    <2>1. log # <<>> /\ Len(log) \in DOMAIN log
        BY <1>2 DEF Echo
    <2>2. [log[Len(log)] EXCEPT !.source = s] \in Record
        BY <2>1, RecordAt DEF Record
    <2> QED BY <1>2, <2>2 DEF Echo
<1>3. ASSUME NEW i \in DOMAIN log, Replay(i)
      PROVE  /\ log[i] \in Record /\ Emit(log[i]) /\ spent' = spent /\ log[i].total # None
             /\ \A j \in (i + 1)..Len(log) : log[j].source # log[i].source
    BY <1>3, RecordAt DEF Replay
<1>4. CASE \E n \in Turn, s \in Sources, shape \in mixture.shapes,
              stamped \in {TRUE, ~mixture.badStamps} : EndTurn(n, s, shape, stamped)
    <2>1. PICK n \in Turn, s \in Sources, shape \in mixture.shapes,
               stamped \in {TRUE, ~mixture.badStamps} : EndTurn(n, s, shape, stamped)
        BY <1>4
    <2>2. PICK record \in Record :
             /\ Emit(record)
             /\ spent' = Plus(spent, n) /\ spent' \in Counts
             /\ record = [total |-> IF shape = "last" THEN None ELSE Plus(spent, n),
                          last |-> IF shape = "total" THEN None ELSE n,
                          source |-> s, stamped |-> stamped, used |-> Plus(spent, n)]
        BY <1>1, <2>1
    <2> QED BY <2>2
<1>5. CASE \E s \in Sources : Echo(s)
    BY <1>0, <1>2, <1>5
<1>6. CASE \E i \in DOMAIN log : Replay(i)
    BY <1>0, <1>3, <1>6
<1> QED BY <1>4, <1>5, <1>6 DEF WriteLog

LEMMA TypeStep == TypeOK /\ [Next]_vars => TypeOK'
<1> SUFFICES ASSUME TypeOK, [Next]_vars PROVE TypeOK'
    OBVIOUS
<1>1. CASE WriteLog
    BY <1>1, WrittenRecord, EmitType
<1>2. CASE BeginRefresh
    BY <1>2 DEF BeginRefresh, TypeOK, session, entry
<1>3. CASE Parse
    <2> USE <1>3 DEF Parse
    <2> DEFINE record == log[at + 1]
    <2>1. at + 1 \in DOMAIN log /\ record \in Record /\ record.source \in Sources
        BY LogType, RecordAt DEF TypeOK
    <2>2. Usage(record) \in Counts /\ HighWater(record) \in Counts
          /\ Signature(record) \in Signatures
        BY <2>1, UsageType, SignatureType
    <2> HIDE DEF record
    <2>3. sum' \in Counts
        BY <2>2, CountsClosed DEF TypeOK, record
    <2>4. work' \in States /\ work'.quota <= at'
        <3>1. work \in States /\ work.quota <= at /\ at \in Nat /\ at' = at + 1
            BY DEF TypeOK
        <3>2. CASE ~record.stamped
            BY <3>1, <3>2 DEF record, Unstamped, States
        <3>3. CASE record.stamped
            <4>1. work' = [highWater |-> HighWater(record),
                           signatures |-> IF record.total = None THEN work.signatures
                               ELSE [work.signatures EXCEPT ![record.source] = Signature(record)],
                           previousSig |-> Signature(record),
                           quota |-> IF record.source = Default THEN work.quota ELSE at + 1]
                BY <3>3 DEF record
            <4>2. [work.signatures EXCEPT ![record.source] = Signature(record)]
                      \in [Sources -> Signatures \cup {None}]
                BY <2>2, <3>1 DEF States
            <4> QED BY <2>2, <3>1, <4>1, <4>2 DEF States
        <3> QED BY <3>2, <3>3
    <2>5. at' \in 0..Len(log) /\ UNCHANGED <<session, entry, scanning, aborts>>
        BY DEF TypeOK
    <2> QED BY <2>3, <2>4, <2>5 DEF TypeOK, session, entry
<1>4. CASE Commit
    BY <1>4 DEF Commit, TypeOK, session, scan
<1>5. CASE Discard
    <2>1. aborts' \in 0..MaxAborts
        BY <1>5, BoundsAssumption DEF Discard, TypeOK
    <2>2. state' = state /\ scanning' = FALSE /\ UNCHANGED <<session, read, counted, scan>>
        BY <1>5 DEF Discard, AfterAbort
    <2> QED BY <2>1, <2>2 DEF TypeOK, session, scan
<1>6. CASE UNCHANGED vars
    BY <1>6 DEF vars, session, entry, scan, TypeOK
<1> QED BY <1>1, <1>2, <1>3, <1>4, <1>5, <1>6 DEF Next

\* Type correctness: what the parser keeps of a session is of its type, and
\* no quota is of a record that has not been read.
THEOREM TypeCorrect == Spec => []TypeOK
    BY TypeInit, TypeStep, PTL DEF Spec

-----------------------------------------------------------------------------
(* The log *)

\* What is said of the first records of a log does not change when it grows.
LEMMA PrefixKeeps ==
    ASSUME NEW l \in Seq(Record), NEW record \in Record
    PROVE  LET m == Append(l, record)
           IN  /\ \A c, D : D \subseteq DOMAIN l => (IsMost(m, c, D) <=> IsMost(l, c, D))
               /\ \A n \in 0..Len(l) : Readable(m, n) = Readable(l, n)
               /\ \A i \in DOMAIN l : /\ IsTurn(l, i) => IsTurn(m, i)
                                      /\ IsRepeat(l, i) => IsRepeat(m, i)
               /\ \A mix, st, c : \A n \in 0..Len(l) :
                     Knows(mix, l, st, n, c) => Knows(mix, m, st, n, c)
<1> DEFINE m == Append(l, record)
<1>1. /\ DOMAIN l = 1..Len(l) /\ \A i \in 1..Len(l) : m[i] = l[i]
    OBVIOUS
<1> HIDE DEF m
<1>2. \A c, D : D \subseteq DOMAIN l => (IsMost(m, c, D) <=> IsMost(l, c, D))
    BY <1>1 DEF IsMost
<1>3. \A n \in 0..Len(l) : Readable(m, n) = Readable(l, n) /\ Readable(l, n) \subseteq DOMAIN l
    BY <1>1 DEF Readable
<1>4. ASSUME NEW i \in DOMAIN l, IsTurn(l, i) PROVE IsTurn(m, i)
    <2>1. 1..(i - 1) \subseteq DOMAIN l
        BY <1>1
    <2> QED BY <1>1, <1>2, <1>4, <2>1 DEF IsTurn
<1>5. ASSUME NEW i \in DOMAIN l, IsRepeat(l, i) PROVE IsRepeat(m, i)
    <2>1. \A j \in 1..i : m[j] = l[j]
        BY <1>1
    <2>2. PICK j \in 1..(i - 1) :
             /\ l[j].total # None
             /\ l[i].total = l[j].total /\ l[i].last = l[j].last
             /\ l[i].stamped = l[j].stamped /\ l[i].used = l[j].used
             /\ \/ j = i - 1
                \/ /\ l[j].source = l[i].source
                   /\ \A k \in (j + 1)..(i - 1) : l[k].source # l[i].source
        BY <1>5 DEF IsRepeat
    <2>3. m[i] = l[i] /\ m[j] = l[j] /\ \A k \in (j + 1)..(i - 1) : m[k] = l[k]
        BY <1>1, <2>1
    <2> QED BY <2>2, <2>3 DEF IsRepeat
<1>6. ASSUME NEW mix, NEW st, NEW c, NEW n \in 0..Len(l), Knows(mix, l, st, n, c)
      PROVE  Knows(mix, m, st, n, c)
    <2>1. \A i \in 1..n : m[i] = l[i]
        BY <1>1
    <2>2. IsMost(m, c, Readable(m, n))
        BY <1>2, <1>3, <1>6 DEF Knows
    <2>3. /\ st.previousSig = None \/ \E j \in Readable(m, n) : Signature(m[j]) = st.previousSig
          /\ \A s \in Sources : \/ st.signatures[s] = None
                                \/ \E j \in Readable(m, n) : Signature(m[j]) = st.signatures[s]
        <3>1. \A j \in Readable(l, n) : m[j] = l[j]
            BY <1>1, <1>3
        <3> QED BY <1>3, <1>6, <3>1 DEF Knows
    <2>4. ~mix.badStamps =>
              /\ n > 0 => st.previousSig = Signature(m[n])
              /\ \A i \in 1..n :
                     m[i].total # None /\ (\A j \in (i + 1)..n : m[j].source # m[i].source) =>
                         st.signatures[m[i].source] = Signature(m[i])
        <3>1. n > 0 => m[n] = l[n]
            BY <2>1
        <3>2. \A i \in 1..n : \A j \in (i + 1)..n : m[j] = l[j]
            BY <2>1
        <3> QED BY <1>6, <2>1, <3>1, <3>2 DEF Knows
    <2> QED BY <1>6, <2>2, <2>3, <2>4 DEF Knows
<1> QED BY <1>2, <1>3, <1>4, <1>5, <1>6 DEF m

LEMMA TurnWritten ==
    ASSUME TypeOK, WellWritten, \A mix \in Mixtures : Chargeable(mix),
           NEW n \in Turn, NEW s \in Sources, NEW shape \in mixture.shapes,
           NEW stamped \in {TRUE, ~mixture.badStamps},
           NEW record \in Record,
           record = [total |-> IF shape = "last" THEN None ELSE Plus(spent, n),
                     last |-> IF shape = "total" THEN None ELSE n,
                     source |-> s, stamped |-> stamped, used |-> Plus(spent, n)]
    PROVE  LET l == Append(log, record)
               m == Len(log) + 1
           IN  /\ IsMost(l, Plus(spent, n), DOMAIN l)
               /\ Formed(mixture, record)
               /\ IsTurn(l, m)
<1> DEFINE l == Append(log, record)
           m == Len(log) + 1
<1>1. /\ log \in Seq(Record) /\ l \in Seq(Record) /\ m \in DOMAIN l /\ l[m] = record
      /\ DOMAIN log = 1..(m - 1) /\ DOMAIN log \subseteq DOMAIN l
      /\ DOMAIN l = DOMAIN log \cup {m}
    BY LogType
<1>2. /\ IsMost(l, spent, DOMAIN log) /\ spent \in Counts
      /\ n \in Counts /\ Plus(spent, n) \in Counts
    BY <1>1, PrefixKeeps, TurnCounts, CountsClosed DEF WellWritten, TypeOK
<1> HIDE DEF l, m
<1>3. IsMost(l, Plus(spent, n), DOMAIN l)
    <2>1. AtMost(spent, l[m].used)
        BY <1>1, <1>2, PlusGrows
    <2>2. IsMost(l, l[m].used, DOMAIN log \cup {m})
        BY <1>1, <1>2, <2>1, MostWith
    <2> QED BY <1>1, <2>2
<1>4. IsTurn(l, m)
    <2>1. IsMost(l, spent, 1..(m - 1)) /\ l[m].used = Plus(spent, n) /\ l[m].last \in {None, n}
        BY <1>1, <1>2
    <2> QED BY <1>2, <2>1 DEF IsTurn
<1>5. Formed(mixture, record)
    <2>1. Chargeable(mixture) /\ shape \in {"both", "total", "last"} /\ mixture.badStamps \in BOOLEAN
        BY MixturesAssumption DEF TypeOK
    <2>2. n # None /\ Plus(spent, n) # None
        BY <1>2, NoneAssumption DEF Counts
    <2> QED BY <2>1, <2>2 DEF Formed, Chargeable
<1> QED BY <1>3, <1>4, <1>5 DEF l, m

LEMMA RepeatWritten ==
    ASSUME TypeOK, WellWritten, NEW i \in DOMAIN log, log[i].total # None,
           NEW record \in Record,
           record.total = log[i].total, record.last = log[i].last,
           record.stamped = log[i].stamped, record.used = log[i].used,
           \/ i = Len(log)
           \/ /\ log[i].source = record.source
              /\ \A j \in (i + 1)..Len(log) : log[j].source # record.source
    PROVE  LET l == Append(log, record)
               m == Len(log) + 1
           IN  /\ IsMost(l, spent, DOMAIN l)
               /\ Formed(mixture, record)
               /\ IsRepeat(l, m)
<1> DEFINE l == Append(log, record)
           m == Len(log) + 1
<1>1. /\ log \in Seq(Record) /\ l \in Seq(Record) /\ m \in DOMAIN l /\ l[m] = record
      /\ DOMAIN log = 1..(m - 1) /\ DOMAIN log \subseteq DOMAIN l
      /\ DOMAIN l = DOMAIN log \cup {m} /\ Len(log) = m - 1 /\ m \in Nat
      /\ \A j \in 1..(m - 1) : l[j] = log[j]
    BY LogType
<1>2. IsMost(l, spent, DOMAIN log) /\ AtMost(l[m].used, spent)
    BY <1>1, PrefixKeeps DEF WellWritten, IsMost
<1> HIDE DEF l, m
<1>3. IsMost(l, spent, DOMAIN l)
    BY <1>1, <1>2, MostWith
<1>4. IsRepeat(l, m)
    <2>1. i \in 1..(m - 1) /\ l[i] = log[i] /\ \A j \in (i + 1)..(m - 1) : l[j] = log[j]
        BY <1>1
    <2> QED BY <1>1, <2>1 DEF IsRepeat
<1>5. Formed(mixture, record)
    BY DEF WellWritten, Formed
<1> QED BY <1>3, <1>4, <1>5 DEF l, m

LEMMA InvWriteLog ==
    ASSUME IInv, \A mix \in Mixtures : Chargeable(mix), WriteLog
    PROVE  IInv'
<1> USE DEF IInv
<1>1. TypeOK'
    BY TypeStep DEF Next
<1>2. PICK record \in Record :
         /\ Emit(record)
         /\ IsMost(Append(log, record), spent', DOMAIN Append(log, record))
         /\ Formed(mixture, record)
         /\ \/ IsTurn(Append(log, record), Len(log) + 1)
            \/ IsRepeat(Append(log, record), Len(log) + 1)
    <2>1. PICK record \in Record :
             /\ Emit(record)
             /\ spent' \in Counts
             /\ \/ \E n \in Turn, s \in Sources, shape \in mixture.shapes,
                      stamped \in {TRUE, ~mixture.badStamps} :
                      /\ spent' = Plus(spent, n)
                      /\ record = [total |-> IF shape = "last" THEN None ELSE Plus(spent, n),
                                   last |-> IF shape = "total" THEN None ELSE n,
                                   source |-> s, stamped |-> stamped, used |-> Plus(spent, n)]
                \/ /\ spent' = spent
                   /\ log # <<>> /\ log[Len(log)].total # None
                   /\ \E s \in Sources : record = [log[Len(log)] EXCEPT !.source = s]
                \/ /\ spent' = spent
                   /\ \E i \in DOMAIN log :
                         /\ log[i].total # None
                         /\ \A j \in (i + 1)..Len(log) : log[j].source # log[i].source
                         /\ record = log[i]
        BY WrittenRecord
    <2>2. ASSUME NEW n \in Turn, NEW s \in Sources, NEW shape \in mixture.shapes,
                 NEW stamped \in {TRUE, ~mixture.badStamps},
                 spent' = Plus(spent, n),
                 record = [total |-> IF shape = "last" THEN None ELSE Plus(spent, n),
                           last |-> IF shape = "total" THEN None ELSE n,
                           source |-> s, stamped |-> stamped, used |-> Plus(spent, n)]
          PROVE  /\ IsMost(Append(log, record), spent', DOMAIN Append(log, record))
                 /\ Formed(mixture, record)
                 /\ IsTurn(Append(log, record), Len(log) + 1)
        BY <2>2, TurnWritten
    <2>3. CASE /\ spent' = spent
               /\ log # <<>> /\ log[Len(log)].total # None
               /\ \E s \in Sources : record = [log[Len(log)] EXCEPT !.source = s]
        <3>1. Len(log) \in DOMAIN log /\ log[Len(log)] \in Record
            BY <2>3, LogType
        <3>2. /\ record.total = log[Len(log)].total /\ record.last = log[Len(log)].last
              /\ record.stamped = log[Len(log)].stamped /\ record.used = log[Len(log)].used
            BY <2>3, <3>1 DEF Record
        <3>3. /\ IsMost(Append(log, record), spent, DOMAIN Append(log, record))
              /\ Formed(mixture, record)
              /\ IsRepeat(Append(log, record), Len(log) + 1)
            BY <2>3, <3>1, <3>2, RepeatWritten
        <3> QED BY <2>1, <2>3, <3>3
    <2>4. CASE /\ spent' = spent
               /\ \E i \in DOMAIN log :
                     /\ log[i].total # None
                     /\ \A j \in (i + 1)..Len(log) : log[j].source # log[i].source
                     /\ record = log[i]
        <3>1. PICK i \in DOMAIN log : /\ log[i].total # None
                                      /\ \A j \in (i + 1)..Len(log) : log[j].source # log[i].source
                                      /\ record = log[i]
            BY <2>4
        <3>2. /\ IsMost(Append(log, record), spent, DOMAIN Append(log, record))
              /\ Formed(mixture, record)
              /\ IsRepeat(Append(log, record), Len(log) + 1)
            BY <3>1, RepeatWritten
        <3> QED BY <2>1, <2>4, <3>2
    <2>5. CASE \E n \in Turn, s \in Sources, shape \in mixture.shapes,
                  stamped \in {TRUE, ~mixture.badStamps} :
                  /\ spent' = Plus(spent, n)
                  /\ record = [total |-> IF shape = "last" THEN None ELSE Plus(spent, n),
                               last |-> IF shape = "total" THEN None ELSE n,
                               source |-> s, stamped |-> stamped, used |-> Plus(spent, n)]
        <3>1. /\ IsMost(Append(log, record), spent', DOMAIN Append(log, record))
              /\ Formed(mixture, record)
              /\ IsTurn(Append(log, record), Len(log) + 1)
            BY <2>2, <2>5
        <3> QED BY <2>1, <3>1
    <2> QED BY <2>1, <2>3, <2>4, <2>5
<1>3. /\ log' = Append(log, record) /\ log \in Seq(Record)
      /\ UNCHANGED <<mixture, read, counted, state, scanning, at, sum, work>>
    BY <1>2, LogType DEF Emit, entry, scan
<1>4. WellWritten'
    <2>1. ASSUME NEW m \in DOMAIN log'
          PROVE  Formed(mixture, log'[m]) /\ (IsTurn(log', m) \/ IsRepeat(log', m))
        <3>1. CASE m = Len(log) + 1
            BY <1>2, <1>3, <3>1
        <3>2. CASE m # Len(log) + 1
            <4>1. m \in DOMAIN log /\ log'[m] = log[m]
                BY <1>3, <3>2
            <4> QED BY <1>3, <4>1, PrefixKeeps DEF WellWritten
        <3> QED BY <3>1, <3>2
    <2> QED BY <1>2, <1>3, <2>1 DEF WellWritten
<1>5. read \in 0..Len(log) /\ at \in 0..Len(log)
    BY DEF TypeOK
<1> QED BY <1>1, <1>3, <1>4, <1>5, PrefixKeeps

-----------------------------------------------------------------------------
(* Reading a record *)

\* With every timestamp readable the state knows the signature of what a record
\* repeats, and if it knows the signature the record is no more than charged.
LEMMA RepeatIsKnown ==
    ASSUME IInv, scanning, at < Len(log), log[at + 1].last # None,
           IsRepeat(log, at + 1)
    PROVE  IsReplay(log[at + 1])
<1> DEFINE r == log[at + 1]
<1>1. at \in Nat /\ at + 1 \in DOMAIN log /\ log \in Seq(Record) /\ r.source \in Sources
    BY LogType, RecordAt DEF IInv, TypeOK
<1>2. ~mixture.badStamps
    BY <1>1 DEF IInv, WellWritten, Formed
<1>3. PICK i \in 1..at :
         /\ log[i].total # None
         /\ r.total = log[i].total /\ r.last = log[i].last
         /\ \/ i = at
            \/ /\ log[i].source = r.source
               /\ \A j \in (i + 1)..at : log[j].source # r.source
    BY <1>1 DEF IsRepeat
<1>4. Signature(r) = Signature(log[i]) /\ r.total # None
    BY <1>3 DEF Signature
<1>5. Knows(mixture, log, work, at, sum)
    BY DEF IInv
<1>6. Signature(log[i]) \in {work.signatures[r.source], work.previousSig}
    BY <1>1, <1>2, <1>3, <1>5 DEF Knows
<1> QED BY <1>4, <1>6 DEF IsReplay

LEMMA ReplayIsCharged ==
    ASSUME IInv, scanning, at < Len(log), IsReplay(log[at + 1])
    PROVE  log[at + 1].total = log[at + 1].used /\ AtMost(log[at + 1].used, sum)
<1> DEFINE r == log[at + 1]
<1>1. /\ at \in Nat /\ at + 1 \in DOMAIN log /\ log \in Seq(Record)
      /\ r \in Record /\ r.source \in Sources
    BY LogType, RecordAt DEF IInv, TypeOK
<1>2. Signature(r) # None /\ r.total # None
    BY <1>1, SignatureType DEF IsReplay
<1>3. Knows(mixture, log, work, at, sum)
    BY DEF IInv
<1>4. PICK j \in Readable(log, at) : Signature(log[j]) = Signature(r)
    BY <1>1, <1>2, <1>3 DEF IsReplay, Knows
<1>5. j \in DOMAIN log /\ log[j].total = r.total
    BY <1>1, <1>4 DEF Signature, Readable
<1>6. r.used = r.total /\ log[j].used = log[j].total
    BY <1>1, <1>2, <1>5 DEF IInv, WellWritten, Formed
<1>7. AtMost(log[j].used, sum)
    BY <1>3, <1>4 DEF Knows, IsMost
<1> QED BY <1>5, <1>6, <1>7

\* What a readable record is charged, and where it leaves the high water.
LEMMA ReadableCharge ==
    ASSUME IInv, \A mix \in Mixtures : Chargeable(mix), scanning, at < Len(log),
           log[at + 1].stamped
    PROVE  /\ IsMost(log, Plus(sum, Usage(log[at + 1])), Readable(log, at + 1))
           /\ "last" \notin mixture.shapes =>
                  HighWater(log[at + 1]) = Plus(sum, Usage(log[at + 1]))
<1> DEFINE r == log[at + 1]
           D == Readable(log, at)
<1>1. /\ at \in Nat /\ at + 1 \in DOMAIN log /\ log \in Seq(Record)
      /\ r \in Record /\ r.used \in Counts /\ sum \in Counts
    BY LogType, RecordAt DEF IInv, TypeOK
<1>2. /\ D \subseteq DOMAIN log /\ Readable(log, at + 1) = D \cup {at + 1}
      /\ IsMost(log, sum, D)
    BY <1>1, ReadableNext DEF IInv, Knows
<1>3. Formed(mixture, r) /\ (IsTurn(log, at + 1) \/ IsRepeat(log, at + 1))
    BY <1>1 DEF IInv, WellWritten
<1>4. "last" \notin mixture.shapes => work.highWater = sum
    BY DEF IInv, Knows
<1>5. Chargeable(mixture)
    BY DEF IInv, TypeOK
<1>6. CASE IsReplay(r)
    <2>1. r.total = r.used /\ r.total # None /\ AtMost(r.used, sum)
        BY <1>6, ReplayIsCharged DEF IsReplay
    <2>2. Usage(r) = Zero /\ Plus(sum, Usage(r)) = sum
        BY <1>1, <1>6, PlusZero DEF Usage
    <2>3. IsMost(log, sum, Readable(log, at + 1))
        BY <1>1, <1>2, <2>1, MostWith
    <2>4. "last" \notin mixture.shapes => HighWater(r) = sum
        BY <1>1, <1>4, <2>1, MaxOfLess DEF HighWater
    <2> QED BY <2>2, <2>3, <2>4
<1>7. CASE ~IsReplay(r) /\ r.last # None
    <2>1. IsTurn(log, at + 1)
        BY <1>3, <1>7, RepeatIsKnown
    <2>2. PICK n \in Turn, c \in Counts : /\ IsMost(log, c, 1..at)
                                          /\ r.used = Plus(c, n)
                                          /\ r.last = n
        BY <1>1, <1>7, <2>1 DEF IsTurn
    <2>3. D = 1..at
        <3>1. ~mixture.badStamps
            BY <1>3, <1>7 DEF Formed
        <3>2. \A j \in 1..at : log[j].stamped
            BY <1>1, <3>1 DEF IInv, WellWritten, Formed
        <3> QED BY <1>1, <3>2, AllReadable
    <2>4. c = sum
        BY <1>1, <1>2, <2>2, <2>3, MostIsOne
    <2>5. Usage(r) = n /\ Plus(sum, Usage(r)) = r.used
        BY <1>7, <2>2, <2>4 DEF Usage
    <2>6. AtMost(sum, r.used)
        BY <1>1, <2>2, <2>4, TurnCounts, PlusGrows
    <2>7. IsMost(log, r.used, Readable(log, at + 1))
        BY <1>1, <1>2, <2>6, MostWith
    <2>8. "last" \notin mixture.shapes => HighWater(r) = r.used
        BY <1>1, <1>3, <1>4, <2>6, MaxOfLess DEF HighWater, Formed
    <2> QED BY <2>5, <2>7, <2>8
<1>8. CASE ~IsReplay(r) /\ r.last = None
    <2>1. r.total = r.used /\ r.total # None /\ work.highWater = sum
        BY <1>3, <1>4, <1>5, <1>8 DEF Formed, Chargeable
    <2>2. HighWater(r) = componentMax(sum, r.used)
          /\ Usage(r) = componentDelta(HighWater(r), sum)
        BY <1>8, <2>1 DEF HighWater, Usage
    <2>3. AtMost(sum, r.used) \/ AtMost(r.used, sum)
        <3>1. CASE IsTurn(log, at + 1)
            <4>1. PICK n \in Turn, c \in Counts : /\ IsMost(log, c, 1..at)
                                                  /\ r.used = Plus(c, n)
                BY <1>1, <3>1 DEF IsTurn
            <4>2. AtMost(c, r.used)
                BY <4>1, TurnCounts, PlusGrows
            <4>3. AtMost(sum, c)
                <5>1. CASE sum = Zero
                    BY <4>1, <5>1, AtMostOrder
                <5>2. CASE sum # Zero
                    <6>1. PICK j \in D : log[j].used = sum
                        BY <1>2, <5>2 DEF IsMost
                    <6>2. j \in 1..at
                        BY <6>1 DEF Readable
                    <6> QED BY <4>1, <6>1, <6>2 DEF IsMost
                <5> QED BY <5>1, <5>2
            <4> QED BY <1>1, <4>1, <4>2, <4>3, AtMostOrder
        <3>2. CASE IsRepeat(log, at + 1)
            <4>1. PICK i \in 1..((at + 1) - 1) :
                     r.stamped = log[i].stamped /\ r.used = log[i].used
                BY <3>2, Zenon DEF IsRepeat
            <4>2. i \in 1..at /\ log[i].stamped
                BY <1>1, <4>1
            <4>3. i \in D
                BY <4>2 DEF Readable
            <4> QED BY <1>2, <4>1, <4>3 DEF IsMost
        <3> QED BY <1>3, <3>1, <3>2
    <2>4. CASE AtMost(sum, r.used)
        <3>1. HighWater(r) = r.used /\ Plus(sum, Usage(r)) = r.used
            BY <1>1, <2>2, <2>4, MaxOfLess
        <3>2. IsMost(log, r.used, Readable(log, at + 1))
            BY <1>1, <1>2, <2>4, MostWith
        <3> QED BY <3>1, <3>2
    <2>5. CASE AtMost(r.used, sum)
        <3>1. HighWater(r) = sum /\ Usage(r) = Zero /\ Plus(sum, Usage(r)) = sum
            BY <1>1, <2>2, <2>5, MaxOfLess, PlusZero
        <3>2. IsMost(log, sum, Readable(log, at + 1))
            BY <1>1, <1>2, <2>5, MostWith
        <3> QED BY <3>1, <3>2
    <2> QED BY <2>3, <2>4, <2>5
<1> QED BY <1>6, <1>7, <1>8

LEMMA InvParse ==
    ASSUME IInv, \A mix \in Mixtures : Chargeable(mix), Parse
    PROVE  IInv'
<1> DEFINE r == log[at + 1]
<1>1. /\ scanning /\ at < Len(log) /\ at \in Nat /\ at' = at + 1
      /\ UNCHANGED <<mixture, log, spent, read, counted, state, scanning>>
      /\ log \in Seq(Record) /\ at + 1 \in DOMAIN log
      /\ r \in Record /\ r.source \in Sources
    BY LogType, RecordAt DEF IInv, TypeOK, Parse, session, entry
<1>2. TypeOK' /\ WellWritten' /\ Knows(mixture, log, state, read, counted)'
    BY <1>1, TypeStep DEF IInv, Next, WellWritten
<1>3. Knows(mixture, log, work, at, sum)
    BY <1>1 DEF IInv
<1>4. CASE ~r.stamped
    <2>1. work' = work /\ sum' = sum
        BY <1>4 DEF Parse, Unstamped
    <2>2. mixture.badStamps
        BY <1>1, <1>4 DEF IInv, WellWritten, Formed
    <2>3. Readable(log, at + 1) = Readable(log, at)
        BY <1>1, <1>4, ReadableNext
    <2>4. Knows(mixture, log, work, at + 1, sum)
        BY <1>3, <2>2, <2>3 DEF Knows
    <2> QED BY <1>1, <1>2, <2>1, <2>4 DEF IInv
<1>5. CASE r.stamped
    <2>1. /\ sum' = Plus(sum, Usage(r))
          /\ work'.highWater = HighWater(r)
          /\ work'.previousSig = Signature(r)
          /\ work'.signatures = IF r.total = None THEN work.signatures
                                ELSE [work.signatures EXCEPT ![r.source] = Signature(r)]
        BY <1>5 DEF Parse
    <2>2. Readable(log, at + 1) = Readable(log, at) \cup {at + 1}
        BY <1>1, <1>5, ReadableNext
    <2>3. \A s \in Sources : work'.signatures[s] =
              IF r.total # None /\ s = r.source THEN Signature(r) ELSE work.signatures[s]
        BY <1>1, <2>1 DEF IInv, TypeOK, States
    <2>4. /\ IsMost(log, sum', Readable(log, at + 1))
          /\ "last" \notin mixture.shapes => work'.highWater = sum'
        BY <1>1, <1>5, <2>1, ReadableCharge
    <2>5. \A s \in Sources :
              \/ work'.signatures[s] = None
              \/ \E j \in Readable(log, at + 1) : Signature(log[j]) = work'.signatures[s]
        BY <1>3, <2>2, <2>3 DEF Knows
    <2>6. \E j \in Readable(log, at + 1) : Signature(log[j]) = work'.previousSig
        BY <2>1, <2>2
    <2>7. ASSUME ~mixture.badStamps, NEW i \in 1..(at + 1), log[i].total # None,
                 \A j \in (i + 1)..(at + 1) : log[j].source # log[i].source
          PROVE  work'.signatures[log[i].source] = Signature(log[i])
        <3>1. CASE i = at + 1
            BY <1>1, <2>3, <2>7, <3>1
        <3>2. CASE i # at + 1
            <4>1. /\ i \in 1..at /\ \A j \in (i + 1)..at : log[j].source # log[i].source
                  /\ r.source # log[i].source /\ i \in DOMAIN log
                BY <1>1, <2>7, <3>2
            <4>2. log[i].source \in Sources
                BY <1>1, <4>1, RecordAt
            <4> QED BY <1>3, <2>3, <2>7, <4>1, <4>2 DEF Knows
        <3> QED BY <3>1, <3>2
    <2>8. Knows(mixture, log, work', at + 1, sum')
        BY <1>1, <2>1, <2>4, <2>5, <2>6, <2>7 DEF Knows
    <2> QED BY <1>1, <1>2, <2>8 DEF IInv
<1> QED BY <1>4, <1>5

LEMMA InvStep ==
    ASSUME IInv, \A mix \in Mixtures : Chargeable(mix), [Next]_vars
    PROVE  IInv'
<1>1. TypeOK'
    BY TypeStep DEF IInv
<1>2. CASE BeginRefresh
    BY <1>1, <1>2 DEF BeginRefresh, IInv, WellWritten, session, entry
<1>3. CASE Commit
    BY <1>1, <1>3 DEF Commit, IInv, WellWritten, session, scan
<1>4. CASE Discard
    BY <1>1, <1>4 DEF Discard, AfterAbort, IInv, WellWritten, session, scan
<1>5. CASE UNCHANGED vars
    BY <1>1, <1>5 DEF vars, IInv, WellWritten, session, entry, scan
<1> QED BY <1>2, <1>3, <1>4, <1>5, InvWriteLog, InvParse DEF Next

LEMMA InvInit == Init => IInv
<1> SUFFICES ASSUME Init PROVE IInv
    OBVIOUS
<1>1. Readable(log, 0) = {} /\ DOMAIN log = {}
    BY DEF Init, Readable
<1>2. IsMost(log, Zero, {})
    BY CountsClosed DEF IsMost
<1>3. Knows(mixture, log, Fresh, 0, Zero)
    <2>1. /\ Fresh.highWater = Zero /\ Fresh.previousSig = None
          /\ \A s \in Sources : Fresh.signatures[s] = None
        BY DEF Fresh
    <2> QED BY <1>1, <1>2, <2>1 DEF Knows
<1> QED BY <1>1, <1>2, <1>3, TypeInit DEF Init, IInv, WellWritten

\* Every turn is charged exactly once, by its own usage or by the growth of the
\* totals, in every session whose records can be charged exactly.
THEOREM ChargesAreExact ==
    (\A mix \in Mixtures : Chargeable(mix)) => (Spec => []UsageIsExact)
<1>1. SUFFICES ASSUME \A mix \in Mixtures : Chargeable(mix) PROVE Spec => []UsageIsExact
    OBVIOUS
<1>2. IInv /\ [Next]_vars => IInv'
    BY <1>1, InvStep
<1>3. IInv => UsageIsExact
    BY UsedByIsMost DEF IInv, TypeOK, Knows, UsageIsExact
<1> QED BY InvInit, <1>2, <1>3, PTL DEF Spec

=============================================================================
