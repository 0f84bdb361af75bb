------------------------------ MODULE CodexUsage ------------------------------
(***************************************************************************)
(* What a Codex session is charged for: parseCodexTokenCount and the state *)
(* it threads through a log (internal/parser/codex.go), over refreshes     *)
(* that keep what they read or throw it away (refreshCodex in index.go).   *)
(*                                                                         *)
(* Codex reports each turn as a token_count record: the totals of the      *)
(* session so far, the usage of the turn, or both.  It repeats records: on *)
(* every change of a rate limit, and under each limit (source) it has.     *)
(* Counts are functions of the kinds of token; the clamps of cached to     *)
(* input and of reasoning to output are left out, prices too.              *)
(***************************************************************************)
EXTENDS Integers, Sequences

CONSTANTS
    Kinds,      \* kinds of token counted
    Sources,    \* rate limit ids; Default is a record without rate limits
    Default,
    Mixtures,   \* what the records of a session may carry ("both", "total",
                \* "last"), and whether some have unreadable timestamps
    MaxLog,     \* bound: records in the log
    MaxAborts,  \* bound: refreshes thrown away
    None

ASSUME MixturesAssumption ==
    Mixtures \subseteq [shapes : SUBSET {"both", "total", "last"}, badStamps : BOOLEAN]
ASSUME NoneAssumption == None \notin [Kinds -> Nat]
ASSUME BoundsAssumption == MaxLog \in Nat /\ MaxAborts \in Nat

VARIABLES
    mixture,    \* the one this session has
    log,        \* the session's token_count records
    spent,      \* what the session has really used
    read,       \* records read by the refreshes that were kept
    counted,    \* sum of the events of those refreshes
    state,      \* codexState of the cache entry
    scanning,   \* a refresh is reading the log
    at,         \* records it has read
    sum,        \* sum of all events, those of this refresh included
    work,       \* the copy of the state it works on
    aborts

session == <<mixture, log, spent>>
entry == <<read, counted, state>>
scan == <<at, sum, work>>
vars == <<session, entry, scanning, scan, aborts>>

Counts == [Kinds -> Nat]
Zero == [k \in Kinds |-> 0]
Turn == [Kinds -> 0..1]

Plus(a, b) == [k \in Kinds |-> a[k] + b[k]]
componentMax(a, b) == [k \in Kinds |-> IF a[k] > b[k] THEN a[k] ELSE b[k]]
componentDelta(a, b) == [k \in Kinds |-> IF a[k] > b[k] THEN a[k] - b[k] ELSE 0]

\* The nil signature differs from that of every record.
Fresh == [highWater |-> Zero, signatures |-> [s \in Sources |-> None],
          previousSig |-> None, quota |-> 0]

Init ==
    /\ mixture \in Mixtures
    /\ log = <<>>
    /\ spent = Zero
    /\ read = 0
    /\ counted = Zero
    /\ state = Fresh
    /\ scanning = FALSE
    /\ at = 0
    /\ sum = Zero
    /\ work = Fresh
    /\ aborts = 0

-----------------------------------------------------------------------------
(* Codex writes the log.                                                   *)

Emit(record) ==
    /\ Len(log) < MaxLog
    /\ log' = Append(log, record)
    /\ UNCHANGED <<mixture, entry, scanning, scan, aborts>>

\* A turn is over and has used n.
EndTurn(n, s, shape, stamped) ==
    /\ spent' = Plus(spent, n)
    /\ Emit([total |-> IF shape = "last" THEN None ELSE Plus(spent, n),
             last |-> IF shape = "total" THEN None ELSE n,
             source |-> s, stamped |-> stamped, used |-> Plus(spent, n)])

\* The record just written again, perhaps under another rate limit.
Echo(s) ==
    /\ log # <<>>
    /\ log[Len(log)].total # None
    /\ Emit([log[Len(log)] EXCEPT !.source = s])
    /\ UNCHANGED spent

\* The last record of one rate limit again, other limits having moved on.
Replay(i) ==
    /\ log[i].total # None
    /\ \A j \in (i + 1)..Len(log) : log[j].source # log[i].source
    /\ Emit(log[i])
    /\ UNCHANGED spent

WriteLog ==
    \/ \E n \in Turn, s \in Sources, shape \in mixture.shapes,
          stamped \in {TRUE, ~mixture.badStamps} :
          EndTurn(n, s, shape, stamped)
    \/ \E s \in Sources : Echo(s)
    \/ \E i \in DOMAIN log : Replay(i)

-----------------------------------------------------------------------------
(* The parser.                                                             *)

\* Faulty: the copy shares the signatures with the original, so a refresh
\* that is thrown away leaves its own behind.
AfterAbortShared == [state EXCEPT !.signatures = work.signatures]

\* cloneCodexState copies every part that parsing a record changes.
AfterAbort == state

BeginRefresh ==
    /\ ~scanning
    /\ read < Len(log)
    /\ scanning' = TRUE
    /\ at' = read
    /\ sum' = counted
    /\ work' = state
    /\ UNCHANGED <<session, entry, aborts>>

\* countsSignature of both counts; two records have the same signature when
\* they agree on both.
Signature(record) == <<record.total, record.last>>

\* A replay repeats the previous record or the last one of its source.
IsReplay(record) ==
    /\ record.total # None
    /\ Signature(record) \in {work.signatures[record.source], work.previousSig}

HighWater(record) ==
    IF record.total = None THEN work.highWater
    ELSE componentMax(work.highWater, record.total)

\* The turn's own usage where the record has it, else what the totals grew by.
Usage(record) ==
    IF IsReplay(record) THEN Zero
    ELSE IF record.last # None THEN record.last
    ELSE componentDelta(HighWater(record), work.highWater)

\* A record without a readable timestamp leaves no trace.
Unstamped(record) == work

Parse ==
    /\ scanning
    /\ at < Len(log)
    /\ at' = at + 1
    /\ LET record == log[at + 1]
       IN  IF record.stamped
           THEN /\ sum' = Plus(sum, Usage(record))
                /\ work' = [highWater |-> HighWater(record),
                            signatures |-> IF record.total = None THEN work.signatures
                                ELSE [work.signatures EXCEPT ![record.source] = Signature(record)],
                            previousSig |-> Signature(record),
                            quota |-> IF record.source = Default THEN work.quota ELSE at + 1]
           ELSE /\ work' = Unstamped(record)
                /\ UNCHANGED sum
    /\ UNCHANGED <<session, entry, scanning, aborts>>

\* The refresh reached the end of the file, and the file is still there.
Commit ==
    /\ scanning
    /\ at = Len(log)
    /\ scanning' = FALSE
    /\ read' = at
    /\ counted' = sum
    /\ state' = work
    /\ UNCHANGED <<session, scan, aborts>>

\* A read error, an expired context, a file that moved: nothing is kept.
Discard ==
    /\ scanning
    /\ aborts < MaxAborts
    /\ aborts' = aborts + 1
    /\ scanning' = FALSE
    /\ state' = AfterAbort
    /\ UNCHANGED <<session, read, counted, scan>>

Next == WriteLog \/ BeginRefresh \/ Parse \/ Commit \/ Discard

Spec == Init /\ [][Next]_vars

-----------------------------------------------------------------------------
Signatures == (Counts \cup {None}) \X (Counts \cup {None})

\* The nil signature is none that a record has.
ASSUME NilAssumption == None \notin Signatures

States == [highWater : Counts, signatures : [Sources -> Signatures \cup {None}],
           previousSig : Signatures \cup {None}, quota : Nat]

TypeOK ==
    /\ mixture \in Mixtures
    /\ log \in Seq([total : Counts \cup {None}, last : Counts \cup {None},
                    source : Sources, stamped : BOOLEAN, used : Counts])
    /\ spent \in Counts
    /\ read \in 0..Len(log)
    /\ counted \in Counts
    /\ state \in States
    /\ state.quota <= read
    /\ scanning \in BOOLEAN
    /\ at \in 0..Len(log)
    /\ sum \in Counts
    /\ work \in States
    /\ work.quota <= at
    /\ aborts \in 0..MaxAborts

\* The most that a readable record among the first n says has been used.
UsedBy(n) ==
    LET good == {i \in 1..n : log[i].stamped}
        most == {i \in good : \A j \in good, k \in Kinds : log[j].used[k] <= log[i].used[k]}
    IN  IF good = {} THEN Zero ELSE log[CHOOSE i \in most : TRUE].used

\* Every turn is charged exactly once, by its own usage or by the growth of
\* the totals, whichever way its records are repeated, split over refreshes,
\* and read again after a refresh that was thrown away.  A turn whose record
\* had no readable timestamp is charged with the next totals.
UsageIsExact == counted = UsedBy(read)
=============================================================================
