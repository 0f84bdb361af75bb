----------------------------- MODULE QuotaProofs -----------------------------
(***************************************************************************)
(* What the polls of QuotaTracker do to the two snapshots, for any number  *)
(* of manual refreshes and faults and any clock; and that the exchange of  *)
(* the Codex client with its app-server, CodexLimits, implements the       *)
(* single question and answer of QuotaTracker.                             *)
(*                                                                         *)
(* The argument for the tracker: refreshMu lets one poll at a time ask and *)
(* store (OnePoll).  So between the moment a fetch reads the credential    *)
(* and the moment its answer is stored nobody else learns that the         *)
(* provider is gone (NothingLearnt) and nobody else stores (InOrder).      *)
(*                                                                         *)
(* What LiveQuotaSnapshots picks among its values, and hence what is       *)
(* shown, is proved by induction on their number, as the absence of a      *)
(* least number of values for which it is not the best (LiveQuotaIsBest).  *)
(*                                                                         *)
(* The argument for the client: since one poll at a time waits for an      *)
(* answer, step, process and the two pipes belong to one fetch             *)
(* (Positions).  A message carries no id but that of a request the         *)
(* app-server has read, and whatever makes a fetch fail, an error,         *)
(* rubbish, a bare result or the end of the process, is there only if      *)
(* something may go wrong (Explained, Excused), which stays so until the   *)
(* fetch returns.                                                          *)
(***************************************************************************)
EXTENDS CodexLimits, SequenceTheorems, FiniteSetTheorems, WellFoundedInduction, TLAPS

Polling(r) == pc[r] \in {"fetch", "wait", "store"}

\* TypeOK, but for what the session logs hold.
PollTypeOK ==
    /\ now \in 0..MaxTime
    /\ available \in [Enabled -> BOOLEAN]
    /\ live \in [Providers -> Snapshot \cup {None}]
    /\ pc \in [Refreshers -> {"idle", "lock", "fetch", "wait", "store", "returned"}]
    /\ asking \in [Refreshers -> Enabled \cup {None}]
    /\ answer \in [Refreshers -> Snapshot \cup {Unavailable, Failed, Pending}]
    /\ refreshMu \in {None} \cup Refreshers
    /\ known \in [Enabled -> BOOLEAN]

OnePoll ==
    \A r \in Refreshers :
        /\ Polling(r) => asking[r] \in Enabled /\ refreshMu = r
        /\ ~Polling(r) => asking[r] = None
        /\ pc[r] = "store" <=> answer[r] # Pending

NothingLearnt ==
    \A r \in Refreshers :
        /\ pc[r] = "wait" => ~known[asking[r]]
        /\ pc[r] = "store" /\ known[asking[r]] => answer[r] = Unavailable

KnownIsGone == \A p \in Enabled : known[p] => ~available[p]

InOrder ==
    /\ \A p \in Providers : live[p] # None => live[p].observed <= now
    /\ \A r \in Refreshers : pc[r] = "store" /\ answer[r] \in Snapshot =>
          /\ answer[r].observed <= now
          /\ live[asking[r]] # None => live[asking[r]].observed <= answer[r].observed

IInv ==
    /\ PollTypeOK
    /\ OnePoll
    /\ NothingLearnt
    /\ KnownIsGone
    /\ InOrder
    /\ UnavailableStaysUnavailable

-----------------------------------------------------------------------------
(* Types.                                                                  *)

LEMMA ObservedIsSnapshot ==
    ASSUME now \in 0..MaxTime, NEW w \in Resets, NEW k \in {1, 2}
    PROVE  [observed |-> now, rank |-> k, resets |-> w] \in Snapshot
    BY BoundsAssumption DEF Resets, Snapshot, Never

LEMMA TypeInit == Init => PollTypeOK
    BY BoundsAssumption DEF Init, PollTypeOK

LEMMA TypeStep == PollTypeOK /\ OnePoll /\ [Next]_vars => PollTypeOK'
<1> SUFFICES ASSUME PollTypeOK, OnePoll, [Next]_vars PROVE PollTypeOK'
    OBVIOUS
<1> USE DEF PollTypeOK
<1>1. CASE TimePasses
    BY <1>1, BoundsAssumption DEF TimePasses
<1>2. ASSUME NEW p \in Enabled, ChangeAvailability(p) PROVE PollTypeOK'
    BY <1>2 DEF ChangeAvailability
<1>3. CASE RefreshIndex \/ Tick \/ Quit \/ \E s \in Sessions : LogLimits(s)
    BY <1>3 DEF RefreshIndex, Tick, Quit, LogLimits
<1>4. CASE TakeTick \/ RunEnds
    BY <1>4 DEF TakeTick, RunEnds, Goto
<1>5. ASSUME NEW r \in Refreshers, Click(r) \/ LockRefresh(r) \/ Send(r) PROVE PollTypeOK'
    BY <1>5 DEF Click, LockRefresh, Lock, First, Send, Goto
<1>6. ASSUME NEW r \in Refreshers, FindUnavailable(r) \/ ReceiveError(r) PROVE PollTypeOK'
    BY <1>6 DEF FindUnavailable, ReceiveError, Return, Goto
<1>7. ASSUME NEW r \in Refreshers, Receive(r) PROVE PollTypeOK'
    BY <1>7, ObservedIsSnapshot DEF Receive, Return, Goto
<1>8. ASSUME NEW r \in Refreshers, Store(r) PROVE PollTypeOK'
    <2>1. asking[r] \in Enabled /\ asking[r] \in Providers /\ answer[r] # Pending
        BY <1>8, EnabledAssumption DEF Store, OnePoll, Polling
    <2>2. Stored(asking[r], answer[r]) \in Snapshot \cup {None}
        BY <2>1 DEF Stored
    <2>3. After(asking[r]) \in Enabled \cup {None}
        BY DEF After
    <2> QED BY <1>8, <2>1, <2>2, <2>3 DEF Store, Unlock, Goto
<1>9. CASE UNCHANGED vars
    BY <1>9 DEF vars
<1> QED BY <1>1, <1>2, <1>3, <1>4, <1>5, <1>6, <1>7, <1>8, <1>9 DEF Next, Poll

-----------------------------------------------------------------------------
(* The invariant.                                                          *)

LEMMA InvInit == Init => IInv
<1> SUFFICES ASSUME Init PROVE IInv
    OBVIOUS
<1>1. PollTypeOK
    BY TypeInit
<1> QED BY <1>1
        DEF IInv, Init, OnePoll, Polling, NothingLearnt, KnownIsGone, InOrder,
            UnavailableStaysUnavailable

\* Nobody else is in a poll.
LEMMA Alone ==
    ASSUME IInv, NEW r \in Refreshers, Polling(r)
    PROVE  \A q \in Refreshers : q # r => ~Polling(q) /\ asking[q] = None /\ pc[q] # "store"
    BY DEF IInv, OnePoll, Polling

\* Steps that leave polls, answers and snapshots alone.
LEMMA WorldStep ==
    ASSUME IInv, PollTypeOK',
           \/ TimePasses \/ RefreshIndex \/ Tick \/ Quit
           \/ \E p \in Enabled : ChangeAvailability(p)
           \/ \E s \in Sessions : LogLimits(s)
    PROVE  IInv'
<1>1. /\ UNCHANGED <<live, pc, asking, answer, refreshMu>>
      /\ now <= now'
      /\ \A p \in Enabled : known'[p] => known[p] /\ available'[p] = available[p]
    BY DEF TimePasses, ChangeAvailability, LogLimits, RefreshIndex, Tick, Quit, IInv, PollTypeOK
<1>2. OnePoll' /\ NothingLearnt'
    BY <1>1 DEF OnePoll, NothingLearnt, Polling, IInv
<1>3. KnownIsGone' /\ UnavailableStaysUnavailable'
    BY <1>1 DEF KnownIsGone, UnavailableStaysUnavailable, IInv
<1>4. InOrder'
    <2>1. \A s \in Snapshot : s.observed <= now => s.observed <= now'
        BY <1>1 DEF Snapshot, IInv, PollTypeOK
    <2> QED BY <1>1, <2>1 DEF InOrder, IInv, PollTypeOK
<1> QED BY <1>2, <1>3, <1>4 DEF IInv

\* Steps between polls, and into one.
LEMMA BetweenStep ==
    ASSUME IInv, PollTypeOK',
           TakeTick \/ RunEnds \/ \E r \in Refreshers : Click(r) \/ LockRefresh(r)
    PROVE  IInv'
<1>1. PICK r \in Refreshers :
        /\ ~Polling(r) /\ pc'[r] \notin {"wait", "store"}
        /\ \A q \in Refreshers \ {r} : pc'[q] = pc[q] /\ asking'[q] = asking[q]
        /\ \/ pc'[r] # "fetch" /\ asking' = asking /\ refreshMu' = refreshMu
           \/ /\ pc'[r] = "fetch" /\ asking'[r] \in Enabled
              /\ refreshMu = None /\ refreshMu' = r
    BY DEF TakeTick, RunEnds, Click, LockRefresh, Lock, First, Goto, Polling, Refreshers, IInv,
           PollTypeOK
<1>2. UNCHANGED <<now, available, live, answer, known>>
    BY DEF TakeTick, RunEnds, Click, LockRefresh
<1>3. OnePoll'
    BY <1>1, <1>2, NamesAssumption DEF OnePoll, Polling, IInv, PollTypeOK
<1>4. NothingLearnt' /\ KnownIsGone' /\ InOrder'
    BY <1>1, <1>2 DEF NothingLearnt, KnownIsGone, InOrder, IInv
<1>5. UnavailableStaysUnavailable'
    BY <1>1, <1>2 DEF UnavailableStaysUnavailable, OnePoll, Polling, IInv
<1> QED BY <1>3, <1>4, <1>5 DEF IInv

LEMMA SendStep == ASSUME IInv, PollTypeOK', NEW r \in Refreshers, Send(r) PROVE IInv'
<1>1. /\ pc[r] = "fetch" /\ available[asking[r]] /\ asking[r] \in Enabled
      /\ pc'[r] = "wait"
      /\ \A q \in Refreshers \ {r} : pc'[q] = pc[q]
      /\ UNCHANGED <<now, available, live, asking, answer, refreshMu, known>>
    BY DEF Send, Goto, IInv, PollTypeOK, OnePoll, Polling
<1>2. OnePoll'
    BY <1>1 DEF OnePoll, Polling, IInv
<1>3. NothingLearnt'
    BY <1>1 DEF NothingLearnt, KnownIsGone, IInv
<1>4. KnownIsGone' /\ InOrder' /\ UnavailableStaysUnavailable'
    BY <1>1 DEF KnownIsGone, InOrder, UnavailableStaysUnavailable, IInv
<1> QED BY <1>2, <1>3, <1>4 DEF IInv

\* A fetch returns.
LEMMA ReturnStep ==
    ASSUME IInv, PollTypeOK', NEW r \in Refreshers,
           FindUnavailable(r) \/ Receive(r) \/ ReceiveError(r)
    PROVE  IInv'
<1>1. /\ Polling(r) /\ asking[r] \in Enabled /\ asking[r] \in Providers
      /\ pc'[r] = "store"
      /\ \A q \in Refreshers \ {r} : pc'[q] = pc[q] /\ answer'[q] = answer[q]
      /\ UNCHANGED <<now, available, live, asking, refreshMu>>
    BY EnabledAssumption
    DEF FindUnavailable, Receive, ReceiveError, Return, Goto, IInv, PollTypeOK, OnePoll, Polling
<1>2. answer'[r] # Pending /\ (answer'[r] \in Snapshot => answer'[r].observed = now)
    <2>1. CASE FindUnavailable(r) \/ ReceiveError(r)
        BY <2>1, AnswersAssumption DEF FindUnavailable, ReceiveError, Return, IInv, PollTypeOK
    <2>2. CASE Receive(r)
        <3>1. PICK w \in Resets :
                  answer' = [answer EXCEPT ![r] = [observed |-> now, rank |-> 2, resets |-> w]]
            BY <2>2 DEF Receive, Return
        <3>2. answer'[r] \in Snapshot /\ answer'[r].observed = now
            BY <3>1, ObservedIsSnapshot DEF IInv, PollTypeOK
        <3> QED BY <3>2, AnswersAssumption
    <2> QED BY <2>1, <2>2
<1>3. /\ \A p \in Enabled : p # asking[r] => known'[p] = known[p]
      /\ \/ known'[asking[r]] /\ answer'[r] = Unavailable /\ ~available[asking[r]]
         \/ known' = known /\ ~known[asking[r]]
    BY <1>1 DEF FindUnavailable, Receive, ReceiveError, Return, IInv, PollTypeOK, NothingLearnt
<1>4. \A q \in Refreshers \ {r} : ~Polling(q) /\ asking[q] = None
    BY <1>1, Alone
<1>5. OnePoll'
    BY <1>1, <1>2, <1>4 DEF OnePoll, Polling, IInv
<1>6. NothingLearnt' /\ KnownIsGone'
    BY <1>1, <1>3, <1>4 DEF NothingLearnt, KnownIsGone, Polling, IInv
<1>7. InOrder'
    BY <1>1, <1>2, <1>4 DEF InOrder, Polling, IInv, PollTypeOK
<1>8. UnavailableStaysUnavailable'
    BY <1>1, <1>2, <1>3, <1>4 DEF UnavailableStaysUnavailable, OnePoll, IInv
<1> QED BY <1>5, <1>6, <1>7, <1>8 DEF IInv

\* What Store does to the snapshot of the provider it asked.
LEMMA StoreFacts ==
    ASSUME IInv, NEW r \in Refreshers, Store(r)
    PROVE  /\ Polling(r) /\ asking[r] \in Enabled /\ asking[r] \in Providers
           /\ \A p \in Providers : p # asking[r] => live'[p] = live[p]
           /\ \/ live'[asking[r]] = None
              \/ answer[r] = Failed /\ live'[asking[r]] = live[asking[r]]
              \/ answer[r] \in Snapshot /\ live'[asking[r]] = answer[r]
           /\ answer[r] = Unavailable => live'[asking[r]] = None
    BY EnabledAssumption, AnswersAssumption
    DEF Store, Stored, IInv, PollTypeOK, OnePoll, Polling

LEMMA StoreStep == ASSUME IInv, PollTypeOK', NEW r \in Refreshers, Store(r) PROVE IInv'
<1>1. /\ pc[r] = "store" /\ answer'[r] = Pending
      /\ \A q \in Refreshers \ {r} : /\ pc'[q] = pc[q]
                                     /\ answer'[q] = answer[q]
                                     /\ asking'[q] = asking[q]
      /\ UNCHANGED <<now, available, known>>
      /\ \/ pc'[r] = "idle" /\ asking'[r] = None
         \/ pc'[r] = "fetch" /\ asking'[r] \in Enabled /\ refreshMu' = refreshMu
    BY AnswersAssumption DEF Store, After, Goto, IInv, PollTypeOK
<1>2. \A q \in Refreshers \ {r} : ~Polling(q) /\ asking[q] = None
    BY StoreFacts, Alone
<1>3. OnePoll'
    BY <1>1, <1>2 DEF OnePoll, Polling, IInv
<1>4. NothingLearnt' /\ KnownIsGone'
    BY <1>1, <1>2 DEF NothingLearnt, KnownIsGone, Polling, IInv
<1>5. InOrder'
    BY <1>1, <1>2, StoreFacts DEF InOrder, Polling, IInv
<1>6. UnavailableStaysUnavailable'
    <2> SUFFICES ASSUME NEW p \in Enabled, known[p] PROVE live'[p] = None
        BY <1>1 DEF UnavailableStaysUnavailable
    <2>1. CASE p = asking[r]
        BY <2>1, <1>1, StoreFacts DEF NothingLearnt, IInv
    <2>2. CASE p # asking[r]
        BY <2>2, <1>2, StoreFacts, EnabledAssumption, AnswersAssumption
        DEF UnavailableStaysUnavailable, IInv
    <2> QED BY <2>1, <2>2
<1> QED BY <1>3, <1>4, <1>5, <1>6 DEF IInv

LEMMA InvStep == IInv /\ [Next]_vars => IInv'
<1> SUFFICES ASSUME IInv, [Next]_vars PROVE IInv'
    OBVIOUS
<1>1. PollTypeOK'
    BY TypeStep DEF IInv
<1>2. CASE UNCHANGED vars
    BY <1>1, <1>2
    DEF IInv, vars, OnePoll, Polling, NothingLearnt, KnownIsGone, InOrder,
        UnavailableStaysUnavailable
<1> QED BY <1>1, <1>2, WorldStep, BetweenStep, SendStep, ReturnStep, StoreStep DEF Next, Poll

LEMMA Invariance == Spec => []IInv
    BY InvInit, InvStep, PTL DEF Spec

\* Once a poll has found a provider unavailable, no poll that began earlier
\* puts its limits back.
THEOREM UnavailableStays == Spec => []UnavailableStaysUnavailable
    BY Invariance, PTL DEF IInv

-----------------------------------------------------------------------------
Forward ==
    \A p \in Providers :
        live[p] # None /\ live'[p] # None => live[p].observed <= live'[p].observed

LEMMA ForwardStep == IInv /\ [Next]_vars => [Forward]_vars
<1> SUFFICES ASSUME IInv, Next PROVE Forward
    OBVIOUS
<1>0. \A s \in Snapshot : s.observed <= s.observed
    BY BoundsAssumption DEF Snapshot
<1>1. ASSUME NEW r \in Refreshers, Store(r) PROVE Forward
    <2> SUFFICES ASSUME NEW p \in Providers, live[p] # None, live'[p] # None
                 PROVE  live[p].observed <= live'[p].observed
        BY DEF Forward
    <2>1. live[p] \in Snapshot /\ pc[r] = "store"
        BY <1>1 DEF IInv, PollTypeOK, Store
    <2>2. CASE p = asking[r] /\ answer[r] \in Snapshot /\ live'[p] = answer[r]
        BY <2>1, <2>2 DEF IInv, InOrder
    <2>3. CASE live'[p] = live[p]
        BY <1>0, <2>1, <2>3
    <2> QED BY <1>1, <2>2, <2>3, StoreFacts
<1>2. ASSUME live' = live PROVE Forward
    BY <1>0, <1>2 DEF Forward, IInv, PollTypeOK
<1> QED BY <1>1, <1>2
        DEF Next, Poll, TimePasses, ChangeAvailability, LogLimits, RefreshIndex, Tick, Quit,
            TakeTick, RunEnds, Click, LockRefresh, FindUnavailable, Send, Receive, ReceiveError,
            Return

\* A snapshot is never replaced by one observed earlier, however many polls
\* are under way.
THEOREM SnapshotsAreOrdered == Spec => SnapshotsMoveForward
    BY Invariance, ForwardStep, PTL DEF Spec, SnapshotsMoveForward, Forward
-----------------------------------------------------------------------------
(* LiveQuotaSnapshots, for any number of values.                           *)

LEMMA Least ==
    ASSUME NEW S \in SUBSET Nat, S # {}
    PROVE  \E x \in S : \A y \in S : x <= y
<1> DEFINE R == {ss \in Nat \X Nat : ss[1] < ss[2]}
<1>1. IsWellFoundedOn(R, Nat)
    BY NatLessThanWellFounded, Zenon DEF OpToRel
<1>2. \A x, y \in Nat : y < x => <<y, x>> \in R
    OBVIOUS
<1> HIDE DEF R
<1>3. PICK x \in S : \A y \in S : ~(<<y, x>> \in R)
    BY <1>1, WFMin
<1>4. \A y \in S : ~(y < x)
    BY <1>2, <1>3
<1>5. x \in Nat /\ \A y \in S : y \in Nat
    OBVIOUS
<1> QED BY <1>4, <1>5

\* The values of latest in the loop, before it and after each of n values.
IsLatest(values, n, latest) ==
    latest = [i \in 0..n |-> IF i = 0 THEN None ELSE Consider(latest[i - 1], values[i])]

LEMMA LatestExists ==
    ASSUME NEW values, NEW N \in Nat
    PROVE  \E latest : IsLatest(values, N, latest)
<1> DEFINE S == {n \in Nat : ~\E latest : IsLatest(values, n, latest)}
<1> SUFFICES ASSUME S # {} PROVE FALSE
    OBVIOUS
<1>1. PICK n \in S : \A m \in S : n <= m
    BY Least
<1>2. CASE n = 0
    <2> DEFINE g == [i \in 0..0 |-> None]
    <2>1. IsLatest(values, 0, g)
        BY DEF IsLatest
    <2> QED BY <1>1, <1>2, <2>1
<1>3. CASE n # 0
    <2>1. n \in Nat /\ n - 1 \in Nat /\ ~(n <= n - 1)
        BY <1>3
    <2>2. n - 1 \notin S
        BY <1>1, <2>1
    <2>3. PICK g : IsLatest(values, n - 1, g)
        BY <2>1, <2>2
    <2> DEFINE h == [i \in 0..n |-> IF i = n THEN Consider(g[n - 1], values[n]) ELSE g[i]]
    <2>4. ASSUME NEW i \in 0..n
          PROVE  h[i] = IF i = 0 THEN None ELSE Consider(h[i - 1], values[i])
        <3>1. CASE i = n
            <4>1. n - 1 \in 0..n /\ n - 1 # n /\ h[n - 1] = g[n - 1]
                BY <2>1
            <4> QED BY <1>3, <3>1, <4>1
        <3>2. CASE i # n
            <4>1. i \in 0..(n - 1) /\ h[i] = g[i]
                BY <2>1, <3>2
            <4>2. g[i] = IF i = 0 THEN None ELSE Consider(g[i - 1], values[i])
                BY <2>3, <4>1 DEF IsLatest
            <4>3. i # 0 => i - 1 \in 0..n /\ i - 1 # n /\ h[i - 1] = g[i - 1]
                BY <2>1, <3>2
            <4> QED BY <4>1, <4>2, <4>3
        <3> QED BY <3>1, <3>2
    <2>5. IsLatest(values, n, h)
        <3> HIDE DEF h
        <3>1. h = [i \in 0..n |-> h[i]]
            BY DEF h
        <3> QED BY <2>4, <3>1 DEF IsLatest
    <2> QED BY <1>1, <2>5
<1> QED BY <1>2, <1>3

LEMMA LiveQuotaIs ==
    ASSUME NEW values, Len(values) \in Nat
    PROVE  \E latest : IsLatest(values, Len(values), latest) /\ LiveQuota(values) = latest[Len(values)]
<1> DEFINE latest == CHOOSE g : IsLatest(values, Len(values), g)
<1>1. IsLatest(values, Len(values), latest)
    BY LatestExists
<1>2. LiveQuota(values) = latest[Len(values)]
    BY Zenon DEF LiveQuota, IsLatest
<1> QED BY <1>1, <1>2

\* The values that have a window left, among the first n.
Usable(values, n) == {i \in 1..n : values[i] # None /\ Windows(values[i]) # {}}

Narrowed(s) == [s EXCEPT !.resets = Windows(s)]

\* x is one of them that no other of them is better than.
IsBest(values, n, x) ==
    IF Usable(values, n) = {} THEN x = None
    ELSE \E i \in Usable(values, n) :
            /\ x = Narrowed(values[i])
            /\ \A j \in Usable(values, n) : ~Better(values[j], values[i])

LEMMA NarrowedFacts ==
    ASSUME NEW s \in Snapshot
    PROVE  /\ Narrowed(s).rank = s.rank /\ Narrowed(s).observed = s.observed
           /\ s.rank \in {1, 2} /\ s.observed \in 0..MaxTime
           /\ Windows(s) # {} => Narrowed(s) \in Snapshot /\ Narrowed(s) # None
<1>1. /\ s.rank \in {1, 2} /\ s.observed \in 0..MaxTime
      /\ s.resets \in (SUBSET ({Never} \cup 1..(MaxTime + MaxWindow))) \ {{}}
    BY DEF Snapshot
<1>2. Windows(s) \in SUBSET s.resets
    BY DEF Windows
<1>3. /\ Narrowed(s) = [observed |-> s.observed, rank |-> s.rank, resets |-> Windows(s)]
    BY DEF Narrowed, Snapshot
<1>4. ASSUME Windows(s) # {} PROVE Narrowed(s) \in Snapshot
    BY <1>1, <1>2, <1>3, <1>4 DEF Snapshot
<1>5. None \notin Snapshot
    BY AnswersAssumption
<1>6. Narrowed(s).rank = s.rank /\ Narrowed(s).observed = s.observed
    BY <1>3
<1> QED BY <1>1, <1>4, <1>5, <1>6

\* Better is a strict order of their ranks and times.
LEMMA BetterOrder ==
    ASSUME NEW s \in Snapshot, NEW t \in Snapshot, NEW u \in Snapshot
    PROVE  ~Better(s, s) /\ (Better(t, s) /\ ~Better(u, s) => ~Better(u, t))
<1>1. /\ s.rank \in Int /\ t.rank \in Int /\ u.rank \in Int
      /\ s.observed \in Int /\ t.observed \in Int /\ u.observed \in Int
    BY BoundsAssumption DEF Snapshot
<1> QED BY <1>1 DEF Better

\* Whatever the values are and in whatever order the cache is visited: the
\* one that is shown is the best of those with a window left.
LEMMA LiveQuotaIsBest ==
    ASSUME NEW values \in Seq(Snapshot \cup {None})
    PROVE  IsBest(values, Len(values), LiveQuota(values))
<1> DEFINE N == Len(values)
<1>1. N \in Nat /\ \A i \in 1..N : values[i] \in Snapshot \cup {None}
    BY LenProperties, ElementOfSeq
<1>2. PICK latest : IsLatest(values, N, latest) /\ LiveQuota(values) = latest[N]
    BY <1>1, LiveQuotaIs
<1> HIDE DEF N
<1>3. /\ latest[0] = None
      /\ \A n \in 1..N : n \in 0..N /\ latest[n] = Consider(latest[n - 1], values[n])
    BY <1>1, <1>2 DEF IsLatest
<1>4. IsBest(values, 0, latest[0])
    <2>1. Usable(values, 0) = {}
        BY DEF Usable
    <2> QED BY <1>3, <2>1 DEF IsBest
<1>5. ASSUME NEW n \in 1..N, IsBest(values, n - 1, latest[n - 1])
      PROVE  IsBest(values, n, latest[n])
    <2> DEFINE v == values[n]
               x == latest[n - 1]
               fit == v # None /\ Windows(v) # {}
    <2>1. Usable(values, n) = Usable(values, n - 1) \cup (IF fit THEN {n} ELSE {})
        BY <1>1 DEF Usable
    <2>2. n \notin Usable(values, n - 1)
        BY <1>1 DEF Usable
    <2>3. \A j \in Usable(values, n) : values[j] \in Snapshot
        BY <1>1 DEF Usable
    <2>4. latest[n] = Consider(x, v)
        BY <1>3
    <2> HIDE DEF v, x
    <2>5. CASE ~fit
        <3>1. latest[n] = x
            BY <2>4, <2>5 DEF Consider
        <3>2. Usable(values, n) = Usable(values, n - 1)
            BY <2>1, <2>5
        <3> QED BY <1>5, <3>1, <3>2 DEF IsBest, x
    <2>6. CASE fit
        <3>1. v \in Snapshot /\ n \in Usable(values, n)
            BY <2>1, <2>3, <2>6 DEF v
        <3>2. latest[n] = IF x = None \/ Better(Narrowed(v), x) THEN Narrowed(v) ELSE x
            BY <2>4, <2>6 DEF Consider, Narrowed
        <3>3. ~Better(v, v)
            BY <3>1, BetterOrder
        <3>4. CASE Usable(values, n - 1) = {}
            <4>1. x = None
                BY <1>5, <3>4 DEF IsBest, x
            <4>2. Usable(values, n) = {n}
                BY <2>1, <2>6, <3>4
            <4> QED BY <3>1, <3>2, <3>3, <4>1, <4>2 DEF IsBest, v
        <3>5. CASE Usable(values, n - 1) # {}
            <4>1. PICK i \in Usable(values, n - 1) :
                    /\ x = Narrowed(values[i])
                    /\ \A j \in Usable(values, n - 1) : ~Better(values[j], values[i])
                BY <1>5, <3>5 DEF IsBest, x
            <4>2. i \in Usable(values, n) /\ values[i] \in Snapshot /\ Windows(values[i]) # {}
                BY <2>1, <2>3, <4>1 DEF Usable
            <4>3. x # None /\ (Better(Narrowed(v), x) <=> Better(v, values[i]))
                BY <3>1, <4>1, <4>2, NarrowedFacts DEF Better
            <4>4. CASE Better(v, values[i])
                <5>1. latest[n] = Narrowed(v)
                    BY <3>2, <4>3, <4>4
                <5>2. ASSUME NEW j \in Usable(values, n - 1) PROVE ~Better(values[j], v)
                    <6>1. values[j] \in Snapshot /\ ~Better(values[j], values[i])
                        BY <2>1, <2>3, <4>1
                    <6> QED BY <3>1, <4>2, <4>4, <6>1, BetterOrder
                <5>3. \A j \in Usable(values, n) : ~Better(values[j], v)
                    BY <2>1, <3>3, <5>2 DEF v
                <5> QED BY <3>1, <5>1, <5>3 DEF IsBest, v
            <4>5. CASE ~Better(v, values[i])
                <5>1. latest[n] = Narrowed(values[i])
                    BY <3>2, <4>1, <4>3, <4>5
                <5>2. \A j \in Usable(values, n) : ~Better(values[j], values[i])
                    BY <2>1, <4>1, <4>5 DEF v
                <5> QED BY <4>2, <5>1, <5>2 DEF IsBest
            <4> QED BY <4>4, <4>5
        <3> QED BY <3>4, <3>5
    <2> QED BY <2>5, <2>6
<1>6. \A n \in 0..N : IsBest(values, n, latest[n])
    <2> DEFINE S == {n \in 0..N : ~IsBest(values, n, latest[n])}
    <2> SUFFICES ASSUME S # {} PROVE FALSE
        OBVIOUS
    <2>1. S \in SUBSET Nat
        BY <1>1
    <2>2. PICK n \in S : \A m \in S : n <= m
        BY <2>1, Least
    <2>3. n # 0
        BY <1>4, <2>2
    <2>4. n \in 1..N /\ n - 1 \in 0..N /\ ~(n <= n - 1)
        BY <1>1, <2>3
    <2>5. IsBest(values, n - 1, latest[n - 1])
        BY <2>2, <2>4
    <2> QED BY <1>5, <2>4, <2>5
<1> QED BY <1>1, <1>2, <1>6 DEF N

LEMMA LiveQuotaType ==
    ASSUME NEW values \in Seq(Snapshot \cup {None})
    PROVE  LiveQuota(values) \in Snapshot \cup {None}
<1>1. CASE Usable(values, Len(values)) = {}
    BY <1>1, LiveQuotaIsBest DEF IsBest
<1>2. CASE Usable(values, Len(values)) # {}
    <2>1. PICK i \in Usable(values, Len(values)) : LiveQuota(values) = Narrowed(values[i])
        BY <1>2, LiveQuotaIsBest DEF IsBest
    <2>2. values[i] \in Snapshot /\ Windows(values[i]) # {}
        BY <2>1, LenProperties, ElementOfSeq DEF Usable
    <2> QED BY <2>1, <2>2, NarrowedFacts
<1> QED BY <1>1, <1>2

-----------------------------------------------------------------------------
(* What is shown.                                                          *)

LogTypeOK ==
    /\ sessions \in [Sessions -> Snapshot \cup {None}]
    /\ logged \in Snapshot \cup {None}
    /\ tick \in BOOLEAN
    /\ ctxDone \in BOOLEAN
    /\ faults \in 0..MaxFaults

MutexHeld == refreshMu # None => refreshMu \in Refreshers /\ Polling(refreshMu)

LogInv == LogTypeOK /\ MutexHeld

LEMMA LogInit == Init => LogInv
<1> SUFFICES ASSUME Init PROVE LogInv
    OBVIOUS
<1>1. sessions \in [Sessions -> Snapshot \cup {None}] /\ logged \in Snapshot \cup {None}
    BY DEF Init
<1>2. faults \in 0..MaxFaults
    BY BoundsAssumption DEF Init
<1>3. tick \in BOOLEAN /\ ctxDone \in BOOLEAN /\ MutexHeld
    BY DEF Init, MutexHeld
<1> QED BY <1>1, <1>2, <1>3 DEF LogInv, LogTypeOK

LEMMA MutexStep == IInv /\ MutexHeld /\ [Next]_vars => MutexHeld'
<1> SUFFICES ASSUME IInv, MutexHeld, [Next]_vars PROVE MutexHeld'
    OBVIOUS
<1>1. CASE UNCHANGED <<pc, refreshMu>>
    BY <1>1 DEF MutexHeld, Polling
<1>2. CASE TakeTick \/ RunEnds
    BY <1>2 DEF TakeTick, RunEnds, Goto, MutexHeld, Polling, Refreshers, IInv, PollTypeOK
<1>3. ASSUME NEW r \in Refreshers, Click(r) PROVE MutexHeld'
    BY <1>3 DEF Click, Goto, MutexHeld, Polling, IInv, PollTypeOK
<1>4. ASSUME NEW r \in Refreshers, LockRefresh(r) PROVE MutexHeld'
    BY <1>4 DEF LockRefresh, Lock, Goto, MutexHeld, Polling, IInv, PollTypeOK
<1>5. ASSUME NEW r \in Refreshers, FindUnavailable(r) \/ Send(r) \/ Receive(r) \/ ReceiveError(r)
      PROVE  MutexHeld'
    BY <1>5 DEF FindUnavailable, Send, Receive, ReceiveError, Return, Goto, MutexHeld, Polling,
                IInv, PollTypeOK
<1>6. ASSUME NEW r \in Refreshers, Store(r) PROVE MutexHeld'
    <2>1. refreshMu = r
        BY <1>6 DEF Store, IInv, OnePoll, Polling
    <2> QED BY <1>6, <2>1 DEF Store, Unlock, Goto, MutexHeld, Polling, IInv, PollTypeOK
<1> QED BY <1>1, <1>2, <1>3, <1>4, <1>5, <1>6
        DEF Next, Poll, vars, TimePasses, ChangeAvailability, LogLimits, RefreshIndex, Tick, Quit

LEMMA LogStep == IInv /\ LogInv /\ [Next]_vars => LogInv'
<1> SUFFICES ASSUME IInv, LogInv, [Next]_vars PROVE LogInv'
    OBVIOUS
<1>0. /\ sessions \in [Sessions -> Snapshot \cup {None}] /\ logged \in Snapshot \cup {None}
      /\ faults \in 0..MaxFaults
    BY DEF LogInv, LogTypeOK
<1>1. MutexHeld'
    BY MutexStep DEF LogInv
<1>2. ASSUME NEW s \in Sessions, LogLimits(s) PROVE LogTypeOK'
    <2>1. PICK w \in Resets :
              sessions' = [sessions EXCEPT ![s] = [observed |-> now, rank |-> 1, resets |-> w]]
        BY <1>2 DEF LogLimits
    <2>2. [observed |-> now, rank |-> 1, resets |-> w] \in Snapshot
        BY ObservedIsSnapshot DEF IInv, PollTypeOK
    <2> QED BY <1>2, <2>1, <2>2 DEF LogLimits, LogInv, LogTypeOK
<1>3. ASSUME RefreshIndex PROVE LogTypeOK'
    <2>1. PICK order \in Orders : logged' = LiveQuota([n \in DOMAIN order |-> sessions[order[n]]])
        BY <1>3 DEF RefreshIndex
    <2> DEFINE N == Cardinality(Sessions)
               values == [n \in DOMAIN order |-> sessions[order[n]]]
    <2>2. N \in Nat
        BY SessionsAssumption, FS_CardinalityType
    <2>3. values \in [1..N -> Snapshot \cup {None}]
        BY <2>1 DEF Orders, LogInv, LogTypeOK
    <2>4. values \in Seq(Snapshot \cup {None})
        BY <2>2, <2>3
    <2>5. logged' \in Snapshot \cup {None}
        BY <2>1, <2>4, LiveQuotaType
    <2>6. sessions' = sessions /\ tick' = tick /\ ctxDone' = ctxDone /\ faults' = faults
        BY <1>3 DEF RefreshIndex
    <2>7. tick' \in BOOLEAN /\ ctxDone' \in BOOLEAN
        BY <2>6, Zenon DEF LogInv, LogTypeOK
    <2> QED BY <1>0, <2>5, <2>6, <2>7 DEF LogTypeOK
<1>4. ASSUME Tick \/ Quit \/ TakeTick PROVE LogTypeOK'
    <2>1. sessions' = sessions /\ logged' = logged /\ faults' = faults
        BY <1>4 DEF Tick, Quit, TakeTick
    <2>2. tick' \in BOOLEAN
        BY <1>4, Zenon DEF Tick, Quit, TakeTick, LogInv, LogTypeOK
    <2>3. ctxDone' \in BOOLEAN
        BY <1>4, Zenon DEF Tick, Quit, TakeTick, LogInv, LogTypeOK
    <2> QED BY <1>0, <2>1, <2>2, <2>3 DEF LogTypeOK
<1>5. ASSUME NEW r \in Refreshers, ReceiveError(r) PROVE LogTypeOK'
    BY <1>5, BoundsAssumption DEF ReceiveError, Return, LogInv, LogTypeOK
<1>6. ASSUME UNCHANGED <<sessions, logged, tick, ctxDone, faults>> PROVE LogTypeOK'
    <2>1. /\ sessions' = sessions /\ logged' = logged /\ faults' = faults
          /\ tick' = tick /\ ctxDone' = ctxDone
        BY <1>6
    <2>2. tick' \in BOOLEAN /\ ctxDone' \in BOOLEAN
        BY <2>1, Zenon DEF LogInv, LogTypeOK
    <2> QED BY <1>0, <2>1, <2>2 DEF LogTypeOK
<1> QED BY <1>1, <1>2, <1>3, <1>4, <1>5, <1>6
        DEF Next, Poll, vars, LogInv, TimePasses, ChangeAvailability, RunEnds, Click,
            LockRefresh, FindUnavailable, Send, Receive, Return, Store

LEMMA LogAlways == Spec => [](IInv /\ LogInv)
    BY InvInit, InvStep, LogInit, LogStep, PTL DEF Spec

LEMMA TypesAre == IInv /\ LogInv => TypeOK
<1> SUFFICES ASSUME IInv, LogInv PROVE TypeOK
    OBVIOUS
<1>1. refreshMu \in {None} \cup {r \in Refreshers : asking[r] # None}
    <2>1. \A p \in Enabled : p # None
        BY EnabledAssumption, AnswersAssumption
    <2> QED BY <2>1 DEF IInv, LogInv, MutexHeld, OnePoll
<1> QED BY <1>1 DEF IInv, PollTypeOK, LogInv, LogTypeOK, TypeOK

\* The tracker and what the index has of the session logs keep their types.
THEOREM TypeCorrect == Spec => []TypeOK
    BY LogAlways, TypesAre, PTL

LEMMA BestIsShown == TypeOK => ShownIsBest
<1> SUFFICES ASSUME TypeOK, NEW p \in Providers
             PROVE  LET usable == {s \in Observations(p) \ {None} : Running(s) # {}}
                    IN  IF usable = {} THEN Shown(p) = None
                        ELSE \E s \in usable :
                                /\ Shown(p) = [s EXCEPT !.resets = Running(s)]
                                /\ \A t \in usable : t.rank <= s.rank
    BY DEF ShownIsBest
<1> DEFINE log == IF p = Codex THEN logged ELSE None
           values == <<log, live[p]>>
           usable == {s \in Observations(p) \ {None} : Running(s) # {}}
<1>1. /\ log \in Snapshot \cup {None} /\ live[p] \in Snapshot \cup {None}
    BY DEF TypeOK
<1>2. values \in Seq(Snapshot \cup {None}) /\ Len(values) = 2
    BY <1>1
<1>3. values[1] = log /\ values[2] = live[p] /\ Shown(p) = LiveQuota(values)
    BY DEF Shown
<1>4. IsBest(values, 2, LiveQuota(values))
    BY <1>2, LiveQuotaIsBest
<1>5. \A s : Running(s) = Windows(s)
    BY DEF Running, Windows
<1>6. Observations(p) \ {None} = {log, live[p]} \ {None}
    BY DEF Observations
<1> HIDE DEF log, values
<1>7. 1..2 = {1, 2}
    OBVIOUS
<1>8. \A s : s \in usable <=> \E i \in Usable(values, 2) : s = values[i]
    BY <1>3, <1>5, <1>6, <1>7 DEF Usable
<1>9. \A s \in usable : s \in Snapshot
    BY <1>1, <1>6
<1> HIDE DEF usable
<1>10. ASSUME usable = {} PROVE Shown(p) = None
    <2>1. Usable(values, 2) = {}
        BY <1>8, <1>10
    <2> QED BY <1>3, <1>4, <2>1 DEF IsBest
<1>11. ASSUME usable # {}
       PROVE  \E s \in usable : /\ Shown(p) = [s EXCEPT !.resets = Running(s)]
                                /\ \A t \in usable : t.rank <= s.rank
    <2>0. Usable(values, 2) # {}
        BY <1>8, <1>11
    <2>1. PICK i \in Usable(values, 2) :
            /\ LiveQuota(values) = Narrowed(values[i])
            /\ \A j \in Usable(values, 2) : ~Better(values[j], values[i])
        BY <1>4, <2>0 DEF IsBest
    <2>2. values[i] \in usable /\ values[i] \in Snapshot
        BY <1>8, <1>9, <2>1
    <2>3. Shown(p) = [values[i] EXCEPT !.resets = Running(values[i])]
        BY <1>3, <1>5, <2>1 DEF Narrowed
    <2>4. ASSUME NEW t \in usable PROVE t.rank <= values[i].rank
        <3>1. t \in Snapshot /\ ~Better(t, values[i])
            BY <1>8, <1>9, <2>1
        <3>2. t.rank \in Int /\ values[i].rank \in Int
            BY <2>2, <3>1 DEF Snapshot
        <3> QED BY <3>1, <3>2 DEF Better
    <2> QED BY <2>2, <2>3, <2>4
<1>12. IF usable = {} THEN Shown(p) = None
       ELSE \E s \in usable : /\ Shown(p) = [s EXCEPT !.resets = Running(s)]
                              /\ \A t \in usable : t.rank <= s.rank
    BY <1>10, <1>11
<1> QED BY <1>12 DEF usable

\* However the limits of logs and client are dated, and whichever of them have
\* windows left, the one that is shown is the best there is; and the order in
\* which a refresh visits its cache does not matter for that (LiveQuotaIsBest).
THEOREM BestIsAlwaysShown == Spec => []ShownIsBest
    BY TypeCorrect, BestIsShown, PTL

-----------------------------------------------------------------------------
(* The Codex client.                                                       *)

ClientTypes ==
    /\ step \in {"idle", "start", "initialize", "greeting", "request", "answer"}
    /\ process \in {"none", "runs", "ended"}
    /\ stdin \in Seq(1..2)
    /\ stdout \in Seq(Messages)
    /\ greeted \in BOOLEAN
    /\ notes \in 0..MaxNotes

Positions ==
    /\ step = "idle" <=> \A r \in Refreshers : ~Fetching(r)
    /\ step \in {"idle", "start"} =>
          process = "none" /\ stdin = <<>> /\ stdout = <<>> /\ greeted = FALSE /\ notes = 0
    /\ stdin # <<>> => step \in {"greeting", "answer"} /\ stdin = <<Wanted>>
    /\ step \in {"request", "answer"} => greeted

\* The last request the app-server has read.
Answered ==
    CASE step = "greeting" /\ stdin = <<>> -> 1
      [] step = "request" -> 1
      [] step = "answer" -> IF stdin = <<>> THEN 2 ELSE 1
      [] OTHER -> 0

Explained(m) ==
    /\ m.id <= Answered
    /\ m.id = 1 => m.body \in {"result", "error", "rubbish"}
    /\ m.id = 2 => m.body \in {"limits", "bare", "error", "rubbish"}
    /\ m.id = 1 /\ m.body = "result" => greeted
    /\ m.id # 0 /\ m.body \in {"error", "bare"} => MayFail
    /\ m.body = "rubbish" => MayFail

AllExplained == \A i \in DOMAIN stdout : Explained(stdout[i])

Excused == process = "ended" => MayFail

ClientInv == ClientTypes /\ Positions /\ AllExplained /\ Excused

-----------------------------------------------------------------------------
(* Sequences of messages.                                                  *)

LEMMA HeadAndTail ==
    ASSUME NEW S, NEW l \in Seq(S), l # <<>>
    PROVE  /\ Head(l) \in S /\ Head(l) = l[1] /\ 1 \in DOMAIN l
           /\ Tail(l) \in Seq(S)
           /\ \A i \in DOMAIN Tail(l) : i + 1 \in DOMAIN l /\ Tail(l)[i] = l[i + 1]
    OBVIOUS

LEMMA Appended ==
    ASSUME NEW S, NEW l \in Seq(S), NEW x \in S
    PROVE  /\ Append(l, x) \in Seq(S)
           /\ \A i \in DOMAIN Append(l, x) :
                 \/ i \in DOMAIN l /\ Append(l, x)[i] = l[i]
                 \/ Append(l, x)[i] = x
    OBVIOUS

\* The message at the head of the output.
LEMMA HeadExplained ==
    ASSUME ClientInv, stdout # <<>>
    PROVE  Head(stdout) \in Messages /\ Explained(Head(stdout))
    BY HeadAndTail DEF ClientInv, ClientTypes, AllExplained

-----------------------------------------------------------------------------
(* How a fetch returns.                                                    *)

LEMMA ReturnsError ==
    ASSUME NEW r \in Refreshers, NEW e \in {Failed, Unavailable},
           MayFail, Fetching(r), Finish(r, e)
    PROVE  ReceiveError(r)
    BY DEF Finish, ReceiveError, MayFail, Fetching

LEMMA ReturnsLimits ==
    ASSUME IInv, NEW r \in Refreshers, NEW w \in Resets, Fetching(r), Finish(r, Observed(w))
    PROVE  Receive(r)
<1>1. Observed(w) \in Snapshot
    BY ObservedIsSnapshot DEF Observed, IInv, PollTypeOK
<1>2. Observed(w) \notin {Failed, Unavailable}
    BY <1>1, AnswersAssumption
<1> QED BY <1>2 DEF Finish, Receive, Fetching, Observed

\* However a fetch returns, nothing is left of the exchange.
LEMMA FinishStep ==
    ASSUME IInv, ClientInv, NEW r \in Refreshers, NEW e, Fetching(r), Finish(r, e)
    PROVE  ClientInv'
<1>1. /\ step' = "idle" /\ process' = "none" /\ stdin' = <<>> /\ stdout' = <<>>
      /\ greeted' = FALSE /\ notes' = 0
    BY DEF Finish, Reap
<1>2. \A q \in Refreshers : q # r => pc[q] # "wait"
    BY Alone DEF Fetching, Polling
<1>3. \A q \in Refreshers : ~Fetching(q)'
    BY <1>2 DEF Finish, Return, Goto, Fetching, IInv, PollTypeOK
<1>4. ClientTypes'
    <2>1. <<>> \in Seq(1..2) /\ <<>> \in Seq(Messages) /\ 0 \in 0..MaxNotes
        BY NotesAssumption
    <2> QED BY <1>1, <2>1 DEF ClientTypes
<1>5. Positions' /\ AllExplained' /\ Excused'
    BY <1>1, <1>3 DEF Positions, AllExplained, Excused
<1> QED BY <1>4, <1>5 DEF ClientInv

-----------------------------------------------------------------------------
(* The steps of the tracker that are none of the client.                   *)

LEMMA OtherStep ==
    ASSUME IInv, ClientInv, UNCHANGED client,
           Others \/ \E r \in Refreshers : PollStep(r)
    PROVE  ClientInv' /\ Next
<1>1. \A q \in Refreshers : Fetching(q)' <=> Fetching(q)
    <2>1. CASE Others
        BY <2>1 DEF Others, TimePasses, ChangeAvailability, LogLimits, RefreshIndex, Tick, Quit,
                    TakeTick, RunEnds, Goto, Fetching, IInv, PollTypeOK
    <2>2. ASSUME NEW r \in Refreshers, PollStep(r)
          PROVE  \A q \in Refreshers : Fetching(q)' <=> Fetching(q)
        <3>1. CASE Click(r) \/ LockRefresh(r) \/ FindUnavailable(r) \/ Store(r)
            BY <3>1 DEF Click, LockRefresh, First, FindUnavailable, Return, Store, Goto, Fetching,
                        IInv, PollTypeOK
        <3>2. CASE AskClaude(r)
            BY <3>2 DEF AskClaude, Send, Goto, Fetching, IInv, PollTypeOK, Claude, Codex
        <3>3. CASE ClaudeAnswers(r)
            BY <3>3 DEF ClaudeAnswers, Receive, ReceiveError, Return, Goto, Fetching,
                        IInv, PollTypeOK, Claude, Codex
        <3> QED BY <2>2, <3>1, <3>2, <3>3 DEF PollStep
    <2> QED BY <2>1, <2>2
<1>2. MayFail /\ step # "idle" => MayFail'
    <2>1. ASSUME NEW r \in Refreshers, ClaudeAnswers(r) PROVE step = "idle"
        <3>1. pc[r] = "wait" /\ asking[r] = Claude /\ Polling(r)
            BY <2>1 DEF ClaudeAnswers, Receive, ReceiveError, Polling
        <3>2. \A q \in Refreshers : ~Fetching(q)
            BY <3>1, Alone DEF Fetching, Polling, Claude, Codex
        <3> QED BY <3>2 DEF ClientInv, Positions
    <2> QED
        BY <2>1 DEF MayFail, Others, TimePasses, ChangeAvailability, LogLimits, RefreshIndex, Tick,
           Quit, TakeTick, RunEnds, PollStep, Click, LockRefresh, FindUnavailable, Return, Store,
           AskClaude, Send
<1>3. Next
    BY DEF Others, PollStep, Poll, Next, AskClaude, ClaudeAnswers
<1>4. ClientTypes' /\ Positions'
    BY <1>1 DEF ClientInv, ClientTypes, Positions, Wanted, client
<1>5. CASE step = "idle"
    BY <1>3, <1>4, <1>5 DEF ClientInv, Positions, AllExplained, Excused, client
<1>6. CASE step # "idle"
    <2>1. AllExplained' /\ Excused'
        BY <1>2, <1>6 DEF ClientInv, AllExplained, Explained, Answered, Excused, client
    <2> QED BY <1>3, <1>4, <2>1 DEF ClientInv
<1> QED BY <1>5, <1>6

-----------------------------------------------------------------------------
(* The steps of a fetch.                                                   *)

LEMMA BeginStep ==
    ASSUME IInv, ClientInv, NEW r \in Refreshers, Begin(r)
    PROVE  ClientInv'
<1>1. \A q \in Refreshers : ~Fetching(q)
    <2>1. pc[r] = "fetch" /\ Polling(r)
        BY DEF Begin, Send, Polling
    <2> QED BY <2>1, Alone DEF Fetching, Polling
<1>2. step = "idle" /\ step' = "start" /\ UNCHANGED <<process, stdin, stdout, greeted, notes>>
    BY <1>1 DEF Begin, ClientInv, Positions
<1>3. Fetching(r)'
    BY DEF Begin, Send, Goto, Fetching, IInv, PollTypeOK
<1>4. ClientTypes' /\ Positions'
    BY <1>2, <1>3 DEF ClientInv, ClientTypes, Positions
<1>5. AllExplained' /\ Excused'
    BY <1>2 DEF ClientInv, Positions, AllExplained, Excused
<1> QED BY <1>4, <1>5 DEF ClientInv

\* The tracker is left alone, and so is what excuses a failure.
LEMMA Inside ==
    ASSUME UNCHANGED vars
    PROVE  /\ \A q \in Refreshers : Fetching(q)' <=> Fetching(q)
           /\ MayFail' <=> MayFail
    BY DEF vars, Fetching, MayFail

LEMMA Launched ==
    ASSUME ClientInv, NEW r \in Refreshers, Fetching(r), UNCHANGED vars,
           step = "start", step' = "initialize", process' = "runs",
           UNCHANGED <<stdin, stdout, greeted, notes>>
    PROVE  ClientInv'
<1>1. ClientTypes' /\ Positions'
    BY Inside DEF ClientInv, ClientTypes, Positions
<1>2. AllExplained' /\ Excused'
    BY DEF ClientInv, Positions, AllExplained, Excused
<1> QED BY <1>1, <1>2 DEF ClientInv

\* Nothing is asked before what was asked has been answered.
LEMMA Written ==
    ASSUME ClientInv, NEW r \in Refreshers, Fetching(r), UNCHANGED vars,
           step \in {"initialize", "request"}, process = "runs",
           stdin' = stdin \o Requests,
           step' = IF step = "initialize" THEN "greeting" ELSE "answer",
           UNCHANGED <<process, stdout, greeted, notes>>
    PROVE  ClientInv'
<1>1. stdin = <<>>
    BY DEF ClientInv, Positions
<1>2. stdin' = Requests /\ Requests \in Seq(1..2) /\ Requests # <<>> /\ stdin' = <<Wanted>>'
    <2>1. <<1>> \in Seq(1..2) /\ <<2>> \in Seq(1..2) /\ <<1>> # <<>> /\ <<2>> # <<>>
        OBVIOUS
    <2>2. Requests = <<1>> \/ Requests = <<2>>
        BY DEF Requests
    <2>3. stdin' = Requests
        BY <1>1, <2>1, <2>2
    <2>4. Requests = <<Wanted'>>
        <3>1. CASE step = "initialize"
            BY <3>1 DEF Requests, Wanted
        <3>2. CASE step = "request"
            BY <3>2 DEF Requests, Wanted
        <3> QED BY <3>1, <3>2
    <2> QED BY <2>1, <2>2, <2>3, <2>4
<1>3. ClientTypes'
    BY <1>2 DEF ClientInv, ClientTypes
<1>4. Positions'
    BY <1>2, Inside DEF ClientInv, Positions
<1>5. Answered' = Answered
    BY <1>2 DEF Answered
<1>6. AllExplained' /\ Excused'
    BY <1>5, Inside DEF ClientInv, AllExplained, Explained, Excused
<1> QED BY <1>3, <1>4, <1>6 DEF ClientInv

LEMMA Skipped ==
    ASSUME ClientInv, NEW r \in Refreshers, Skip(r)
    PROVE  ClientInv'
<1>1. stdout' = Tail(stdout) /\ stdout # <<>> /\ UNCHANGED <<vars, step, process, stdin, greeted, notes>>
    BY DEF Skip
<1>2. ClientTypes'
    BY <1>1, HeadAndTail DEF ClientInv, ClientTypes
<1>3. Positions'
    BY <1>1, Inside DEF ClientInv, Positions, Skip, Reading, Wanted
<1>4. \A i \in DOMAIN stdout' : i + 1 \in DOMAIN stdout /\ stdout'[i] = stdout[i + 1]
    BY <1>1, HeadAndTail DEF ClientInv, ClientTypes
<1>5. AllExplained' /\ Excused'
    BY <1>1, <1>4, Inside DEF ClientInv, AllExplained, Explained, Answered, Excused
<1> QED BY <1>2, <1>3, <1>5 DEF ClientInv

\* The answer to initialize is not taken from an app-server that has refused
\* it.
LEMMA Greeted ==
    ASSUME ClientInv, NEW r \in Refreshers, TakeGreeting(r)
    PROVE  ClientInv'
<1>1. /\ stdout' = Tail(stdout) /\ stdout # <<>>
      /\ step = "greeting" /\ step' = "request"
      /\ UNCHANGED <<vars, process, stdin, greeted, notes>>
    BY DEF TakeGreeting
<1>2. Head(stdout).id = 1 /\ Head(stdout).body \notin {"rubbish", "error"}
    BY <1>1 DEF TakeGreeting, IsReply, Wanted
<1>3. greeted
    BY <1>1, <1>2, HeadExplained DEF Explained
<1>4. stdin = <<>> /\ Answered = 1
    BY <1>1, <1>2, HeadExplained DEF Explained, Answered, ClientInv, Positions
<1>5. ClientTypes'
    BY <1>1, HeadAndTail DEF ClientInv, ClientTypes
<1>6. Positions'
    BY <1>1, <1>3, <1>4, Inside DEF ClientInv, Positions, TakeGreeting, Reading
<1>7. \A i \in DOMAIN stdout' : i + 1 \in DOMAIN stdout /\ stdout'[i] = stdout[i + 1]
    BY <1>1, HeadAndTail DEF ClientInv, ClientTypes
<1>8. Answered' = Answered
    BY <1>1, <1>4 DEF Answered
<1>9. AllExplained' /\ Excused'
    BY <1>1, <1>7, <1>8, Inside DEF ClientInv, AllExplained, Explained, Excused
<1> QED BY <1>5, <1>6, <1>9 DEF ClientInv

\* A step of the fetch returns what the tracker allows, or changes nothing the
\* tracker sees.
LEMMA FetchStepIsAnswer ==
    ASSUME IInv, ClientInv, NEW r \in Refreshers, FetchStep(r)
    PROVE  ClientInv' /\ (Receive(r) \/ ReceiveError(r) \/ UNCHANGED vars)
<1>1. CASE Start(r)
    <2>1. CASE MayFail /\ Finish(r, Failed)
        BY <1>1, <2>1, FinishStep, ReturnsError DEF Start
    <2>2. CASE step' = "initialize" /\ process' = "runs" /\ UNCHANGED <<vars, stdin, stdout, greeted, notes>>
        BY <1>1, <2>2, Launched DEF Start
    <2> QED BY <1>1, <2>1, <2>2 DEF Start
<1>2. CASE Write(r)
    <2>1. CASE process = "ended" /\ Finish(r, Failed)
        BY <1>2, <2>1, FinishStep, ReturnsError DEF Write, ClientInv, Excused
    <2>2. CASE process = "runs"
        BY <1>2, <2>2, Written DEF Write
    <2> QED BY <1>2, <2>1, <2>2 DEF Write
<1>3. CASE Skip(r)
    BY <1>3, Skipped DEF Skip
<1>4. CASE TakeGreeting(r)
    BY <1>4, Greeted DEF TakeGreeting
<1>5. CASE TakeAnswer(r)
    <2>1. /\ Fetching(r) /\ stdout # <<>>
          /\ Head(stdout).id = 2 /\ Head(stdout).body \in {"limits", "bare"}
        BY <1>5, HeadExplained DEF TakeAnswer, Reading, IsReply, Wanted, Explained
    <2>2. CASE Head(stdout).body = "limits"
        <3>1. PICK w \in Resets : Finish(r, Observed(w))
            BY <1>5, <2>2 DEF TakeAnswer, SnapshotsOf
        <3> QED BY <2>1, <3>1, FinishStep, ReturnsLimits
    <2>3. CASE Head(stdout).body = "bare"
        <3>1. Finish(r, Unavailable)
            BY <1>5, <2>3 DEF TakeAnswer, SnapshotsOf
        <3>2. MayFail
            BY <2>1, <2>3, HeadExplained DEF Explained
        <3> QED BY <2>1, <3>1, <3>2, FinishStep, ReturnsError
    <2> QED BY <2>1, <2>2, <2>3
<1>6. CASE TakeError(r)
    <2>1. Fetching(r) /\ Finish(r, Unavailable)
        BY <1>6 DEF TakeError, Reading
    <2>2. MayFail
        BY <1>6, HeadExplained DEF TakeError, IsReply, Wanted, Explained
    <2> QED BY <2>1, <2>2, FinishStep, ReturnsError
<1>7. CASE TakeRubbish(r)
    <2>1. Fetching(r) /\ Finish(r, Failed)
        BY <1>7 DEF TakeRubbish, Reading
    <2>2. MayFail
        BY <1>7, HeadExplained DEF TakeRubbish, Explained
    <2> QED BY <2>1, <2>2, FinishStep, ReturnsError
<1>8. CASE ReadEnd(r)
    <2>1. Fetching(r) /\ Finish(r, Unavailable)
        BY <1>8 DEF ReadEnd, Reading
    <2>2. MayFail
        BY <1>8 DEF ReadEnd, AtEnd, ClientInv, Excused
    <2> QED BY <2>1, <2>2, FinishStep, ReturnsError
<1> QED BY <1>1, <1>2, <1>3, <1>4, <1>5, <1>6, <1>7, <1>8 DEF FetchStep

-----------------------------------------------------------------------------
(* The steps of the app-server and its end.                                *)

LEMMA DeadlineStep == ASSUME ClientInv, Deadline PROVE ClientInv'
<1>1. /\ process' = "ended" /\ MayFail /\ process = "runs"
      /\ UNCHANGED <<vars, step, stdin, stdout, greeted, notes>>
    BY DEF Deadline
<1>2. ClientTypes' /\ Positions'
    BY <1>1, Inside DEF ClientInv, ClientTypes, Positions, Wanted
<1>3. AllExplained' /\ Excused'
    BY <1>1, Inside DEF ClientInv, AllExplained, Explained, Answered, Excused
<1> QED BY <1>2, <1>3 DEF ClientInv

LEMMA EndStep == ASSUME ClientInv, End PROVE ClientInv'
<1>1. /\ process' = "ended" /\ MayFail /\ process = "runs"
      /\ stdout' \in {stdout, Append(stdout, Rubbish)}
      /\ UNCHANGED <<vars, step, stdin, greeted, notes>>
    BY DEF End
<1>2. Rubbish \in Messages
    BY DEF Rubbish, Messages
<1>3. /\ stdout' \in Seq(Messages)
      /\ \A i \in DOMAIN stdout' :
            (i \in DOMAIN stdout /\ stdout'[i] = stdout[i]) \/ stdout'[i] = Rubbish
    BY <1>1, <1>2, Appended DEF ClientInv, ClientTypes
<1>4. ClientTypes'
    BY <1>1, <1>3 DEF ClientInv, ClientTypes
<1>5. Positions'
    BY <1>1, Inside DEF ClientInv, Positions, Wanted
<1>6. Answered' = Answered /\ Answered >= 0
    BY <1>1 DEF Answered
<1>7. Explained(Rubbish)
    BY <1>1, <1>6 DEF Explained, Rubbish
<1>8. AllExplained' /\ Excused'
    BY <1>1, <1>3, <1>6, <1>7, Inside DEF ClientInv, AllExplained, Explained, Excused
<1> QED BY <1>4, <1>5, <1>8 DEF ClientInv

LEMMA NotifyStep == ASSUME ClientInv, Notify PROVE ClientInv'
<1> DEFINE note == [id |-> 0, body |-> "result"]
<1>1. /\ process = "runs" /\ notes < MaxNotes /\ notes' = notes + 1
      /\ stdout' = Append(stdout, note)
      /\ UNCHANGED <<vars, step, process, stdin, greeted>>
    BY DEF Notify
<1>2. note \in Messages
    BY DEF Messages
<1> HIDE DEF note
<1>3. /\ stdout' \in Seq(Messages)
      /\ \A i \in DOMAIN stdout' : (i \in DOMAIN stdout /\ stdout'[i] = stdout[i]) \/ stdout'[i] = note
    BY <1>1, <1>2, Appended DEF ClientInv, ClientTypes
<1>4. ClientTypes'
    BY <1>1, <1>3, NotesAssumption DEF ClientInv, ClientTypes
<1>5. Positions'
    BY <1>1, Inside DEF ClientInv, Positions, Wanted
<1>6. Answered' = Answered /\ Answered >= 0
    BY <1>1 DEF Answered
<1>7. Explained(note)
    BY <1>6 DEF Explained, note
<1>8. AllExplained' /\ Excused'
    BY <1>1, <1>3, <1>6, <1>7, Inside DEF ClientInv, AllExplained, Explained, Excused
<1> QED BY <1>4, <1>5, <1>8 DEF ClientInv

\* An honest app-server answers the second request with limits, because it has
\* been greeted.
LEMMA ReplyStep == ASSUME ClientInv, Reply PROVE ClientInv'
<1>1. /\ process = "runs" /\ stdin # <<>> /\ stdin' = Tail(stdin)
      /\ UNCHANGED <<vars, step, process, notes>>
    BY DEF Reply
<1>2. /\ stdin = <<Wanted>> /\ Head(stdin) = Wanted /\ stdin' = <<>>
      /\ step \in {"greeting", "answer"}
    BY <1>1 DEF ClientInv, Positions
<1>3. PICK m \in Messages :
        /\ m.id = Wanted
        /\ \/ m.body = IF Wanted = 1 THEN "result" ELSE IF greeted THEN "limits" ELSE "error"
           \/ MayFail /\ m.body \in {"error", "rubbish"} \cup (IF Wanted = 2 THEN {"bare"} ELSE {})
        /\ stdout' = Append(stdout, m)
        /\ greeted' = (greeted \/ m.body = "result")
    <2>1. PICK body \in {"result", "limits", "bare", "error", "rubbish"} :
            /\ \/ body = IF Wanted = 1 THEN "result" ELSE IF greeted THEN "limits" ELSE "error"
               \/ MayFail /\ body \in {"error", "rubbish"} \cup (IF Wanted = 2 THEN {"bare"} ELSE {})
            /\ stdout' = Append(stdout, [id |-> Wanted, body |-> body])
            /\ greeted' = (greeted \/ body = "result")
        BY <1>2 DEF Reply
    <2>2. [id |-> Wanted, body |-> body] \in Messages
        BY DEF Messages, Wanted
    <2> QED BY <2>1, <2>2
<1>4. /\ stdout' \in Seq(Messages)
      /\ \A i \in DOMAIN stdout' : (i \in DOMAIN stdout /\ stdout'[i] = stdout[i]) \/ stdout'[i] = m
    BY <1>3, Appended DEF ClientInv, ClientTypes
<1>5. ClientTypes'
    <2>1. greeted' \in BOOLEAN
        BY <1>3
    <2>2. <<>> \in Seq(1..2)
        OBVIOUS
    <2> QED BY <1>1, <1>2, <1>4, <2>1, <2>2 DEF ClientInv, ClientTypes
<1>6. greeted => greeted'
    BY <1>3
<1>7. Positions'
    BY <1>1, <1>2, <1>6, Inside DEF ClientInv, Positions
<1>8. Answered' = Wanted /\ Answered <= Answered' /\ Answered \in Nat
    BY <1>1, <1>2 DEF Answered, Wanted
<1>9. Explained(m)'
    <2>1. Wanted = 2 => greeted
        BY <1>2 DEF Wanted, ClientInv, Positions
    <2>2. Wanted \in {1, 2} /\ (MayFail' <=> MayFail)
        BY <1>1, Inside DEF Wanted
    <2>3. m.id = 1 => m.body \in {"result", "error", "rubbish"}
        BY <1>3
    <2>4. m.id = 2 => m.body \in {"limits", "bare", "error", "rubbish"}
        BY <1>3, <2>1
    <2>5. m.id <= Answered'
        BY <1>3, <1>8, <2>2
    <2>6. m.body = "result" => greeted'
        BY <1>3
    <2>7. m.body \in {"error", "bare", "rubbish"} => MayFail'
        BY <1>3, <2>1, <2>2
    <2> QED BY <2>3, <2>4, <2>5, <2>6, <2>7 DEF Explained
<1>10. \A x \in Messages : Explained(x) => Explained(x)'
    <2> SUFFICES ASSUME NEW x \in Messages, Explained(x) PROVE Explained(x)'
        OBVIOUS
    <2>1. x.id \in Nat /\ Answered' \in Nat
        BY <1>8 DEF Messages, Wanted
    <2>2. x.id <= Answered'
        BY <1>8, <2>1 DEF Explained
    <2>3. MayFail' <=> MayFail
        BY <1>1, Inside
    <2> QED BY <1>6, <2>2, <2>3 DEF Explained
<1>11. AllExplained' /\ Excused'
    <2>1. \A i \in DOMAIN stdout : stdout[i] \in Messages
        BY DEF ClientInv, ClientTypes
    <2> QED BY <1>1, <1>4, <1>9, <1>10, <2>1, Inside DEF ClientInv, AllExplained, Excused
<1> QED BY <1>5, <1>7, <1>11 DEF ClientInv

-----------------------------------------------------------------------------
LEMMA ClientInvInit == ClientInit => ClientInv
<1> SUFFICES ASSUME ClientInit PROVE ClientInv
    OBVIOUS
<1>1. <<>> \in Seq(1..2) /\ <<>> \in Seq(Messages) /\ 0 \in 0..MaxNotes
    BY NotesAssumption
<1>2. ClientTypes
    BY <1>1 DEF ClientInit, Idle, ClientTypes
<1>3. Positions /\ AllExplained /\ Excused
    BY DEF ClientInit, Init, Idle, Positions, Fetching, AllExplained, Excused
<1> QED BY <1>2, <1>3 DEF ClientInv

\* Every step of the client is one of the tracker or one it does not see.
LEMMA ClientStep ==
    ASSUME IInv, ClientInv, [ClientNext]_allVars
    PROVE  ClientInv' /\ [Next]_vars
<1>1. CASE UNCHANGED client /\ (Others \/ \E r \in Refreshers : PollStep(r))
    BY <1>1, OtherStep
<1>2. ASSUME NEW r \in Refreshers, Begin(r) PROVE ClientInv' /\ [Next]_vars
    BY <1>2, BeginStep DEF Begin, Next, Poll
<1>3. ASSUME NEW r \in Refreshers, FetchStep(r) PROVE ClientInv' /\ [Next]_vars
    BY <1>3, FetchStepIsAnswer DEF Next, Poll
<1>4. CASE Deadline
    BY <1>4, DeadlineStep DEF Deadline
<1>5. CASE Reply
    BY <1>5, ReplyStep DEF Reply
<1>6. CASE Notify
    BY <1>6, NotifyStep DEF Notify
<1>7. CASE End
    BY <1>7, EndStep DEF End
<1>8. CASE UNCHANGED allVars
    <2>1. UNCHANGED vars /\ UNCHANGED <<step, process, stdin, stdout, greeted, notes>>
        BY <1>8 DEF allVars, client
    <2>2. ClientTypes' /\ Positions'
        BY <2>1, Inside DEF ClientInv, ClientTypes, Positions, Wanted
    <2>3. AllExplained' /\ Excused'
        BY <2>1, Inside DEF ClientInv, AllExplained, Explained, Answered, Excused
    <2> QED BY <2>1, <2>2, <2>3 DEF ClientInv
<1> QED BY <1>1, <1>2, <1>3, <1>4, <1>5, <1>6, <1>7, <1>8 DEF ClientNext

LEMMA ClientInvariance == ClientSpec => [](IInv /\ ClientInv)
<1>1. ClientInit => IInv /\ ClientInv
    BY InvInit, ClientInvInit DEF ClientInit
<1>2. IInv /\ ClientInv /\ [ClientNext]_allVars => (IInv /\ ClientInv)'
    BY ClientStep, InvStep
<1> QED BY <1>1, <1>2, PTL DEF ClientSpec

\* To the tracker the exchange with the app-server is one question and one
\* answer, limits observed when they arrive or an error only if something went
\* wrong: the safety part of ImplementsTracker.
THEOREM Implementation == ClientSpec => Spec
<1>1. ClientInit => Init
    BY DEF ClientInit
<1>2. IInv /\ ClientInv /\ [ClientNext]_allVars => [Next]_vars
    BY ClientStep
<1> QED BY <1>1, <1>2, ClientInvariance, PTL DEF ClientSpec, Spec

\* So what is proved of the tracker holds of it with its Codex client.
THEOREM ClientKeepsTracker ==
    ClientSpec => []UnavailableStaysUnavailable /\ SnapshotsMoveForward /\ []ShownIsBest
    BY Implementation, UnavailableStays, SnapshotsAreOrdered, BestIsAlwaysShown, PTL

\* However a fetch ends, no app-server outlives it.
THEOREM NoServerLeft == ClientSpec => []ServerReaped
<1>1. ClientInv => ServerReaped
    BY DEF ClientInv, Positions, ServerReaped
<1> QED BY <1>1, ClientInvariance, PTL

LEMMA AtMostOne ==
    ASSUME NEW l, NEW m, l = <<>> \/ l = <<m>>
    PROVE  Len(l) <= 1
<1>1. Len(l) \in {0, 1}
    OBVIOUS
<1>2. \A k \in {0, 1} : k <= 1
    OBVIOUS
<1> QED BY <1>1, <1>2, Zenon

\* The client and the tracker around it keep their types.
THEOREM ClientTypeCorrect == ClientSpec => []ClientTypeOK
<1>1. TypeOK /\ ClientInv => ClientTypeOK
    <2> SUFFICES ASSUME TypeOK, ClientInv PROVE ClientTypeOK
        OBVIOUS
    <2>1. stdin = <<>> \/ stdin = <<Wanted>>
        BY DEF ClientInv, Positions
    <2>2. Len(stdin) <= 1
        BY <2>1, AtMostOne
    <2> QED BY <2>2 DEF ClientInv, ClientTypes, Positions, ClientTypeOK
<1> QED BY <1>1, ClientInvariance, Implementation, TypeCorrect, PTL
=============================================================================
