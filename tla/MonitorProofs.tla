---------------------------- MODULE MonitorProofs ----------------------------
(***************************************************************************)
(* The safety of Monitor for any number of clicks, versions and faults, and *)
(* that it implements PublishedUsage.                                      *)
(*                                                                         *)
(* The argument: refreshMu makes one refresher at a time the only one      *)
(* between the index and its readers (OneRefresh), so the index cannot     *)
(* move between an answer and its publication (AnswerIsCurrent), nor       *)
(* between the look at the logs and the answer (IndexTrails).  Events are  *)
(* of the past (EventsAreOld): a refresh that begins after one covers it.  *)
(***************************************************************************)
EXTENDS Monitor, TLAPS

OneRefresh == \A r \in Refreshers : Refreshing(r) => refreshMu = r

AnswerIsCurrent ==
    \A r \in Refreshers : pc[r] = "publish" =>
        /\ got[r].stats \in {Blank, index}
        /\ got[r].stats = Blank => got[r].err

IndexTrails ==
    /\ index <= disk
    /\ \A r \in Refreshers : pc[r] = "index" => index <= base[r] /\ base[r] <= disk

EventsAreOld ==
    /\ event # None => event.version <= disk
    /\ heard <= disk

IInv ==
    /\ TypeOK
    /\ OneRefresh
    /\ AnswerIsCurrent
    /\ IndexTrails
    /\ EventsAreOld
    /\ SnapshotIsIndex
    /\ BlankHasWarning
    /\ EventNotForgotten

-----------------------------------------------------------------------------
(* Types.                                                                  *)

LEMMA TypeInit == Init => TypeOK
<1> SUFFICES ASSUME Init PROVE TypeOK
    OBVIOUS
<1> USE BoundsAssumption DEF Init, Versions, Stats, Blank
<1>1. disk \in Versions /\ 0 \in Versions /\ Blank \in Stats /\ 0 \in 0..MaxFaults
    OBVIOUS
<1>2. pc \in [Refreshers -> {"idle", "lock", "index", "publish", "addtree", "select",
                             "failed", "returned"}]
    OBVIOUS
<1>3. base \in [Refreshers -> Versions] /\ got \in [Refreshers -> [stats : Stats, err : BOOLEAN]]
    BY DEF Nothing
<1> QED BY <1>1, <1>2, <1>3 DEF TypeOK

LEMMA TypeStep == TypeOK /\ [Next]_vars => TypeOK'
<1> SUFFICES ASSUME TypeOK, [Next]_vars PROVE TypeOK'
    OBVIOUS
<1> USE NamesAssumption, BoundsAssumption
    DEF TypeOK, Versions, Stats, Blank, Refreshing, watch, refresh, published, history
<1>1. ASSUME ChangeLogs \/ OfferEvent \/ OfferError \/ Tick \/ TimerFires \/ Quit
      PROVE  TypeOK'
    <2>1. CASE ChangeLogs
        BY <2>1 DEF ChangeLogs
    <2>2. CASE OfferEvent
        BY <2>2 DEF OfferEvent
    <2>3. CASE OfferError \/ Tick \/ TimerFires \/ Quit
        BY <2>3 DEF OfferError, Tick, TimerFires, Quit
    <2> QED BY <1>1, <2>1, <2>2, <2>3
<1>2. ASSUME NEW r \in Refreshers, LockRefresh(r) PROVE TypeOK'
    BY <1>2 DEF LockRefresh, Goto
<1>3. ASSUME NEW r \in Refreshers, IndexSucceeds(r) \/ IndexWarns(r) \/ IndexExpires(r)
      PROVE  TypeOK'
    <2>1. PICK v \in Versions, a \in [stats : Stats, err : BOOLEAN] : Answer(r, v, a)
        <3>1. CASE IndexSucceeds(r)
            <4>1. PICK v \in base[r]..disk : Answer(r, v, [stats |-> v, err |-> FALSE])
                BY <3>1 DEF IndexSucceeds
            <4>2. v \in Versions
                BY <4>1
            <4> QED BY <4>1, <4>2
        <3>2. CASE IndexWarns(r)
            <4>1. PICK v \in index..disk : Answer(r, v, [stats |-> v, err |-> TRUE])
                BY <3>2 DEF IndexWarns
            <4>2. v \in Versions
                BY <4>1
            <4> QED BY <4>1, <4>2
        <3>3. CASE IndexExpires(r)
            <4>1. PICK v \in index..disk : Answer(r, v, [stats |-> Blank, err |-> TRUE])
                BY <3>3 DEF IndexExpires
            <4>2. v \in Versions
                BY <4>1
            <4> QED BY <4>1, <4>2
        <3> QED BY <1>3, <3>1, <3>2, <3>3
    <2>2. faults' \in 0..MaxFaults
        BY <1>3 DEF IndexSucceeds, IndexWarns, IndexExpires
    <2> QED BY <2>1, <2>2 DEF Answer, Goto
<1>4. ASSUME NEW r \in Refreshers, Publish(r) PROVE TypeOK'
    BY <1>4 DEF Publish, PublishBy, Goto, Nothing
<1>5. ASSUME NEW r \in Refreshers, Click(r) PROVE TypeOK'
    BY <1>5 DEF Click, Goto
<1>6. ASSUME StartWatching \/ RunFails \/ RunEnds \/ MainStops \/ TakeTick \/ TakeDebounce
      PROVE  TypeOK'
    <2>1. \E where \in {"select", "failed", "returned", "lock"} :
              pc' = [pc EXCEPT ![Loop] = where]
        BY <1>6 DEF StartWatching, RunFails, RunEnds, MainStops, TakeTick, TakeDebounce, Goto
    <2>2. ~Refreshing(Loop) /\ refreshMu' = refreshMu
        BY <1>6 DEF StartWatching, RunFails, RunEnds, MainStops, TakeTick, TakeDebounce
    <2>3. refreshMu' \in {None} \cup {r \in Refreshers : Refreshing(r)'}
        BY <2>1, <2>2 DEF Refreshers
    <2>4. pc' \in [Refreshers -> {"idle", "lock", "index", "publish", "addtree", "select",
                                  "failed", "returned"}]
        BY <2>1
    <2> QED BY <1>6, <2>3, <2>4
            DEF StartWatching, WithWatcherError, RunFails, RunEnds, MainStops, TakeTick,
                TakeDebounce
<1>7. ASSUME TakeError PROVE TypeOK'
    BY <1>7 DEF TakeError, WithWatcherError
<1>8. ASSUME TakeEvent PROVE TypeOK'
    BY <1>8 DEF TakeEvent, Schedule, WithWatcherError
<1>9. CASE UNCHANGED vars
    BY <1>9 DEF vars
<1> QED BY <1>1, <1>2, <1>3, <1>4, <1>5, <1>6, <1>7, <1>8, <1>9
        DEF Next, World, RunStep, RefreshStep

\* The state of the monitor keeps its types for any number of clicks.
THEOREM TypeCorrect == Spec => []TypeOK
    BY TypeInit, TypeStep, PTL DEF Spec

-----------------------------------------------------------------------------
(* The invariant.                                                          *)

LEMMA InvInit == Init => IInv
<1> SUFFICES ASSUME Init PROVE IInv
    OBVIOUS
<1>1. TypeOK
    BY TypeInit
<1>2. \A r \in Refreshers : ~Refreshing(r)
    BY DEF Init, Refreshing
<1> QED BY <1>1, <1>2, BoundsAssumption
        DEF IInv, Init, OneRefresh, Refreshing, AnswerIsCurrent, IndexTrails, EventsAreOld,
            SnapshotIsIndex, BlankHasWarning, EventNotForgotten

\* Nobody else is in a refresh.
LEMMA Alone ==
    ASSUME IInv, NEW r \in Refreshers, Refreshing(r)
    PROVE  \A q \in Refreshers : Refreshing(q) => q = r
    BY DEF IInv, OneRefresh

LEMMA WorldStep == ASSUME IInv, TypeOK', World PROVE IInv'
<1> USE DEF IInv, TypeOK, watch, refresh, published, history, Versions
<1>1. disk <= disk' /\ UNCHANGED <<debounce, pc, refresh, published, history>>
    BY BoundsAssumption
    DEF World, ChangeLogs, OfferEvent, OfferError, Tick, TimerFires, Quit
<1>2. OneRefresh' /\ AnswerIsCurrent' /\ SnapshotIsIndex' /\ BlankHasWarning'
    BY <1>1 DEF OneRefresh, AnswerIsCurrent, SnapshotIsIndex, BlankHasWarning, Refreshing
<1>3. IndexTrails'
    BY <1>1 DEF IndexTrails
<1>4. EventsAreOld'
    BY <1>1 DEF EventsAreOld, World, ChangeLogs, OfferEvent, OfferError, Tick, TimerFires, Quit
<1>5. EventNotForgotten'
    BY <1>1 DEF EventNotForgotten, World, ChangeLogs, OfferEvent, OfferError, Tick,
                TimerFires, Quit
<1> QED BY <1>2, <1>3, <1>4, <1>5

LEMMA LockStep == ASSUME IInv, TypeOK', NEW r \in Refreshers, LockRefresh(r) PROVE IInv'
<1> USE DEF IInv, TypeOK, LockRefresh, Goto, watch, published, Versions
<1>1. \A q \in Refreshers : ~Refreshing(q)
    BY NamesAssumption DEF OneRefresh
<1>2. OneRefresh'
    BY <1>1 DEF OneRefresh, Refreshing
<1>3. AnswerIsCurrent' /\ IndexTrails'
    BY DEF AnswerIsCurrent, IndexTrails
<1>4. EventsAreOld' /\ BlankHasWarning'
    BY DEF EventsAreOld, BlankHasWarning
<1>5. SnapshotIsIndex'
    BY DEF SnapshotIsIndex, Refreshing
<1>6. EventNotForgotten'
    BY DEF EventNotForgotten, EventsAreOld
<1> QED BY <1>2, <1>3, <1>4, <1>5, <1>6

\* What the three ways to answer have in common.
LEMMA AnswerFacts ==
    ASSUME IInv, NEW r \in Refreshers, IndexSucceeds(r) \/ IndexWarns(r) \/ IndexExpires(r)
    PROVE  /\ pc[r] = "index"
           /\ pc' = [pc EXCEPT ![r] = "publish"]
           /\ index <= index' /\ index' <= disk /\ index' \in Versions
           /\ got'[r].stats \in {Blank, index'}
           /\ got'[r].stats = Blank => got'[r].err
           /\ \A q \in Refreshers : q # r => got'[q] = got[q]
           /\ base' = [base EXCEPT ![r] = 0]
           /\ UNCHANGED <<disk, watch, refreshMu, published, ctxDone, history>>
<1> USE BoundsAssumption DEF IInv, TypeOK, IndexTrails, Versions, Blank, Answer, Goto
<1>1. CASE IndexSucceeds(r)
    <2>1. PICK v \in base[r]..disk : Answer(r, v, [stats |-> v, err |-> FALSE])
        BY <1>1 DEF IndexSucceeds
    <2>2. v \in Versions /\ index <= v /\ v <= disk /\ pc[r] = "index"
        BY <2>1
    <2> QED BY <2>1, <2>2
<1>2. CASE IndexWarns(r)
    <2>1. PICK v \in index..disk : Answer(r, v, [stats |-> v, err |-> TRUE])
        BY <1>2 DEF IndexWarns
    <2>2. v \in Versions /\ index <= v /\ v <= disk /\ pc[r] = "index"
        BY <2>1
    <2> QED BY <2>1, <2>2
<1>3. CASE IndexExpires(r)
    <2>1. PICK v \in index..disk : Answer(r, v, [stats |-> Blank, err |-> TRUE])
        BY <1>3 DEF IndexExpires
    <2>2. v \in Versions /\ index <= v /\ v <= disk /\ pc[r] = "index"
        BY <2>1
    <2> QED BY <2>1, <2>2
<1> QED BY <1>1, <1>2, <1>3

LEMMA AnswerStep ==
    ASSUME IInv, TypeOK', NEW r \in Refreshers,
           IndexSucceeds(r) \/ IndexWarns(r) \/ IndexExpires(r)
    PROVE  IInv'
<1> USE AnswerFacts DEF watch, published, history
<1>1. \A q \in Refreshers : q # r => ~Refreshing(q)
    BY Alone DEF Refreshing
<1>2. OneRefresh'
    BY DEF OneRefresh, Refreshing, IInv, TypeOK
<1>3. AnswerIsCurrent'
    BY <1>1 DEF AnswerIsCurrent, Refreshing, IInv, TypeOK
<1>4. IndexTrails'
    BY <1>1 DEF IndexTrails, Refreshing, IInv, TypeOK
<1>5. SnapshotIsIndex'
    BY DEF SnapshotIsIndex, Refreshing, IInv, TypeOK
<1>6. EventsAreOld' /\ BlankHasWarning'
    BY DEF EventsAreOld, BlankHasWarning, IInv
<1>7. EventNotForgotten'
    BY DEF EventNotForgotten, IInv, TypeOK, Refreshers
<1> QED BY <1>2, <1>3, <1>4, <1>5, <1>6, <1>7 DEF IInv

LEMMA PublishStep == ASSUME IInv, TypeOK', NEW r \in Refreshers, Publish(r) PROVE IInv'
<1>1. /\ pc[r] = "publish"
      /\ refreshMu' = None
      /\ stats' = got[r].stats
      /\ lastErr' = IF got[r].err THEN {"scan"} ELSE {}
      /\ \E where \in {"idle", "select", "addtree"} : pc' = [pc EXCEPT ![r] = where]
      /\ UNCHANGED <<disk, watch, base, index, ctxDone, faults, history>>
    BY DEF Publish, PublishBy, Goto, IInv, OneRefresh, Refreshing
<1>2. \A q \in Refreshers : ~Refreshing(q)'
    BY <1>1, Alone DEF Refreshing, IInv, TypeOK
<1>3. OneRefresh' /\ AnswerIsCurrent'
    BY <1>2 DEF OneRefresh, AnswerIsCurrent, Refreshing
<1>4. IndexTrails'
    BY <1>1, <1>2 DEF IndexTrails, Refreshing, IInv
<1>5. SnapshotIsIndex' /\ BlankHasWarning'
    BY <1>1 DEF SnapshotIsIndex, BlankHasWarning, IInv, AnswerIsCurrent
<1>6. EventsAreOld' /\ EventNotForgotten'
    BY <1>1 DEF EventsAreOld, EventNotForgotten, IInv, TypeOK, watch, history
<1> QED BY <1>3, <1>4, <1>5, <1>6 DEF IInv

\* The loop and the clicks outside of a refresh.
LEMMA RunStepStep ==
    ASSUME IInv, TypeOK', RunStep \/ \E r \in Refreshers : Click(r)
    PROVE  IInv'
<1> USE DEF IInv, TypeOK, RunStep, Click, StartWatching, RunFails, RunEnds, MainStops, TakeTick,
            TakeDebounce, TakeEvent, TakeError, Goto, watch, refresh, published, history
<1>1. /\ \A q \in Refreshers : Refreshing(q)' <=> Refreshing(q)
      /\ \A q \in Refreshers : Refreshing(q) => pc'[q] = pc[q]
    BY DEF Refreshing, Refreshers
<1>2. /\ lastErr \subseteq lastErr'
      /\ UNCHANGED <<disk, refresh, stats, refreshed, covered>>
    BY DEF WithWatcherError
<1>3. OneRefresh' /\ AnswerIsCurrent' /\ IndexTrails'
    BY <1>1, <1>2 DEF OneRefresh, AnswerIsCurrent, IndexTrails, Refreshing
<1>4. SnapshotIsIndex' /\ BlankHasWarning'
    BY <1>1, <1>2 DEF SnapshotIsIndex, BlankHasWarning
<1>5. EventsAreOld'
    BY <1>2 DEF EventsAreOld
<1>6. EventNotForgotten'
    BY NamesAssumption DEF EventNotForgotten, Schedule, Refreshers
<1> QED BY <1>3, <1>4, <1>5, <1>6

LEMMA InvStep == IInv /\ [Next]_vars => IInv'
<1> SUFFICES ASSUME IInv, [Next]_vars PROVE IInv'
    OBVIOUS
<1>1. TypeOK'
    BY TypeStep DEF IInv
<1>2. CASE UNCHANGED vars
    BY <1>1, <1>2
    DEF IInv, vars, watch, refresh, published, history, OneRefresh, Refreshing,
        AnswerIsCurrent, IndexTrails, EventsAreOld, SnapshotIsIndex, BlankHasWarning,
        EventNotForgotten
<1> QED BY <1>1, <1>2, WorldStep, LockStep, AnswerStep, PublishStep, RunStepStep
        DEF Next, RefreshStep

LEMMA Invariance == Spec => []IInv
    BY InvInit, InvStep, PTL DEF Spec

\* The published statistics are those of the index whenever no refresh is
\* under way, whoever refreshed and however the refreshes overlapped.
THEOREM SnapshotsAreOrdered == Spec => []SnapshotIsIndex
    BY Invariance, PTL DEF IInv

\* Empty statistics are published with the warning of the scan.
THEOREM BlankIsExplained == Spec => []BlankHasWarning
    BY Invariance, PTL DEF IInv

\* No event is lost between the debounce timer, the ticker and the clicks.
THEOREM EventsAreNotForgotten == Spec => []EventNotForgotten
    BY Invariance, PTL DEF IInv

-----------------------------------------------------------------------------
(* Refinement.                                                             *)

LEMMA UsageStep == IInv /\ [Next]_vars => [Usage!UsageNext]_(Usage!usage)
<1> SUFFICES ASSUME IInv, [Next]_vars PROVE [Usage!UsageNext]_(Usage!usage)
    OBVIOUS
<1> USE DEF Usage!usage, Usage!UsageNext
<1>1. ASSUME NEW r \in Refreshers, IndexSucceeds(r) \/ IndexWarns(r) \/ IndexExpires(r)
      PROVE  Usage!ReadLogs \/ UNCHANGED Usage!usage
    BY <1>1, AnswerFacts DEF Usage!ReadLogs, IInv, TypeOK, Versions, published
<1>2. ASSUME NEW r \in Refreshers, Publish(r) PROVE Usage!PublishUsage
    BY <1>2 DEF Publish, PublishBy, Usage!PublishUsage, Usage!Blank, Blank, IInv, AnswerIsCurrent
<1>3. ASSUME StartWatching \/ TakeEvent \/ TakeError
      PROVE  Usage!WarnOnly \/ UNCHANGED Usage!usage
    BY <1>3 DEF StartWatching, TakeEvent, TakeError, WithWatcherError, Usage!WarnOnly, refresh
<1>4. ASSUME World \/ RunFails \/ RunEnds \/ MainStops \/ TakeTick \/ TakeDebounce
      PROVE  UNCHANGED Usage!usage
    BY <1>4 DEF World, ChangeLogs, OfferEvent, OfferError, Tick, TimerFires, Quit, RunFails,
                RunEnds, MainStops, TakeTick, TakeDebounce, refresh, published
<1>5. ASSUME NEW r \in Refreshers, LockRefresh(r) \/ Click(r) PROVE UNCHANGED Usage!usage
    BY <1>5 DEF LockRefresh, Click, refresh, published
<1>6. CASE UNCHANGED vars
    BY <1>6 DEF vars, refresh, published
<1> QED BY <1>1, <1>2, <1>3, <1>4, <1>5, <1>6 DEF Next, RunStep, RefreshStep

\* What the readers of the monitor see is usage as PublishedUsage promises it.
THEOREM Implementation == Spec => ImplementsPublishedUsage
<1>1. Init => Usage!InitUsage
    BY DEF Init, Usage!InitUsage, Usage!Blank, Blank
<1> QED BY <1>1, UsageStep, Invariance, PTL
        DEF Spec, ImplementsPublishedUsage, Usage!UsageSpec
=============================================================================
