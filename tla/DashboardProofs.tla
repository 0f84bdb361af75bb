--------------------------- MODULE DashboardProofs ---------------------------
(***************************************************************************)
(* What a page renders is fresh, for any number of refreshes under way at  *)
(* a time and any number of versions.                                      *)
(*                                                                         *)
(* The argument: while a refresh of the page is under way, what is         *)
(* published is empty or at least as new as when it began                  *)
(* (NothingOlderPublished), hence so is whatever it is answered with       *)
(* (AnswersAreFresh), however long the answer then waits to be rendered.   *)
(***************************************************************************)
EXTENDS Dashboard, TLAPS

NothingOlderPublished ==
    \A f \in Refreshes : asking[f] =>
        /\ since[f] <= read
        /\ stats = Blank \/ since[f] <= stats

AnswersAreFresh ==
    \A f \in Refreshes :
        asking[f] /\ statsAnswer[f] \notin {Pending, Failure} =>
            statsAnswer[f] = Blank \/ since[f] <= statsAnswer[f]

IInv ==
    /\ TypeOK
    /\ stats <= read
    /\ \A f \in Refreshes : ~asking[f] => statsAnswer[f] = Pending
    /\ NothingOlderPublished
    /\ AnswersAreFresh

-----------------------------------------------------------------------------
LEMMA TypeInit == Init => TypeOK
<1> SUFFICES ASSUME Init PROVE TypeOK
    OBVIOUS
<1>1. read \in Versions
    BY MaxVersionAssumption DEF Init, InitUsage, Versions
<1>2. stats \in {Blank} \cup Versions /\ warned \in BOOLEAN
    BY DEF Init, InitUsage
<1> QED BY <1>1, <1>2 DEF Init, TypeOK, Shown

\* Usage is published.
LEMMA UsageTypes ==
    ASSUME TypeOK, UsageNext
    PROVE  /\ read' \in Versions /\ stats' \in {Blank} \cup Versions /\ warned' \in BOOLEAN
           /\ read <= read'
           /\ stats' \in {stats, read, Blank}
<1> USE MaxVersionAssumption DEF TypeOK, Versions, Blank
<1>1. CASE ReadLogs
    BY <1>1 DEF ReadLogs
<1>2. CASE PublishUsage
    <2>1. read' = read /\ warned' \in BOOLEAN
        BY <1>2 DEF PublishUsage
    <2>2. stats' \in {read, Blank}
        BY <1>2 DEF PublishUsage
    <2> QED BY <2>1, <2>2
<1>3. CASE WarnOnly
    BY <1>3 DEF WarnOnly
<1> QED BY <1>1, <1>2, <1>3 DEF UsageNext

LEMMA TypeStep == TypeOK /\ [Next]_vars => TypeOK'
<1> SUFFICES ASSUME TypeOK, [Next]_vars PROVE TypeOK'
    OBVIOUS
<1> USE DEF TypeOK, Shown, usage, requests, page
<1>1. CASE Publish
    BY <1>1, UsageTypes DEF Publish
<1>2. CASE StartStop
    BY <1>2 DEF StartStop
<1>3. ASSUME NEW f \in Refreshes, Ask(f) \/ Answered(f) PROVE TypeOK'
    BY <1>3 DEF Ask, Answered, AnswerStatus, AnswerStats, RequestFails
<1>4. ASSUME NEW f \in Refreshes, Render(f) \/ Disconnect(f) PROVE TypeOK'
    <2>1. shown' \in Shown /\ consumption' \in {None} \cup Versions
        BY <1>4 DEF Render, Disconnect, ConsumptionAfter
    <2>2. label' \in {"connecting", "live", "warning", "disconnected"}
        BY <1>4 DEF Render, Disconnect
    <2> QED BY <1>4, <2>1, <2>2 DEF Render, Disconnect, Over
<1>5. CASE UNCHANGED vars
    BY <1>5 DEF vars
<1> QED BY <1>1, <1>2, <1>3, <1>4, <1>5 DEF Next

\* The page and what it waits for keep their types.
THEOREM TypeCorrect == Spec => []TypeOK
    BY TypeInit, TypeStep, PTL DEF Spec

-----------------------------------------------------------------------------
LEMMA InvInit == Init => IInv
<1> SUFFICES ASSUME Init PROVE IInv
    OBVIOUS
<1>1. TypeOK
    BY TypeInit
<1> QED BY <1>1
        DEF IInv, Init, InitUsage, Blank, NothingOlderPublished, AnswersAreFresh

LEMMA InvStep == IInv /\ [Next]_vars => IInv'
<1> SUFFICES ASSUME IInv, [Next]_vars PROVE IInv'
    OBVIOUS
<1>1. TypeOK'
    BY TypeStep DEF IInv
<1> USE <1>1 DEF IInv, TypeOK, NothingOlderPublished, AnswersAreFresh, usage, requests, page
<1>2. CASE Publish
    <2>1. read <= read' /\ stats' \in {stats, read, Blank}
        BY <1>2, UsageTypes DEF Publish
    <2> QED BY <1>2, <2>1, MaxVersionAssumption DEF Publish, Versions, Shown, Blank, None
<1>3. CASE StartStop
    BY <1>3 DEF StartStop
<1>4. ASSUME NEW f \in Refreshes, Ask(f) PROVE IInv'
    <2>1. since' = [since EXCEPT ![f] = stats] /\ statsAnswer[f] = Pending
        BY <1>4 DEF Ask
    <2>2. stats <= stats
        BY MaxVersionAssumption DEF Versions, Blank
    <2> QED BY <1>4, <2>1, <2>2 DEF Ask
<1>5. ASSUME NEW f \in Refreshes, Answered(f) PROVE IInv'
    <2>1. /\ asking[f]
          /\ UNCHANGED <<read, stats, asking, since>>
          /\ \A g \in Refreshes : g # f => statsAnswer'[g] = statsAnswer[g]
          /\ statsAnswer'[f] \in {statsAnswer[f], stats, Failure}
        BY <1>5 DEF Answered, AnswerStatus, AnswerStats, RequestFails, Handled
    <2> QED BY <2>1
<1>6. ASSUME NEW f \in Refreshes, Render(f) \/ Disconnect(f) PROVE IInv'
    <2>1. /\ ~asking'[f] /\ statsAnswer'[f] = Pending
          /\ \A g \in Refreshes \ {f} : /\ asking'[g] = asking[g]
                                      /\ statsAnswer'[g] = statsAnswer[g]
                                      /\ since'[g] = since[g]
          /\ UNCHANGED <<read, stats>>
        BY <1>6 DEF Render, Disconnect, Over
    <2> QED BY <2>1
<1>7. CASE UNCHANGED vars
    BY <1>7 DEF vars
<1> QED BY <1>2, <1>3, <1>4, <1>5, <1>6, <1>7 DEF Next

LEMMA Invariance == Spec => []IInv
    BY InvInit, InvStep, PTL DEF Spec

Fresh ==
    \A f \in Refreshes :
        asking[f] /\ ~asking'[f] /\ label' # "disconnected"
        => shown' = Blank \/ shown' >= since[f]

LEMMA FreshStep == IInv /\ [Next]_vars => [Fresh]_vars
<1> SUFFICES ASSUME IInv, Next, NEW f \in Refreshes, asking[f], ~asking'[f],
                    label' # "disconnected"
             PROVE  shown' = Blank \/ shown' >= since[f]
    BY DEF Fresh
<1>1. Render(f)
    BY DEF IInv, TypeOK, Next, Publish, StartStop, Ask, Answered, AnswerStatus, AnswerStats,
           RequestFails, Render, Disconnect, Over, requests
<1>2. /\ shown' = statsAnswer[f]
      /\ statsAnswer[f] \notin {Pending, Failure}
    BY <1>1 DEF Render
<1> QED BY <1>2, MaxVersionAssumption
        DEF IInv, TypeOK, AnswersAreFresh, Versions, Shown, Blank, None

\* However the refreshes of the page overlap, none renders anything older than
\* what was published when it began.
THEOREM RenderingsAreFresh == Spec => RenderedIsFresh
    BY Invariance, FreshStep, PTL DEF Spec, RenderedIsFresh, Fresh
=============================================================================
