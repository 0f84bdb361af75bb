----------------------------- MODULE QuotaTracker -----------------------------
(***************************************************************************)
(* The usage limits of the two providers: quota.Tracker                    *)
(* (internal/quota/tracker.go) polling the Claude and the Codex client     *)
(* (claude.go and codex.go there), what it makes of their failures, and    *)
(* which observation is shown, LiveQuotaSnapshots (internal/parser/        *)
(* limits.go), when session logs hold observations as well.                *)
(*                                                                         *)
(* A snapshot is when it was observed, how far it is trusted, and when     *)
(* each of its windows resets; percentages and labels are left out.        *)
(***************************************************************************)
EXTENDS Integers, Sequences, FiniteSets

CONSTANTS
    Enabled,    \* providers with a fetcher, of Claude and Codex
    Sessions,   \* Codex logs with rate limit observations
    Loop,       \* the goroutine of Tracker.Run
    Clicks,     \* goroutines of the tray's Refresh Usage
    MaxTime,    \* bound: the clock
    MaxWindow,  \* bound: how long a window lasts
    MaxFaults,  \* bound: fetches that fail
    Unavailable,    \* Fetch answered ErrUnavailable
    Failed,         \* Fetch answered another error
    Pending,        \* Fetch has not answered
    None

Claude == "claude"
Codex == "codex"
Providers == {Claude, Codex}
Refreshers == {Loop} \cup Clicks
Never == -1     \* a window without resets_at

ASSUME EnabledAssumption == Enabled \subseteq Providers
ASSUME SessionsAssumption == IsFiniteSet(Sessions)
ASSUME NamesAssumption == Loop \notin Clicks /\ None \notin Refreshers
ASSUME BoundsAssumption == /\ MaxTime \in Nat
                           /\ MaxWindow \in Nat \ {0}
                           /\ MaxFaults \in Nat

VARIABLES
    now,
    available,  \* provider -> its credential is valid, its command is installed
    sessions,   \* Codex log -> the observation its parser state holds, or None
    logged,     \* Stats.Quotas of the last refresh of the index, or None
    live,       \* claudeSnapshot and codexSnapshot, or None
    pc,         \* where each refresher is
    asking,     \* provider whose fetch each refresher is in
    answer,     \* what that fetch has returned
    refreshMu,  \* who holds the mutex, or None
    tick,       \* ticker.C holds a tick
    ctxDone,
    faults,
    known       \* history: provider -> since it became unavailable, a fetch
                \* that found it so has returned to its caller

vars == <<now, available, sessions, logged, live, pc, asking, answer, refreshMu,
          tick, ctxDone, faults, known>>

Snapshot == [observed : 0..MaxTime, rank : {1, 2},
             resets : (SUBSET ({Never} \cup 1..(MaxTime + MaxWindow))) \ {{}}]

ASSUME AnswersAssumption ==
    /\ Unavailable # Failed /\ Pending \notin {Unavailable, Failed}
    /\ {Unavailable, Failed, Pending, None} \cap Snapshot = {}
    /\ None \notin Providers

-----------------------------------------------------------------------------
(* LiveQuotaSnapshots, for the values of one provider.                     *)

\* liveQuotaWindows
Windows(s) == {t \in s.resets : t = Never \/ t > now}

\* Faulty: the newer observation is shown.
Newer(s, t) == s.observed > t.observed

\* quotaConfidenceRank first, then the time of observation.
Better(s, t) ==
    \/ s.rank > t.rank
    \/ s.rank = t.rank /\ s.observed > t.observed

\* One value of the loop; latest is the best so far, or None.
Consider(latest, value) ==
    IF value = None \/ Windows(value) = {} THEN latest
    ELSE LET candidate == [value EXCEPT !.resets = Windows(value)]
         IN  IF latest = None \/ Better(candidate, latest) THEN candidate ELSE latest

LiveQuota(values) ==
    LET latest[n \in 0..Len(values)] ==
            IF n = 0 THEN None ELSE Consider(latest[n - 1], values[n])
    IN  latest[Len(values)]

\* Tracker.Snapshot: the observation of the logs, then that of the client.
Shown(p) == LiveQuota(<<IF p = Codex THEN logged ELSE None, live[p]>>)

Init ==
    /\ now = 0
    /\ available \in [Enabled -> BOOLEAN]
    /\ sessions = [s \in Sessions |-> None]
    /\ logged = None
    /\ live = [p \in Providers |-> None]
    /\ pc = [r \in Refreshers |-> IF r = Loop THEN "lock" ELSE "idle"]
    /\ asking = [r \in Refreshers |-> None]
    /\ answer = [r \in Refreshers |-> Pending]
    /\ refreshMu = None
    /\ tick = FALSE
    /\ ctxDone = FALSE
    /\ faults = 0
    /\ known = [p \in Enabled |-> FALSE]

-----------------------------------------------------------------------------
(* The world.                                                              *)

TimePasses ==
    /\ now < MaxTime
    /\ now' = now + 1
    /\ UNCHANGED <<available, sessions, logged, live, pc, asking, answer, refreshMu,
                   tick, ctxDone, faults, known>>

\* The user signs in or out, a credential expires, the command is removed.
ChangeAvailability(p) ==
    /\ available' = [available EXCEPT ![p] = ~@]
    /\ known' = [known EXCEPT ![p] = FALSE]
    /\ UNCHANGED <<now, sessions, logged, live, pc, asking, answer, refreshMu, tick,
                   ctxDone, faults>>

Resets == {{t} : t \in {Never} \cup (now + 1)..(now + MaxWindow)}

\* A session logs its rate limits (parseCodexQuota).
LogLimits(s) ==
    /\ \E w \in Resets :
          sessions' = [sessions EXCEPT ![s] = [observed |-> now, rank |-> 1, resets |-> w]]
    /\ UNCHANGED <<now, available, logged, live, pc, asking, answer, refreshMu, tick,
                   ctxDone, faults, known>>

Orders == {order \in [1..Cardinality(Sessions) -> Sessions] :
               \A s \in Sessions : \E n \in DOMAIN order : order[n] = s}

\* Indexer.Refresh visits its cache, a map, in any order.
RefreshIndex ==
    /\ \E order \in Orders :
          logged' = LiveQuota([n \in DOMAIN order |-> sessions[order[n]]])
    /\ UNCHANGED <<now, available, sessions, live, pc, asking, answer, refreshMu, tick,
                   ctxDone, faults, known>>

Tick ==
    /\ ~tick
    /\ tick' = TRUE
    /\ UNCHANGED <<now, available, sessions, logged, live, pc, asking, answer, refreshMu,
                   ctxDone, faults, known>>

Quit ==
    /\ ~ctxDone
    /\ ctxDone' = TRUE
    /\ UNCHANGED <<now, available, sessions, logged, live, pc, asking, answer, refreshMu,
                   tick, faults, known>>

-----------------------------------------------------------------------------
(* Tracker.Run, Tracker.Refresh and refreshQuotas.                         *)

Goto(r, where) == pc' = [pc EXCEPT ![r] = where]

\* The loop waits for the ticker or for the end.
TakeTick ==
    /\ pc[Loop] = "idle"
    /\ tick
    /\ tick' = FALSE
    /\ Goto(Loop, "lock")
    /\ UNCHANGED <<now, available, sessions, logged, live, asking, answer, refreshMu,
                   ctxDone, faults, known>>

RunEnds ==
    /\ pc[Loop] = "idle"
    /\ ctxDone
    /\ Goto(Loop, "returned")
    /\ UNCHANGED <<now, available, sessions, logged, live, asking, answer, refreshMu,
                   tick, ctxDone, faults, known>>

\* Refresh Usage, once base.Refresh (Monitor, which ends in a RefreshIndex) is
\* done.
Click(r) ==
    /\ r \in Clicks
    /\ pc[r] = "idle"
    /\ Goto(r, "lock")
    /\ UNCHANGED <<now, available, sessions, logged, live, asking, answer, refreshMu,
                   tick, ctxDone, faults, known>>

\* Claude is asked first; a provider without a fetcher is passed over.
First == IF Claude \in Enabled THEN Claude
         ELSE IF Codex \in Enabled THEN Codex ELSE None
After(p) == IF p = Claude /\ Codex \in Enabled THEN Codex ELSE None

\* Faulty: nothing keeps two polls apart.
LockUnlocked(r) == UNCHANGED refreshMu

Lock(r) == refreshMu = None /\ refreshMu' = r

Unlock(r) == refreshMu' = IF refreshMu = r THEN None ELSE refreshMu

LockRefresh(r) ==
    /\ pc[r] = "lock"
    /\ First # None
    /\ Lock(r)
    /\ asking' = [asking EXCEPT ![r] = First]
    /\ Goto(r, "fetch")
    /\ UNCHANGED <<now, available, sessions, logged, live, answer, tick, ctxDone,
                   faults, known>>

Return(r, result) ==
    /\ answer' = [answer EXCEPT ![r] = result]
    /\ Goto(r, "store")
    /\ UNCHANGED <<now, available, sessions, logged, live, asking, refreshMu, tick, ctxDone>>

\* The credential is missing or expired; there is no codex command.
FindUnavailable(r) ==
    /\ pc[r] = "fetch"
    /\ ~available[asking[r]]
    /\ Return(r, Unavailable)
    /\ known' = [known EXCEPT ![asking[r]] = TRUE]
    /\ UNCHANGED faults

\* The request is sent: over HTTPS, or to the app-server's standard input.
Send(r) ==
    /\ pc[r] = "fetch"
    /\ available[asking[r]]
    /\ Goto(r, "wait")
    /\ UNCHANGED <<now, available, sessions, logged, live, asking, answer, refreshMu,
                   tick, ctxDone, faults, known>>

\* The time of observation is that of the answer.
Receive(r) ==
    /\ pc[r] = "wait"
    /\ \E w \in Resets : Return(r, [observed |-> now, rank |-> 2, resets |-> w])
    /\ UNCHANGED <<faults, known>>

\* An HTTP error or a timeout; 401 and 403, an app-server that closes its
\* output (killed after 20 seconds, say) or an answer without windows make the
\* limits unavailable.  A context that is done fails the fetch as well.
ReceiveError(r) ==
    /\ pc[r] = "wait"
    /\ \/ /\ faults < MaxFaults
          /\ faults' = faults + 1
       \/ /\ ctxDone
          /\ UNCHANGED faults
    /\ \E result \in {Failed, Unavailable} : Return(r, result)
    /\ UNCHANGED known

\* Faulty: an unavailable provider keeps its last snapshot, like a failed one.
AnyErrorKeeps(p, result) ==
    IF result \in {Failed, Unavailable} THEN live[p] ELSE result

\* refreshClaude and refreshCodex
Stored(p, result) ==
    CASE result = Unavailable -> None
      [] result = Failed -> live[p]
      [] OTHER -> result

Store(r) ==
    /\ pc[r] = "store"
    /\ live' = [live EXCEPT ![asking[r]] = Stored(asking[r], answer[r])]
    /\ answer' = [answer EXCEPT ![r] = Pending]
    /\ asking' = [asking EXCEPT ![r] = After(asking[r])]
    /\ IF After(asking[r]) = None
       THEN /\ Goto(r, "idle")
            /\ Unlock(r)
       ELSE /\ Goto(r, "fetch")
            /\ UNCHANGED refreshMu
    /\ UNCHANGED <<now, available, sessions, logged, tick, ctxDone, faults, known>>

Poll(r) ==
    \/ LockRefresh(r)
    \/ FindUnavailable(r)
    \/ Send(r)
    \/ Receive(r)
    \/ ReceiveError(r)
    \/ Store(r)

Next ==
    \/ TimePasses
    \/ \E p \in Enabled : ChangeAvailability(p)
    \/ \E s \in Sessions : LogLimits(s)
    \/ RefreshIndex
    \/ Tick
    \/ Quit
    \/ TakeTick
    \/ RunEnds
    \/ \E r \in Refreshers : Click(r) \/ Poll(r)

Spec == Init /\ [][Next]_vars

\* The ticker ticks, and a fetch ends: the HTTP client gives up after 15
\* seconds, the app-server is killed after 20.  The mutex is not withheld from
\* the loop for ever.
FairSpec ==
    /\ Spec
    /\ WF_vars(Tick)
    /\ WF_vars(TakeTick)
    /\ \A r \in Refreshers :
           /\ SF_vars(LockRefresh(r))
           /\ WF_vars(FindUnavailable(r) \/ Send(r))
           /\ WF_vars(Receive(r) \/ ReceiveError(r))
           /\ WF_vars(Store(r))

-----------------------------------------------------------------------------
TypeOK ==
    /\ now \in 0..MaxTime
    /\ available \in [Enabled -> BOOLEAN]
    /\ sessions \in [Sessions -> Snapshot \cup {None}]
    /\ logged \in Snapshot \cup {None}
    /\ live \in [Providers -> Snapshot \cup {None}]
    /\ pc \in [Refreshers -> {"idle", "lock", "fetch", "wait", "store", "returned"}]
    /\ asking \in [Refreshers -> Enabled \cup {None}]
    /\ answer \in [Refreshers -> Snapshot \cup {Unavailable, Failed, Pending}]
    /\ refreshMu \in {None} \cup {r \in Refreshers : asking[r] # None}
    /\ tick \in BOOLEAN
    /\ ctxDone \in BOOLEAN
    /\ faults \in 0..MaxFaults
    /\ known \in [Enabled -> BOOLEAN]

Observations(p) ==
    {live[p]} \cup (IF p = Codex THEN {logged} ELSE {})

Running(s) == {t \in s.resets : t = Never \/ t > now}

\* What is shown for a provider is an observation with the windows that have
\* not been reset yet: one of its client if that has any, however old it is,
\* else the one of the logs.
ShownIsBest ==
    \A p \in Providers :
        LET usable == {s \in Observations(p) \ {None} : Running(s) # {}}
        IN  IF usable = {} THEN Shown(p) = None
            ELSE \E s \in usable :
                    /\ Shown(p) = [s EXCEPT !.resets = Running(s)]
                    /\ \A t \in usable : t.rank <= s.rank

\* Once a poll has found a provider unavailable, its limits are not shown as
\* live until it is available again: no poll that began earlier puts them
\* back.
UnavailableStaysUnavailable ==
    \A p \in Enabled :
        /\ known[p]
        /\ \A r \in Refreshers : ~(asking[r] = p /\ answer[r] # Pending)
        => live[p] = None

\* A snapshot is never replaced by one observed earlier.
SnapshotsMoveForward ==
    [][\A p \in Providers : live[p] # None /\ live'[p] # None =>
           live[p].observed <= live'[p].observed]_vars

\* "If the credential is missing or expired, Claude limits are shown as
\* unavailable": a provider that is unavailable for good is not shown as live
\* any more from some time on, unless the application ends.
LossIsShown ==
    \A p \in Enabled : <>[](~available[p]) => <>(ctxDone \/ [](live[p] = None))
=============================================================================
