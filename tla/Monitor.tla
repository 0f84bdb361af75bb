------------------------------ MODULE Monitor ------------------------------
(***************************************************************************)
(* parser.Monitor (internal/parser/watcher.go): the goroutine that watches *)
(* the log directories and refreshes the index, the tray's Refresh Usage   *)
(* goroutines that refresh it too (internal/tray/tray.go, through          *)
(* Tracker.Refresh), and what cmd/agentsusage/main.go does when the        *)
(* monitor ends.                                                           *)
(*                                                                         *)
(* The logs are a version number.  Indexer.Refresh, whose inside is        *)
(* FileIndex, is here what it promises: without an error it sees at least  *)
(* what was on disk when it began, with one it keeps what it had, and with *)
(* an expired context it answers with an empty Stats.                      *)
(***************************************************************************)
EXTENDS Integers, FiniteSets

CONSTANTS
    Loop,           \* the goroutine of Monitor.Run
    Clicks,         \* goroutines of the tray's Refresh Usage
    MaxVersion,     \* bound: changes to the logs
    MaxFaults,      \* bound: failed discoveries or reads, expired deadlines
    None

Refreshers == {Loop} \cup Clicks
Blank == -1         \* the zero Stats

ASSUME NamesAssumption == Loop \notin Clicks /\ None \notin Refreshers
ASSUME BoundsAssumption == MaxVersion \in Nat /\ MaxFaults \in Nat

VARIABLES
    disk,       \* version of the logs
    watching,   \* Run holds an open watcher
    event,      \* what the watcher offers on Events: an event, or None
    watchErr,   \* the watcher offers an error on Errors
    tick,       \* ticker.C holds a tick
    timer,      \* the debounce timer: nil, armed, fired, or drained
    debounce,   \* debounce # nil: the loop listens to the timer
    pc,         \* where each refresher is
    refreshMu,  \* who holds the mutex, or None
    base,       \* disk when each refresher called the indexer
    got,        \* what the indexer answered: stats and error
    index,      \* version the indexer's caches hold
    stats,      \* Monitor.stats
    lastErr,    \* Monitor.lastErr: what was joined into it
    refreshed,  \* Monitor.refreshed is not the zero time
    ctxDone,    \* the application's context
    faults,
    heard,      \* history: latest version an event told the loop of
    covered     \* history: latest version some refresh began with

watch == <<watching, event, watchErr, tick, timer, debounce>>
refresh == <<refreshMu, base, got, index>>
published == <<stats, lastErr, refreshed>>
history == <<heard, covered>>
vars == <<disk, watch, pc, refresh, published, ctxDone, faults, history>>

Nothing == [stats |-> Blank, err |-> FALSE]

Init ==
    /\ disk \in 0..MaxVersion
    /\ watching = FALSE
    /\ event = None
    /\ watchErr = FALSE
    /\ tick = FALSE
    /\ timer = "nil"
    /\ debounce = FALSE
    /\ pc = [r \in Refreshers |-> IF r = Loop THEN "lock" ELSE "idle"]
    /\ refreshMu = None
    /\ base = [r \in Refreshers |-> 0]
    /\ got = [r \in Refreshers |-> Nothing]
    /\ index = 0
    /\ stats = Blank
    /\ lastErr = {}
    /\ refreshed = FALSE
    /\ ctxDone = FALSE
    /\ faults = 0
    /\ heard = 0
    /\ covered = 0

-----------------------------------------------------------------------------
(* The world: logs change, the watcher may or may not say so, time passes. *)

ChangeLogs ==
    /\ disk < MaxVersion
    /\ disk' = disk + 1
    /\ UNCHANGED <<watch, pc, refresh, published, ctxDone, faults, history>>

\* An event about a log, late or repeated as may be, or about something else.
\* There need not be one: a queue overflows, a new directory is not watched
\* yet when a log is put in it.
OfferEvent ==
    /\ watching
    /\ event = None
    /\ \E v \in 0..disk, log \in BOOLEAN : event' = [version |-> v, log |-> log]
    /\ UNCHANGED <<disk, watching, watchErr, tick, timer, debounce, pc, refresh, published,
                   ctxDone, faults, history>>

OfferError ==
    /\ watching
    /\ watchErr' = TRUE
    /\ UNCHANGED <<disk, watching, event, tick, timer, debounce, pc, refresh, published,
                   ctxDone, faults, history>>

Tick ==
    /\ watching
    /\ tick' = TRUE
    /\ UNCHANGED <<disk, watching, event, watchErr, timer, debounce, pc, refresh, published,
                   ctxDone, faults, history>>

TimerFires ==
    /\ timer = "armed"
    /\ timer' = "fired"
    /\ UNCHANGED <<disk, watching, event, watchErr, tick, debounce, pc, refresh, published,
                   ctxDone, faults, history>>

\* A signal, or Quit in the tray.
Quit ==
    /\ ctxDone' = TRUE
    /\ UNCHANGED <<disk, watch, pc, refresh, published, faults, history>>

-----------------------------------------------------------------------------
(* Monitor.Refresh, called by r.                                           *)

Goto(r, where) == pc' = [pc EXCEPT ![r] = where]

\* Faulty: nothing keeps two refreshes apart.
LockRefreshUnlocked(r) ==
    /\ pc[r] = "lock"
    /\ refreshMu' = refreshMu
    /\ base' = [base EXCEPT ![r] = disk]
    /\ covered' = disk
    /\ Goto(r, "index")
    /\ UNCHANGED <<disk, watch, got, index, published, ctxDone, faults, heard>>

LockRefresh(r) ==
    /\ pc[r] = "lock"
    /\ refreshMu = None
    /\ refreshMu' = r
    /\ base' = [base EXCEPT ![r] = disk]
    /\ covered' = disk
    /\ Goto(r, "index")
    /\ UNCHANGED <<disk, watch, got, index, published, ctxDone, faults, heard>>

Answer(r, version, answer) ==
    /\ pc[r] = "index"
    /\ index' = version
    /\ base' = [base EXCEPT ![r] = 0]
    /\ got' = [got EXCEPT ![r] = answer]
    /\ Goto(r, "publish")
    /\ UNCHANGED <<disk, watch, refreshMu, published, ctxDone, history>>

IndexSucceeds(r) ==
    /\ ~ctxDone
    /\ \E v \in base[r]..disk : Answer(r, v, [stats |-> v, err |-> FALSE])
    /\ UNCHANGED faults

\* Some files could not be listed or read; the rest was.
IndexWarns(r) ==
    /\ ~ctxDone
    /\ faults < MaxFaults
    /\ faults' = faults + 1
    /\ \E v \in index..disk : Answer(r, v, [stats |-> v, err |-> TRUE])

\* The application's context is done, or the two minutes of a click are over.
IndexExpires(r) ==
    /\ \/ /\ ctxDone
          /\ UNCHANGED faults
       \/ /\ ~ctxDone
          /\ r \in Clicks
          /\ faults < MaxFaults
          /\ faults' = faults + 1
    /\ \E v \in index..disk : Answer(r, v, [stats |-> Blank, err |-> TRUE])

\* Faulty: a deadline that has passed is not an error worth showing.
PublishQuietly(r, where) ==
    /\ pc[r] = "publish"
    /\ stats' = got[r].stats
    /\ lastErr' = IF got[r].err /\ got[r].stats # Blank THEN {"scan"} ELSE {}
    /\ refreshed' = TRUE
    /\ refreshMu' = IF refreshMu = r THEN None ELSE refreshMu
    /\ got' = [got EXCEPT ![r] = Nothing]
    /\ Goto(r, where)
    /\ UNCHANGED <<disk, watch, base, index, ctxDone, faults, history>>

\* Both are stored under mu; then refreshMu is given back.
PublishBy(r, where) ==
    /\ pc[r] = "publish"
    /\ stats' = got[r].stats
    /\ lastErr' = IF got[r].err THEN {"scan"} ELSE {}
    /\ refreshed' = TRUE
    /\ refreshMu' = IF refreshMu = r THEN None ELSE refreshMu
    /\ got' = [got EXCEPT ![r] = Nothing]
    /\ Goto(r, where)
    /\ UNCHANGED <<disk, watch, base, index, ctxDone, faults, history>>

\* After its first refresh the loop sets up the watcher.
Publish(r) ==
    PublishBy(r, IF r \in Clicks THEN "idle"
                 ELSE IF watching THEN "select" ELSE "addtree")

\* Refresh Usage in the tray.
Click(r) ==
    /\ r \in Clicks
    /\ pc[r] = "idle"
    /\ Goto(r, "lock")
    /\ UNCHANGED <<disk, watch, refresh, published, ctxDone, faults, history>>

RefreshStep(r) ==
    \/ LockRefresh(r)
    \/ IndexSucceeds(r)
    \/ IndexWarns(r)
    \/ IndexExpires(r)
    \/ Publish(r)

-----------------------------------------------------------------------------
(* Monitor.Run.                                                            *)

\* Faulty: the warning of the last refresh is replaced.
WithWatcherErrorOnly == {"watcher"}

\* recordWatcherError
WithWatcherError == lastErr \cup {"watcher"}

\* The watcher and the ticker are made; a root may not be watchable.
StartWatching ==
    /\ pc[Loop] = "addtree"
    /\ watching' = TRUE
    /\ lastErr' \in {lastErr, WithWatcherError}
    /\ Goto(Loop, "select")
    /\ UNCHANGED <<disk, event, watchErr, tick, timer, debounce, refresh, stats,
                   refreshed, ctxDone, faults, history>>

\* fsnotify.NewWatcher fails, or a channel is closed.
RunFails ==
    /\ pc[Loop] \in {"addtree", "select"}
    /\ watching' = FALSE
    /\ Goto(Loop, "failed")
    /\ UNCHANGED <<disk, event, watchErr, tick, timer, debounce, refresh, published,
                   ctxDone, faults, history>>

RunEnds ==
    /\ pc[Loop] = "select"
    /\ ctxDone
    /\ watching' = FALSE
    /\ Goto(Loop, "returned")
    /\ UNCHANGED <<disk, event, watchErr, tick, timer, debounce, refresh, published,
                   ctxDone, faults, history>>

\* main: a monitor that fails takes the application down with it.
MainStops ==
    /\ pc[Loop] = "failed"
    /\ ctxDone' = TRUE
    /\ Goto(Loop, "returned")
    /\ UNCHANGED <<disk, watch, refresh, published, faults, history>>

\* Faulty: the ticker only keeps the loop alive.
TakeTickIdly ==
    /\ pc[Loop] = "select"
    /\ tick
    /\ tick' = FALSE
    /\ UNCHANGED <<disk, watching, event, watchErr, timer, debounce, pc, refresh,
                   published, ctxDone, faults, history>>

TakeTick ==
    /\ pc[Loop] = "select"
    /\ tick
    /\ tick' = FALSE
    /\ Goto(Loop, "lock")
    /\ UNCHANGED <<disk, watching, event, watchErr, timer, debounce, refresh,
                   published, ctxDone, faults, history>>

TakeDebounce ==
    /\ pc[Loop] = "select"
    /\ debounce
    /\ timer = "fired"
    /\ timer' = "drained"
    /\ debounce' = FALSE
    /\ Goto(Loop, "lock")
    /\ UNCHANGED <<disk, watching, event, watchErr, tick, refresh, published,
                   ctxDone, faults, history>>

\* Faulty: a timer that exists is reset, but the loop does not listen again.
ScheduleOnce ==
    /\ timer' = "armed"
    /\ debounce' = (debounce \/ timer = "nil")

\* schedule: the timer is made, or stopped, drained and reset.
Schedule ==
    /\ timer' = "armed"
    /\ debounce' = TRUE

\* A created directory is watched too, which may fail; a log is scheduled.
TakeEvent ==
    /\ pc[Loop] = "select"
    /\ event # None
    /\ event' = None
    /\ lastErr' \in {lastErr, WithWatcherError}
    /\ \/ /\ event.log
          /\ Schedule
          /\ heard' = IF event.version > heard THEN event.version ELSE heard
       \/ /\ ~event.log
          /\ UNCHANGED <<timer, debounce, heard>>
    /\ UNCHANGED <<disk, watching, watchErr, tick, pc, refresh, stats, refreshed,
                   ctxDone, faults, covered>>

TakeError ==
    /\ pc[Loop] = "select"
    /\ watchErr
    /\ watchErr' = FALSE
    /\ lastErr' = WithWatcherError
    /\ UNCHANGED <<disk, watching, event, tick, timer, debounce, pc, refresh, stats,
                   refreshed, ctxDone, faults, history>>

World == ChangeLogs \/ OfferEvent \/ OfferError \/ Tick \/ TimerFires \/ Quit

RunStep == \/ StartWatching \/ RunFails \/ RunEnds \/ MainStops
           \/ TakeTick \/ TakeDebounce \/ TakeEvent \/ TakeError

Next ==
    \/ World
    \/ RunStep
    \/ \E r \in Refreshers : Click(r) \/ RefreshStep(r)

Spec == Init /\ [][Next]_vars

\* The ticker ticks; a refresh that has begun ends; a mutex that is given back
\* again and again is not withheld from one goroutine for ever (sync.Mutex);
\* select chooses at random among the cases that are ready, so none of them is
\* passed over for ever.
Fairness ==
    /\ WF_vars(Tick)
    /\ WF_vars(StartWatching \/ MainStops)
    /\ SF_vars(TakeTick)
    /\ \A r \in Refreshers :
           /\ SF_vars(LockRefresh(r))
           /\ WF_vars(IndexSucceeds(r) \/ IndexExpires(r))
           /\ WF_vars(Publish(r))

FairSpec == Spec /\ Fairness

-----------------------------------------------------------------------------
Versions == 0..MaxVersion
Stats == {Blank} \cup Versions

Refreshing(r) == pc[r] \in {"index", "publish"}

TypeOK ==
    /\ disk \in Versions
    /\ watching \in BOOLEAN
    /\ event \in {None} \cup [version : Versions, log : BOOLEAN]
    /\ watchErr \in BOOLEAN
    /\ tick \in BOOLEAN
    /\ timer \in {"nil", "armed", "fired", "drained"}
    /\ debounce \in BOOLEAN
    /\ pc \in [Refreshers -> {"idle", "lock", "index", "publish", "addtree",
                              "select", "failed", "returned"}]
    /\ refreshMu \in {None} \cup {r \in Refreshers : Refreshing(r)}
    /\ base \in [Refreshers -> Versions]
    /\ got \in [Refreshers -> [stats : Stats, err : BOOLEAN]]
    /\ index \in Versions
    /\ stats \in Stats
    /\ lastErr \subseteq {"scan", "watcher"}
    /\ refreshed \in BOOLEAN
    /\ ctxDone \in BOOLEAN
    /\ faults \in 0..MaxFaults
    /\ heard \in Versions
    /\ covered \in Versions

\* When no refresh is under way, what readers are shown is what the index
\* holds (or the empty Stats of an expired one): the refreshes of the loop and
\* of the tray never publish in another order than they worked in.
SnapshotIsIndex ==
    refreshed /\ (\A r \in Refreshers : ~Refreshing(r)) => stats \in {Blank, index}

\* Readers are never left with empty usage and no warning: an expired refresh
\* says so until another refresh has succeeded, whatever the watcher reports
\* in between.
BlankHasWarning == refreshed /\ stats = Blank => "scan" \in lastErr

\* A log the watcher told the loop of has been looked at since, or is going to
\* be: the debounce timer runs and the loop listens to it, or the loop is on
\* its way into a refresh.
EventNotForgotten ==
    \/ heard <= covered
    \/ debounce /\ timer \in {"armed", "fired"}
    \/ pc[Loop] = "lock"

\* Every change of the logs reaches the published statistics, also one no
\* watcher event announced, one that came while the watcher was being set up,
\* or one whose refresh expired; unless the application ends.
ChangeIsPublished ==
    \A v \in Versions : disk >= v ~> stats >= v \/ ctxDone

Usage == INSTANCE PublishedUsage WITH read <- index, warned <- lastErr # {}

\* What the readers see of the loop, the tray's refreshes and the watcher
\* together is usage as PublishedUsage promises it: at every step that of the
\* logs the index has read, or empty with an error, both changed at once.
ImplementsPublishedUsage == Usage!UsageSpec
=============================================================================
