# Verification of AgentsUsage

AgentsUsage reads the session logs that Claude Code and Codex leave on disk,
adds up the tokens they report, asks both providers for the state of their
usage limits, and shows the result in a tray menu and a local web page. This
directory holds TLA+ models of its parts, the TLC runs that check them and the
TLAPS proofs about them. `PROJECT.json` lists the runs, maps each definition
to the lines it was translated from, and lists the hazards the properties are
aimed at.

    tlc -config FileIndexAppend.cfg MCFileIndex.tla     # model-check one run
    tlapm FileIndexProofs.tla                           # check proofs

## The system

| Component | State | Operations | Talks to | Modules |
|---|---|---|---|---|
| Index (`parser/index.go`, discovery in `scanner.go`) | two caches, path to entry: stamp, identity, cursor, parsed records | `Refresh`: list, then stat, compare, read, stat again for each file, prune | the file system; the scanner; called by the monitor | FileIndex |
| Tail scanner (`parser/tail.go`) | cursor: offset, unfinished line, discarding, anchor window | `scanJSONLTail`, `cursorMatchesFile` | called by the index, calls the parsers | TailScan, FileIndex |
| Codex parser (`parser/codex.go`) | model, high water, signatures by rate limit, last quota | `parseCodexTokenCount` for each record, `cloneCodexState` for each refresh | returns events to the index | CodexUsage, Aggregate |
| Claude parser (`parser/claude.go`) | none | `parseClaudeLine`, `dedupeClaude` over all logs | returns candidates to the index | ClaudeDedupe, Aggregate |
| Aggregation, pricing (`scanner.go`, `pricing.go`) | none | functions of events and time | end of `Indexer.Refresh` | Aggregate |
| Monitor (`parser/watcher.go`) | published `Stats`, error, time; watcher, ticker, debounce timer | `Run`, `Refresh`, readers | the tray's goroutines, HTTP handlers, `main` | Monitor, PublishedUsage |
| Quota tracker, selection (`quota/tracker.go`, `parser/limits.go`) | last snapshot of each provider | `Run`, `Refresh`, `Snapshot`, `LiveQuotaSnapshots` | the two clients, the monitor | QuotaTracker |
| Clients (`quota/claude.go`, `quota/codex.go`) | none between two fetches | `Fetch` | HTTPS; the `codex app-server` process over its input and output | QuotaTracker, CodexLimits |
| Controller, server (`service/`, `server/server.go`) | state, address, error, cancel, done; listener and requests | `Start`, `Stop`, `Serve` | tray, `main`, browsers | Controller, ServiceLifecycle |
| Tray, configuration, `main` (`tray/`, `config/`, `cmd/`) | menu; `config.json` | clicks, the menu's ticker, first-run save, shutdown | all of the above | Application |
| Handlers and page (`server/handlers.go`, `web/static/app.js`) | what the page has rendered | `refresh` every ten seconds, the charts | the monitor, through two requests | Dashboard, Aggregate |

What is hard to test in it:

* **Files change under the reader.** A refresh makes several system calls for
  each file, and any other process may act between two of them. The index
  decides by identity, size, time and a window of bytes whether it may read on
  from where it was.
* **State carried across refreshes.** Half a line, an oversized line, the
  totals of a Codex session: each must survive a refresh that is kept, and be
  untouched by one that is thrown away.
* **Counting once.** Claude logs a response several times in several files;
  Codex repeats records, and counts cached tokens as input where Claude does
  not. Too much or too little is not visible in the output.
* **Goroutines.** The monitor's loop, the tracker's loop and any number of
  manual refreshes share an index and two snapshots; clicks, the serving
  goroutine, its shutdown goroutine and `main` share a controller.
* **Another process.** The app-server may answer late, wrongly or not at all,
  and must be gone when its fetch is; another start of the program may be
  writing the configuration this one reads.
* **Two clocks.** The page draws, by its own clock and possibly after midnight,
  totals that were sorted by the program's; its refreshes overlap, and one of
  their two requests may fail.
* **Time.** Debounce, tickers, a two-minute deadline, shutdown and stop
  timeouts, windows that expire while they are held.

What makes each part correct: the *index* counts every live log exactly once
and is equal to the disk after a quiet refresh; the *scanner* delivers every
record once however the bytes arrive; the *parsers* charge every response and
every turn once; the *aggregation* tells the same tokens in every tab and chart;
the *monitor* publishes every change, in order, with a warning when what it
shows is empty; the *tracker* never shows limits it has been told are gone, nor
goes back to an older answer; the *Codex client* ends, with its app-server; the
*controller* runs one server at a time, answers every stop, and holds the port
only while it runs; the *application* runs on a whole configuration and ends
when it is told to; the *page* comes to show what is published, or that it has
lost its server.

## Modules

    FileIndex      TailScan      CodexUsage   ClaudeDedupe   Aggregate
        :  (what a refresh of the index promises)
    Monitor  --implements-->  PublishedUsage  <--extends--  Dashboard
    QuotaTracker  <--extends, implements--  CodexLimits
    ServiceLifecycle  <--implements--  Controller  <--extends--  Application

Each has a module `MC...` with the definitions its configurations use;
Controller is run as a part of Application, QuotaTracker as a part of
CodexLimits.

### FileIndex (MCFileIndex, FileIndexProofs)

`Indexer.Refresh` with both passes, one action per system call in the order of
the code: `Discover`, `StatFile`, `MatchAnchor`, `OpenFile`, `ReadRecord`,
`ReachEOF`, `ReadAnchor`, `PostStat`, `Prune`, `Return`. Between any two of them
the writers act: they append, create or replace a file, delete it, archive a
session, or rewrite a log in place. I/O errors and an expired context can come
at every step where the code handles them. A log is a sequence of records and an
offset is a number of records. `cache[p]` stands for `Indexer.claude[p]` or
`Indexer.codex[p]`; the two passes have the same text in the source and run the
same actions here.

Environment assumptions, each a guard of a writer's action: every change of a
file gives it a later modification time; a file identity is not used twice; only
archiving puts a file in the archive; a session's name, which contains its id,
is not used again once it has been archived, and no two sessions have the same
archive name. The last two are needed by `CleanReturnCountsOnce` (without them a
file can really be listed twice or be hidden). In-place rewriting is a constant:
`never`, `idle` (between refreshes) or `anytime`.

### TailScan (MCTailScan, TailScanProofs)

The scanner on bytes: a writer appends lines in pieces of any size, a scan takes
one `ReadSlice` per step (`ReadLine`, `ReadPart` for a full buffer, `ReachEOF`),
and the indexer keeps or discards its result (`Abort`). The alphabet is what the
scanner tells apart. Assumption `NoEarlyObject` says that a line is an object,
blank, or garbage that does not begin with an object; the programs that write
the logs put one object on a line. FileIndex relies on what is checked here:
that a log may be taken for a sequence of records.

### CodexUsage (MCCodexUsage, CodexUsageProofs) and ClaudeDedupe (MCClaudeDedupe)

`CodexUsage` is one session: Codex ends turns and repeats records, refreshes
clone the state, parse record by record, and commit or discard. The ghost field
`used` says what the session has really used. Repetitions are of the record just
written, under any rate limit, or of the last record of one rate limit. What the records of a
session carry is chosen once, from `Mixtures`. Two things are deliberately
outside: an older record repeated under a rate limit
that has not been seen before is charged again if it carries
`last_token_usage`, and records with only `last_token_usage` mixed with records
with only totals are charged twice, because the former do not raise the high
water. Counters that restart are outside too. None of this is claimed by the
code or its tests.

`ClaudeDedupe` has the candidates of each log as its only state; every refresh
runs `dedupeClaude` over all of them, so the module checks the function, written
as the loop it is, against a declarative definition of "one response", after
each append. `UsageNeverShrinks` is about the sum over all appends. Its theorems
are in TotalsProofs.

### Aggregate (MCAggregate, TotalsProofs)

What is made of the events: the event a line of each log becomes with its cost
(`parseClaudeLine`, `parseCodexTokenCount`, `priceClaude`, `priceCodex`), the rows
each event is added to (`aggregate`), and what the page makes of the rows by its
own clock (`buildDailySeries`, the timelines of the Consumption tab, its hourly
chart and composition). Events arrive with any time up to the last clock,
so some are dated in the future; the clock moves on between refreshes and looks,
over midnight. Statistics are a function from rows to totals, and a row that
is missing reads as zeros, as in Go and in the page.

The unit of time is an hour, and that of money is small enough that nothing is
rounded: a twentieth of a rate's, so that the cache multipliers (1.25, 2, 0.1) are
whole numbers, in the run; any, in the proofs, where rates are natural numbers. A
day has the same number of hours always.

### Monitor (MCMonitor, MonitorProofs) and PublishedUsage

`Monitor.Run` with its select loop, `Monitor.Refresh` as called by the loop and
by the tray, the fsnotify channels, the ticker and the debounce timer with the
states its channel can be in, and `main` taking the application down when the
monitor fails. The logs are a version number and the index is what FileIndex
shows of it: without an error it has seen at least what was on disk when the
refresh began.

`PublishedUsage` is what the readers of the monitor are promised: what is read
only moves forward, a refresh publishes that or empty statistics with a warning,
statistics and warning change together. Monitor implements it under
`read <- index`, `warned <- lastErr # {}`; checked by TLC and proved.

### Dashboard (MCDashboard, DashboardProofs)

The page, as a reader of PublishedUsage: `Ask` is one call of `refresh`, whose
two requests are handled, answered, lost or cut off separately and in any order
(`AnswerStatus`, `AnswerStats`, `RequestFails`), `Render` what it does with both
answers, `Disconnect` with a failure. The server is stopped and started under it, and
calls overlap. `since` is a history variable: what was published when a call
began.

### QuotaTracker and CodexLimits (MCCodexLimits, QuotaProofs)

The poll loop and manual refreshes of `Tracker`, both fetchers as the points at
which they read the credential, send, and stamp the answer, `ErrUnavailable`
against other errors, and `LiveQuotaSnapshots` where it is called: when the
index is refreshed (over a map, so in any order) and again when the limits are
shown.

`CodexLimits` extends it with the inside of the Codex client (a fetch of the Claude
client stays as it is, `AskClaude` and `ClaudeAnswers`): start the command,
`initialize`, read until the reply with its id, ask for the limits, read again,
close the input, kill and wait. The app-server answers requests in their order
and may notify in between; while faults are left it answers with an error or
rubbish, falls silent, or ends. The deadline of twenty seconds may pass at any
step. `ImplementsTracker` is the specification of QuotaTracker with its fairness:
the exchange refines the two points `Send` and `Receive` of a fetch, and ends.
The command is taken for the app-server itself: if it were a wrapper that leaves
its output to a child, the kill would not end the read (see the hazards).

### Controller (ControllerProofs), ServiceLifecycle and Application (MCApplication)

`Controller` has one action per critical section of `Start`, `Stop` and the
serving goroutine, `Server.Serve` and its shutdown goroutine, `toggleServer`
reading the status before it acts on it, the main goroutine's deferred stop,
requests in flight, and another process that takes the port. An *instance* is
everything one start creates; it is used again when nothing refers to it.
`ServiceLifecycle` is the abstract specification: a phase, and who holds the
port. `Controller` implements it under the mapping `phase <- state`, `lease` <-
the port with all instances taken as ours; checked by TLC and proved.

`Application` extends it with `run` from `Load` to the deferred stop: the
configuration that is missing, cut off, invalid or whole, written in place
(`Truncate`, `Write`) while another start does the same or the user mends the
file; `-no-tray`; the start by `server.autoStart` or `-start`, whose error ends the
program without a tray and is shown by it with one; the icon, the Start/Stop item
with the moment at which it was last drawn, Quit, signals and the end of the
monitor. Whether a configuration starts the server is chosen when it is read.
What goroutines do after `main` has returned is not cut off, which only adds
behaviours.

## Runs

| Run | What it shows | Bounds, and why they are enough |
|---|---|---|
| `index_append` | `Faithful`, `CleanReturnCountsOnce`, `SettledIsExact` for logs that are not rewritten | a session and its archive name, three files, two record values, logs of two records, four changes, one fault: a file replaced, its successor appended to and archived during one refresh |
| `index_rewrites` | `SettledTailIsExact` when a log is rewritten between refreshes, `Converges` | one path under each root, so both passes and both Codex roots; logs of up to three records over a window of one, four changes, one fault: short logs are always exact, and rewrites that keep the window by chance occur |
| `index_truncate_race` | **violated**: see Findings | one log, two records, three changes |
| `tail_scan` | `EveryRecordOnce`, `TailNotHeldBack`, `OversizedOnce` | limit of four bytes, buffer of two, three lines out of eight: below, at and above the limit, CR LF, blank, torn, with two carriage returns; one scan thrown away |
| `codex_usage` | `UsageIsExact` for the mixtures of records that Codex writes | four records, two rate limits, increments of 0 and 1 in each kind: enough for a repeat after an intervening record of another limit; unreadable timestamps only where records carry totals alone |
| `claude_dedupe` | `OneChargePerResponse`, `UsageNeverShrinks` | three snapshots in two logs, one message, two requests, either missing: the third snapshot can undo the adoption of the first |
| `aggregate` | `TotalsAgree`, `ChartsCoverPeriod`, `TabsDifferByTheFuture`, `CompositionAddsUp`, `EstimateIsOfParts` | two events of either provider, days of two hours, weeks of two days, months of three, one bar of the all-time chart, a zone one hour ahead, clocks 6 to 8: each event may lie before, in, at the edge of and after every period, and midnight passes between a refresh and a look; a model with and one without a price; cached tokens above the input, cache writes given whole, by lifetime, or not adding up |
| `monitor` | `SnapshotIsIndex`, `BlankHasWarning`, `EventNotForgotten`, `ChangeIsPublished`, `ImplementsPublishedUsage` | the loop and one click, one change, one fault; events, ticks, errors and clicks are not bounded |
| `dashboard` | `RenderedIsFresh`, `PageCatchesUp`, `DisconnectIsShown` | two calls under way at once, two versions, publications, stops and starts without bound: the older call can end after the newer |
| `codex_limits` | `ClientTypeOK`, `ServerReaped`, `LossIsShown`, `ImplementsTracker` | Codex alone, whose exchange is what may not end; the loop and one click, two times, windows of one, two faults, one notification: a fault in a fetch and another in the next |
| `quota_shown` | `ShownIsBest`, `UnavailableStaysUnavailable`, `SnapshotsMoveForward` | both providers with the clients as in CodexLimits, a session log, the loop and one click, two times, windows that reset a step later or never, availability changing without bound: a snapshot and a session log can each be the better or have expired (for more than two values, `LiveQuotaIsBest`); without failing fetches, which keep what there was and occur in `codex_limits` |
| `application` | `OneInstance`, `StopIsAnswered`, `PortGivenBack`, `StatusIsCurrent`, `RunsOnWholeSettings`, `ImplementsLifecycle`, `StopCompletes`, `EndsWhenTold`, `MenuIsUsable` | two clicks and `main`, two instances, one request each: a start that overlaps with the shutdown of the last server and with a second start; files, signals and clicks are not bounded |

Values that a run treats alike are symmetric only in safety runs. The runs that
switch deadlock checking off are of logs that are full when their bound is
reached (`codex_usage`, `claude_dedupe`, `aggregate`) and of a program that ends
(`application`); everything else never stops by itself, or stutters explicitly
when its writers are done (`TailScan`). Where a type invariant is proved it is
not run as well; `ClientTypeOK` includes that of QuotaTracker.

### Fairness

* `Converges`: weak fairness of the refresh as a whole. The monitor's ticker
  refreshes again and again; nothing is assumed of writers and faults.
* `ChangeIsPublished`: the ticker ticks; a refresh ends; strong fairness of the
  ticker's branch, because Go's `select` chooses uniformly among the ready cases,
  so a case that is ready again and again is not passed over for ever; strong
  fairness of the mutex, because `sync.Mutex` hands itself to a waiter that has
  waited for a millisecond. No fairness for events or the debounce timer: the
  property holds without them.
* `LossIsShown`, `ImplementsTracker`: as above; a fetch ends because the
  app-server replies or is killed after 20 seconds (`Reply \/ Deadline`), and the
  HTTP client has a timeout of 15. Nothing else is assumed of the app-server.
* `StopCompletes`, `EndsWhenTold`, `MenuIsUsable`: runnable goroutines run, timers
  fire, the ticker of the menu ticks. Nothing is assumed of clicks, of the end of
  a request, or of other processes.
* `PageCatchesUp`, `DisconnectIsShown`: the timer of the page fires, requests are
  answered or fail, the page handles their answers. Nothing is assumed of the
  monitor or of who starts and stops the server: both properties have what they
  need of it as their premise.

## Findings

`README.md:16` of the repository says "Truncated, replaced, and deleted files
rebuild or leave the index cleanly." Run `index_truncate_race` shows one case in
which they do not: a log is truncated and rewritten in place while a refresh is
reading it. The check after the read accepts any file that is the same and not
shorter than the cursor, so the mixture of old and new records is stored under
the stamp taken after the rewrite, without an error, and all later refreshes skip
the file until it is written again.

Observed while modelling, and contradicting nothing the repository states:

* The overview's card of cached input (`app.js:614`) divides cached tokens by input
  plus cached tokens for both providers; for Codex the input includes them, which
  the Consumption tab (`app.js:295`) takes into account. The two shares differ.
* An event dated in the future is in the daily chart of the overview as soon as its
  day has a column, and in no period's totals; `TabsDifferByTheFuture` says that
  this is the only difference.
* A configuration that was cut off while it was first written makes every later
  start fail until the user mends or removes it.
* A manual refresh whose two minutes pass publishes empty statistics over good
  ones, with a warning, until the next refresh.

## Proofs

`FileIndexProofs` proves, for every set of paths and files and all bounds:

* `TypeCorrect`: `Spec => []TypeOK`.
* `IndexIsFaithful`: if logs are not rewritten in place, what the index holds for
  a path is at every step a prefix of the file it was read from. `Faithful` alone
  is not inductive: `PostStat` stores what was read from one file under the
  identity that a later `Stat` returns. `IInv` adds that a file has one name
  (`UniqueNames`), that no identity in use is new (`KnownAreBorn`), that an
  archived file does not return under a session's name (`NotUnarchived`), hence
  that a path which named the same file before the read and after it named it
  during the read as well (`SameThroughout`), and that the records read so far are
  a prefix of the file that is open (`ReadSoFar`).
* `CleanReturnCounts`: a refresh without an error has counted every log that was
  there throughout, with at least what it held at the beginning, and no file
  twice; for logs that are not rewritten while they are read. `CountInv` follows
  each file of the beginning through the two passes: it is counted, or a listed
  path still to be visited leads to it, or a root still to be listed has it
  (`Covered`), and what is counted is at its place, or at its archive name, which
  the second pass then leaves out (`Recorded`).
* `SettledIndexIsDisk`: if nothing was written during it either, the index is the
  disk. `QuietInv` adds that a quiet read has read to the end (`QuietRead`,
  `QuietWhole`).
* `SettledIndexEndsLikeDisk`: with logs rewritten between refreshes this holds of
  the number of records and of the end of each log, since an entry whose stamp is
  still that of its file has the file's window (`StampInv`).

`TailScanProofs` proves for any set of lines, any limit, any size of the buffer and
any number of lines and discarded scans: `TypeCorrect`, and the three properties
of the scanner (`EveryRecordIsDelivered`, `TailIsDelivered`,
`OversizedIsCounted`). `ScanInv` says of a number of bytes and of the records
delivered for them that the records are ordered, sound and complete, that the
oversized lines are counted, and that the line those bytes end in is held whole, or
skipped because it is too long, or already delivered. It holds of the cursor with
what succeeded, and of the running scan with that and its own, so nothing has to be
undone when a scan is thrown away. A line that was delivered early gives no second
record because the file holds lines of `Lines` only (`LinesOf`, `Writer`) and
`NoEarlyObject` leaves nothing but a carriage return after an object.

`CodexUsageProofs` proves type correctness and `ChargesAreExact`: a session of any
length over any rate limits is charged exactly what it used, provided that its
records are of a mixture that can be charged (`Chargeable`): not totals alone
together with `last_token_usage` alone, and unreadable timestamps only where all
records carry totals alone. The condition is not for convenience: TLC finds a
session that is charged wrongly for each of the smallest mixtures it excludes. The
invariant says what the state knows of the records read (`Knows`): the charge is
the largest usage seen and equals the high water where totals exist, and the
signatures held are those of the records that may still be repeated.

`ControllerProofs` proves for any number of clicks and instances, from one
inductive invariant (there is one starter at a time; the instance a starter has
bound or the fields refer to is the only one; the port is held by that instance
or by none of ours; a shutdown has a cause; who waits for an instance waits for
the current one or for one that has ended; an error is not kept past a start):

* `TypeCorrect`, and `OneInstanceAtATime`, `EveryStopIsAnswered`,
  `PortIsGivenBack`, `StatusStaysCurrent`: the safety properties of the controller.
* `Implementation`: `Spec => Lifecycle!Spec`, every step of the controller being a
  step of `ServiceLifecycle` or leaving phase and lease alone.

The same module proves that the program with its configuration, tray and menu
is a use of the controller, `AppSpec => Spec` (`UsesController`), so that all of
the above holds of it (`ApplicationIsSafe`); type correctness (`AppTypeCorrect`); and
`SettingsAreWhole`, by the invariant that nothing of the controller has been
touched before the configuration is read (`Untouched`).

`MonitorProofs` proves for any number of manual refreshes that the snapshot is what
the index holds, that empty statistics carry their warning, and that no event is
forgotten. The invariant: who refreshes holds the mutex (`OneRefresh`), what it is
about to publish is what the index holds (`AnswerIsCurrent`), the index and the
history do not run ahead of the disk (`IndexTrails`), nor does an event
(`EventsAreOld`). `Implementation` is `Spec => Usage!UsageSpec`.

`DashboardProofs` proves for any number of overlapping calls that none renders
anything older than what was published when it began (`RenderingsAreFresh`), from
two facts: nothing older than that is published after (`NothingOlderPublished`),
hence no answer is older (`AnswersAreFresh`).

`QuotaProofs` proves for any number of concurrent polls that limits found
unavailable are not put back by a poll that began before (`UnavailableStays`) and
that a snapshot is never replaced by an earlier one (`SnapshotsAreOrdered`). The
invariant: one poll at a time (`OnePoll`), which has learnt nothing before it has an
answer (`NothingLearnt`), known losses are real (`KnownIsGone`), and observations
come in the order of the polls (`InOrder`). `BestIsAlwaysShown` is `ShownIsBest`.
It rests on `LiveQuotaIsBest`: for any number of values in any order the loop of
`LiveQuotaSnapshots` ends with one that no other usable value is better than. This
is an induction on the number of values, stated as the absence of a least
counterexample (`Least`), which needs no operator as a parameter; the recursive
function is shown to exist in the same way (`LatestExists`). With it the types of
what the logs hold follow (`TypeCorrect`).

It also proves that the Codex client with its app-server implements the
tracker: `Implementation` is `ClientSpec => Spec`, the safety part of
`ImplementsTracker`, so the theorems about the tracker hold of it
(`ClientKeepsTracker`). The invariant `ClientInv` says where in the exchange the
client, the process and the two pipes can be together (`Positions`), that every
message on its way answers a request that was read and is wrong only if a fault or
the end of the context accounts for it (`AllExplained`, `Excused`). From it follow
`NoServerLeft` (`ServerReaped`) and `ClientTypeCorrect` (`ClientTypeOK`).

`TotalsProofs` is about what is added up, in Aggregate and in ClaudeDedupe. All of
it is about sums, and a sum of the community modules is a fold that chooses its
elements by `CHOOSE`. Such a recursion can be reasoned about only if it is known
to have a value, so the module first shows that the table of the sums of all
subsets exists and is the only one (`SumExists`, `SumUnique`), then what one
expects of sums: the order makes no difference (`SumSplit`), they may be compared,
added, scaled, divided between two sets, cut down to what counts, and taken under
other names (`SumAtMost` to `SumImage`). The inductions are over a set of naturals
or of subsets for which the claim holds (`Steps`, `SetSteps`, from the least
counterexample), since an induction theorem with an operator as its parameter
cannot be used here.

* Aggregate. `RowIs`: after the loop, a row has the sum of what the events that
  `RowsOf` puts there are worth, and exists only if there is one. `RowsAre`: rows
  that share no event have together what their events have. `StatsInv`, the
  inductive invariant, says that the statistics are `aggregate` of the events known
  at a time that is not in the future; TLC finds it true in `aggregate` as well.
  The invariants are then statements about sets of events, which the calendar
  (`PeriodsBegin`, `RowsOfIs`) decides: `TotalsAlwaysAgree`,
  `ChartsAlwaysCoverPeriod`, `TabsAlwaysDifferByTheFuture`. `CompositionAlwaysAddsUp`
  and `EstimateIsAlwaysOfParts` need in addition what the parsers promise of an
  event (`IsEvent`, proved of `ClaudeEvent` and `CodexEvent`): that Codex never
  reports more cached input than input, and what a cost is made of. They hold for
  any events in any order, any rates, any lengths of days and periods, any zone,
  and any time between a refresh and a look at the page.
* ClaudeDedupe. `KeysTell`: two snapshots have the same key, and one that
  identifies something, just when they are of one response. `Placed`, kept by every
  turn of the loop (`PlaceFirst`, `PlaceAgain`), says that there is a map from the
  snapshots seen to places in the result which has two at one place just when they
  are of one response, each place holding the most of its snapshots. Hence
  `ChargesAlwaysOnce`. For `UsageNeverShrinksEver`: the old list is embedded in the
  new one (`AllIsEmbedded`), what is one response in the longer list was one in the
  shorter (`SameBefore`: a new request parts snapshots and never joins them), so the
  most expensive snapshots of different old responses are in different new ones
  (`MoreIsCharged`).

The assumptions are the `ASSUME`s of the modules: that special values are
distinct, that bounds are natural numbers, that session logs are finitely many,
that archive paths lie in the archive and differ from each other, that lines hold no
line feed and no early object (TailScan); and for Aggregate that token counts are
natural numbers (`nonNegative` in the parsers), that models are finitely many, that
rates are natural numbers with writing to the cache for five minutes no dearer than
for an hour (`claudeRates`; Codex writes none), and that a week is no longer than a
month. No assumption limits the providers asked: the theorems about QuotaTracker and
CodexLimits hold whichever are enabled.

Every invariant and every action property the passing runs check is proved, and
the safety part of each refinement. Only model-checked: what is temporal with fairness
(the prover has neither liveness under fairness nor `ENABLED`), that is `Converges`,
`ChangeIsPublished`, `LossIsShown`, `StopCompletes`, `EndsWhenTold`, `MenuIsUsable`,
`PageCatchesUp`, `DisconnectIsShown` and the fairness in `ImplementsTracker`.

## Not modelled

* The table of prices and the spelling of model names, which are constants of
  Aggregate; rounding of floating point; reasoning tokens, which are added up like
  the others; the order of rows; days that are longer or shorter for daylight
  saving.
* Decoding of single fields of logs and answers, `normalizeClaudeWindows`, the single
  fields and paths of the configuration: functions of one value without state,
  under unit tests in the repository.
* Markup, labels, icons, opening a browser, HTTP headers other than `no-store`, the
  embedded files, the process flag of Windows: no state that interacts.
* Real time: that 350 ms, 5 s, 6 s, 15 s, 20 s and two minutes are in a useful
  relation to each other. Each timeout may come at any moment after it is set.
* Which directories the watcher watches: any event may be missing in Monitor,
  which includes those of a directory that is not watched.

## Order of the work, and what is left

The modules were written in the order in which a mistake would matter: index,
controller, scanner, monitor, parsers, quotas; then the application, the page, the
exchange with the app-server and the aggregation; then the proofs, those of the
sums last. What is left:

1. FileIndex shown to implement the index that Monitor assumes, with a version
   taken for the contents of all logs. So far `CleanReturnCounts` and
   `SettledIndexIsDisk` are the promise, and Monitor's `Refresh` takes it as given.
2. Days of unequal length in Aggregate: `StartOf` and `DayOf` would be given as two
   functions of the calendar, related by what `DayBegins` and `PeriodsBegin` state.
