------------------------------ MODULE Aggregate ------------------------------
(***************************************************************************)
(* What is made of the events of all logs: aggregate (internal/parser/     *)
(* scanner.go) sorts each event into the totals of the periods, providers, *)
(* models, days and hours it belongs to; the page (web/static/app.js)      *)
(* draws those totals later, by its own clock.  The two have to agree on   *)
(* what a day and a period are, across midnight and for events dated in    *)
(* the future, and what is drawn has to add up.                            *)
(*                                                                         *)
(* The unit of time is an hour, that of money a twentieth of a rate's.     *)
(* Reasoning tokens are added up like the others and left out.  A row no   *)
(* event belongs to is read as zeros.                                      *)
(***************************************************************************)
EXTENDS Integers, Sequences, FiniteSets, Functions

CONSTANTS
    Models,
    Rates,          \* modelRates: the rates of the models pricing.go knows
    ClaudeCounts,   \* bound: token counts of a record, as logged
    CodexCounts,    \* bound
    HoursPerDay,    \* 24
    WeekDays,       \* 7
    MonthDays,      \* 30, in scanner.go and again in app.js
    ChartRows,      \* 60 bars of the all-time chart
    Zone,           \* hours the local time is ahead of UTC
    Start,          \* when the program starts
    MaxTime,        \* bound: the clock
    MaxEvents       \* bound

\* Cache writes that last longer do not cost less (claudeRates; the others are 0).
ASSUME RatesAssumption ==
    /\ IsFiniteSet(Models) /\ DOMAIN Rates \subseteq Models
    /\ \A m \in DOMAIN Rates :
          /\ Rates[m] \in [input : Nat, output : Nat, cacheRead : Nat, write5m : Nat, write1h : Nat]
          /\ Rates[m].write5m <= Rates[m].write1h

\* Counts are taken as zero when they are negative (nonNegative).
ASSUME CountsAssumption ==
    /\ ClaudeCounts \subseteq [input : Nat, output : Nat, cacheRead : Nat, cacheWrite : Nat,
                                oneHour : Nat, fiveMin : Nat, cost : Nat \cup {-1}]
    /\ CodexCounts \subseteq [input : Nat, output : Nat, cached : Nat]
ASSUME PeriodsAssumption ==
    /\ {HoursPerDay, WeekDays, MonthDays, ChartRows} \subseteq Nat \ {0}
    /\ WeekDays <= MonthDays
ASSUME TimeAssumption ==
    /\ {Zone, MaxTime, MaxEvents} \subseteq Nat
    /\ Start \in 0..MaxTime

VARIABLES
    events,     \* what the index holds, in the order of the logs
    now,        \* the clock of the program and of the page
    known,      \* history: the events of the last refresh
    generated,  \* Stats.GeneratedAt
    stats       \* the totals of the last refresh

vars == <<events, now, known, generated, stats>>

Claude == "claude"
Codex == "codex"
Providers == {Claude, Codex}
Times == 0..MaxTime
Days == 0..((MaxTime + Zone) \div HoursPerDay)
Hours == 0..(HoursPerDay - 1)
Fields == {"input", "output", "cacheRead", "cacheWrite", "processed", "priced", "records", "cost"}
Zero == [f \in Fields |-> 0]

-----------------------------------------------------------------------------
(* Events, as the parsers make them.                                       *)

\* Faulty: cached tokens are taken as they are logged.
CachedAsLogged(cached, input) == cached

\* parseCodexTokenCount: cached tokens are part of the input.
CachedOf(cached, input) == IF cached < input THEN cached ELSE input

\* claudeRates: writing to the cache costs more, reading from it less.
claudeRates(input, output) ==
    [input |-> 20 * input, output |-> 20 * output, cacheRead |-> 2 * input,
     write5m |-> 25 * input, write1h |-> 40 * input]

Smaller(a, b) == IF a < b THEN a ELSE b
Larger(a, b) == IF a > b THEN a ELSE b

priceClaude(r, c, cacheWrite) ==
    LET write1h == Smaller(c.oneHour, cacheWrite)
    IN  c.input * r.input + c.output * r.output + c.cacheRead * r.cacheRead
        + (cacheWrite - write1h) * r.write5m + write1h * r.write1h

\* Faulty: cached input is charged at both rates.
PriceCachedTwice(r, input, output, cached) ==
    input * r.input + cached * r.cacheRead + output * r.output

priceCodex(r, input, output, cached) ==
    (input - cached) * r.input + cached * r.cacheRead + output * r.output

\* parseClaude: the cache writes are given as a whole and by lifetime, and
\* either may be missing; a cost in the log (else NoCost) goes before the rates.
NoCost == -1
ClaudeEvent(m, t, c) ==
    LET cacheWrite == Larger(c.cacheWrite, c.oneHour + c.fiveMin)
    IN  [provider |-> Claude, model |-> m, time |-> t, input |-> c.input,
         output |-> c.output, cacheRead |-> c.cacheRead, cacheWrite |-> cacheWrite,
         own |-> c.cost # NoCost, priced |-> c.cost # NoCost \/ m \in DOMAIN Rates,
         cost |-> IF c.cost # NoCost THEN c.cost
                  ELSE IF m \in DOMAIN Rates THEN priceClaude(Rates[m], c, cacheWrite) ELSE 0]

CodexEvent(m, t, c) ==
    LET cached == CachedOf(c.cached, c.input)
    IN  [provider |-> Codex, model |-> m, time |-> t, input |-> c.input,
         output |-> c.output, cacheRead |-> cached, cacheWrite |-> 0,
         own |-> FALSE, priced |-> m \in DOMAIN Rates,
         cost |-> IF m \in DOMAIN Rates THEN priceCodex(Rates[m], c.input, c.output, cached)
                  ELSE 0]

\* own tells that the log gave the cost; the program forgets it.
Events ==
    {ClaudeEvent(m, t, c) : m \in Models, t \in Times, c \in ClaudeCounts}
    \cup {CodexEvent(m, t, c) : m \in Models, t \in Times, c \in CodexCounts}

\* Event.ProcessedTokens
ProcessedTokens(e) ==
    IF e.provider = Claude THEN e.input + e.output + e.cacheRead + e.cacheWrite
    ELSE e.input + e.output

\* addEvent
Add(total, e) ==
    [f \in Fields |->
        total[f] + CASE f = "processed" -> ProcessedTokens(e)
                     [] f = "priced" -> IF e.priced THEN ProcessedTokens(e) ELSE 0
                     [] f = "records" -> 1
                     [] OTHER -> e[f]]

-----------------------------------------------------------------------------
(* aggregate                                                               *)

\* In(location), and the layouts of the two kinds of rows.
DayOf(t) == (t + Zone) \div HoursPerDay
HourOf(t) == (t + Zone) % HoursPerDay

\* todayStart, and AddDate(0, 0, -days) from it.
StartOf(clock, days) == (((clock + Zone) \div HoursPerDay) - days) * HoursPerDay - Zone

\* Faulty: thirty days before today.
DailyStartEarly(clock) == StartOf(clock, MonthDays)

DailyStart(clock) == StartOf(clock, MonthDays - 1)

\* addConsumptionEvent: the period's totals, models and timeline.
Ledger(e, period, row) ==
    {<<e.provider, period, "totals">>,
     <<e.provider, period, "models", e.model>>,
     <<e.provider, period, "timeline", row>>}

\* Faulty: the hours are not cut off at the present.
RowsWithLaterHours(e, clock) ==
    (IF e.time >= StartOf(clock, 0) THEN {<<"hourly", HourOf(e.time)>>} ELSE {})
    \cup (IF e.time >= StartOf(clock, 0) /\ e.time <= clock
          THEN {<<"today">>} \cup Ledger(e, "today", HourOf(e.time)) ELSE {})

TodayRows(e, clock) ==
    IF e.time >= StartOf(clock, 0) /\ e.time <= clock
    THEN {<<"today">>, <<"hourly", HourOf(e.time)>>} \cup Ledger(e, "today", HourOf(e.time))
    ELSE {}

\* Faulty: the days are not cut off at the present.
MonthRowsWithLaterDays(e, clock) ==
    IF e.time >= DailyStart(clock)
    THEN {<<"daily", DayOf(e.time)>>} \cup Ledger(e, "last30Days", DayOf(e.time))
    ELSE {}

MonthRows(e, clock) ==
    IF e.time < DailyStart(clock) THEN {}
    ELSE {<<"daily", DayOf(e.time)>>}
         \cup (IF e.time <= clock THEN Ledger(e, "last30Days", DayOf(e.time)) ELSE {})

\* The totals one turn of the loop adds an event to.
RowsOf(e, clock) ==
    {<<"allTime">>, <<"providers", e.provider>>, <<"models", e.model>>}
    \cup Ledger(e, "allTime", DayOf(e.time))
    \cup (IF e.time >= StartOf(clock, WeekDays - 1) /\ e.time <= clock
          THEN {<<"last7Days">>} ELSE {})
    \cup TodayRows(e, clock) \cup MonthRows(e, clock)

Periods == {"today", "last30Days", "allTime"}
RowsIn(period) == IF period = "today" THEN Hours ELSE Days

At(totals, r) == IF r \in DOMAIN totals THEN totals[r] ELSE Zero

\* One turn of the loop.
AddEvent(totals, e, clock) ==
    [r \in RowsOf(e, clock) \cup DOMAIN totals |->
        IF r \in RowsOf(e, clock) THEN Add(At(totals, r), e) ELSE totals[r]]

aggregate(list, clock) ==
    LET totals[n \in 0..Len(list)] ==
            IF n = 0 THEN <<>> ELSE AddEvent(totals[n - 1], list[n], clock)
    IN  totals[Len(list)]

-----------------------------------------------------------------------------
Init ==
    /\ events = <<>>
    /\ now = Start
    /\ known = <<>>
    /\ generated = Start
    /\ stats = aggregate(<<>>, Start)

\* A log gains a record, which may be older than those of other logs, or be
\* dated in the future by a machine whose clock is ahead.
Log(e) ==
    /\ Len(events) < MaxEvents
    /\ events' = Append(events, e)
    /\ UNCHANGED <<now, known, generated, stats>>

TimePasses ==
    /\ now < MaxTime
    /\ now' = now + 1
    /\ UNCHANGED <<events, known, generated, stats>>

Refresh ==
    /\ stats' = aggregate(events, now)
    /\ known' = events
    /\ generated' = now
    /\ UNCHANGED <<events, now>>

Next == (\E e \in Events : Log(e)) \/ TimePasses \/ Refresh

Spec == Init /\ [][Next]_vars

-----------------------------------------------------------------------------
(* The page.  What it draws is a function of the statistics and its clock. *)

Sum(rows) == [f \in Fields |-> SumFunction([r \in rows |-> At(stats, r)[f]])]

\* buildDailySeries: the columns of the daily charts.
Columns == {d \in Days : DayOf(now) - MonthDays < d /\ d <= DayOf(now)}

\* renderCharts
DailyChart == {<<"daily", d>> : d \in Columns}
HourlyChart == {<<"hourly", h>> : h \in Hours}

\* The days of the all-time ledger that have a row, and the newest of them.
ActiveDays(p) == {d \in Days : <<p, "allTime", "timeline", d>> \in DOMAIN stats}
Newest(days) == {d \in days : Cardinality({x \in days : x > d}) < ChartRows}

\* consumptionTimeline, with the cut renderConsumptionMetricChart makes.
Timeline(p, period) ==
    {<<p, period, "timeline", row>> :
        row \in CASE period = "today" -> Hours
                  [] period = "last30Days" -> Columns
                  [] period = "allTime" -> Newest(ActiveDays(p))}

\* "Latest n active days" is written beside the chart.
IsCut(p) == Cardinality(ActiveDays(p)) > ChartRows

\* tokenCompositionParts: what is not output nor cache is fresh input.
Positive(n) == IF n > 0 THEN n ELSE 0
Parts(t) ==
    <<Positive(t["processed"] - t["output"] - t["cacheRead"] - t["cacheWrite"]),
      t["cacheRead"], t["cacheWrite"], t["output"]>>

-----------------------------------------------------------------------------
(* What the loop should have added up, told from the events themselves.    *)

SumOf(list, Counts(_)) ==
    [f \in Fields |->
        SumFunction([i \in {j \in DOMAIN list : Counts(list[j])} |-> Add(Zero, list[i])[f]])]

AtMost(a, b) == \A f \in Fields : a[f] <= b[f]

\* Each tab adds up to the others: by provider, by model, by hour and by day
\* the same tokens are told, and no period tells more than a longer one.
TotalsAgree ==
    LET all == At(stats, <<"allTime">>)
        today == At(stats, <<"today">>)
        week == At(stats, <<"last7Days">>)
        totals(p, period) == At(stats, <<p, period, "totals">>)
    IN
    /\ all = Sum({<<"providers", p>> : p \in Providers})
    /\ all = Sum({<<"models", m>> : m \in Models})
    /\ all = Sum({<<p, "allTime", "totals">> : p \in Providers})
    /\ today = Sum({<<p, "today", "totals">> : p \in Providers})
    /\ today = Sum(HourlyChart)
    /\ AtMost(today, week) /\ AtMost(week, all)
    /\ \A p \in Providers :
          /\ AtMost(totals(p, "today"), totals(p, "last30Days"))
          /\ AtMost(totals(p, "last30Days"), totals(p, "allTime"))
          /\ \A period \in Periods :
                /\ totals(p, period) = Sum({<<p, period, "models", m>> : m \in Models})
                /\ totals(p, period) =
                      Sum({<<p, period, "timeline", row>> : row \in RowsIn(period)})

\* The bars of a chart are the period its totals are given for: while the day
\* of the statistics lasts no event of the last thirty days has lost its bar,
\* after midnight those of the days before remain where they were, and the
\* all-time chart leaves days out only where it says so.
ChartsCoverPeriod ==
    \A p \in Providers :
        /\ DayOf(now) = DayOf(generated) =>
              Sum(Timeline(p, "last30Days")) = At(stats, <<p, "last30Days", "totals">>)
        /\ Sum(Timeline(p, "last30Days")) =
              SumOf(known, LAMBDA e : /\ e.provider = p
                                      /\ e.time \in StartOf(now, MonthDays - 1)..generated)
        /\ Sum(Timeline(p, "today")) = At(stats, <<p, "today", "totals">>)
        /\ \/ IsCut(p)
           \/ Sum(Timeline(p, "allTime")) = At(stats, <<p, "allTime", "totals">>)

\* The daily chart of the overview and the thirty days of the two providers
\* tell the same but for events dated after the refresh: those are in the
\* chart as soon as their day has a column, and in no period's totals.
TabsDifferByTheFuture ==
    Sum(DailyChart) =
        [f \in Fields |->
            Sum(Timeline(Claude, "last30Days"))[f] + Sum(Timeline(Codex, "last30Days"))[f]
            + SumOf(known, LAMBDA e : e.time > generated /\ DayOf(e.time) \in Columns)[f]]

\* What a bar is made of adds up to the bar, and no more of it is priced than
\* was processed, though the two providers count cached input differently.
CompositionAddsUp ==
    \A r \in DOMAIN stats :
        LET parts == Parts(stats[r])
        IN  /\ parts[1] + parts[2] + parts[3] + parts[4] = stats[r]["processed"]
            /\ stats[r]["priced"] <= stats[r]["processed"]
            /\ parts[1] = SumOf(known, LAMBDA e : r \in RowsOf(e, generated))["input"]
                           - SumOf(known, LAMBDA e : /\ r \in RowsOf(e, generated)
                                                     /\ e.provider = Codex)["cacheRead"]

\* The estimate beside a model is that of the parts drawn for it: no cached
\* token is charged as fresh input too, and every cache write at one of its two
\* rates, however the log splits them.  (A cost the log gives is taken as it is.)
EstimateIsOfParts ==
    \A p \in Providers, period \in Periods, m \in DOMAIN Rates :
        LET row == <<p, period, "models", m>>
            total == At(stats, row)
            parts == Parts(total)
            others == parts[1] * Rates[m].input + parts[2] * Rates[m].cacheRead
                      + parts[4] * Rates[m].output
        IN  (\A i \in DOMAIN known : row \in RowsOf(known[i], generated) => ~known[i].own) =>
                /\ total["cost"] >= others + parts[3] * Rates[m].write5m
                /\ total["cost"] <= others + parts[3] * Rates[m].write1h
=============================================================================
