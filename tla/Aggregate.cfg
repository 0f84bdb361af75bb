CONSTANTS
    m1 = m1
    m2 = m2
    Models <- TwoModels
    Rates <- OneKnown
    ClaudeCounts <- TwoOfClaude
    CodexCounts <- TwoOfCodex
    HoursPerDay = 2
    WeekDays = 2
    MonthDays = 3
    ChartRows = 1
    Zone = 1
    Start = 6
    MaxTime = 8
    MaxEvents = 2
SPECIFICATION Spec
INVARIANTS TotalsAgree ChartsCoverPeriod TabsDifferByTheFuture CompositionAddsUp EstimateIsOfParts
CHECK_DEADLOCK FALSE
