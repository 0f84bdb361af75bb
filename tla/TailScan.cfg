SPECIFICATION Spec
CONSTANTS
    Lines <- MCLines
    MaxLine = 4
    BufSize = 2
    MaxLines = 3
    MaxAborts = 1
INVARIANTS
    EveryRecordOnce
    TailNotHeldBack
    OversizedOnce
