SPECIFICATION ClientSpec
CONSTANTS
    Enabled = {"claude", "codex"}
    Sessions = {s1}
    Loop = loop
    Clicks = {c1}
    MaxTime = 1
    MaxWindow = 1
    MaxFaults = 0
    MaxNotes = 0
    Unavailable = unavailable
    Failed = failed
    Pending = pending
    None = none
INVARIANTS
    ShownIsBest
    UnavailableStaysUnavailable
PROPERTY
    SnapshotsMoveForward
