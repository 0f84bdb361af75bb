SPECIFICATION FairClientSpec
CONSTANTS
    Enabled = {"codex"}
    Sessions = {}
    Loop = loop
    Clicks = {c1}
    MaxTime = 1
    MaxWindow = 1
    MaxFaults = 2
    MaxNotes = 1
    Unavailable = unavailable
    Failed = failed
    Pending = pending
    None = none
INVARIANTS
    ClientTypeOK
    ServerReaped
PROPERTIES
    LossIsShown
    ImplementsTracker
