SPECIFICATION FairAppSpec
CONSTANTS
    Clicks = {k1, k2}
    Main = main
    Instances = {s1, s2}
    MaxRequests = 1
    Free = Free
    Other = Other
    None = None
INVARIANTS
    OneInstance
    StopIsAnswered
    PortGivenBack
    StatusIsCurrent
    RunsOnWholeSettings
PROPERTIES
    ImplementsLifecycle
    StopCompletes
    EndsWhenTold
    MenuIsUsable
CHECK_DEADLOCK FALSE
