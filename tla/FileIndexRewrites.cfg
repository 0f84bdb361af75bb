SPECIFICATION FairSpec
CONSTANTS
    Paths <- OneOfEach
    RootOf <- OneOfEachRoots
    ArchivedAs <- OneOfEachArchive
    Inodes = {i1}
    Records = {r1, r2}
    AnchorLen = 1
    Rewrites = "idle"
    MaxLen = 3
    MaxWrites = 4
    MaxFaults = 1
    None = None
INVARIANT
    SettledTailIsExact
PROPERTY
    Converges
