SPECIFICATION Spec
CONSTANTS
    Paths <- CodexPair
    RootOf <- CodexPairRoots
    ArchivedAs <- CodexPairArchive
    Inodes = {i1, i2, i3}
    Records = {r1, r2}
    AnchorLen = 1
    Rewrites = "never"
    MaxLen = 2
    MaxWrites = 4
    MaxFaults = 1
    None = None
SYMMETRY Interchangeable
INVARIANTS
    Faithful
    CleanReturnCountsOnce
    SettledIsExact
