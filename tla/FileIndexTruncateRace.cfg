SPECIFICATION Spec
CONSTANTS
    Paths <- OneClaude
    RootOf <- OneClaudeRoots
    ArchivedAs <- NoArchive
    Inodes = {i1}
    Records = {r1, r2}
    AnchorLen = 2
    Rewrites = "anytime"
    MaxLen = 2
    MaxWrites = 3
    MaxFaults = 0
    None = None
SYMMETRY Interchangeable
INVARIANTS
    SettledIsExact
