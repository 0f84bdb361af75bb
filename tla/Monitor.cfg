SPECIFICATION FairSpec
CONSTANTS
    Loop = loop
    Clicks = {c1}
    MaxVersion = 1
    MaxFaults = 1
    None = none
INVARIANTS
    SnapshotIsIndex
    BlankHasWarning
    EventNotForgotten
PROPERTIES
    ChangeIsPublished
    ImplementsPublishedUsage
