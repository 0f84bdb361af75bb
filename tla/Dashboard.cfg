SPECIFICATION FairSpec
CONSTANTS
    MaxVersion = 1
    Refreshes = {f1, f2}
    Pending = pending
    Failure = failure
PROPERTIES
    RenderedIsFresh
    PageCatchesUp
    DisconnectIsShown
