CONSTANTS
    Loops = {l1}
    MaxHeight = 2
    MaxFork = 1
    MaxFailures = 2
    MaxWatched = 1
SPECIFICATION FairSpec
INVARIANTS
    NoGap
    InOrder
PROPERTIES
    ProcessedOnce
    CatchesUp
