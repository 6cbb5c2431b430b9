CONSTANTS
    Contracts = {C}
    Keys = {K}
    MaxHeight = 3
    MaxChanges = 2
    None = None
SPECIFICATION FairSpec
CHECK_DEADLOCK FALSE
INVARIANTS
    UpToDateAfterPoll
PROPERTIES
    Settles
