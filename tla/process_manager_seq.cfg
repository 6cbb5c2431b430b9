CONSTANTS
    Ids = {i1, i2}
    Procs = {o1, o2}
    Children = {c1, c2, c3}
    Calls = {k1}
    None = None
    Ops = {"start", "run", "stop", "remove", "restart", "stopAll", "cleanup", "terminate"}
SPECIFICATION FairSpec
CHECK_DEADLOCK FALSE
INVARIANTS
    Tracked
    ExitLeavesNoChild
PROPERTIES
    CleanupEnds
