CONSTANTS
    Ids = {i1}
    Procs = {o1, o2}
    Children = {c1, c2, c3}
    Calls = {k1, k2}
    None = None
    Ops = {"start", "run", "stop", "restart", "stopAll"}
SPECIFICATION FairSpec
CHECK_DEADLOCK FALSE
INVARIANTS
    RunningHasChild
    NothingLost
PROPERTIES
    CallsReturn
