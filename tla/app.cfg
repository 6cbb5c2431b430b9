CONSTANTS
    Workspaces = {w1, w2}
    MaxSaves = 1
    Ids = {"emulator"}
    Procs = {o1, o2}
    Children = {c1, c2, c3}
    Calls = {h1, h2}
    Ops = {"start", "remove"}
    None = None
SPECIFICATION AppFairSpec
CHECK_DEADLOCK FALSE
INVARIANTS
    ServesWorkspace
    ClosedIsQuiet
PROPERTIES
    HandlersEnd
