CONSTANTS
    Workspaces = {w1, w2}
    Names = {w1, w2}
    Snapshots = {s1, s2, s3}
    Items = {s1, s2, s3}
    Calls = {c1, c2}
    None = None
SPECIFICATION Spec
CHECK_DEADLOCK FALSE
SYMMETRY Symmetry
CONSTRAINT Undisturbed
INVARIANTS
    ListedIsStored
    CreatedIsListed
