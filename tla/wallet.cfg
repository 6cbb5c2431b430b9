CONSTANTS
    Workspaces = {w1, w2}
    Names = {w1, w2}
    Keys = {k1, k2, k3}
    Items = {k1, k2, k3}
    Calls = {c1, c2}
    None = None
SPECIFICATION Spec
CHECK_DEADLOCK FALSE
SYMMETRY Symmetry
CONSTRAINT Undisturbed
INVARIANTS
    KeysKept
PROPERTIES
    ImplementsKeyring
