CONSTANTS
    Ids = {i1, i2, i3, i4}
    Codes = {"empty", "script", "tx"}
    Empty = "empty"
    Body <- MCBody
    KindOf <- MCKindOf
    Names = {"n1", "n2"}
    CadenceFiles = {"empty"}
    FlixList <- MCFlix
    Network = "mainnet"
    Filters = {{}}
    Linked = "f1"
    Transactions = {"tx"}
    MenuFirst = "templates"
    MaxTabs = 2
    Limits <- MCLimits
    None = None
SPECIFICATION Spec
INVARIANTS
    TabShown
    OutcomeOfShown
    ParsedIsOwn
    ClosedWorkStays
SYMMETRY Symmetry
