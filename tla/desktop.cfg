CONSTANTS
    Saved = {w1, w2}
    Temporary = tmp
    Paths = {p1, p2}
    Requests = {r1, r2}
    Handlers = {h1, h2, h3}
    Watchers = {x1, x2}
    Limits <- MCLimits
    None = None
    Broken = Broken
SPECIFICATION Spec
CHECK_DEADLOCK FALSE
INVARIANTS
    GatewayFollowsFile
    OneWatcher
    ListAsSaved
    OpenIsShown
