CONSTANTS
    Loops = {l1, l2, l3}
    NoTimeout = NoTimeout
    PollingIntervalInMs = 2
    Hex = Hex
    A = A
    D = D
    C = C
    CC = CC
    K = K
    B = B
    T = T
    P = P
    v1 = v1
    v2 = v2
    None = None
    NoPage = NoPage
    Accounts = {A, D}
    WellKnown = {A}
    Names = {C, CC}
    BlockIds = {B}
    TransactionIds = {T}
    PublicKeys = {K}
    Paths = {P}
    Versions = {v1, v2}
    ChainAccounts <- MCChainAccounts
    ChainBlocks <- MCChainBlocks
    ChainTransactions <- MCChainTransactions
    ChainStatuses <- MCChainStatuses
    ChainEvents <- MCChainEvents
    ChainItems <- MCChainItems
    StartOf <- MCStartOf
    Limits <- MCLimits
SPECIFICATION SyncSpec
PROPERTIES
    RateLimited
    StopDrains
    KeepsPolling
    ShownNeverRegresses
    ShownSettles
