CONSTANTS
    Readers = {r1, r2, r3}
SPECIFICATION TransactionFairSpec
CHECK_DEADLOCK FALSE
PROPERTIES
    NeverRegresses
    EndsSealed
