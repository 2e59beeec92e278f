CONSTANTS
    MaxSeq = 3
    WINDOW_SIZE = 2
    U64Max = 5
    MaxInits = 2
    MaxAccepts = 3
    MaxSeals = 4
    MaxDamaged = 1
SPECIFICATION Spec
CHECK_DEADLOCK FALSE
INVARIANTS
    NonceUsedOnce
    DeliveredOnce
    GenuineAccepted
