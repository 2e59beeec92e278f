CONSTANTS
    MaxSeq = 2
    WINDOW_SIZE = 2
    U64Max = 4
    MaxInits = 2
    MaxAccepts = 2
    MaxSeals = 3
    MaxDamaged = 0
SPECIFICATION Spec
INVARIANTS
    OnlyOpensMoveTheWindow
CHECK_DEADLOCK FALSE
