CONSTANTS
    MaxSeq = 2
    WINDOW_SIZE = 2
    Table <- Links3
    Sockets = {1, 2}
    Usize = 2
    Swaps = 2
    MaxReplays = 1
SPECIFICATION Spec
CHECK_DEADLOCK FALSE
INVARIANTS
    EndToEnd
    SharedOut
