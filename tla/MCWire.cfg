CONSTANTS
    LastSeq = 8
    MaxSeq = 8
    WINDOW_SIZE = 3
    Window = 4
    GapTimeout = 2
    MaxDuplicates = 1
    i1 = i1
    i2 = i2
    i3 = i3
    r1 = r1
    r2 = r2
    MAX_FRAGMENTS = 3
    BodyLen = 2
    Lengths = {0, 2, 3, 7}
    IdSpace = 3
    in_flight_limit = 2
    MaxPackets = 4
    MaxPushes = 4
    Initiators = {i1, i2, i3}
    Responders = {r1, r2}
    StaticOf <- Statics
    known_initiators = {"alice"}
    MaxReads = 2
SPECIFICATION WireSpec
CHECK_DEADLOCK FALSE
INVARIANTS
    StreamIsExact
    WindowIsExact
    ReassemblyIsExact
    KeysAgree
    LadderIsMultiplication
    FramesAreWhole
PROPERTIES
    PendingReleased
