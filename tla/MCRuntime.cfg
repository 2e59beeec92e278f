CONSTANTS
    capacity = 2
    Word = 4
    MaxPushed = 6
    SLOTS = 2
    U64Max = 40
    Delays = {0, 1, 2, 3, 5, 7, 8, 11, 17, 35}
    MaxStep = 3
    MaxTimers = 2
    s1 = s1
    s2 = s2
    Sources = {s1, s2}
    TokensOf <- Tokens2
    ConditionsOf <- Conditions2
    MaxEvents = 2
    MaxStrays = 1
    Sockets = {s1, s2}
    MaxFailures = 1
    cap = 2
    MaxItems = 6
SPECIFICATION RuntimeSpec
CHECK_DEADLOCK FALSE
INVARIANTS
    FiresOnTime
PROPERTIES
    ImplementsQueue
    BehavesLikeEpoll
    WatchedIsReported
    ReceivedInOrder
