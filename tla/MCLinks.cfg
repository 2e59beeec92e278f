CONSTANTS
    Links = {l1, l2}
    Weights = {1, 2}
    Requests = 1
    PROBATION_MS = 1
    HIGH_LOSS_STREAK = 2
    NO_RESPONSE_STREAK = 1
    RECOVERY_STREAK = 1
    U8Max = 2
    MIN_MTU = 4
    STEP = 2
    max_attempts = 3
    Sizes = {3, 5, 8}
    MaxFlying = 2
    MaxEpoch = 1
SPECIFICATION LinksSpec
CHECK_DEADLOCK FALSE
INVARIANTS
    ConsistentUnlessRaced
    SettledSizeFits
PROPERTIES
    HealthFollowsProbes
    StatisticsAreTrue
