SPECIFICATION DaemonSpec
CONSTANTS
    Cli = {"c1", "c2"}
    Downs = {"c1"}
    Requests = {"config", "kick"}
    Sessions = {1}
    MaxRuns = 1
    MaxConfigs = 1
    MaxJoins = 1
    MaxTraffic = 1
PROPERTIES
    PutIsApplied
CHECK_DEADLOCK FALSE
