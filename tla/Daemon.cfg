SPECIFICATION DaemonSpec
CONSTANTS
    Cli = {"c1", "c2"}
    Downs = {"c1"}
    Requests = {"config", "kick"}
    Sessions = {1}
    MaxRuns = 1
    MaxConfigs = 1
    MaxJoins = 2
    MaxTraffic = 1
CHECK_DEADLOCK FALSE
PROPERTIES
    ShutdownEnds
    ControlIsSafe
