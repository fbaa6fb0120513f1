CONSTANTS
    None = None
    PerSecond = 2
    Starts = {1, 2}
    Stops = {0, 3}
    MaxLag = 2
    Horizon = 6
    MaxDisturbances = 2
SPECIFICATION FairSpec
INVARIANTS MutesAsWritten
PROPERTIES UpdatesAccepted Converges
CHECK_DEADLOCK FALSE
