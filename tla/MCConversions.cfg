CONSTANTS
    None = None
    PerSecond = 2
    NanosPerSecond = 4
    MaxInt = 1048575
    MaxDuration = 2097151
    Nothing = Nothing
    Now = Now
    Ranges = {hour, day}
    GivenSeconds = {1, 524288}
    OtherMilliseconds = {1, 3, 1048576}
    DefaultRange = 1
    DashboardColumns = 2
    MaxDisturbances = 2
SPECIFICATION FairSpec
INVARIANTS QuietMeansTrue GridsFit TextMeansNotification
PROPERTIES ServedStaysQuiet MigrationKeepsMeaning Converges
CHECK_DEADLOCK FALSE
