CONSTANTS
    Values = {v1, v2}
    Absent = Absent
    Families = {"ruleset", "settings"}
    MaxFaults = 6
SPECIFICATION VersionedFairSpec
INVARIANTS StateMirrorsObject
PROPERTIES OverwritesOnlyTheRead VersionsConverge
CHECK_DEADLOCK FALSE
