CONSTANTS
    Worlds <- AllWorlds
    Unknown = "provider.none"
SPECIFICATION Spec
INVARIANTS SourcesRanked HalvesAgree BlankURLExplained
CHECK_DEADLOCK FALSE
