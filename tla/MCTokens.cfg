CONSTANTS
    Names = {n1, n2}
    None = None
    RetryMax = 1
    MaxTokens = 4
    MaxDisturbances = 3
SPECIFICATION FairSpec
INVARIANTS FirstBuildServesLegacy OwnTokensKnown EntryMatchesToken
PROPERTIES WritesOnlyTheRecorded Converges
CHECK_DEADLOCK FALSE
