CONSTANTS
    Blocks = {b1, b2}
    Others = others
    Metrics = {m1, m2}
    None = None
    RetryMax = 1
    MaxSerial = 5
    MaxDisturbances = 3
SPECIFICATION FairSpec
INVARIANTS OwnExemptionsKnown
PROPERTIES RemovesOnlyItsOwn Converges
CHECK_DEADLOCK FALSE
