CONSTANTS
    Ids = {i1, i2, i3, i4}
    Ids400 = {}
    NoId = NoId
    Values = {a, empty}
    Empty = empty
    NoValue = NoValue
    Resources <- Converging
    UrlOK = {TRUE}
    RetryMax = 1
    MaxDisturbances = 3
SPECIFICATION FairSpec
PROPERTIES Converges
CHECK_DEADLOCK FALSE
