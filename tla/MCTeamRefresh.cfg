CONSTANTS
    Ids = {i1, i2}
    Ids400 = {}
    NoId = NoId
    Values = {a, empty}
    Empty = empty
    NoValue = NoValue
    Resources <- JustTeams
    UrlOK = {TRUE}
    RetryMax = 1
    MaxDisturbances = 2
SPECIFICATION Spec
PROPERTIES RefreshForgetsTheGone
CHECK_DEADLOCK FALSE
