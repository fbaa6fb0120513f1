CONSTANTS
    Ids = {i1, i2, i3, i400}
    Ids400 = {i400}
    NoId = NoId
    Values = {a, empty}
    Empty = empty
    NoValue = NoValue
    Resources <- AllResources
    UrlOK = {TRUE, FALSE}
    RetryMax = 1
    MaxDisturbances = 4
SPECIFICATION Spec
INVARIANTS TypeOK OrphansExplained StateMirrorsObject
PROPERTIES HandlersReturn CustodySpec
CHECK_DEADLOCK FALSE
