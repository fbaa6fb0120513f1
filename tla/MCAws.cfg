CONSTANTS
    Ids = {i1, i2, i3, i4, i5}
    NoId = NoId
    Gone = Gone
    Absent = Absent
    Unseen = Unseen
    MaxDisturbances = 4
SPECIFICATION FairSpec
INVARIANTS AdoptedNeverLeaked
PROPERTIES StreamsStopFirst CustodySpec Converges
CHECK_DEADLOCK FALSE
