CONSTANTS
    Mirrors = {m1, m2}
    Members = {d1, d2}
    Absent = Absent
    Gone = Gone
    MaxDisturbances = 5
SPECIFICATION FairSpec
INVARIANTS MembersKept
PROPERTIES MirrorsApplied ReadFindsDrift Converges
CHECK_DEADLOCK FALSE
