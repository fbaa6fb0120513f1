CONSTANTS
    Labels = {l1, l2}
    Absent = Absent
    MaxLength = 2
    MaxDefaults = 1
    MaxFaults = 2
SPECIFICATION DefaultsFairSpec
INVARIANTS UnreadKeepsLastWrite
PROPERTIES LabelsConverge QuietMeansOwnLabels
CHECK_DEADLOCK FALSE
