SPECIFICATION FairSpec
CONSTANTS
    Writers = {w1, w2, w3}
    Families = {"splunk", "cloudtrail"}
    Names = {0, 1, 2}
    FamilyOf <- MCFamilyOf
    Layouts <- MCLayoutsSmall
    Intervals <- MCIntervals
    Digests = {c1}
    Legacy = {}
    Absent = Absent
    NoEntry = NoEntry
    Malformed = Malformed
    Free = Free
    MaxExports = 3
    MaxPowerLosses = 1
    MaxDamages = 1
PROPERTIES
    StagedExportEnds
CHECK_DEADLOCK FALSE
