SPECIFICATION Spec
CONSTANTS
    Writers = {w1, w2}
    Families = {"splunk", "cloudtrail"}
    Names = {0, 1, 2, 3}
    FamilyOf <- MCFamilyOf
    Layouts <- MCLayouts
    Intervals <- MCIntervals
    Digests = {c1, c2}
    Legacy = {3}
    Absent = Absent
    NoEntry = NoEntry
    Malformed = Malformed
    Free = Free
    MaxExports = 3
    MaxPowerLosses = 1
    MaxDamages = 1
SYMMETRY MCSymmetry
INVARIANTS
    IInv
    ReceiptedFamilyIsWhole
    ManifestOnlyReceipts
CHECK_DEADLOCK FALSE
PROPERTIES
    LedgerSpec
