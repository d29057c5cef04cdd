SPECIFICATION ReaderSpec
CONSTANTS
    Writers = {w1}
    Families = {"day1", "day2"}
    Names = {1, 2, 3, 4}
    FamilyOf <- MCFamilyOf
    Layouts <- MCLayouts
    Intervals <- MCIntervals
    Digests = {c1, c2}
    Legacy = {3}
    Absent = Absent
    NoEntry = NoEntry
    Malformed = Malformed
    Free = Free
    MaxExports = 2
    MaxPowerLosses = 1
    MaxDamages = 1
    Readers = {r1}
    Reports <- MCReports
    Unbounded = Unbounded
SYMMETRY MCSymmetry
INVARIANTS
    TrustIsReceipt
    UndisturbedStrongIsContentBound
CHECK_DEADLOCK FALSE
