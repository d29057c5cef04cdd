SPECIFICATION ExportSpec
CONSTANTS
    Exports <- MCExports
    Hour = 2
    Day = 6
    Horizon = 23
INVARIANTS
    RequestIsExported
CHECK_DEADLOCK FALSE
