SPECIFICATION ObserverSpec
CONSTANTS
    k1 = k1
    k2 = k2
    n1 = n1
    Absent = Absent
    Key <- OneKey
    Value <- MCValue
    NetworkID <- OneNet
    Legacy <- OneLegacy
    MaxReports = 2
    LoadMayFail = FALSE
CHECK_DEADLOCK FALSE
INVARIANT CountsReportsOnce
