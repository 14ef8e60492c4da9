\* Three calls may fail: a write or a removal in each handler.
CONSTANTS
    Blocks = 2
    MaxFaults = 3
SPECIFICATION Spec
INVARIANTS
    RecordsTypeOK
    RecordsAreWhole
    VerdictShownIsFinal
CHECK_DEADLOCK FALSE
