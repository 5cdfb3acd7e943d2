SPECIFICATION Spec
CONSTANTS
    MaxRecords = 2
    MaxPending = 2
    MaxFaults = 0
    MaxCrashes = 0
INVARIANTS
    KeyIsGone
CHECK_DEADLOCK FALSE
