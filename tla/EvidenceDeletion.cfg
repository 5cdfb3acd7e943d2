SPECIFICATION Spec
CONSTANTS
    Extensions = {"c1"}
    Exports = {}
    FirstDeadline = 1
    LastDeadline = 2
    MaxNow = 2
    ReviewCap = 1
    JournalCap = 3
    Operations = {"extend", "delete"}
    MaxFaults = 0
    MaxCrashes = 1
INVARIANTS
    DeletionContinues
CHECK_DEADLOCK FALSE
