\* An archive of three records with a fault and two crashes; the governance of
\* a closed one with one extension, one export and a crash; three processes
\* that take the roots from each other.
SPECIFICATION MCSpec
CONSTANTS
  MaxRecords = 3
  MaxPending = 2
  MaxFaults = 1
  MaxCrashes = 2
  Extensions = {"c1"}
  Exports = {"c1"}
  FirstDeadline = 1
  LastDeadline = 2
  MaxNow = 2
  ReviewCap = 1
  JournalCap = 3
  OwnerOperations = {"extend", "export", "review", "delete", "view"}
  GovernanceCrashes = 1
  Processes = {"p", "q", "r"}
  MaxMarkers = 6
  MaxOperations = 2
  MaxReclaims = 2
INVARIANTS ClosedIsWhole CiphertextIsGone ExtendedHolds AuditHolds LeaseHolds
PROPERTIES ImplementsGovernance AbortAnswers DueIsErased
CHECK_DEADLOCK FALSE
