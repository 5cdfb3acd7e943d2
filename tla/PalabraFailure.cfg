\* One lane whose readiness check cannot be sent.
SPECIFICATION Spec
CONSTANTS
  Ids = {1, 2}
  MaxTurnIds = 1
  MaxRetired = 2
  MaxLanes = 2
  MaxTurns = 2
INVARIANTS FailureStaysInLane
CHECK_DEADLOCK FALSE
