\* A turn of four provider messages; a lane over two turns and two connections.
SPECIFICATION MCSpec
CONSTANTS
  Backlog = 1
  AudioLimit = 1
  EventLimit = 2
  MaxWindows = 2
  MaxMessages = 4
  Ids = {1, 2, 3}
  MaxTurnIds = 2
  MaxRetired = 1
  MaxLanes = 2
  MaxTurns = 2
INVARIANTS NoSilentEnd LateIdsStayOut
PROPERTIES FrameFollowsTarget TurnsEnd
CHECK_DEADLOCK FALSE
