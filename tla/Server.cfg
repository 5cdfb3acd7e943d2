\* A ready session; two sessions of the server, one slot and a crash; three
\* events, two sockets and a loss.
SPECIFICATION MCSpec
CONSTANTS
  Side = {"A", "B"}
  MacrotaskIO = TRUE
  Starts = {"ready"}
  OpenedMedia = 0
  ReadyMedia = 0
  Session = {"s1", "s2"}
  Command = {"c1", "c2"}
  MaxActive = 1
  MaxCrashes = 1
  Slots = 1
  History = 1
  Budget = 1
  MaxEvents = 3
  MaxTrouble = 1
INVARIANTS VersionHolds ShutdownEnds DeliveryHolds
PROPERTIES EndSettles CommandsSettle ClosedReturns CloseIsShown
CHECK_DEADLOCK FALSE
