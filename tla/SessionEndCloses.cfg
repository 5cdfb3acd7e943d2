CONSTANTS
  A = A
  B = B
  Side = {A, B}
  MacrotaskIO = TRUE
  Starts = {"ready"}
  OpenedMedia = 0
  ReadyMedia = 0
SPECIFICATION MCFairSpec
PROPERTY EndCloses
CHECK_DEADLOCK FALSE
