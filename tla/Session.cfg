CONSTANTS
  A = A
  B = B
  Side = {A, B}
  MacrotaskIO = TRUE
  Starts = {"opened", "ready"}
  OpenedMedia = 4
  ReadyMedia = 2
SPECIFICATION MCSpec
SYMMETRY Symmetry
INVARIANTS LiveMeansConsented LiveMeansArmed
PROPERTIES DrainCoversWithdrawal ImplementsLifecycle
CHECK_DEADLOCK FALSE
