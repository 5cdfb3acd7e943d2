CONSTANTS
  A = A
  B = B
  Side = {A, B}
  MacrotaskIO = TRUE
  Starts = {"ready"}
  OpenedMedia = 0
  ReadyMedia = 0
SPECIFICATION MCSpec
SYMMETRY Symmetry
PROPERTY WithdrawalIsTerminal
CHECK_DEADLOCK FALSE
