SPECIFICATION FlowSpec
CONSTANTS
  c1 = c1
  c2 = c2
  Consumer = {c1, c2}
  Capacity = 2
  MaxAccepted = 5
  s1 = s1
  Subscriber = {s1}
  HistoryLimit = 2
  NormalLimit = 1
  MaxHandled = 1
  MaxStreams = 2
  w1 = w1
  w2 = w2
  p1 = p1
  CommandId = {1, 2, 3}
  Plain = {p1}
  Withdrawal = {w1, w2}
  MaxIncomplete = 2
  MaxSettled = 1
  MaxExecs = 3
INVARIANTS NoLostWakeup NothingVanishes StreamHolds EvidenceHolds LedgerHolds
PROPERTIES WaitEnds Answered
CHECK_DEADLOCK FALSE
