\* Two frames, three cuts and two sockets; two sockets of events at the bound of
\* their queue; two starts of a capture; a translation of two generations.
SPECIFICATION MCSpec
CONSTANTS
  QueueCapacity = 1
  WorkletFrames = 1
  MaxFrames = 2
  MaxCuts = 3
  MaxSockets = 2
  EventCapacity = 2
  Controls = {"audio", "ready"}
  EventSockets = 2
  Keyboard = FALSE
  MaxStarts = 2
  MaxUpsets = 2
  Items = {"i1"}
  MaxPending = 2
  MaxGen = 1
  MaxRev = 2
  MaxMarks = 3
INVARIANTS ClearedIsSilent LossIsOnTheWay ReadinessIsTrue MarksAreTrue
PROPERTIES ClearSettles MicrophoneGoesOff
CHECK_DEADLOCK FALSE
