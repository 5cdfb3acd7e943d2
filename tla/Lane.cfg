\* One lane of frames and one of whole utterances, over two generations.
SPECIFICATION MCSpec
CONSTANTS
  SpeechEnds = {TRUE, FALSE}
  QueueCap = 2
  InputCap = 1
  AckCap = 1
  MaxGen = 2
  MaxFrames = 2
  MaxAll = 3
  MaxWhole = 2
INVARIANTS NoLateEvent BargeChain PlayoutHolds
PROPERTIES StoppedIsSilent
CHECK_DEADLOCK FALSE
