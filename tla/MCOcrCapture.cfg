\* two captures: a producer with two descendants, outputs up to one above the cap
CONSTANTS
  Processes = {p1, p2, p3}
  Producer = p1
  Cap = 2
  PipeSize = 2
  MaxWritten = 4
  ExitCodes = {0, 1, 124, 125}
  NoCode = NoCode
  MaxCaptures = 2
SPECIFICATION OcrFairSpec
INVARIANTS RunnerInv
PROPERTIES ReadIsRight CapturesEnd
CHECK_DEADLOCK FALSE
