CONSTANTS
  MaxConfig = 0
  PipeBound = 2
  Speeds = {1}
  Uses = {"selection", "ocr", "stop", "list", "announce", "crash"}
SPECIFICATION FairSpec
INVARIANTS QueueInv
PROPERTIES StopSettles ExitSettles CapturingEnds
