CONSTANTS
  MaxConfig = 1
  PipeBound = 2
  Speeds = {1, 2}
  Uses = {"selection", "stop", "set-speed", "external", "backend", "select", "crash", "fail"}
SPECIFICATION Spec
INVARIANTS QueueInv SpeedSettles WarmWorkerIsTimed
