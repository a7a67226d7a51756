\* changes, failing and killed helpers, a restart or a loss of power
CONSTANTS
  Helpers = {h1}
  NoHelper = NoHelper
  NoPayload = NoPayload
  NoFile = NoFile
  Half = Half
  Off = Off
  Speeds = {1, 2}
  DefaultSpeed = 1
  Choices = {"safe", "off"}
  DefaultChoice = "safe"
  MaxChanges = 2
  PipeBound = 1
  MaxRestarts = 1
  Orphans = FALSE
SPECIFICATION FairSpec
INVARIANTS FileInv
PROPERTIES ImplementsRegister QueueDrains
CHECK_DEADLOCK FALSE
