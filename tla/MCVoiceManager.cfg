\* two voices, in every state that the shell may find them in
CONSTANTS
  Voices = {v1, v2}
  Default = v1
  FileStates <- MCFileStates
  Reads = {"selection"}
  None = None
SPECIFICATION FairSpec
INVARIANTS VoicesInv
PROPERTIES StepsAreWhole WaitsEnd
CHECK_DEADLOCK FALSE
