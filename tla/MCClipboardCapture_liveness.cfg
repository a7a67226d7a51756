\* every capture ends, with late applications and lingering writers too
CONSTANTS
  MaxPolls = 1
  MaxDying = 1
  Clipboards = {"text"}
  LateCopies = TRUE
  LateKills = TRUE
SPECIFICATION FairSpec
INVARIANTS CaptureInv
PROPERTIES ClipboardGivenBack CaptureEnds
