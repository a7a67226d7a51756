\* the clipboard fallback, canceled and repeated at every point
CONSTANTS
  MaxPolls = 2
  MaxDying = 2
  Clipboards = {"text", "empty", "rich"}
  LateCopies = FALSE
  LateKills = FALSE
SPECIFICATION Spec
INVARIANTS CaptureInv ClipboardRestored
PROPERTIES FollowsPolicy
