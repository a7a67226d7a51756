\* workers that replace each other on one path, and an agent that announces
CONSTANTS
  Servers = {s1, s2}
  Clients = {c1}
  Backlog = 0
  NoFile = NoFile
  Stale = Stale
  NoOne = NoOne
SPECIFICATION FairSpec
INVARIANTS ReachableUnlessRaced StartFailsOnlyForOthers ClosedLeavesNoPath ClientsInv
PROPERTIES ClientsEnd
CHECK_DEADLOCK FALSE
