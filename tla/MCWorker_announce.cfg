CONSTANTS
  MaxGeneration = 4
  Pieces = 1
  Commands = {"speak", "misfit", "stop", "undecodable", "announce"}
  Requests = {r1, r2}
  NoRequest = none
SYMMETRY RequestSymmetry
SPECIFICATION Spec
INVARIANTS NoOrphanPlayer EventsNameTheirRead
PROPERTIES AgentNeverPreempts
