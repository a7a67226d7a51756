CONSTANTS
  MaxGeneration = 5
  Pieces = 1
  Commands = {"speak"}
  Requests = {r1, r2}
  NoRequest = none

SPECIFICATION FairSpec
PROPERTIES ReadsUnwind SoundEnds BusyEnds
