CONSTANTS
  MaxGeneration = 6
  Pieces = 2
  Commands = {"speak", "misfit", "stop", "set-speed", "invalid", "undecodable", "shutdown"}
  Requests = {r1, r2}
  NoRequest = none
SYMMETRY RequestSymmetry
SPECIFICATION Spec
INVARIANTS OnlyAcceptedAudible VoiceUsedByOne TextReleased
PROPERTIES SettledStaysQuiet ImplementsPlayback
