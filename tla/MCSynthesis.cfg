\* chunks of at most 4 characters, and up to 4 tiles of a sentence
CONSTANTS
  Target = 4
  Early = 2
  MaxLength = 7
  ShortLength = 4
  Width = 4
  Context = 1
  MaxFrames = 8
  MaxSentences = 2
SPECIFICATION MCSpec
INVARIANTS ChunksInv VoiceInv
CHECK_DEADLOCK FALSE
