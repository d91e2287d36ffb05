SPECIFICATION Spec
CONSTANTS
  MaxMessages = 5
  MaxBlock = 1
  HalfCache = 2
INVARIANT
  AudioOnlyIsPublished
