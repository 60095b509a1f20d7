SPECIFICATION Spec
CONSTANTS
  Boundaries = {"Prefixed", "ContentLength", "Delimited", "Silence"}
  MaxAduLen = 4
  ReadChunk = 6
  Known = 2
  NumFrames = 2
  Frames <- LegalAndNot
  NoiseBytes <- SerialNoise
  MaxNoise = 1
  MaxReceives = 3
INVARIANTS
  ExactFrames
  NothingLost
  NothingWithheld
  Aligned
  BufferBounded
CHECK_DEADLOCK FALSE
