SPECIFICATION Spec
CONSTANTS
  Boundaries = {"Silence"}
  MaxAduLen = 4
  ReadChunk = 6
  Known = 2
  NumFrames = 1
  Frames <- Longest
  NoiseBytes <- SerialNoise
  MaxNoise = 0
  MaxReceives = 2
INVARIANTS
  LegalLengthAccepted
CHECK_DEADLOCK FALSE
