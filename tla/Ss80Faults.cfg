SPECIFICATION Spec
CONSTANTS
  BytesPerBlock = 2
  MaxBlock = 2
  Chunk = 2
  Word = 64
  IntMax = 32
  Blocks = {1, 2}
  Lengths = {4}
  Units = {0, 5}
  DiskFaults = TRUE
  Timeouts = TRUE
  LateTimeouts = FALSE
  IfcPulses = TRUE
  AtnAborts = TRUE
  KeyHits = TRUE
INVARIANTS WriteReported ReadReported InImage BusyIsSilent
PROPERTY Continues
