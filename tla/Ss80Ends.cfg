SPECIFICATION FairSpec
CONSTANTS
  BytesPerBlock = 2
  MaxBlock = 2
  Chunk = 2
  Word = 64
  IntMax = 32
  Blocks = {0, 2}
  Lengths = {3, 4}
  Units = {0}
  DiskFaults = TRUE
  Timeouts = TRUE
  LateTimeouts = TRUE
  IfcPulses = FALSE
  AtnAborts = FALSE
  KeyHits = FALSE
INVARIANT NothingInvented
PROPERTY TransferEnds
