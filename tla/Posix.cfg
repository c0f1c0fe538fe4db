SPECIFICATION Spec
CONSTANTS
  TopCluster = 5
  FatPerSector = 4
  DirPerSector = 1
  SS = 2
  Names = {A, B}
  None = None
  Absent = Absent
  Unsure = Unsure
  Fds = {3, 4}
  Texts <- Written
  Before <- Lines
  LineSize = 3
  SoughtToo = FALSE
  Offsets = {0, 3}
  MaxSize = 4
  MaxCalls = 5
  Failing = {1, 4}
  Cuts = TRUE
INVARIANTS Sound Coherent Durable SeesText
SYMMETRY SameNames
CHECK_DEADLOCK FALSE
