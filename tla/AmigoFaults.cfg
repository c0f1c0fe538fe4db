SPECIFICATION Spec
CONSTANTS
  Cylinders = 2
  Heads = 2
  SectorsPerTrack = 2
  Byte = 4
  IntMax = 4
  Reach = 20
  Targets <- Somewhere
  Counts = {0, 2}
  Units = {0}
  HostData = {new}
  Torn = blank
  Blank = blank
  DiskFaults = TRUE
  Timeouts = TRUE
  Resets = TRUE
INVARIANTS InGeometry FailureIsKept FaultHasCause
PROPERTIES ImplementsDisk PollFollowsWork
