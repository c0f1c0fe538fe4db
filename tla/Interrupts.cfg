SPECIFICATION Spec
CONSTANTS
  TicCounts = 2
  SecondTics = 2
  HalfWord = 2
  RX_BUF_SIZE = 2
  Times <- SomeTimes
  Waits = {2}
  Torn = FALSE
  MaxInterrupts = 5
  MaxCalls = 4
INVARIANTS ClockKept WaitsLast RingInOrder
CHECK_DEADLOCK FALSE
