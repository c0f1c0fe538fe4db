SPECIFICATION EmulatorSpec
CONSTANTS
  s1 = s1
  s2 = s2
  a1 = a1
  pr = pr
  ctl = ctl
  SS80s = {s1, s2}
  AMIGOs = {a1}
  Printers = {pr}
  Others = {ctl}
  FirstSs80 = s1
  FirstAmigo = a1
  Ppr <- PprOf
  REVERSE = FALSE
  Secondaries = {"65H", "69H", "70H"}
  BufSize = 2
  MaxPrinted = 5
  Orderly = TRUE
  FileFaults = TRUE
  None = None
  UNT = UNT
  a2 = a2
  MaxDevices = 5
  MaxStack = 5
  Hpdir <- Ini
  Texts <- SomeTexts
  Followed <- Hpdisk
  Files <- OnCard
  NoName = NoName
INVARIANTS ServedOnce PollLines PrintedIsCaptured CapturesClosed DescribesOne ReadAsWritten
