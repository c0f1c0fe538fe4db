SPECIFICATION Spec
CONSTANTS
  t1 = t1
  b2 = b2
  Names = {"A", "B"}
  Users = {t1, b2}
  Sectors <- SizeOf
  Texts = {t1}
  DirSectors = 1
  RecordsPerSector = 4
  FileSectors = 4
  MaxSectors = 8
  KeepsRoom = TRUE
  None = None
  SectorSize = 11
INVARIANTS FilesIntact Ordered StaysOpenable
PROPERTY OneFileAtATime
