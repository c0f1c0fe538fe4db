SPECIFICATION FairSpec
CONSTANTS
  Kinds = {"SD1", "SD2", "SDHC", "MMC"}
  LastSector = 2
  Values = {1, 2}
  BlockBytes = 2
  ReadyMs = 1
  Pulls = TRUE
  OcrFaults = FALSE
  Unsure = Unsure
INVARIANTS ToldTrue OneTransfer
PROPERTY Returns
