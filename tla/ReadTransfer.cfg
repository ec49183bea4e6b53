CONSTANTS
  NumBlocks = 7
  M = 4
  MaxLife = 3
  Retries = 3
  ReadMayFail = TRUE
SPECIFICATION FairSpec
INVARIANTS ClientHasPrefix
PROPERTIES ServerFinishes ImplementsFileTransfer
CHECK_DEADLOCK FALSE
