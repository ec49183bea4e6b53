CONSTANTS
  NumBlocks = 7
  M = 4
  MaxLife = 3
  MaxUnsent = 3
  Prompt = TRUE
SPECIFICATION FairSpec
INVARIANTS NoGapNoReorder WrittenIsPrefix
PROPERTIES AcknowledgedIsCommitted ServerFinishes ImplementsFileTransfer
CHECK_DEADLOCK FALSE
