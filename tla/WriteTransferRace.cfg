CONSTANTS
  NumBlocks = 3
  M = 8
  MaxLife = 7
  MaxUnsent = 0
  Prompt = FALSE
SPECIFICATION Spec
INVARIANTS ExpectsNextBlock
CHECK_DEADLOCK FALSE
