CONSTANTS
  Workers = {w1, w2, w3}
  Files = {a, b}
  WriteFlag = 4
  RejectsAnyTime = FALSE
SPECIFICATION StoreSpec
INVARIANTS TableMatchesHolders TargetIsWhole WriterGetsItsFile ReaderSeesOneVersion NoTempLeft
SYMMETRY Names
PROPERTIES ImplementsRWLocks
