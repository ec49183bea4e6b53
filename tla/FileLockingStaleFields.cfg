CONSTANTS
  Workers = {w1}
  Files = {a, b}
  WriteFlag = 4
  RejectsAnyTime = FALSE
SPECIFICATION Spec
INVARIANTS UnlockFindsEntry
