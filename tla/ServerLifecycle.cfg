CONSTANTS
  Callers = {c1, c2, c3}
  Count = 1
SPECIFICATION FairSpec
INVARIANTS OneAtATime NoThreadLost NoLostWakeup
PROPERTIES CallsReturn
CHECK_DEADLOCK FALSE
