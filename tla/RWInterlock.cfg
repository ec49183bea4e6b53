CONSTANTS
  Threads = {t1, t2, t3}
  WriteFlag = 4
  Attempts = 3
SPECIFICATION FairSpec
INVARIANTS MutualExclusion CounterAccounts
PROPERTIES QuietLockRefusesNobody EveryCallReturns ImplementsRWLock
