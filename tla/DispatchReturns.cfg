CONSTANTS
  Count = 1
  Clients = {c1, c2}
  Ports = {p1, p2, p3}
  BindMayFail = TRUE
SPECIFICATION FairSpec
INVARIANTS AdmittedFindsRecord
PROPERTIES DispatchReturns WorkerReturns
CHECK_DEADLOCK FALSE
