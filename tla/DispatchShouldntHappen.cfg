CONSTANTS
  Count = 1
  Clients = {c1}
  Ports = {p1, p2, p3}
  BindMayFail = FALSE
SPECIFICATION StartedSpec
INVARIANTS ShouldntHappen
CHECK_DEADLOCK FALSE
