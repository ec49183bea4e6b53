CONSTANTS
  Count = 2
  Clients = {c1, c2}
  Ports = {p1, p2, p3}
  BindMayFail = FALSE
SPECIFICATION SpacedSpec
INVARIANTS OwnRecord SocketExclusive NoSocketLeak ReservedRecordStaysFree
SYMMETRY Identifiers
