CONSTANTS
  Owners = {o1, o2}
  BindMayFail = TRUE
  MaxBinds = 3
SPECIFICATION FairSpec
INVARIANTS HandleReadIsSafe PollReadsLiveSocket UnbindCloses
PROPERTIES OsGivesLatest BindReturns
CHECK_DEADLOCK FALSE
