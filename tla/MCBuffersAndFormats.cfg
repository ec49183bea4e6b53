CONSTANTS
  Threads = {dispatch, worker}
  PoolSize = 4
  PerThread = 2
  BlockSize = 2
  BufferSize = 4
  MaxFile = 7
  MaxMessage = 5
  Sizes = {8, 9, 24}
  TotalSize = 80
SPECIFICATION Spec
INVARIANTS BufferHasOneOwner PoolSuffices ConversionIsRight AcceptsRequests BlocksLieApart
CHECK_DEADLOCK FALSE
