SPECIFICATION FairSpec
CONSTANTS
  a = a
  b = b
  c = c
  Callers <- MCPair
  Size <- MCPairSize
  MaxPendingBytes = 1
  Closer = closer
  Nobody = nobody
  Cancellable = {a, b}
  MaxPending = 1
  Grace = 1
  MaxTime = 1
  MaxOut = 1
INVARIANTS
  Safe
PROPERTIES
  NoLiveProcessDropped
  EveryCallReturns
