SPECIFICATION Spec
CONSTANTS
  a = a
  b = b
  c = c
  Callers <- MCThree
  Size <- MCThreeSize
  MaxPendingBytes = 2
  Closer = closer
  Nobody = nobody
  Cancellable = {c}
  MaxPending = 2
  Grace = 0
  MaxTime = 2
  MaxOut = 0
SYMMETRY Symmetry
PROPERTIES
  NoLateDispatch
  FirstComeFirstServed
