SPECIFICATION Spec
CONSTANTS
  a = a
  b = b
  c = c
  Callers <- MCCallers
  Slots <- MCSlots
  Home <- MCHome
  Size <- MCSize
  Closer = closer
  Nobody = nobody
  Cancellable = {c}
  MaxPending = 2
  MaxResults = 3
  MaxActiveBytes = 2
SYMMETRY Same
INVARIANTS
  Safe
PROPERTIES
  SlotOrder
  ImplementsLease
