\* EventDelivery: three UIDs, a one-slot channel that is usually full.
SPECIFICATION MCSpec
CONSTANTS
  u1 = u1
  u2 = u2
  u3 = u3
  None = None
  UIDs <- ThreeUIDs
  Cap = 1
  MaxEvents = 5
  Groups <- MCGroups
  ObjectNames = {1, 2}
  MaxUid = 3
  MaxChanges = 5
INVARIANTS NoLostUpdate MemoryBound RowsAccounted
PROPERTIES NoStarvation
CHECK_DEADLOCK FALSE
