SPECIFICATION Spec
CONSTANTS
  Bytes = {0, 1}
  Unset = Unset
  InitialCapacity = 3
  Limit = 64
  MaxWrite = 3
  MaxLength = 7
INVARIANTS InBounds CapacityBound
PROPERTY KeepsLog
