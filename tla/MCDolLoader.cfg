SPECIFICATION Spec
CONSTANTS
  MemTop = 17
  DolAt = 5
  NSections = 2
  MinStart = 1
  Memories <- MCMemories
INVARIANTS TypeOK LoadsDol
CHECK_DEADLOCK FALSE
