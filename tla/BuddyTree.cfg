SPECIFICATION Spec
CONSTANTS
  Levels = 3
  Garbage <- MCGarbage
  Request <- MCRequest
PROPERTIES
  ImplementsPageAllocator
  BestFit
CHECK_DEADLOCK FALSE
