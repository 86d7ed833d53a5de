SPECIFICATION Spec
CONSTANTS
  Programs <- LinkedPrograms
  PAGE_SIZE <- MCPageSize
  TopAddress <- MCTopAddress
INVARIANT TailsZeroed
CHECK_DEADLOCK FALSE
