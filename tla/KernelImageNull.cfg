SPECIFICATION Spec
CONSTANTS
  Programs <- ProgramsWithNull
  PAGE_SIZE <- MCPageSize
  TopAddress <- MCTopAddress
PROPERTY LoadingEnds
CHECK_DEADLOCK FALSE
