SPECIFICATION Spec
CONSTANTS
  Programs <- AllPrograms
  PAGE_SIZE <- MCPageSize
  TopAddress <- MCTopAddress
INVARIANTS
  SegmentsFitBlock
  DataIntact
  ImageMapped
CHECK_DEADLOCK FALSE
