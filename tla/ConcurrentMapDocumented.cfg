SPECIFICATION Spec
CONSTANTS
  Slots <- MCSlots
  RecursionIndex <- MCRecursionIndex
  LocalPml4 <- MCLocalPml4
  TablePages <- MCTablePages
  Offered <- MCOffered
  Junk <- MCJunk
  VAddrs <- NeighbourPages
  PAddrs <- MCPAddrs
  Flags <- MCFlags
  Conflict <- SamePage
INVARIANT ConcurrentMapDurable
CHECK_DEADLOCK FALSE
