SPECIFICATION Spec
CONSTANTS
  Slots <- MCSlots
  RecursionIndex <- MCRecursionIndex
  LocalPml4 <- MCLocalPml4
  TablePages <- MCTablePages
  Offered <- MCOffered
  Junk <- MCJunk
  VAddrs <- RegionPages
  PAddrs <- MCPAddrs
  Flags <- MCFlags
  Conflict <- SameRegion
INVARIANT ConcurrentMapSound
CHECK_DEADLOCK FALSE
