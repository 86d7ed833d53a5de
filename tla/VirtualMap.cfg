SPECIFICATION Spec
CONSTANTS
  Slots <- MCSlots
  RecursionIndex <- MCRecursionIndex
  LocalPml4 <- MCLocalPml4
  TablePages <- MCTablePages
  Offered <- MCOffered
  Junk <- MCJunk
  VAddrs <- MCVAddrs
  PAddrs <- MCPAddrs
  Flags <- MCFlags
INVARIANTS
  TypeOK
  MapDurable
  NothingElseMapped
  NodesPointDown
  TablesFormTree
  MapperFindsTable
PROPERTIES
  EntriesWriteOnce ImplementsAddressSpace
CHECK_DEADLOCK FALSE
