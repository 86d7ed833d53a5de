SPECIFICATION Spec
\* With GROUP and BITS as with 7 and 64, the last group of the longest number
\* has one bit left.
CONSTANTS
  Samples <- MCSamples
  RecursionIndex <- MCRecursionIndex
  MemoryMaps <- MCMemoryMaps
  MinPages = 2
  MAX_MEMORY_REGIONS = 2
  GROUP = 3
  BITS = 10
  MAX_NB_FRAMES = 2
  Traces <- MCTraces
  WORD = 16
  HALF = 8
  Lsdas <- MCLsdas
  Contexts <- MCContexts
  Files <- MCFiles
  Headers <- MCHeaders
  Nul <- MCNul
  PrologueSize = 1
  HeaderSize = 1
  ProgramSize = 2
  SectionSize = 2
  Spans <- MCSpans
  PAGE_SIZE = 4
  HEADER_SIZE = 2
  POINTER_SIZE = 2
  MINIMUM_PAGES_TO_MANAGE = 4
  PAGES_RESERVED_FOR_TREE_POINTERS = 2
  Sizes <- MCSizes
  Enums <- MCEnums
  Words <- MCWords
  Bits = 4
  MAX_STACK_ALLOCATION = 4
  Strings <- MCStrings
INVARIANTS
  AddressesExact
  RegionsSound
  LongEntriesKept
  LebExact
  BacktraceFaithful
  RightAction
  SlicesInsideFile
  EveryHeaderOnce
  ManagedPagesApart
  ArgumentsSurvive
  HelpersExact
CHECK_DEADLOCK FALSE
