SPECIFICATION Spec
CONSTANTS
  Kernels <- MCKernels
  Frames <- MCFrames
  LoaderFrames <- MCLoaderFrames
  SwitcherPage <- MCSwitcherPage
  Modes <- MCModes
  FrameBuffers <- MCFrameBuffers
  PAGE_SIZE <- MCPageSize
  KERNEL_STACK_PAGES <- MCStackPages
  ReservedPages <- MCReserved
  MaxTables <- MCMaxTables
INVARIANTS
  SwitchNeverFaults
  BootInfoTrue
  RegionsSpareTheKernel
  FramesNotShared
CHECK_DEADLOCK FALSE
