SPECIFICATION Spec
CONSTANTS
  MaxVersion = 2
  CratesOf <- MCCratesOf
  std_dir_items <- MCItems
INVARIANTS
  RecordMeansComplete
  SysrootUniform
CHECK_DEADLOCK FALSE
