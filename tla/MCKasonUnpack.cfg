SPECIFICATION Spec
CONSTANTS
  Documents <- MCDocuments
  Later <- MCLater
  Setups <- MCSetups
  Roots <- MCRoots
  Fields <- MCFields
  Slots <- MCSlots
  Objects <- MCObjects
  Instances <- MCInstances
  MAX_FIELDS = 3
  MASK_BITS = 3
  MAX_NESTING = 2
  MaxCalls = 2
  SIGNIFICANT = 2
  CAP = 30
  DBL_EXP = 12
  UINT64_MAX = 255
  INT64_MAX = 127
  UINT32_MAX = 127
  INT_MAX = 12
INVARIANTS VerdictIsExact StructIsDocument MemoryIsSafe ErrorIsTrue
CHECK_DEADLOCK FALSE
