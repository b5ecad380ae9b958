SPECIFICATION FairPackSpec
CONSTANTS
  Data <- MCData
  Capacities <- MCCapacities
  SIZE_MAX = 1000
  Fields <- MCFields
  Slots <- MCSlots
  MAX_FIELDS = 5
  UINT64_MAX = 255
  INT64_MAX = 127
  UINT32_MAX = 127
  INT_MAX = 99
  Objects <- MCObjects
  Instances <- MCInstances
  Roots <- MCRoots
  MAX_NESTING = 2
INVARIANTS PackedReadsBack CounterPredicts ValidStructsPack
PROPERTIES PackReturns
