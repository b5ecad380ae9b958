SPECIFICATION Spec
CONSTANTS
  Data <- MCData
  Capacities <- MCCapacities
  SIZE_MAX = 7
INVARIANTS OutputIsExact
PROPERTIES RefusalIsFinal IsOutput
