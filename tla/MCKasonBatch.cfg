SPECIFICATION Spec
CONSTANTS
  Documents <- MCDocuments
  Keys <- MCKeys
  Names <- MCNames
  Answers = {0, 1}
  Capacities = {0, 1, 3}
  MAX_NESTING = 2
  MaxCalls = 2
  MCTokens = 3
INVARIANTS SelectedVerdict SelectedReports ReportedIsValid ContainerReportsChildren ArrayIsStored ValueIsFound
CHECK_DEADLOCK FALSE
