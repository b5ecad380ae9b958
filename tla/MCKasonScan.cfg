SPECIFICATION FairSpec
CONSTANTS
  Documents <- MCDocuments
  Answers = {0, 1, 2, 3, 4}
  MAX_NESTING = 2
  MCTokens = 4
INVARIANTS StackIsBounded VerdictIsGrammars ReportsAreExact
PROPERTIES IsTraversal CallReturns
CHECK_DEADLOCK FALSE
