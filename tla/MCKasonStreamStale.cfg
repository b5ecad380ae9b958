SPECIFICATION Spec
CONSTANTS
  ScratchSize = 40
  MayBreak = FALSE
  FinishAfterError = TRUE
  Chunks <- MCChunks
  Documents <- MCDocuments
INVARIANTS NoStaleRead
