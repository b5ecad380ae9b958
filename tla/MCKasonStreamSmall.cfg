SPECIFICATION Spec
CONSTANTS
  ScratchSize = 4
  MayBreak = TRUE
  FinishAfterError = FALSE
  Chunks <- MCAllChunks
  Documents <- MCAllDocuments
INVARIANTS ScratchBounded FullOnlyWhenNeeded VerdictIsGrammars
