SPECIFICATION FairSpec
CONSTANTS
  ScratchSize = 40
  MayBreak = TRUE
  FinishAfterError = TRUE
  Chunks <- MCChunks
  Documents <- MCDocuments
INVARIANTS TypeOK PointersLive ScratchIsExact ReportsDocument VerdictIsGrammars
PROPERTIES FollowsProtocol FeedReturns
