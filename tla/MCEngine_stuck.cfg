CONSTANTS
  r1 = r1
  r2 = r2
  r3 = r3
  Requests = {r1, r2, r3}
  Blocks = {0, 1, 2}
  BlockSize = 2
  MaxNumSeqs = 2
  MaxNumBatchedTokens = 2
  PromptLen <- StuckPromptLen
  MaxTokens <- StuckMaxTokens
  IgnoreEos = {r1}
  AsyncScheduling = TRUE
SPECIFICATION FairEngineSpec
PROPERTIES StartedRequestsFinish
