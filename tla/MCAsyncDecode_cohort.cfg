CONSTANTS
  r1 = r1
  r2 = r2
  r3 = r3
  Requests = {r1, r2, r3}
  Blocks = {b1, b2, b3, b4, b5}
  BlockSize = 2
  MaxNumSeqs = 2
  MaxNumBatchedTokens = 3
  PromptLen <- CohortPromptLen
  MaxTokens <- CohortMaxTokens
  IgnoreEos = {r3}
SPECIFICATION AsyncSpec
SYMMETRY BlockSymmetry
INVARIANTS AsyncTypeOK InOrder ViewsOwnTheirBlocks AsyncBlocksConserved CohortOwners WithinMaxTokens
PROPERTIES ImplementsGeneration
