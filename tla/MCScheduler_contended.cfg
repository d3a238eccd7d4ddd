CONSTANTS
  r1 = r1
  r2 = r2
  r3 = r3
  r4 = r4
  r5 = r5
  Requests = {r1, r2, r3, r4, r5}
  Blocks = {b1, b2, b3, b4, b5, b6}
  BlockSize = 2
  MaxNumSeqs = 3
  MaxNumBatchedTokens = 3
  PromptLen <- ContendedPromptLen
  MaxTokens <- ContendedMaxTokens
  IgnoreEos = {r2}
SPECIFICATION Spec
SYMMETRY BlockSymmetry
INVARIANTS TypeOK OneOwner OneRowPerFlight BlocksConserved KVCovered SlotsBounded NoStall NoSpuriousExhaustion
PROPERTIES DecodeFirst InFlightFrozen ImplementsGeneration
