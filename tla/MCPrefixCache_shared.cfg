CONSTANTS
  r1 = r1
  r2 = r2
  r3 = r3
  r4 = r4
  Requests = {r1, r2, r3, r4}
  Blocks = {b1, b2, b3, b4}
  BlockSize = 2
  Tokens = {1, 2}
  Eos = 2
  Prompt <- SharedPrompt
  MaxTokens <- SharedMaxTokens
SPECIFICATION Spec
SYMMETRY BlockSymmetry
INVARIANTS CachedIsComputed RefCountsExact RowsOwnWhatTheyWrite
