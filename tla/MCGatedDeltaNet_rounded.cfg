SPECIFICATION Spec
CONSTANTS
  P = 19
  DecayRoot = 2
  KDim = 2
  VDim = 1
  ConvKernel = 3
  Scale = 3
  Query <- MCQuery
  Key <- MCKey
  Value <- MCValue
  G <- MCG
  Beta <- MCBeta
  ToPool <- Halved
  ToKey <- Halved
  BC = 1
  Slots = {1, 2}
  Requests <- AlignedTexts
  MaxRows = 2
  MaxBatchTokens = 12
  MaxAdmissions = 3
  StableGates = TRUE
  SplitSizes = {4, 8}
INVARIANT BatchingIsInvisible
