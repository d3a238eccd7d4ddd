SPECIFICATION Spec
CONSTANTS
  P = 19
  DecayRoot = 2
  KDim = 2
  VDim = 1
  ConvKernel = 3
  Scale = 3
  Query <- MCQuery
  Key <- MCKey
  Value <- MCValue
  G <- MCG
  Beta <- MCBeta
  ToPool <- Exact
  ToKey <- Exact
  BC = 4
  Slots = {1, 2}
  Requests <- WideTexts
  MaxRows = 2
  MaxBatchTokens = 21
  MaxAdmissions = 2
  StableGates = FALSE
  SplitSizes = {1, 6, 13, 16}
INVARIANT StatesAreRecurrences
INVARIANT OutputsAreRecurrences
