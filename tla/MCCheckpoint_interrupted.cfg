SPECIFICATION Spec
CONSTANTS
    norm = norm
    proj = proj
    Plain <- PlainWeights
    Projections <- QuantisedWeights
INVARIANTS
    RecognizedIsComplete
    LoadedIsConverted
