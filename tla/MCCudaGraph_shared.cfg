CONSTANTS
  P = 11
  layers <- HybridLayers
  prefill_graph_sizes <- Buckets
  TokenIds = {1, 2}
SPECIFICATION Spec
INVARIANTS ReplayIsEager
