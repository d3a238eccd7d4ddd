---------------------------- MODULE MCCudaGraph -----------------------------
(* Three layers, of which two share the buffer of their projections, and   *)
(* buckets of two and four tokens: a batch of one or three is filled up,   *)
(* and a batch of two leaves the last rows of a larger one behind.         *)
EXTENDS CudaGraph

HybridLayers == <<"linear_attention", "linear_attention", "full_attention">>
Buckets == <<2, 4>>
=============================================================================
