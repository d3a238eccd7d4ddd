---------------------------- MODULE MCCheckpoint ----------------------------
(* One weight that is kept and one that is quantised: three tensors of a   *)
(* converted checkpoint, in either order of the layers, with every place a *)
(* shard may end and a source that lacks either.                           *)
EXTENDS Checkpoint

CONSTANTS norm, proj

PlainWeights == {norm}
QuantisedWeights == {proj}
=============================================================================
