--------------------------- MODULE MCAsyncDecode ---------------------------
(* Instances of AsyncDecode for TLC.                                       *)
EXTENDS AsyncDecode

CONSTANTS r1, r2, r3

(* Decodes of different lengths that cross block boundaries together.      *)
CohortPromptLen == r1 :> 1 @@ r2 :> 2 @@ r3 :> 3
CohortMaxTokens == r1 :> 3 @@ r2 :> 4 @@ r3 :> 2

BlockSymmetry == Permutations(Blocks)
=============================================================================
