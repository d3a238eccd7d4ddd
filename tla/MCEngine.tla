------------------------------ MODULE MCEngine ------------------------------
(* Instances of Engine for TLC.                                            *)
EXTENDS Engine

CONSTANTS r1, r2, r3

(* Two prompts of two chunks, between which another request asks for a     *)
(* slot, and decodes that outgrow the pool together.                       *)
MixPromptLen == r1 :> 1 @@ r2 :> 3 @@ r3 :> 3
MixMaxTokens == r1 :> 6 @@ r2 :> 3 @@ r3 :> 2

(* r3 is larger than the pool.                                             *)
StuckPromptLen == r1 :> 3 @@ r2 :> 2 @@ r3 :> 7
StuckMaxTokens == r1 :> 3 @@ r2 :> 4 @@ r3 :> 1
=============================================================================
