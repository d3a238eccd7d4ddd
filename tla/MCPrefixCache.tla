--------------------------- MODULE MCPrefixCache ---------------------------
(* Instances of PrefixCache for TLC.                                       *)
EXTENDS PrefixCache

CONSTANTS r1, r2, r3, r4

(* Two prompts share two blocks, one of them ends with the second; a third *)
(* begins with the text of the second block.                               *)
SharedPrompt == r1 :> <<1, 1, 2, 2, 1>> @@ r2 :> <<1, 1, 2, 2>> @@ r3 :> <<2, 2, 1>>
                @@ r4 :> <<1, 1, 2>>
SharedMaxTokens == r1 :> 2 @@ r2 :> 2 @@ r3 :> 2 @@ r4 :> 3

BlockSymmetry == Permutations(Blocks)
=============================================================================
