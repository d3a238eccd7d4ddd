---------------------------- MODULE MCScheduler ----------------------------
(* Instances of Scheduler for TLC: what each request asks for, by run.     *)
EXTENDS Scheduler

CONSTANTS r1, r2, r3, r4, r5

(* Four requests compete for three slots, one with a prompt of two chunks  *)
(* that outgrows a pool of six blocks as it decodes; r5 never fits in it.   *)
ContendedPromptLen == r1 :> 1 @@ r2 :> 4 @@ r3 :> 3 @@ r4 :> 2 @@ r5 :> 13
ContendedMaxTokens == r1 :> 3 @@ r2 :> 10 @@ r3 :> 2 @@ r4 :> 1 @@ r5 :> 1

BlockSymmetry == Permutations(Blocks)
=============================================================================
