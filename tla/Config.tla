------------------------------- MODULE Config -------------------------------
(***************************************************************************)
(* The parameters the engine is built with (config/config.py) and what the *)
(* requests ask for (sampling_params.py).                                  *)
(***************************************************************************)
EXTENDS Queues

CONSTANTS
  Requests,             \* the requests that may ever be submitted
  Blocks,               \* the KV blocks of the pool
  BlockSize,            \* tokens per KV block
  MaxNumSeqs,           \* config.max_num_seqs: rows per batch, state slots
  MaxNumBatchedTokens,  \* config.max_num_batched_tokens
  PromptLen,            \* [Requests -> length of the prompt]
  MaxTokens,            \* [Requests -> sampling_params.max_tokens]
  IgnoreEos             \* the requests with sampling_params.ignore_eos

(* BlockSize = 1 would make len % block_size == 1 never true               *)
(* (config.py:55 asks for a multiple of 256); max_tokens = 0 would never   *)
(* satisfy the equality postprocess() stops on.                            *)
ASSUME ConfigAssumption ==
  /\ IsFiniteSet(Requests)
  /\ IsFiniteSet(Blocks)
  /\ BlockSize \in Nat /\ BlockSize > 1
  /\ MaxNumSeqs \in Nat \ {0}
  /\ MaxNumBatchedTokens \in Nat \ {0}
  /\ PromptLen \in [Requests -> Nat \ {0}]
  /\ MaxTokens \in [Requests -> Nat \ {0}]
  /\ IgnoreEos \subseteq Requests
=============================================================================
