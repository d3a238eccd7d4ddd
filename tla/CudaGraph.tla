------------------------------ MODULE CudaGraph ------------------------------
(***************************************************************************)
(* Replaying captured graphs (engine/cuda_graph.py) instead of running the *)
(* model (models/qwen3_5.py).  A graph reads and writes static buffers     *)
(* only: those of the prefill are shared by every layer and every bucket   *)
(* size, and the projections by all layers of one type, so what a call     *)
(* computes must not depend on what earlier calls left there.              *)
(*                                                                         *)
(* A row of hidden states is a number modulo P, 0 being the row of zeros.  *)
(* The dense segments work row by row and map zeros to zeros.  Attention   *)
(* mixes the rows of a request; its caches are left out of the prefill,    *)
(* where both paths update them by the same eager call.                    *)
(***************************************************************************)
EXTENDS Integers, Sequences, FiniteSetsExt, Functions

CONSTANTS
    P,                    \* rows are numbers modulo P
    layers,               \* the model: a sequence of layer types
    prefill_graph_sizes,  \* the buckets, a sequence
    TokenIds              \* the vocabulary

\* capture_prefill appends the largest batch, max_num_batched_tokens, last.
max_tokens == prefill_graph_sizes[Len(prefill_graph_sizes)]

\* Any other type raises in the layer's constructor.
LayerTypes == {"linear_attention", "full_attention"}

ASSUME GraphAssumption ==
    /\ P \in Nat \ {0} /\ TokenIds \subseteq 0..(P - 1)
    /\ layers \in Seq(LayerTypes) \ {<<>>}
    /\ prefill_graph_sizes \in Seq(Nat) \ {<<>>}
    /\ \A i \in DOMAIN prefill_graph_sizes : prefill_graph_sizes[i] \in 1..max_tokens

VARIABLES
    buffers,  \* piecewise_buffers, a row of each per token
    call      \* the call that runs, or ran last

vars == <<buffers, call>>
-----------------------------------------------------------------------------
(* The model.  A batch is a sequence of rows, one for each token; starts   *)
(* holds the first row of each request (prefill_slices).                   *)

embed_tokens(id) == id
norm(x) == (x * x * x) % P
projection(l, x) == ((l + 1) * x) % P
mlp(l, x) == ((x + l) * x) % P

\* forward_input adds the residual; the first layer has none.
forward_input(l, hidden, residual) == IF l = 1 THEN hidden ELSE (hidden + residual) % P

\* The dense work of one row before attention: its projections (q, k and v, or
\* qkv, z, b and a), and the residual it passes on.
forward_piecewise_pre(l, hidden, residual) ==
    LET sum == forward_input(l, hidden, residual)
    IN [out |-> projection(l, norm(sum)), residual |-> sum]

\* Attention: a row sees the rows of its request up to itself.
forward_attention_core(pre, starts) ==
    [i \in DOMAIN pre |->
        MapThenSumSet(LAMBDA j : pre[j], Max({s \in starts : s <= i}) .. i) % P]

\* The dense work of one row after attention: add the residual, norm, MLP.
forward_output(l, hidden, residual) ==
    LET sum == (hidden + residual) % P
    IN [hidden |-> mlp(l, norm(sum)), residual |-> sum]

\* Qwen3_5DecoderLayer.forward: one layer, without graphs.
decoder_layer(l, in, starts) ==
    LET pre == [i \in DOMAIN in |-> forward_piecewise_pre(l, in[i].hidden, in[i].residual)]
        core == forward_attention_core([i \in DOMAIN in |-> pre[i].out], starts)
    IN [i \in DOMAIN in |-> forward_output(l, core[i], pre[i].residual)]

\* Qwen3_5Model.forward: the whole prefill without graphs.
embedded(ids) == [i \in DOMAIN ids |-> [hidden |-> embed_tokens(ids[i]), residual |-> 0]]

layer_outputs(ids, starts) ==
    LET layer[l \in 0..Len(layers)] ==
          IF l = 0 THEN embedded(ids) ELSE decoder_layer(l, layer[l - 1], starts)
    IN layer

forward(ids, starts) ==
    LET last == layer_outputs(ids, starts)[Len(layers)]
    IN [i \in DOMAIN ids |-> norm((last[i].hidden + last[i].residual) % P)]
-----------------------------------------------------------------------------
Zeros(n) == [i \in 1..n |-> 0]

BufferNames == {"pre_hidden", "pre_residual", "pre_residual_out",
                "post_hidden", "post_residual", "post_hidden_out", "post_residual_out"}
NoCall == [pc |-> "idle"]

\* Layers whose projections have the same shape share one pre_out buffer.
Init ==
    /\ buffers = [b \in BufferNames \cup Range(layers) |-> Zeros(max_tokens)]
    /\ call = NoCall

\* A tensor's rows from 1 to the length of new are replaced: buf[:n].copy_(new).
Copied(buf, new) == [i \in DOMAIN buf |-> IF i \in DOMAIN new THEN new[i] ELSE buf[i]]

\* The input of a graph: buf[:size].zero_(), then buf[:n].copy_(new).
Refilled(buf, size, new) == Copied(Copied(buf, Zeros(size)), new)

\* The smallest bucket that holds the batch, the first in their order.
graph_size(n) ==
    prefill_graph_sizes[Min({i \in DOMAIN prefill_graph_sizes : prefill_graph_sizes[i] >= n})]

\* run_prefill is called: the batch is embedded and its bucket chosen.
run_prefill(ids, starts) ==
    /\ call.pc \in {"idle", "returned"}
    /\ call' = [pc |-> "pre", ids |-> ids, starts |-> starts, layer |-> 1,
                size |-> graph_size(Len(ids)), output |-> <<>>,
                hidden |-> [i \in DOMAIN ids |-> embed_tokens(ids[i])]]
    /\ UNCHANGED buffers

\* What the previous layer left is copied in, and the layer's first graph
\* replayed: it works on all rows of the bucket and leaves its results in the
\* buffers shared with the other layers.
Pre ==
    /\ call.pc = "pre"
    /\ LET n == Len(call.ids)
           l == call.layer
           hidden_in == Refilled(buffers.pre_hidden, call.size,
                          IF l = 1 THEN call.hidden ELSE SubSeq(buffers.post_hidden_out, 1, n))
           residual_in == IF l = 1 THEN buffers.pre_residual
                          ELSE Refilled(buffers.pre_residual, call.size,
                                        SubSeq(buffers.post_residual_out, 1, n))
           row == [i \in 1..call.size |-> forward_piecewise_pre(l, hidden_in[i], residual_in[i])]
       IN buffers' = [buffers EXCEPT
             !.pre_hidden = hidden_in,
             !.pre_residual = residual_in,
             ![layers[l]] = Copied(@, [i \in DOMAIN row |-> row[i].out]),
             !.pre_residual_out = Copied(@, [i \in DOMAIN row |-> row[i].residual])]
    /\ call' = [call EXCEPT !.pc = "core"]

\* The attention core runs eagerly, on the rows of the batch only.
Core ==
    /\ call.pc = "core"
    /\ call' = [call EXCEPT !.pc = "post",
          !.output = forward_attention_core(
                        SubSeq(buffers[layers[call.layer]], 1, Len(call.ids)), call.starts)]
    /\ UNCHANGED buffers

\* The second graph, on the output of the attention and the residual.
ReplayPost(residual_in) ==
    /\ call.pc = "post"
    /\ LET hidden_in == Refilled(buffers.post_hidden, call.size, call.output)
           row == [i \in 1..call.size |->
                      forward_output(call.layer, hidden_in[i], residual_in[i])]
       IN buffers' = [buffers EXCEPT
             !.post_hidden = hidden_in,
             !.post_residual = residual_in,
             !.post_hidden_out = Copied(@, [i \in DOMAIN row |-> row[i].hidden]),
             !.post_residual_out = Copied(@, [i \in DOMAIN row |-> row[i].residual])]
    /\ call' = IF call.layer < Len(layers)
               THEN [call EXCEPT !.pc = "pre", !.layer = @ + 1]
               ELSE [call EXCEPT !.pc = "norm"]

\* Mutant: the residual of the second graph is not filled in.
Stale_Post == ReplayPost(buffers.post_residual)

Post == ReplayPost(Copied(buffers.post_residual, SubSeq(buffers.pre_residual_out, 1, call.size)))

\* The final norm, on the rows of the batch.
Finish ==
    /\ call.pc = "norm"
    /\ call' = [call EXCEPT !.pc = "returned",
          !.output = [i \in DOMAIN call.ids |->
              norm((buffers.post_hidden_out[i] + buffers.post_residual_out[i]) % P)]]
    /\ UNCHANGED buffers

\* Any batch that fits, cut into requests anywhere.
Next ==
    \/ \E n \in 1..max_tokens : \E ids \in [1..n -> TokenIds], cuts \in SUBSET (2..n) :
          run_prefill(ids, {1} \cup cuts)
    \/ Pre \/ Core \/ Post \/ Finish

Spec == Init /\ [][Next]_vars
-----------------------------------------------------------------------------
\* A prefill that replays graphs returns what the model returns without them:
\* whatever earlier, larger or smaller batches left in the buffers that all
\* layers and all buckets share, and whatever is computed in the rows that
\* fill a bucket up.
ReplayIsEager ==
    call.pc = "returned" => call.output = forward(call.ids, call.starts)
=============================================================================
