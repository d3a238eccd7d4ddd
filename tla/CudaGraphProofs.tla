--------------------------- MODULE CudaGraphProofs ---------------------------
(***************************************************************************)
(* Proofs about CudaGraph, for any sequence of layers and of bucket sizes: *)
(* replaying the graphs of a prefill returns what the model returns.       *)
(***************************************************************************)
EXTENDS CudaGraph, QueueLemmas

(* The model, row by row.                                                  *)
PreRow(l, in, i) == forward_piecewise_pre(l, in[i].hidden, in[i].residual)
CoreOf(l, in, starts) == forward_attention_core([i \in DOMAIN in |-> PreRow(l, in, i).out], starts)

(* What the layers of the model yield for the batch of the call.           *)
Right(l) == layer_outputs(call.ids, call.starts)[l]

BatchSize == Len(call.ids)

Full(buf) == buf = [i \in 1..max_tokens |-> buf[i]]

BuffersWhole ==
  /\ buffers = [b \in BufferNames \cup Range(layers) |-> buffers[b]]
  /\ \A b \in BufferNames \cup Range(layers) : Full(buffers[b])

CallType ==
  /\ call \in [pc : {"pre", "core", "post", "norm", "returned"},
               ids : Seq(TokenIds), starts : SUBSET Nat, layer : 1..Len(layers),
               size : 1..max_tokens, output : {call.output}, hidden : Seq(TokenIds)]
  /\ BatchSize <= call.size
  /\ call.hidden = [i \in 1..BatchSize |-> call.ids[i]]

(* What the layer after layer l is given.                                  *)
Fed(l) ==
  \A i \in 1..BatchSize :
    IF l = 0 THEN call.hidden[i] = Right(0)[i].hidden
    ELSE /\ buffers.post_hidden_out[i] = Right(l)[i].hidden
         /\ buffers.post_residual_out[i] = Right(l)[i].residual

ResidualKept ==
  \A i \in 1..BatchSize :
    buffers.pre_residual_out[i] = PreRow(call.layer, Right(call.layer - 1), i).residual

(* What the buffers of a running call hold, by the place it is at.         *)
Replaying ==
  /\ call.pc = "pre" => Fed(call.layer - 1)
  /\ call.pc = "core" =>
       /\ ResidualKept
       /\ \A i \in 1..BatchSize :
            buffers[layers[call.layer]][i] = PreRow(call.layer, Right(call.layer - 1), i).out
  /\ call.pc = "post" =>
       /\ ResidualKept
       /\ call.output = CoreOf(call.layer, Right(call.layer - 1), call.starts)
  /\ call.pc = "norm" => call.layer = Len(layers) /\ Fed(call.layer)

GraphInv ==
  /\ BuffersWhole
  /\ call.pc # "idle" => CallType /\ Replaying
  /\ ReplayIsEager
-----------------------------------------------------------------------------
(* Rows of buffers.                                                        *)

LEMMA SizesAre ==
  /\ max_tokens \in Nat \ {0}
  /\ \A i \in DOMAIN prefill_graph_sizes : prefill_graph_sizes[i] \in 1..max_tokens
  /\ DOMAIN prefill_graph_sizes = 1..Len(prefill_graph_sizes)
  /\ Len(prefill_graph_sizes) \in DOMAIN prefill_graph_sizes
<1>1. Len(prefill_graph_sizes) \in Nat \ {0}
      /\ DOMAIN prefill_graph_sizes = 1..Len(prefill_graph_sizes)
  BY GraphAssumption, EmptySeq, LenProperties
<1>2. max_tokens \in Nat
  BY <1>1, GraphAssumption, ElementOfSeq DEF max_tokens
<1>3. max_tokens \in 1..max_tokens
  BY <1>1, GraphAssumption DEF max_tokens
<1> QED
  BY <1>1, <1>2, <1>3, GraphAssumption

LEMMA LayersAre ==
  /\ Len(layers) \in Nat \ {0} /\ DOMAIN layers = 1..Len(layers)
  /\ \A l \in 1..Len(layers) : layers[l] \in Range(layers) /\ layers[l] \notin BufferNames
<1>1. Len(layers) \in Nat \ {0} /\ DOMAIN layers = 1..Len(layers)
  BY GraphAssumption, EmptySeq, LenProperties
<1>2. \A l \in 1..Len(layers) : layers[l] \in LayerTypes
  BY <1>1, GraphAssumption, ElementOfSeq
<1> QED
  BY <1>1, <1>2 DEF Range, LayerTypes, BufferNames

LEMMA BuiltQueue ==
  ASSUME NEW n \in Nat, NEW T, NEW ids \in [1..n -> T]
  PROVE  ids \in Seq(T) /\ Len(ids) = n /\ DOMAIN ids = 1..n
OBVIOUS

LEMMA FirstRows ==
  ASSUME NEW N \in Nat, NEW s, s = [i \in 1..N |-> s[i]], NEW n \in 0..N
  PROVE  SubSeq(s, 1, n) = [i \in 1..n |-> s[i]]
<1> DEFINE T == {s[i] : i \in 1..N}
<1>1. s \in [1..N -> T]
  OBVIOUS
<1>2. s \in Seq(T) /\ Len(s) = N
  BY <1>1, BuiltQueue
<1> HIDE DEF T
<1>3. /\ DOMAIN SubSeq(s, 1, n) = 1..n
      /\ \A i \in 1..n : SubSeq(s, 1, n)[i] = s[i]
      /\ SubSeq(s, 1, n) \in Seq(T)
  BY <1>2
<1>4. SubSeq(s, 1, n) = [i \in 1..n |-> SubSeq(s, 1, n)[i]]
  BY <1>3
<1> QED
  BY <1>3, <1>4

LEMMA CopiedRows ==
  ASSUME NEW buf, Full(buf), NEW new
  PROVE  /\ Full(Copied(buf, new))
         /\ \A i \in 1..max_tokens : Copied(buf, new)[i] = IF i \in DOMAIN new THEN new[i] ELSE buf[i]
BY DEF Copied, Full

LEMMA RefilledRows ==
  ASSUME NEW buf, Full(buf), NEW size \in 1..max_tokens, NEW new
  PROVE  /\ Full(Refilled(buf, size, new))
         /\ \A i \in (1..max_tokens) \cap DOMAIN new : Refilled(buf, size, new)[i] = new[i]
<1>1. Full(Copied(buf, Zeros(size)))
  BY CopiedRows
<1> QED
  BY <1>1, CopiedRows DEF Refilled

LEMMA FitsGraph ==
  ASSUME NEW n \in 1..max_tokens
  PROVE  graph_size(n) \in n..max_tokens
<1> DEFINE I == {i \in DOMAIN prefill_graph_sizes : prefill_graph_sizes[i] >= n}
<1>1. Len(prefill_graph_sizes) \in I
  BY SizesAre DEF max_tokens
<1>2. I \subseteq Nat
  BY SizesAre
<1> DEFINE R == {ss \in Nat \X Nat : ss[1] < ss[2]}
<1>3. PICK x \in I : \A y \in I : ~(<<y, x>> \in R)
  <2>1. IsWellFoundedOn(R, Nat)
    BY NatLessThanWellFounded DEF OpToRel
  <2> HIDE DEF I, R
  <2> QED
    BY <1>1, <1>2, <2>1, WFMin, Zenon
<1>4. ASSUME NEW y \in I PROVE x <= y
  <2>1. x \in Nat /\ y \in Nat /\ ~(<<y, x>> \in R)
    BY <1>2, <1>3
  <2> QED
    BY <2>1
<1>5. Min(I) \in I
  BY <1>3, <1>4 DEF Min
<1>6. graph_size(n) = prefill_graph_sizes[Min(I)]
  BY DEF graph_size
<1> QED
  BY <1>5, <1>6, SizesAre
-----------------------------------------------------------------------------
(* The recursion over the layers has a solution, so layer_outputs is it.   *)

LEMMA LayerOutputs ==
  ASSUME NEW ids, NEW starts
  PROVE  /\ layer_outputs(ids, starts)[0] = embedded(ids)
         /\ \A l \in 1..Len(layers) :
              layer_outputs(ids, starts)[l]
                = decoder_layer(l, layer_outputs(ids, starts)[l - 1], starts)
<1> DEFINE N == Len(layers)
           Solves(g, n) == /\ g = [l \in 0..n |-> g[l]] /\ g[0] = embedded(ids)
                           /\ \A l \in 1..n : g[l] = decoder_layer(l, g[l - 1], starts)
           Solved == {n \in 0..N : \E g : Solves(g, n)}
<1>1. N \in Nat
  BY LayersAre
<1>2. 0 \in Solved
  <2>1. Solves([l \in 0..0 |-> embedded(ids)], 0)
    OBVIOUS
  <2> HIDE DEF Solves
  <2> QED
    BY <1>1, <2>1
<1>3. ASSUME NEW n \in 0..N - 1, n \in Solved PROVE n + 1 \in Solved
  <2>1. PICK g : Solves(g, n)
    BY <1>3
  <2> DEFINE h == [l \in 0..n + 1 |-> IF l = n + 1 THEN decoder_layer(n + 1, g[n], starts) ELSE g[l]]
  <2>2. n \in Nat /\ n + 1 \in 0..N
    BY <1>1
  <2>3. h = [l \in 0..n + 1 |-> h[l]] /\ h[0] = embedded(ids)
    BY <2>1, <2>2
  <2>4. ASSUME NEW l \in 1..n + 1 PROVE h[l] = decoder_layer(l, h[l - 1], starts)
    <3>1. l - 1 \in 0..n + 1 /\ l - 1 # n + 1 /\ l \in 0..n + 1
      BY <2>2
    <3>2. h[l - 1] = g[l - 1]
      BY <3>1
    <3>3. CASE l = n + 1
      BY <2>2, <3>1, <3>2, <3>3
    <3>4. CASE l # n + 1
      <4>1. l \in 1..n
        BY <2>2, <3>4
      <4>2. g[l] = decoder_layer(l, g[l - 1], starts)
        BY <2>1, <4>1
      <4> QED
        BY <3>1, <3>2, <3>4, <4>2
    <3> QED
      BY <3>3, <3>4
  <2>5. Solves(h, n + 1)
    BY <2>3, <2>4
  <2> QED
    BY <2>2, <2>5
<1>4. N \in Solved
  <2> HIDE DEF Solved, N
  <2>1. \A n \in 0..N : n \in Solved
    BY <1>1, <1>2, <1>3, CountUp
  <2> QED
    BY <1>1, <2>1
<1>5. PICK g : Solves(g, N)
  BY <1>4
<1> DEFINE Rec(f) == f = [l \in 0..Len(layers) |->
                            IF l = 0 THEN embedded(ids) ELSE decoder_layer(l, f[l - 1], starts)]
<1>6. Rec(g)
  <2>1. g = [l \in 0..N |-> g[l]]
    BY <1>5
  <2>2. ASSUME NEW l \in 0..N
        PROVE  g[l] = IF l = 0 THEN embedded(ids) ELSE decoder_layer(l, g[l - 1], starts)
    <3>1. l = 0 \/ l \in 1..N
      BY <1>1
    <3> QED
      BY <1>5, <3>1
  <2> QED
    BY <2>1, <2>2
<1> DEFINE f == CHOOSE f : Rec(f)
<1>7. layer_outputs(ids, starts) = f
  BY DEF layer_outputs
<1>8. Rec(f)
  <2> HIDE DEF Rec
  <2> QED
    BY <1>6, Zenon
<1> HIDE DEF f
<1>9. f[0] = embedded(ids)
  BY <1>1, <1>8
<1>10. ASSUME NEW l \in 1..N PROVE f[l] = decoder_layer(l, f[l - 1], starts)
  <2>1. l \in 0..N /\ l # 0
    BY <1>1
  <2> QED
    BY <1>8, <2>1
<1> QED
  BY <1>7, <1>9, <1>10

LEMMA LayerRow ==
  ASSUME NEW l, NEW in, NEW starts
  PROVE  /\ DOMAIN decoder_layer(l, in, starts) = DOMAIN in
         /\ \A i \in DOMAIN in :
              decoder_layer(l, in, starts)[i]
                = forward_output(l, CoreOf(l, in, starts)[i], PreRow(l, in, i).residual)
<1> DEFINE pre == [i \in DOMAIN in |-> forward_piecewise_pre(l, in[i].hidden, in[i].residual)]
           core == forward_attention_core([i \in DOMAIN in |-> pre[i].out], starts)
<1>1. decoder_layer(l, in, starts) = [i \in DOMAIN in |-> forward_output(l, core[i], pre[i].residual)]
  BY DEF decoder_layer
<1>2. \A i \in DOMAIN in : pre[i] = PreRow(l, in, i)
  BY DEF PreRow
<1>3. [i \in DOMAIN in |-> pre[i].out] = [i \in DOMAIN in |-> PreRow(l, in, i).out]
  BY <1>2
<1>4. core = CoreOf(l, in, starts)
  BY <1>3 DEF CoreOf
<1> HIDE DEF pre, core
<1> QED
  BY <1>1, <1>2, <1>4

(* Every layer has the rows of the batch.                                  *)
LEMMA RightRows ==
  ASSUME CallType
  PROVE  /\ BatchSize \in 0..max_tokens /\ DOMAIN call.ids = 1..BatchSize
         /\ \A l \in 0..Len(layers) : DOMAIN Right(l) = 1..BatchSize
         /\ \A i \in 1..BatchSize : Right(0)[i] = [hidden |-> call.ids[i], residual |-> 0]
         /\ \A l \in 1..Len(layers) : Right(l) = decoder_layer(l, Right(l - 1), call.starts)
<1> DEFINE Has == {l \in 0..Len(layers) : DOMAIN Right(l) = 1..BatchSize}
<1>1. BatchSize \in 0..max_tokens /\ DOMAIN call.ids = 1..BatchSize
  <2>1. call.ids \in Seq(TokenIds) /\ call.size \in 1..max_tokens /\ BatchSize <= call.size
    BY DEF CallType
  <2> QED
    BY <2>1, SizesAre, LenProperties DEF BatchSize
<1>2. Right(0) = embedded(call.ids)
      /\ \A l \in 1..Len(layers) : Right(l) = decoder_layer(l, Right(l - 1), call.starts)
  BY LayerOutputs DEF Right
<1>3. 0 \in Has
  BY <1>1, <1>2, LayersAre DEF embedded
<1>4. ASSUME NEW k \in 0..Len(layers) - 1, k \in Has PROVE k + 1 \in Has
  <2>1. k + 1 \in 1..Len(layers) /\ (k + 1) - 1 = k /\ k + 1 \in 0..Len(layers)
    BY LayersAre
  <2>2. Right(k + 1) = decoder_layer(k + 1, Right(k), call.starts)
    BY <1>2, <2>1
  <2> QED
    BY <1>4, <2>1, <2>2, LayerRow
<1>5. \A l \in 0..Len(layers) : l \in Has
  <2> HIDE DEF Has
  <2> QED
    BY <1>3, <1>4, LayersAre, CountUp
<1>6. \A i \in 1..BatchSize : Right(0)[i] = [hidden |-> call.ids[i], residual |-> 0]
  BY <1>1, <1>2 DEF embedded, embed_tokens
<1> QED
  BY <1>1, <1>2, <1>5, <1>6
-----------------------------------------------------------------------------
(* The steps.                                                              *)

LEMMA GraphInit == Init => GraphInv
<1> SUFFICES ASSUME Init PROVE GraphInv
  OBVIOUS
<1>1. \A b \in BufferNames \cup Range(layers) : buffers[b] = Zeros(max_tokens)
  BY DEF Init
<1>2. Full(Zeros(max_tokens))
  BY DEF Full, Zeros
<1>3. BuffersWhole
  BY <1>1, <1>2 DEF BuffersWhole, Init
<1>4. call.pc = "idle"
  BY DEF Init, NoCall
<1> QED
  BY <1>3, <1>4 DEF GraphInv, ReplayIsEager

LEMMA CalledInv ==
  ASSUME GraphInv, NEW n \in 1..max_tokens, NEW ids \in [1..n -> TokenIds],
         NEW cuts \in SUBSET (2..n), run_prefill(ids, {1} \cup cuts)
  PROVE  GraphInv'
<1> DEFINE starts == {1} \cup cuts
<1>1. n \in Nat /\ ids \in Seq(TokenIds) /\ Len(ids) = n /\ DOMAIN ids = 1..n
  BY SizesAre, BuiltQueue
<1>2. graph_size(n) \in n..max_tokens /\ graph_size(n) \in 1..max_tokens
  BY FitsGraph, SizesAre
<1>3. [i \in 1..n |-> embed_tokens(ids[i])] = ids
  BY <1>1 DEF embed_tokens
<1>4. call' = [pc |-> "pre", ids |-> ids, starts |-> starts, layer |-> 1,
               size |-> graph_size(n), output |-> <<>>, hidden |-> ids]
  BY <1>1, <1>3 DEF run_prefill
<1>5. starts \in SUBSET Nat /\ 1 \in 1..Len(layers)
  BY LayersAre, SizesAre
<1> HIDE DEF starts
<1>6. CallType'
  <2>1. BatchSize' = n
    BY <1>1, <1>4 DEF BatchSize
  <2>2. ids = [i \in 1..n |-> ids[i]]
    OBVIOUS
  <2> QED
    BY <1>1, <1>2, <1>4, <1>5, <2>1, <2>2, SizesAre DEF CallType
<1>7. Replaying'
  <2>1. BatchSize' = n /\ Right(0)' = embedded(ids)
    BY <1>1, <1>4, LayerOutputs DEF BatchSize, Right
  <2>2. \A i \in 1..n : embedded(ids)[i].hidden = ids[i]
    BY <1>1 DEF embedded, embed_tokens
  <2>3. Fed(0)'
    BY <1>4, <2>1, <2>2 DEF Fed
  <2>4. call'.pc = "pre" /\ call'.layer - 1 = 0
    BY <1>4
  <2> QED
    BY <2>3, <2>4 DEF Replaying
<1>8. BuffersWhole'
  BY DEF run_prefill, GraphInv, BuffersWhole, Full
<1> QED
  BY <1>4, <1>6, <1>7, <1>8 DEF GraphInv, ReplayIsEager

(* Only the place, the layer and the output of a running call change.      *)
LEMMA SameBatch ==
  ASSUME CallType, NEW pc, NEW layer, NEW output,
         call' = [call EXCEPT !.pc = pc, !.layer = layer, !.output = output]
  PROVE  /\ call'.pc = pc /\ call'.layer = layer /\ call'.output = output
         /\ call'.ids = call.ids /\ call'.starts = call.starts /\ call'.size = call.size
         /\ call'.hidden = call.hidden
         /\ BatchSize' = BatchSize /\ \A l : Right(l)' = Right(l)
         /\ (pc \in {"pre", "core", "post", "norm", "returned"} /\ layer \in 1..Len(layers))
              => CallType'
<1>1. /\ call'.pc = pc /\ call'.layer = layer /\ call'.output = output
      /\ call'.ids = call.ids /\ call'.starts = call.starts /\ call'.size = call.size
      /\ call'.hidden = call.hidden
  BY DEF CallType
<1>2. BatchSize' = BatchSize /\ \A l : Right(l)' = Right(l)
  BY <1>1 DEF BatchSize, Right
<1>3. (pc \in {"pre", "core", "post", "norm", "returned"} /\ layer \in 1..Len(layers))
              => CallType'
  BY <1>1, <1>2 DEF CallType
<1> QED
  BY <1>1, <1>2, <1>3

(* The rows of the batch go through the first graph of the layer as they   *)
(* do through the model, whatever is in the rows behind them.              *)
LEMMA PreInv == ASSUME GraphInv, Pre PROVE GraphInv'
<1>1. CallType /\ Replaying /\ BuffersWhole /\ call.pc = "pre" /\ Fed(call.layer - 1)
  BY DEF GraphInv, Pre, Replaying
<1> DEFINE n == BatchSize
           l == call.layer
           size == call.size
           rows == IF l = 1 THEN call.hidden ELSE SubSeq(buffers.post_hidden_out, 1, n)
           kept == SubSeq(buffers.post_residual_out, 1, n)
           hidden_in == Refilled(buffers.pre_hidden, size, rows)
           residual_in == IF l = 1 THEN buffers.pre_residual
                          ELSE Refilled(buffers.pre_residual, size, kept)
           row == [i \in 1..size |-> forward_piecewise_pre(l, hidden_in[i], residual_in[i])]
           outs == [i \in DOMAIN row |-> row[i].out]
           residuals == [i \in DOMAIN row |-> row[i].residual]
<1>2. /\ l \in 1..Len(layers) /\ size \in 1..max_tokens /\ n \in 0..max_tokens
      /\ 1..n \subseteq 1..size /\ 1..n \subseteq 1..max_tokens /\ n \in Nat
      /\ call.hidden = [i \in 1..n |-> call.ids[i]]
  <2>1. l \in 1..Len(layers) /\ size \in 1..max_tokens /\ n <= size
        /\ call.hidden = [i \in 1..n |-> call.ids[i]]
    BY <1>1 DEF CallType
  <2>2. n \in 0..max_tokens
    BY <1>1, RightRows
  <2> QED
    BY <2>1, <2>2, SizesAre
<1>3. /\ layers[l] \in Range(layers) /\ layers[l] \notin BufferNames
      /\ \A b \in BufferNames \cup Range(layers) : b \in DOMAIN buffers /\ Full(buffers[b])
  BY <1>1, <1>2, LayersAre DEF BuffersWhole
<1>4. /\ buffers' = [buffers EXCEPT !.pre_hidden = hidden_in, !.pre_residual = residual_in,
                        ![layers[l]] = Copied(@, outs), !.pre_residual_out = Copied(@, residuals)]
      /\ call' = [call EXCEPT !.pc = "core"]
  BY DEF Pre, BatchSize
<1>5. DOMAIN rows = 1..n /\ \A i \in 1..n : rows[i] = Right(l - 1)[i].hidden
  <2>1. CASE l = 1
    BY <1>1, <1>2, <2>1 DEF Fed
  <2>2. CASE l # 1
    <3>1. l - 1 # 0
      BY <1>2, <2>2
    <3>2. rows = [i \in 1..n |-> buffers.post_hidden_out[i]]
      BY <1>2, <1>3, <2>2, FirstRows, SizesAre DEF Full, BufferNames
    <3> HIDE DEF rows
    <3> QED
      BY <1>1, <3>1, <3>2 DEF Fed
  <2> QED
    BY <2>1, <2>2
<1>6. l # 1 => DOMAIN kept = 1..n /\ \A i \in 1..n : kept[i] = Right(l - 1)[i].residual
  <2> SUFFICES ASSUME l # 1
               PROVE  DOMAIN kept = 1..n /\ \A i \in 1..n : kept[i] = Right(l - 1)[i].residual
    OBVIOUS
  <2>1. l - 1 # 0
    BY <1>2
  <2>2. kept = [i \in 1..n |-> buffers.post_residual_out[i]]
    BY <1>2, <1>3, FirstRows, SizesAre DEF Full, BufferNames
  <2> HIDE DEF kept
  <2> QED
    BY <1>1, <2>1, <2>2 DEF Fed
<1> HIDE DEF rows, kept
<1>7. Full(hidden_in) /\ \A i \in 1..n : hidden_in[i] = Right(l - 1)[i].hidden
  <2>1. Full(buffers.pre_hidden)
    BY <1>3 DEF BufferNames
  <2>2. /\ Full(hidden_in)
        /\ \A i \in (1..max_tokens) \cap DOMAIN rows : hidden_in[i] = rows[i]
    BY <1>2, <2>1, RefilledRows
  <2> HIDE DEF hidden_in
  <2> QED
    BY <1>2, <1>5, <2>2
<1>8. /\ Full(residual_in)
      /\ l # 1 => \A i \in 1..n : residual_in[i] = Right(l - 1)[i].residual
  <2>1. Full(buffers.pre_residual)
    BY <1>3 DEF BufferNames
  <2>2. CASE l = 1
    BY <2>1, <2>2
  <2>3. CASE l # 1
    <3>1. /\ Full(residual_in)
          /\ \A i \in (1..max_tokens) \cap DOMAIN kept : residual_in[i] = kept[i]
      BY <1>2, <2>1, <2>3, RefilledRows
    <3> HIDE DEF residual_in
    <3> QED
      BY <1>2, <1>6, <2>3, <3>1
  <2> QED
    BY <2>2, <2>3
<1> HIDE DEF hidden_in, residual_in
<1>9. \A i \in 1..n : row[i] = PreRow(l, Right(l - 1), i)
  <2>1. \A i \in 1..n : row[i] = forward_piecewise_pre(l, hidden_in[i], residual_in[i])
    BY <1>2
  <2> HIDE DEF row
  <2>2. CASE l = 1
    <3>1. \A h, r1, r2 : forward_piecewise_pre(1, h, r1) = forward_piecewise_pre(1, h, r2)
      BY DEF forward_piecewise_pre, forward_input
    <3> QED
      BY <1>7, <2>1, <2>2, <3>1 DEF PreRow
  <2>3. CASE l # 1
    BY <1>7, <1>8, <2>1, <2>3 DEF PreRow
  <2> QED
    BY <2>2, <2>3
<1>10. /\ Full(Copied(buffers[layers[l]], outs))
       /\ \A i \in 1..n : Copied(buffers[layers[l]], outs)[i] = PreRow(l, Right(l - 1), i).out
  <2>1. DOMAIN outs = 1..size /\ \A i \in 1..size : outs[i] = row[i].out
    OBVIOUS
  <2> HIDE DEF outs, row
  <2> QED
    BY <1>2, <1>3, <1>9, <2>1, CopiedRows
<1>11. /\ Full(Copied(buffers.pre_residual_out, residuals))
       /\ \A i \in 1..n :
            Copied(buffers.pre_residual_out, residuals)[i] = PreRow(l, Right(l - 1), i).residual
  <2>1. DOMAIN residuals = 1..size /\ \A i \in 1..size : residuals[i] = row[i].residual
    OBVIOUS
  <2>2. Full(buffers.pre_residual_out)
    BY <1>3 DEF BufferNames
  <2> HIDE DEF residuals, row
  <2> QED
    BY <1>2, <1>9, <2>1, <2>2, CopiedRows
<1> HIDE DEF outs, residuals, row
<1>12. /\ DOMAIN buffers' = DOMAIN buffers
       /\ buffers' = [b \in DOMAIN buffers |-> buffers'[b]]
       /\ buffers'.pre_hidden = hidden_in /\ buffers'.pre_residual = residual_in
       /\ buffers'[layers[l]] = Copied(buffers[layers[l]], outs)
       /\ buffers'.pre_residual_out = Copied(buffers.pre_residual_out, residuals)
       /\ \A b \in DOMAIN buffers \ {"pre_hidden", "pre_residual", "pre_residual_out", layers[l]} :
            buffers'[b] = buffers[b]
  BY <1>3, <1>4 DEF BufferNames
<1>13. BuffersWhole'
  <2>1. DOMAIN buffers = BufferNames \cup Range(layers)
    BY <1>1 DEF BuffersWhole
  <2>2. \A b \in DOMAIN buffers : Full(buffers'[b])
    BY <1>3, <1>7, <1>8, <1>10, <1>11, <1>12, <2>1
  <2> QED
    BY <1>12, <2>1, <2>2 DEF BuffersWhole, Full
<1>14. call' = [call EXCEPT !.pc = "core", !.layer = call.layer, !.output = call.output]
  BY <1>1, <1>4 DEF CallType
<1>15. /\ call'.pc = "core" /\ call'.layer = l /\ BatchSize' = n /\ CallType'
       /\ \A k : Right(k)' = Right(k)
  BY <1>1, <1>2, <1>14, SameBatch
<1>16. Replaying'
  <2>1. \A i \in 1..n :
          /\ buffers'[layers[l]][i] = PreRow(l, Right(l - 1), i).out
          /\ buffers'.pre_residual_out[i] = PreRow(l, Right(l - 1), i).residual
    BY <1>10, <1>11, <1>12
  <2> QED
    BY <1>15, <2>1 DEF Replaying, ResidualKept
<1> QED
  BY <1>13, <1>15, <1>16 DEF GraphInv, ReplayIsEager

LEMMA CoreInv == ASSUME GraphInv, Core PROVE GraphInv'
<1>1. CallType /\ Replaying /\ BuffersWhole /\ call.pc = "core"
  BY DEF GraphInv, Core
<1> DEFINE n == BatchSize
           l == call.layer
           pre == SubSeq(buffers[layers[l]], 1, n)
           output == forward_attention_core(pre, call.starts)
<1>2. l \in 1..Len(layers) /\ n \in 0..max_tokens /\ l - 1 \in 0..Len(layers)
  BY <1>1, RightRows, LayersAre DEF CallType
<1>3. Full(buffers[layers[l]])
  BY <1>1, <1>2, LayersAre DEF BuffersWhole
<1>4. pre = [i \in 1..n |-> PreRow(l, Right(l - 1), i).out]
  <2>1. pre = [i \in 1..n |-> buffers[layers[l]][i]]
    BY <1>2, <1>3, FirstRows, SizesAre DEF Full
  <2>2. \A i \in 1..n : buffers[layers[l]][i] = PreRow(l, Right(l - 1), i).out
    BY <1>1 DEF Replaying
  <2> HIDE DEF pre
  <2> QED
    BY <2>1, <2>2
<1>5. output = CoreOf(l, Right(l - 1), call.starts)
  <2>1. DOMAIN Right(l - 1) = 1..n
    BY <1>1, <1>2, RightRows
  <2> HIDE DEF pre
  <2> QED
    BY <1>4, <2>1 DEF CoreOf
<1>6. call' = [call EXCEPT !.pc = "post", !.layer = call.layer, !.output = output] /\ buffers' = buffers
  BY <1>1 DEF CallType, Core, BatchSize
<1> HIDE DEF output
<1>7. /\ call'.pc = "post" /\ call'.layer = l /\ call'.output = output /\ BatchSize' = n
      /\ call'.starts = call.starts /\ CallType' /\ \A k : Right(k)' = Right(k)
  BY <1>1, <1>2, <1>6, SameBatch
<1>8. Replaying'
  BY <1>1, <1>5, <1>6, <1>7 DEF Replaying, ResidualKept
<1>9. BuffersWhole'
  BY <1>1, <1>6 DEF BuffersWhole, Full
<1> QED
  BY <1>7, <1>8, <1>9 DEF GraphInv, ReplayIsEager

LEMMA PostInv == ASSUME GraphInv, Post PROVE GraphInv'
<1>1. CallType /\ Replaying /\ BuffersWhole /\ call.pc = "post" /\ ResidualKept
      /\ call.output = CoreOf(call.layer, Right(call.layer - 1), call.starts)
  BY DEF GraphInv, Post, ReplayPost, Replaying
<1> DEFINE n == BatchSize
           l == call.layer
           size == call.size
           kept == SubSeq(buffers.pre_residual_out, 1, size)
           residual_in == Copied(buffers.post_residual, kept)
           hidden_in == Refilled(buffers.post_hidden, size, call.output)
           row == [i \in 1..size |-> forward_output(l, hidden_in[i], residual_in[i])]
           hiddens == [i \in DOMAIN row |-> row[i].hidden]
           residuals == [i \in DOMAIN row |-> row[i].residual]
<1>2. /\ l \in 1..Len(layers) /\ size \in 1..max_tokens /\ n \in 0..max_tokens
      /\ 1..n \subseteq 1..size /\ 1..n \subseteq 1..max_tokens /\ size \in 0..max_tokens
      /\ l \in Nat /\ l # 0 /\ l - 1 \in 0..Len(layers) /\ 1..size \subseteq 1..max_tokens
  <2>1. l \in 1..Len(layers) /\ size \in 1..max_tokens /\ n <= size
    BY <1>1 DEF CallType
  <2>2. n \in 0..max_tokens
    BY <1>1, RightRows
  <2> QED
    BY <2>1, <2>2, SizesAre, LayersAre
<1>3. \A b \in BufferNames \cup Range(layers) : b \in DOMAIN buffers /\ Full(buffers[b])
  BY <1>1 DEF BuffersWhole
<1>4. /\ buffers' = [buffers EXCEPT !.post_hidden = hidden_in, !.post_residual = residual_in,
                        !.post_hidden_out = Copied(@, hiddens), !.post_residual_out = Copied(@, residuals)]
      /\ call' = IF l < Len(layers) THEN [call EXCEPT !.pc = "pre", !.layer = @ + 1]
                 ELSE [call EXCEPT !.pc = "norm"]
  BY DEF Post, ReplayPost
<1>5. /\ DOMAIN Right(l - 1) = 1..n
      /\ Right(l) = decoder_layer(l, Right(l - 1), call.starts)
  BY <1>1, <1>2, RightRows
<1>6. DOMAIN call.output = 1..n
  <2>1. \A f, st : DOMAIN forward_attention_core(f, st) = DOMAIN f
    BY DEF forward_attention_core
  <2> QED
    BY <1>1, <1>5, <2>1 DEF CoreOf
<1>7. Full(hidden_in) /\ \A i \in 1..n : hidden_in[i] = call.output[i]
  <2>1. Full(buffers.post_hidden)
    BY <1>3 DEF BufferNames
  <2>2. /\ Full(hidden_in)
        /\ \A i \in (1..max_tokens) \cap DOMAIN call.output : hidden_in[i] = call.output[i]
    BY <1>2, <2>1, RefilledRows
  <2> HIDE DEF hidden_in
  <2> QED
    BY <1>2, <1>6, <2>2
<1>8. /\ Full(residual_in)
      /\ \A i \in 1..n : residual_in[i] = PreRow(l, Right(l - 1), i).residual
  <2>1. Full(buffers.post_residual) /\ Full(buffers.pre_residual_out)
    BY <1>3 DEF BufferNames
  <2>2. kept = [i \in 1..size |-> buffers.pre_residual_out[i]]
    BY <1>2, <2>1, FirstRows, SizesAre DEF Full
  <2>3. DOMAIN kept = 1..size /\ \A i \in 1..n : kept[i] = PreRow(l, Right(l - 1), i).residual
    <3> HIDE DEF kept
    <3> QED
      BY <1>1, <1>2, <2>2 DEF ResidualKept
  <2> HIDE DEF kept
  <2> QED
    BY <1>2, <2>1, <2>3, CopiedRows
<1> HIDE DEF kept, hidden_in, residual_in
<1>9. \A i \in 1..n : row[i] = Right(l)[i]
  <2>1. \A i \in 1..n : row[i] = forward_output(l, hidden_in[i], residual_in[i])
    BY <1>2
  <2>2. \A i \in 1..n : Right(l)[i] = forward_output(l, CoreOf(l, Right(l - 1), call.starts)[i],
                                                     PreRow(l, Right(l - 1), i).residual)
    <3> SUFFICES ASSUME NEW in, in = Right(l - 1)
                 PROVE  \A i \in 1..n : Right(l)[i] = forward_output(l, CoreOf(l, in, call.starts)[i],
                                                                     PreRow(l, in, i).residual)
      OBVIOUS
    <3>1. DOMAIN in = 1..n /\ Right(l) = decoder_layer(l, in, call.starts)
      BY <1>5
    <3>2. \A i \in DOMAIN in :
            decoder_layer(l, in, call.starts)[i]
              = forward_output(l, CoreOf(l, in, call.starts)[i], PreRow(l, in, i).residual)
      BY LayerRow, Zenon
    <3> QED
      BY <3>1, <3>2
  <2> HIDE DEF row
  <2> QED
    BY <1>1, <1>7, <1>8, <2>1, <2>2
<1>10. /\ Full(Copied(buffers.post_hidden_out, hiddens))
       /\ \A i \in 1..n : Copied(buffers.post_hidden_out, hiddens)[i] = Right(l)[i].hidden
  <2>1. DOMAIN hiddens = 1..size /\ \A i \in 1..size : hiddens[i] = row[i].hidden
    OBVIOUS
  <2>2. Full(buffers.post_hidden_out)
    BY <1>3 DEF BufferNames
  <2> HIDE DEF hiddens, row
  <2> QED
    BY <1>2, <1>9, <2>1, <2>2, CopiedRows
<1>11. /\ Full(Copied(buffers.post_residual_out, residuals))
       /\ \A i \in 1..n : Copied(buffers.post_residual_out, residuals)[i] = Right(l)[i].residual
  <2>1. DOMAIN residuals = 1..size /\ \A i \in 1..size : residuals[i] = row[i].residual
    OBVIOUS
  <2>2. Full(buffers.post_residual_out)
    BY <1>3 DEF BufferNames
  <2> HIDE DEF residuals, row
  <2> QED
    BY <1>2, <1>9, <2>1, <2>2, CopiedRows
<1> HIDE DEF hiddens, residuals, row
<1>12. /\ DOMAIN buffers' = DOMAIN buffers
       /\ buffers' = [b \in DOMAIN buffers |-> buffers'[b]]
       /\ buffers'.post_hidden = hidden_in /\ buffers'.post_residual = residual_in
       /\ buffers'.post_hidden_out = Copied(buffers.post_hidden_out, hiddens)
       /\ buffers'.post_residual_out = Copied(buffers.post_residual_out, residuals)
       /\ \A b \in DOMAIN buffers \ {"post_hidden", "post_residual", "post_hidden_out",
                                     "post_residual_out"} : buffers'[b] = buffers[b]
  BY <1>3, <1>4 DEF BufferNames
<1>13. BuffersWhole'
  <2>1. DOMAIN buffers = BufferNames \cup Range(layers)
    BY <1>1 DEF BuffersWhole
  <2>2. \A b \in DOMAIN buffers : Full(buffers'[b])
    BY <1>3, <1>7, <1>8, <1>10, <1>11, <1>12, <2>1
  <2> QED
    BY <1>12, <2>1, <2>2 DEF BuffersWhole, Full
<1>14. \A i \in 1..n : /\ buffers'.post_hidden_out[i] = Right(l)[i].hidden
                       /\ buffers'.post_residual_out[i] = Right(l)[i].residual
  BY <1>10, <1>11, <1>12
<1>15. CASE l < Len(layers)
  <2>1. call' = [call EXCEPT !.pc = "pre", !.layer = l + 1, !.output = call.output]
    BY <1>1, <1>4, <1>15 DEF CallType
  <2>2. l + 1 \in 1..Len(layers) /\ (l + 1) - 1 = l
    BY <1>2, <1>15, LayersAre
  <2>3. /\ call'.pc = "pre" /\ call'.layer = l + 1 /\ BatchSize' = n /\ CallType'
        /\ \A k : Right(k)' = Right(k)
    BY <1>1, <2>1, <2>2, SameBatch
  <2>4. Replaying'
    BY <1>2, <1>14, <2>2, <2>3 DEF Replaying, Fed
  <2> QED
    BY <1>13, <2>3, <2>4 DEF GraphInv, ReplayIsEager
<1>16. CASE ~(l < Len(layers))
  <2>1. call' = [call EXCEPT !.pc = "norm", !.layer = l, !.output = call.output]
    BY <1>1, <1>4, <1>16 DEF CallType
  <2>2. l = Len(layers)
    BY <1>2, <1>16, LayersAre
  <2>3. /\ call'.pc = "norm" /\ call'.layer = l /\ BatchSize' = n /\ CallType'
        /\ \A k : Right(k)' = Right(k)
    BY <1>1, <1>2, <2>1, SameBatch
  <2>4. Replaying'
    BY <1>2, <1>14, <2>2, <2>3 DEF Replaying, Fed
  <2> QED
    BY <1>13, <2>3, <2>4 DEF GraphInv, ReplayIsEager
<1> QED
  BY <1>15, <1>16

LEMMA FinishInv == ASSUME GraphInv, Finish PROVE GraphInv'
<1>1. /\ CallType /\ BuffersWhole /\ call.pc = "norm"
      /\ call.layer = Len(layers) /\ Fed(Len(layers))
  BY DEF GraphInv, Finish, Replaying
<1> DEFINE n == BatchSize
           output == [i \in DOMAIN call.ids |->
                        norm((buffers.post_hidden_out[i] + buffers.post_residual_out[i]) % P)]
<1>2. DOMAIN call.ids = 1..n /\ Len(layers) # 0 /\ Len(layers) \in 1..Len(layers)
  BY <1>1, RightRows, LayersAre
<1>3. output = forward(call.ids, call.starts)
  <2> DEFINE last == Right(Len(layers))
  <2>1. forward(call.ids, call.starts)
          = [i \in DOMAIN call.ids |-> norm((last[i].hidden + last[i].residual) % P)]
    BY DEF forward, Right
  <2>2. \A i \in 1..n : /\ buffers.post_hidden_out[i] = last[i].hidden
                        /\ buffers.post_residual_out[i] = last[i].residual
    BY <1>1, <1>2 DEF Fed
  <2> HIDE DEF last
  <2> QED
    BY <1>2, <2>1, <2>2
<1>4. call' = [call EXCEPT !.pc = "returned", !.layer = call.layer, !.output = output]
      /\ buffers' = buffers
  BY <1>1 DEF CallType, Finish
<1> HIDE DEF output
<1>5. /\ call'.pc = "returned" /\ call'.ids = call.ids /\ call'.starts = call.starts
      /\ call'.output = output /\ CallType'
  BY <1>1, <1>2, <1>4, SameBatch
<1>6. Replaying' /\ BuffersWhole'
  BY <1>1, <1>4, <1>5 DEF Replaying, BuffersWhole, Full
<1> QED
  BY <1>3, <1>5, <1>6 DEF GraphInv, ReplayIsEager

LEMMA GraphStep == GraphInv /\ [Next]_vars => GraphInv'
<1> SUFFICES ASSUME GraphInv, [Next]_vars PROVE GraphInv'
  OBVIOUS
<1>1. ASSUME NEW n \in 1..max_tokens, NEW ids \in [1..n -> TokenIds], NEW cuts \in SUBSET (2..n),
             run_prefill(ids, {1} \cup cuts)
      PROVE  GraphInv'
  BY <1>1, CalledInv
<1>2. CASE UNCHANGED vars
  <2>1. BatchSize' = BatchSize /\ \A l : Right(l)' = Right(l)
    BY <1>2 DEF vars, BatchSize, Right
  <2>2. (call.pc # "idle" => CallType') /\ BuffersWhole' /\ ReplayIsEager'
    BY <1>2, <2>1 DEF vars, GraphInv, CallType, BuffersWhole, Full, ReplayIsEager
  <2>3. call.pc # "idle" => Replaying'
    BY <1>2, <2>1 DEF vars, GraphInv, Replaying, Fed, ResidualKept
  <2> QED
    BY <1>2, <2>2, <2>3 DEF vars, GraphInv
<1> QED
  BY <1>1, <1>2, PreInv, CoreInv, PostInv, FinishInv DEF Next

\* cuda_graph.py run_prefill: replaying the graphs of a prefill returns what
\* running the model returns, for any sequence of layers, any bucket sizes and
\* any batch that fits the largest, whatever earlier batches left in the
\* buffers that layers and buckets share and whatever fills a bucket up.
THEOREM ReplayEager == Spec => []ReplayIsEager
<1>1. Spec => []GraphInv
  BY GraphInit, GraphStep, PTL DEF Spec
<1>2. GraphInv => ReplayIsEager
  BY DEF GraphInv
<1> QED
  BY <1>1, <1>2, PTL
=============================================================================
