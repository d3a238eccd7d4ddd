---------------------------- MODULE GatedDeltaNet ---------------------------
(***************************************************************************)
(* layers/gated_delta_net.py: the pools of convolution and recurrent       *)
(* states of one layer, one row per slot, and the forwards that read and   *)
(* write them in place.  A prefill forward is a series of kernel launches  *)
(* in stream order, each a step; the programs of the state kernel, one per *)
(* sequence of the launch, take their chunks in any interleaving.          *)
(*                                                                         *)
(* What the layer is called with is prepare_prefill's and prepare_decode's *)
(* doing: rows in distinct slots, each the next tokens of the request in   *)
(* its slot.  A request is its text: a prompt, then the tokens decoded.    *)
(***************************************************************************)
EXTENDS ChunkScan, FiniteSets

CONSTANTS
  Slots,          \* rows of the pools
  Requests,       \* the texts: records [prompt, output] of token sequences
  MaxRows,        \* bound on the rows of a batch
  MaxBatchTokens, \* max_num_batched_tokens
  MaxAdmissions,  \* bound on the requests that come, so that runs are finite
  StableGates,    \* quant_config is not None
  SplitSizes      \* what a prompt may be fed of when it is cut

VARIABLES
  conv_states,       \* slot -> the last ConvKernel - 1 raw tokens
  recurrent_states,  \* slot -> the state, V-major
  request,           \* slot -> the request it holds, or NoRequest
  num_cached_tokens, \* slot -> how many tokens of it the layer has been fed
  admissions,        \* how many requests have come
  forward,           \* the prefill forward under way, or NoForward
  call,              \* the chunk-kernel call under way, or NoCall
  state_programs,    \* the state kernel's programs of that call
  delivered          \* the outputs of the last forward

pools == <<conv_states, recurrent_states>>
batch == <<request, num_cached_tokens, admissions>>
vars == <<pools, batch, forward, call, state_programs, delivered>>

NoRequest == [prompt |-> <<>>, output |-> <<>>]
NoForward == [rows |-> <<>>]
NoCall == [stage |-> "none"]

text(s) == request[s].prompt \o request[s].output
Idle == forward = NoForward
InPrompt(s) == num_cached_tokens[s] < Len(request[s].prompt)
Live == {s \in Slots : request[s] # NoRequest /\ num_cached_tokens[s] < Len(text(s))}

-----------------------------------------------------------------------------
(* The batch the layer is called with                                      *)

(* A row: its slot, how many tokens it is fed, whether it is a decode row. *)
PromptRow(s, n) == [slot |-> s, count |-> n, decode |-> FALSE]
DecodeRow(s) == [slot |-> s, count |-> 1, decode |-> TRUE]

Splits(s) ==
  LET left == Len(request[s].prompt) - num_cached_tokens[s]
  IN  {n \in 1..left : n = left \/ n \in SplitSizes}

RowsOf(s) == IF InPrompt(s) THEN {PromptRow(s, n) : n \in Splits(s)} ELSE {DecodeRow(s)}

lens(rows) == Vec(Len(rows), LAMBDA i : rows[i].count)

Batches ==
  {rows \in UNION {[1..m -> UNION {RowsOf(s) : s \in Live}] : m \in 1..MaxRows} :
     /\ \A i, j \in DOMAIN rows : i # j => rows[i].slot # rows[j].slot
     /\ Total(lens(rows)) <= MaxBatchTokens}

tokens(row) == SubSeq(text(row.slot), num_cached_tokens[row.slot] + 1,
                      num_cached_tokens[row.slot] + row.count)

-----------------------------------------------------------------------------
(* The layer's pools                                                       *)

(* Warmup and graph capture have run on every slot.                        *)
Init ==
  /\ conv_states \in [Slots -> {Vec(ConvKernel - 1, LAMBDA i : 1)}]
  /\ recurrent_states \in [Slots -> {Mat(VDim, KDim, LAMBDA v, k : 1)}]
  /\ request = [s \in Slots |-> NoRequest]
  /\ num_cached_tokens = [s \in Slots |-> 0]
  /\ admissions = 0
  /\ forward = NoForward
  /\ call = NoCall
  /\ state_programs = <<>>
  /\ delivered = <<>>

(* Mutant: the convolution state of the slot's last owner is kept.         *)
Partial_reset_state(s) ==
  /\ recurrent_states' = [recurrent_states EXCEPT ![s] = ZeroState]
  /\ UNCHANGED conv_states

reset_state(s) ==
  /\ recurrent_states' = [recurrent_states EXCEPT ![s] = ZeroState]
  /\ conv_states' = [conv_states EXCEPT ![s] = Cleared]

(* A request takes a slot, or starts over in the one it has.               *)
Admit(s, r) ==
  /\ Idle /\ admissions < MaxAdmissions
  /\ admissions' = admissions + 1
  /\ request' = [request EXCEPT ![s] = r]
  /\ num_cached_tokens' = [num_cached_tokens EXCEPT ![s] = 0]
  /\ delivered' = <<>>
  /\ reset_state(s)
  /\ UNCHANGED <<forward, call, state_programs>>

-----------------------------------------------------------------------------
(* _forward_prefill()                                                      *)

(* The rows side by side, each after its own history, padded to the        *)
(* longest.                                                                *)
padded_qkv(rows, i) ==
  LET longest == CHOOSE n \in {rows[j].count : j \in DOMAIN rows} :
                   \A j \in DOMAIN rows : rows[j].count <= n
      s == rows[i].slot
  IN  conv_states[s] \o tokens(rows[i]) \o Vec(longest - rows[i].count, LAMBDA j : NoInput)

(* The convolution over each row, its valid range packed.                  *)
packed(rows) ==
  FoldLeft(LAMBDA acc, i :
             LET padded == padded_qkv(rows, i)
             IN  acc \o Vec(rows[i].count,
                            LAMBDA j : Project(SubSeq(padded, j, j + ConvKernel - 1))),
           <<>>, Vec(Len(rows), LAMBDA i : i))

(* Mutant: the tail of the padded row, not of the row.                     *)
Padded_new_conv(rows, i) ==
  LET padded == padded_qkv(rows, i)
  IN  SubSeq(padded, Len(padded) - ConvKernel + 2, Len(padded))

new_conv(rows, i) ==
  SubSeq(padded_qkv(rows, i), rows[i].count + 1, rows[i].count + ConvKernel - 1)

(* Kernel calls of one forward: all rows together, or one call per row     *)
(* when a quantised layer's batch has decode rows.  first is the row the   *)
(* call starts with.                                                       *)
PerRow(rows) == StableGates /\ \E i \in DOMAIN rows : rows[i].decode

ForwardPrefill(rows) ==
  /\ Idle
  /\ \E i \in DOMAIN rows : ~rows[i].decode
  /\ forward' = [rows |-> rows, x |-> packed(rows), out |-> <<>>, next |-> 1]
  /\ delivered' = <<>>
  /\ UNCHANGED <<pools, batch, call, state_programs>>

(* chunk_gated_delta_rule() is called on the rows from .. to.              *)
StartCall(from, to) ==
  LET rows == SubSeq(forward.rows, from, to)
      start == bos(lens(forward.rows), from)
      x == SubSeq(forward.x, start + 1, start + Total(lens(rows)))
  IN
  /\ call' = [stage |-> "kkt", rows |-> rows, lens |-> lens(rows), x |-> x,
              g |-> chunk_local_cumsum(x, lens(rows))]
  /\ UNCHANGED <<pools, batch, forward, state_programs, delivered>>

PackedCall ==
  /\ ~Idle /\ call = NoCall /\ forward.next = 1
  /\ ~PerRow(forward.rows)
  /\ StartCall(1, Len(forward.rows))

RowCall ==
  /\ ~Idle /\ call = NoCall /\ forward.next <= Len(forward.rows)
  /\ PerRow(forward.rows) /\ ~forward.rows[forward.next].decode
  /\ StartCall(forward.next, forward.next)

(* Mutant: decode rows beside a prompt read the state of their row number. *)
Unmapped_DecodeRowCall ==
  LET row == forward.rows[forward.next]
      src == forward.rows[1].slot
      r == decode_gated_delta_rule(recurrent_states[src],
             forward.x[bos(lens(forward.rows), forward.next) + 1])
  IN
  /\ recurrent_states' = [recurrent_states EXCEPT ![row.slot] = r.state]
  /\ forward' = [forward EXCEPT !.out = Append(@, r.out), !.next = @ + 1]
  /\ UNCHANGED <<conv_states, batch, call, state_programs, delivered>>

DecodeRowCall ==
  LET row == forward.rows[forward.next]
      r == decode_gated_delta_rule(recurrent_states[row.slot],
             forward.x[bos(lens(forward.rows), forward.next) + 1])
  IN
  /\ recurrent_states' = [recurrent_states EXCEPT ![row.slot] = r.state]
  /\ forward' = [forward EXCEPT !.out = Append(@, r.out), !.next = @ + 1]
  /\ UNCHANGED <<conv_states, batch, call, state_programs, delivered>>

MixedDecodeRow ==
  /\ ~Idle /\ call = NoCall /\ forward.next <= Len(forward.rows)
  /\ PerRow(forward.rows) /\ forward.rows[forward.next].decode
  /\ DecodeRowCall

-----------------------------------------------------------------------------
(* The launches of a chunk-kernel call, in stream order                    *)

(* One program of the state kernel per sequence (and head).                *)
LaunchStateKernel ==
  state_programs' = Vec(Len(call.rows), LAMBDA n : [started |-> FALSE, done |-> FALSE,
                          state |-> ZeroState, h |-> <<>>, v_new |-> <<>>])

KktSolve ==
  /\ call.stage = "kkt"
  /\ call' = [call EXCEPT !.stage = "wu"] @@ [A |-> kkt_solve(call.x, call.g, call.lens)]
  /\ UNCHANGED <<pools, batch, forward, state_programs, delivered>>

RecomputeWU ==
  /\ call.stage = "wu"
  /\ call' = [call EXCEPT !.stage = "h"] @@
       [w |-> recompute_w(call.x, call.g, call.A, call.lens),
        u |-> recompute_u(call.x, call.A, call.lens)]
  /\ LaunchStateKernel
  /\ UNCHANGED <<pools, batch, forward, delivered>>

(* A program of the state kernel loads its slot's state, ...               *)
LoadState(n) ==
  /\ call.stage = "h" /\ ~state_programs[n].started
  /\ state_programs' = [state_programs EXCEPT ![n].started = TRUE,
                          ![n].state = recurrent_states[call.rows[n].slot]]
  /\ UNCHANGED <<pools, batch, forward, call, delivered>>

(* ... takes its chunks one after the other, storing the state that enters *)
(* each, and its new values (those inside the sequence), ...               *)
ScanChunk(n) ==
  LET prog == state_programs[n]
      t == Len(prog.h) + 1
      b_v == NewValues(prog.state, call.w, call.u, call.lens, n, t)
      inside == least(CHUNK_SIZE, call.lens[n] - (t - 1) * CHUNK_SIZE)
  IN
  /\ call.stage = "h" /\ prog.started /\ t <= cdiv(call.lens[n], CHUNK_SIZE)
  /\ state_programs' = [state_programs EXCEPT ![n] =
       [@ EXCEPT !.h = Append(@, MapMat(ToKey, prog.state)),
                 !.v_new = @ \o MapMat(ToKey, SubSeq(b_v, 1, inside)),
                 !.state = NextState(prog.state, b_v, call.x, call.g, call.lens, n, t,
                                     StableGates)]]
  /\ UNCHANGED <<pools, batch, forward, call, delivered>>

(* ... and writes the final state in place.                                *)
(* Mutant: the state entering the last chunk is written back.              *)
Entering_StoreState(n) ==
  /\ call.stage = "h" /\ ~state_programs[n].done
  /\ Len(state_programs[n].h) = cdiv(call.lens[n], CHUNK_SIZE)
  /\ recurrent_states' = [recurrent_states EXCEPT ![call.rows[n].slot] =
                            Last(state_programs[n].h)]
  /\ state_programs' = [state_programs EXCEPT ![n].done = TRUE]
  /\ UNCHANGED <<conv_states, batch, forward, call, delivered>>

StoreState(n) ==
  /\ call.stage = "h" /\ ~state_programs[n].done
  /\ Len(state_programs[n].h) = cdiv(call.lens[n], CHUNK_SIZE)
  /\ recurrent_states' = [recurrent_states EXCEPT ![call.rows[n].slot] =
                            MapMat(ToPool, state_programs[n].state)]
  /\ state_programs' = [state_programs EXCEPT ![n].done = TRUE]
  /\ UNCHANGED <<conv_states, batch, forward, call, delivered>>

(* Where program n put its chunks: at its chunk offset in h.               *)
h_tensor ==
  LET programs == prepare_chunk_indices(call.lens)
      owner(c) == CHOOSE n \in DOMAIN call.lens :
                    /\ prepare_chunk_offsets(call.lens, n) < c
                    /\ c <= prepare_chunk_offsets(call.lens, n + 1)
  IN  Vec(Len(programs), LAMBDA c :
        state_programs[owner(c)].h[c - prepare_chunk_offsets(call.lens, owner(c))])

ChunkOutput ==
  LET v_new == FoldLeft(LAMBDA acc, p : acc \o p.v_new, <<>>, state_programs)
  IN
  /\ call.stage = "h" /\ \A n \in DOMAIN state_programs : state_programs[n].done
  /\ forward' = [forward EXCEPT
       !.out = @ \o chunk_fwd_o(call.x, call.g, h_tensor, v_new, call.lens),
       !.next = @ + Len(call.rows)]
  /\ call' = NoCall
  /\ state_programs' = <<>>
  /\ UNCHANGED <<pools, batch, delivered>>

-----------------------------------------------------------------------------
(* The end of a prefill forward: the convolution states.                   *)

Delivery(rows, out) ==
  Vec(Len(rows), LAMBDA i :
    [slot |-> rows[i].slot, from |-> num_cached_tokens[rows[i].slot],
     out |-> SubSeq(out, bos(lens(rows), i) + 1, bos(lens(rows), i) + rows[i].count)])

Fed(rows) ==
  num_cached_tokens' = [s \in Slots |->
    IF \E i \in DOMAIN rows : rows[i].slot = s
    THEN num_cached_tokens[s] + rows[CHOOSE i \in DOMAIN rows : rows[i].slot = s].count
    ELSE num_cached_tokens[s]]

EndPrefill ==
  LET rows == forward.rows IN
  /\ ~Idle /\ call = NoCall /\ forward.next > Len(rows)
  /\ conv_states' = [s \in Slots |->
       IF \E i \in DOMAIN rows : rows[i].slot = s
       THEN new_conv(rows, CHOOSE i \in DOMAIN rows : rows[i].slot = s)
       ELSE conv_states[s]]
  /\ Fed(rows)
  /\ delivered' = Delivery(rows, forward.out)
  /\ forward' = NoForward
  /\ UNCHANGED <<recurrent_states, request, admissions, call, state_programs>>

(* _forward_decode(): all rows in one launch.                              *)
ForwardDecode(rows) ==
  LET x(i) == conv_states[rows[i].slot] \o tokens(rows[i])
      results == Vec(Len(rows), LAMBDA i :
                   decode_gated_delta_rule(recurrent_states[rows[i].slot], Project(x(i))))
      row(s) == CHOOSE i \in DOMAIN rows : rows[i].slot = s
      touched == {rows[i].slot : i \in DOMAIN rows}
  IN
  /\ Idle /\ \A i \in DOMAIN rows : rows[i].decode
  /\ recurrent_states' = [s \in Slots |-> IF s \in touched THEN results[row(s)].state
                                          ELSE recurrent_states[s]]
  /\ conv_states' = [s \in Slots |-> IF s \in touched THEN Tail(x(row(s))) ELSE conv_states[s]]
  /\ Fed(rows)
  /\ delivered' = Delivery(rows, Vec(Len(rows), LAMBDA i : results[i].out))
  /\ UNCHANGED <<request, admissions, forward, call, state_programs>>

(* Every request that came has run to its end.                             *)
Finished ==
  /\ Idle /\ Live = {} /\ admissions = MaxAdmissions
  /\ UNCHANGED vars

Next ==
  \/ \E s \in Slots, r \in Requests : Admit(s, r)
  \/ Idle /\ \E rows \in Batches : ForwardPrefill(rows) \/ ForwardDecode(rows)
  \/ PackedCall \/ RowCall \/ MixedDecodeRow
  \/ KktSolve \/ RecomputeWU
  \/ \E n \in DOMAIN state_programs : LoadState(n) \/ ScanChunk(n) \/ StoreState(n)
  \/ ChunkOutput \/ EndPrefill
  \/ Finished

Spec == Init /\ [][Next]_vars

-----------------------------------------------------------------------------
(* Properties                                                              *)

fed(s) == SubSeq(text(s), 1, num_cached_tokens[s])
Settled == {s \in Slots : /\ request[s] # NoRequest
                          /\ \A i \in DOMAIN forward.rows : forward.rows[i].slot # s}

(* Whatever batches a request was fed in -- its prompt in pieces of any    *)
(* SplitSizes, packed with others or with decode rows, in a slot used      *)
(* before -- its slot then holds the state the token-by-token recurrence   *)
(* gives, and the raw tokens the next convolution needs.  A slot outside   *)
(* the batch under way keeps it while the programs of others write         *)
(* (chunk_delta_h.py's in-place epilogue, _forward_prefill's index_copy_). *)
StatesAreRecurrences ==
  \A s \in Settled :
    /\ recurrent_states[s] = ExpectedState(fed(s))
    /\ conv_states[s] = ExpectedConv(fed(s))

(* What a forward returns for a token is what the recurrence yields at     *)
(* that position of its own request, on both sides of every such cut,      *)
(* at a chunk boundary and in every row of the batch (chunk_o.py against   *)
(* the decode kernel).                                                     *)
OutputsAreRecurrences ==
  \A i \in DOMAIN delivered :
    LET d == delivered[i]
    IN  d.out = SubSeq(ExpectedOutputs(SubSeq(text(d.slot), 1, d.from + Len(d.out))),
                       d.from + 1, d.from + Len(d.out))

(* A request by itself in a slot that was reset: its prompt as the one     *)
(* sequence of a prefill call, then its decodes.                           *)
ScanAlone(x, g, w, u) ==
  LET scan(acc, t) ==
        LET b_v == NewValues(acc.state, w, u, <<Len(x)>>, 1, t)
            inside == least(CHUNK_SIZE, Len(x) - (t - 1) * CHUNK_SIZE)
        IN  [state |-> NextState(acc.state, b_v, x, g, <<Len(x)>>, 1, t, StableGates),
             h |-> Append(acc.h, MapMat(ToKey, acc.state)),
             v_new |-> acc.v_new \o MapMat(ToKey, SubSeq(b_v, 1, inside))]
  IN  FoldLeft(scan, [state |-> ZeroState, h |-> <<>>, v_new |-> <<>>],
               Vec(cdiv(Len(x), CHUNK_SIZE), LAMBDA t : t))

Prefilled(x, g, scan) ==
  [state |-> MapMat(ToPool, scan.state),
   out |-> chunk_fwd_o(x, g, scan.h, scan.v_new, <<Len(x)>>)]

WithSolve(x, g, A) ==
  Prefilled(x, g, ScanAlone(x, g, recompute_w(x, g, A, <<Len(x)>>),
                            recompute_u(x, A, <<Len(x)>>)))

WithGates(x, g) == WithSolve(x, g, kkt_solve(x, g, <<Len(x)>>))

Decoded(prefill, xs) ==
  LET decodes == Recurrence(prefill.state, xs)
  IN  [state |-> decodes.state, out |-> prefill.out \o decodes.out]

AloneOn(x, xs) == Decoded(WithGates(x, chunk_local_cumsum(x, <<Len(x)>>)), xs)

Alone(r, n) ==
  LET xs == Projected(SubSeq(r.prompt \o r.output, 1, n))
      fill == least(n, Len(r.prompt))
  IN  AloneOn(SubSeq(xs, 1, fill), SubSeq(xs, fill + 1, n))

(* In a quantised layer, with every cast to a narrower dtype losing what   *)
(* it loses: prompts cut at chunk boundaries and requests batched with     *)
(* others give the same numbers as the request alone in one shot           *)
(* (tests/test_quantization.py:492 and :453 check one shape of each).  A   *)
(* cut inside a chunk rounds the state there; of that nothing is claimed.  *)
BatchingIsInvisible ==
  /\ \A s \in Settled : num_cached_tokens[s] > 0 =>
       recurrent_states[s] = Alone(request[s], num_cached_tokens[s]).state
  /\ \A i \in DOMAIN delivered :
       LET d == delivered[i]
           n == d.from + Len(d.out)
       IN  d.out = SubSeq(Alone(request[d.slot], n).out, d.from + 1, n)
=============================================================================
