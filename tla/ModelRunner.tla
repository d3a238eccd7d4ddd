---------------------------- MODULE ModelRunner ----------------------------
(***************************************************************************)
(* engine/model_runner.py and the device under it: the persistent slots,   *)
(* the compute stream, the copy stream, and the pinned host buffers both   *)
(* sides touch.                                                            *)
(*                                                                         *)
(* The device's data is abstracted to its provenance.  <<r, p>> is the     *)
(* token at position p of the one right history of request r, as held in a *)
(* KV entry, in the per-slot token buffer or in an output; as a recurrent  *)
(* state it is the state after the first p tokens of r.  A forward whose   *)
(* inputs are not the right ones yields Wrong everywhere.                  *)
(*                                                                         *)
(* The host enqueues; PrepareInputs, Forward and CopyOutput are steps the  *)
(* device takes when it likes, in stream order.                            *)
(***************************************************************************)
EXTENDS Config

ASSUME NoneAssumption == "none" \notin Requests

VARIABLES
  input_batch,        \* InputBatch.seqs: what each slot holds
  decode_cpu,         \* pinned staging rows of prepare_decode()
  prepared,           \* is the last recorded prepare_inputs_event complete?
  buf_idx,            \* _output_buf_idx
  stream,             \* work queued on the compute stream
  copies,             \* output copies queued on output_copy_stream, runnable
  decode_gpu,         \* the device's copy of decode_cpu
  gdn,                \* per-slot conv and recurrent state
  sampled_token_ids,  \* per-slot last token, sampled_token_ids_gpu
  kv,                 \* the paged KV cache
  output_buf          \* the two pinned output buffers

hostVars == <<input_batch, decode_cpu, buf_idx>>
deviceVars == <<prepared, stream, copies, decode_gpu, gdn, sampled_token_ids, kv, output_buf>>
runnerVars == <<hostVars, deviceVars>>

Slots == 1..MaxNumSeqs
Wrong == <<"wrong", 0>>
Zero == <<"zero", 0>>         \* a state that has been reset
NoToken == <<"none", 0>>      \* the -1 of a row that was not sampled
Vacant == [seq |-> "none", view |-> FALSE]

(* Warmup has run on every buffer: nothing can be assumed of them.         *)
RunnerInit ==
  /\ input_batch = [s \in Slots |-> Vacant]
  /\ decode_cpu = [i \in Slots |-> [seq_len |-> 1, last_block |-> CHOOSE b \in Blocks : TRUE]]
  /\ decode_gpu = decode_cpu
  /\ prepared = TRUE
  /\ buf_idx = 0
  /\ stream = <<>> /\ copies = <<>>
  /\ gdn = [s \in Slots |-> Wrong]
  /\ sampled_token_ids = [s \in Slots |-> Wrong]
  /\ kv = [b \in Blocks |-> [o \in 0..(BlockSize - 1) |-> Wrong]]
  /\ output_buf = [b \in 0..1 |-> [i \in Slots |-> NoToken]]

-----------------------------------------------------------------------------
(* InputBatch                                                              *)

HasSlot(r) == \E s \in Slots : input_batch[s].seq = r
slot_of(r) == CHOOSE s \in Slots : input_batch[s].seq = r
FreeSlots(ib) == {s \in Slots : ib[s] = Vacant}

remove_request(r) ==
  input_batch' = [s \in Slots |->
                    IF input_batch[s].seq = r THEN Vacant ELSE input_batch[s]]

(* remove_finished() looks at the object last dispatched: a view never     *)
(* finishes.  done is the set of requests that have.                       *)
remove_finished(done) ==
  [s \in Slots |-> IF input_batch[s].seq \in done /\ ~input_batch[s].view
                   THEN Vacant ELSE input_batch[s]]

(* update(): a request without a slot takes the first free one, in batch   *)
(* order; every row's object replaces the one in its slot.                 *)
place(ib, x) ==
  LET s == IF \E t \in Slots : ib[t].seq = x.seq
           THEN CHOOSE t \in Slots : ib[t].seq = x.seq
           ELSE Min(FreeSlots(ib))
  IN  [ib EXCEPT ![s] = [seq |-> x.seq, view |-> x.view]]

update(ib, rows) ==
  LET placed[n \in 0..Len(rows)] ==
        IF n = 0 THEN ib ELSE place(placed[n - 1], rows[n])
  IN  placed[Len(rows)]

-----------------------------------------------------------------------------
(* execute_model() and sample_tokens()                                     *)

(* A row as the host sees it: the request, whether a lookahead view stands *)
(* for it, its history length, the positions first .. first + count - 1 to *)
(* compute, its block table, and whether it is prompt work.                *)
SampledRow(x) == ~x.is_prefill \/ x.first + x.count = x.len

(* Mutant: only a new slot is reset, not one whose request starts over.    *)
NewOnly_reset_slots(new, rows, slots, is_prefill) == {s \in ToSet(slots) : new[s]}

reset_slots(new, rows, slots, is_prefill) ==
  {slots[i] : i \in {j \in DOMAIN rows :
                       \/ new[slots[j]]
                       \/ is_prefill /\ rows[j].first = 0}}

(* synchronize_input_prep() blocks until the staging of the step before    *)
(* has been read by the device.                                            *)
(* Mutant: it does not.                                                    *)
Unsynchronized_InputPrep == TRUE

InputPrep == prepared

(* Mutant: both steps write to the same output buffer.                     *)
Single_NextBuffer == buf_idx' = buf_idx

NextBuffer == buf_idx' = 1 - buf_idx

execute_and_sample(rows, is_prefill, done) ==
  LET before == remove_finished(done)
      ib == update(before, rows)
      slots == [i \in DOMAIN rows |-> CHOOSE s \in Slots : ib[s].seq = rows[i].seq]
      new == [s \in Slots |-> before[s].seq # ib[s].seq]
  IN
  /\ InputPrep
  /\ input_batch' = ib
  /\ decode_cpu' =
       IF is_prefill THEN decode_cpu
       ELSE [i \in Slots |->
               IF i \in DOMAIN rows
               THEN [seq_len |-> rows[i].len, last_block |-> Last(rows[i].table)]
               ELSE decode_cpu[i]]
  /\ NextBuffer
  /\ prepared' = FALSE
  /\ stream' = stream \o
       <<[kind |-> "prepare", rows |-> rows, slots |-> slots, is_prefill |-> is_prefill,
          fresh |-> {i \in DOMAIN rows : new[slots[i]]},
          reset |-> reset_slots(new, rows, slots, is_prefill), buf |-> buf_idx],
         [kind |-> "forward", rows |-> rows, slots |-> slots, is_prefill |-> is_prefill,
          buf |-> buf_idx]>>
  /\ UNCHANGED <<copies, decode_gpu, gdn, sampled_token_ids, kv, output_buf>>

(* AsyncModelOutput.get_output(): wait for the buffer's event, read it.    *)
OutputReady(buf) ==
  /\ \A i \in DOMAIN stream : stream[i].buf # buf
  /\ \A i \in DOMAIN copies : copies[i].buf # buf

get_output(buf, n) == SubSeq(output_buf[buf], 1, n)

-----------------------------------------------------------------------------
(* The device                                                              *)

work == Head(stream)

(* New slots get their request's last token, states are reset, and the     *)
(* decode staging is copied, which completes prepare_inputs_event.         *)
PrepareInputs ==
  /\ stream # <<>> /\ work.kind = "prepare"
  /\ sampled_token_ids' =
       [s \in Slots |->
          IF \E i \in work.fresh : work.slots[i] = s
          THEN LET x == work.rows[CHOOSE i \in work.fresh : work.slots[i] = s]
               IN  <<x.seq, x.len - 1>>
          ELSE sampled_token_ids[s]]
  /\ gdn' = [s \in Slots |-> IF s \in work.reset THEN Zero ELSE gdn[s]]
  /\ decode_gpu' =
       IF work.is_prefill THEN decode_gpu
       ELSE [i \in Slots |-> IF i \in DOMAIN work.rows THEN decode_cpu[i] ELSE decode_gpu[i]]
  /\ prepared' = \A i \in 2..Len(stream) : stream[i].kind # "prepare"
  /\ stream' = Tail(stream)
  /\ UNCHANGED <<hostVars, copies, kv, output_buf>>

block_of(x, p) == x.table[p \div BlockSize + 1]

(* The first position a row computes, and the block its last one goes to:  *)
(* in a decode batch both come from the device's staging.                  *)
first(i) == IF work.is_prefill THEN work.rows[i].first ELSE decode_gpu[i].seq_len - 1
target(i, p) ==
  IF work.is_prefill THEN block_of(work.rows[i], p) ELSE decode_gpu[i].last_block
positions(i) == first(i)..(first(i) + work.rows[i].count - 1)

(* The row's inputs are those of its request's history: the input token    *)
(* (from the host in a prefill batch, from the slot in a decode batch),    *)
(* the state of the slot, and the KV entries of all earlier positions.     *)
RightRow(i) ==
  LET x == work.rows[i]
      s == work.slots[i]
  IN
  /\ first(i) = x.first
  /\ ~work.is_prefill => sampled_token_ids[s] = <<x.seq, x.first>>
  /\ gdn[s] = IF x.first = 0 THEN Zero ELSE <<x.seq, x.first>>
  /\ \A p \in 0..(x.first - 1) : kv[block_of(x, p)][p % BlockSize] = <<x.seq, p>>
  /\ \A p \in positions(i) : target(i, p) = block_of(x, p)

(* What the model yields for row i at position p: an entry, a state, or a  *)
(* sampled token, according to where it is put.                            *)
Computed(i, p) == IF RightRow(i) THEN <<work.rows[i].seq, p>> ELSE Wrong
end(i) == first(i) + work.rows[i].count

Written(b, o) ==
  {e \in UNION {{i} \X positions(i) : i \in DOMAIN work.rows} :
     target(e[1], e[2]) = b /\ e[2] % BlockSize = o}

(* The forward pass, the sampler, and the scatter of the sampled tokens.   *)
Forward ==
  /\ stream # <<>> /\ work.kind = "forward"
  /\ kv' = [b \in Blocks |-> [o \in 0..(BlockSize - 1) |->
               LET w == Written(b, o) IN
               IF w = {} THEN kv[b][o]
               ELSE LET e == CHOOSE e \in w : TRUE IN Computed(e[1], e[2])]]
  /\ LET row(s) == CHOOSE i \in DOMAIN work.rows : work.slots[i] = s
         sampled == {work.slots[i] : i \in {j \in DOMAIN work.rows : SampledRow(work.rows[j])}}
     IN
     /\ gdn' = [s \in Slots |-> IF s \in ToSet(work.slots)
                                THEN Computed(row(s), end(row(s))) ELSE gdn[s]]
     /\ sampled_token_ids' = [s \in Slots |-> IF s \in sampled
                                THEN Computed(row(s), end(row(s))) ELSE sampled_token_ids[s]]
     /\ copies' = Append(copies,
          [buf |-> work.buf,
           tokens |-> [i \in DOMAIN work.rows |->
                         IF work.slots[i] \in sampled THEN Computed(i, end(i)) ELSE NoToken]])
  /\ stream' = Tail(stream)
  /\ UNCHANGED <<hostVars, prepared, decode_gpu, output_buf>>

(* The copy stream waited for the forward; it writes the first rows only.  *)
CopyOutput ==
  /\ copies # <<>>
  /\ LET c == Head(copies) IN
     output_buf' = [output_buf EXCEPT ![c.buf] =
                      [i \in Slots |-> IF i \in DOMAIN c.tokens THEN c.tokens[i] ELSE @[i]]]
  /\ copies' = Tail(copies)
  /\ UNCHANGED <<hostVars, prepared, stream, decode_gpu, gdn, sampled_token_ids, kv>>
=============================================================================
