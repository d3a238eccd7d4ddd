-------------------------- MODULE SchedulerProofs --------------------------
(***************************************************************************)
(* Proofs about Scheduler, for every number of requests, blocks, slots and *)
(* tokens.  The invariant is built in layers, each proved with the help of *)
(* the ones before it.                                                     *)
(***************************************************************************)
EXTENDS Scheduler, QueueLemmas

(***************************************************************************)
(* Layer 1: types.  schedule() computes num_tokens - num_cached_tokens and *)
(* pops from the batch in hand, so typing rests on how the phases relate   *)
(* to the locals and on the progress counters.                             *)
(***************************************************************************)
PhaseOK ==
  /\ phase = "post" => batch.seqs # <<>>
  /\ phase # "post" => batch = NoBatch
  /\ phase \notin {"decode", "prefill"} => scheduled_seqs = <<>>
  /\ scheduled_seqs = <<>> => num_batched_tokens = 0
  /\ \A i \in 1..Len(batch_queue) : batch_queue[i].seqs # <<>>

Progress ==
  \A r \in Requests :
    /\ num_cached_tokens[r] < num_tokens[r]
    /\ num_cached_tokens[r] + num_scheduled_tokens[r] <= num_tokens[r]

TypeInv == TypeOK /\ PhaseOK /\ Progress

LEMMA InitTypeInv == Init => TypeInv
<1> SUFFICES ASSUME Init PROVE TypeInv
  OBVIOUS
<1> USE ConfigAssumption DEF Init
<1>1. Cardinality(Blocks) \in Nat
  BY FS_CardinalityType
<1>2. free_block_ids \in Seq(Blocks)
  BY <1>1, FunctionIsQueue
<1>3. NoBatch \in Batch
  BY DEF NoBatch, Batch
<1>4. TypeOK
  BY <1>2, <1>3 DEF TypeOK
<1>5. PhaseOK
  BY DEF PhaseOK, NoBatch
<1>6. Progress
  BY DEF Progress
<1> QED
  BY <1>4, <1>5, <1>6 DEF TypeInv

(* The block demand of a request is a number.                              *)
LEMMA NumBlocksType ==
  ASSUME TypeOK, NEW r \in Requests
  PROVE  num_blocks(r) \in Nat
<1>1. num_tokens[r] + BlockSize - 1 \in Nat
  BY ConfigAssumption DEF TypeOK
<1>2. \A n \in Nat, k \in Nat : k > 1 => n \div k \in Nat
  OBVIOUS
<1> QED
  BY <1>1, <1>2, ConfigAssumption DEF num_blocks

(* Every counter is a number and within the progress bounds.               *)
LEMMA CounterTypes ==
  ASSUME TypeInv, NEW r \in Requests
  PROVE  /\ num_tokens[r] \in Nat /\ num_cached_tokens[r] \in Nat
         /\ num_scheduled_tokens[r] \in Nat
         /\ num_cached_tokens[r] < num_tokens[r]
         /\ num_cached_tokens[r] + num_scheduled_tokens[r] <= num_tokens[r]
BY DEF TypeInv, TypeOK, Progress

(* Updating the counters of one request within the bounds keeps them all.  *)
LEMMA CounterUpdate ==
  ASSUME TypeInv, NEW r \in Requests, NEW t \in Nat, NEW c \in Nat, NEW s \in Nat,
         c < t, c + s <= t,
         num_tokens' = [num_tokens EXCEPT ![r] = t],
         num_cached_tokens' = [num_cached_tokens EXCEPT ![r] = c],
         num_scheduled_tokens' = [num_scheduled_tokens EXCEPT ![r] = s]
  PROVE  /\ num_tokens' \in [Requests -> Nat]
         /\ num_cached_tokens' \in [Requests -> Nat]
         /\ num_scheduled_tokens' \in [Requests -> Nat]
         /\ Progress'
<1>1. /\ num_tokens \in [Requests -> Nat]
      /\ num_cached_tokens \in [Requests -> Nat]
      /\ num_scheduled_tokens \in [Requests -> Nat]
  BY DEF TypeInv, TypeOK
<1>2. ASSUME NEW q \in Requests
      PROVE  /\ num_cached_tokens'[q] < num_tokens'[q]
             /\ num_cached_tokens'[q] + num_scheduled_tokens'[q] <= num_tokens'[q]
  <2>1. CASE q = r
    BY <1>1, <2>1
  <2>2. CASE q # r
    BY <1>1, <2>2, CounterTypes
  <2> QED
    BY <2>1, <2>2
<1> QED
  BY <1>1, <1>2 DEF Progress

(* What every iteration of postprocess() does to the batch in hand.        *)
LEMMA PostRowFacts ==
  ASSUME TypeInv, PostRow
  PROVE  /\ row \in Requests /\ row \in ToSet(batch.seqs)
         /\ batch' \in Batch /\ in_flight' \in SUBSET Requests
         /\ num_scheduled_tokens' \in [Requests -> Nat]
         /\ phase' \in {"idle", "post"} /\ scheduled_seqs = <<>>
         /\ (phase' = "post" => batch'.seqs # <<>>)
         /\ (phase' = "idle" => batch' = NoBatch)
         /\ consumed(row) \in Nat /\ consumed(row) <= num_tokens[row]
         /\ num_tokens[row] \in Nat
<1>1. /\ batch \in Batch /\ batch.seqs \in Seq(Requests) /\ batch.seqs # <<>>
      /\ scheduled_seqs = <<>>
  BY DEF PostRow, TypeInv, TypeOK, PhaseOK, Batch
<1>2. /\ row \in Requests /\ row \in ToSet(batch.seqs)
      /\ Tail(batch.seqs) \in Seq(Requests)
  BY <1>1, PopLeftQueue DEF row
<1>3. NoBatch \in Batch
  BY DEF NoBatch, Batch
<1>4. [batch EXCEPT !.seqs = Tail(@)] \in Batch
      /\ [batch EXCEPT !.seqs = Tail(@)].seqs = Tail(batch.seqs)
  BY <1>1, <1>2 DEF Batch
<1>5. /\ batch' \in Batch
      /\ (phase' = "post" => batch'.seqs # <<>>)
      /\ (phase' = "idle" => batch' = NoBatch)
      /\ phase' \in {"idle", "post"}
  BY <1>3, <1>4 DEF PostRow
<1>6. in_flight' \in SUBSET Requests /\ num_scheduled_tokens' \in [Requests -> Nat]
  BY <1>2 DEF PostRow, TypeInv, TypeOK
<1>7. /\ consumed(row) \in Nat /\ consumed(row) <= num_tokens[row]
      /\ num_tokens[row] \in Nat
  BY <1>2, CounterTypes DEF consumed
<1> QED
  BY <1>1, <1>2, <1>5, <1>6, <1>7

LEMMA TypeInvStep == TypeInv /\ [Next]_vars => TypeInv'
<1> SUFFICES ASSUME TypeInv, [Next]_vars PROVE TypeInv'
  OBVIOUS
<1> USE ConfigAssumption
<1>1. ASSUME NEW r \in Requests, add(r) PROVE TypeInv'
  <2>1. waiting' \in Seq(Requests)
    BY <1>1, AppendQueue DEF add, TypeInv, TypeOK
  <2> QED
    BY <1>1, <2>1 DEF add, TypeInv, TypeOK, PhaseOK, Progress, blockVars, callVars, driverVars
<1>2. CASE BeginSchedule
  <2>1. active_ids' \in SUBSET Requests
    BY <1>2, ToSetDef DEF BeginSchedule, SlotOwners, TypeInv, TypeOK
  <2> QED
    BY <1>2, <2>1 DEF BeginSchedule, TypeInv, TypeOK, PhaseOK, Progress, queueVars,
         seqVars, blockVars, driverVars
<1>3. CASE DecodeRow
  <2> DEFINE r == Head(running)
  <2>1. r \in Requests /\ running' \in Seq(Requests)
    BY <1>3, PopLeftQueue DEF DecodeRow, InDecodeLoop, TypeInv, TypeOK
  <2> HIDE DEF r
  <2>2. scheduled_seqs' \in Seq(Requests) /\ scheduled_seqs' # <<>>
    <3>1. Append(scheduled_seqs, r) \in Seq(Requests) /\ Append(scheduled_seqs, r) # <<>>
      BY <2>1, AppendQueue DEF TypeInv, TypeOK
    <3> QED
      BY <1>3, <3>1 DEF DecodeRow, r
  <2>3. block_table' \in [Requests -> Seq(Blocks)] /\ free_block_ids' \in Seq(Blocks)
    <3>1. CASE needs_block(r)
      <4>1. free_block_ids # <<>>
        BY <1>3, <3>1, ToSetDef DEF DecodeRow, can_append, r, TypeInv, TypeOK
      <4>2. Head(free_block_ids) \in Blocks /\ Tail(free_block_ids) \in Seq(Blocks)
        BY <4>1, PopLeftQueue DEF TypeInv, TypeOK
      <4>3. Append(block_table[r], Head(free_block_ids)) \in Seq(Blocks)
        BY <4>2, <2>1, AppendQueue DEF TypeInv, TypeOK
      <4> QED
        BY <1>3, <3>1, <2>1, <4>2, <4>3 DEF DecodeRow, may_append, r, TypeInv, TypeOK
    <3>2. CASE ~needs_block(r)
      BY <1>3, <3>2 DEF DecodeRow, may_append, r, blockVars, TypeInv, TypeOK
    <3> QED
      BY <3>1, <3>2
  <2>4. num_batched_tokens' \in 0..MaxNumBatchedTokens
    BY <1>3 DEF DecodeRow, InDecodeLoop, remaining, TypeInv, TypeOK
  <2>5. TypeOK'
    BY <1>3, <2>1, <2>2, <2>3, <2>4 DEF DecodeRow, TypeInv, TypeOK, driverVars, r
  <2>6. PhaseOK'
    BY <1>3, <2>2 DEF DecodeRow, TypeInv, PhaseOK, driverVars
  <2>7. Progress'
    <3>1. /\ num_tokens' = [num_tokens EXCEPT ![r] = num_tokens[r]]
          /\ num_cached_tokens' = [num_cached_tokens EXCEPT ![r] = num_cached_tokens[r]]
          /\ num_scheduled_tokens' = [num_scheduled_tokens EXCEPT ![r] = 1]
      BY <1>3, <2>1 DEF DecodeRow, TypeInv, TypeOK, r
    <3>2. num_cached_tokens[r] + 1 <= num_tokens[r]
      BY <2>1, CounterTypes
    <3> QED
      BY <3>1, <3>2, <2>1, CounterTypes, CounterUpdate
  <2> QED
    BY <2>5, <2>6, <2>7 DEF TypeInv
<1>4. CASE DecodePreempt
  <2> DEFINE victim == Last(running)
  <2>1. victim \in Requests /\ running' \in Seq(Requests)
    BY <1>4, PopQueue DEF DecodePreempt, InDecodeLoop, TypeInv, TypeOK
  <2> HIDE DEF victim
  <2>2. waiting' \in Seq(Requests)
    BY <1>4, <2>1, AppendLeftQueue DEF DecodePreempt, TypeInv, TypeOK, victim
  <2>3. block_table' \in [Requests -> Seq(Blocks)]
    BY <1>4, <2>1 DEF DecodePreempt, deallocate, TypeInv, TypeOK, victim
  <2>4. free_block_ids' \in Seq(Blocks)
    <3>1. Reverse(block_table[victim]) \in Seq(Blocks)
      BY <2>1, ReverseQueue DEF TypeInv, TypeOK
    <3> QED
      BY <1>4, <3>1, ConcatQueue DEF DecodePreempt, deallocate, TypeInv, TypeOK, victim
  <2>5. TypeOK'
    BY <1>4, <2>1, <2>2, <2>3, <2>4 DEF DecodePreempt, TypeInv, TypeOK, callVars,
         driverVars, victim
  <2>6. PhaseOK'
    BY <1>4 DEF DecodePreempt, TypeInv, PhaseOK, callVars, driverVars
  <2>7. Progress'
    <3>1. /\ num_tokens' = [num_tokens EXCEPT ![victim] = num_tokens[victim]]
          /\ num_cached_tokens' = [num_cached_tokens EXCEPT ![victim] = 0]
          /\ num_scheduled_tokens' =
               [num_scheduled_tokens EXCEPT ![victim] = num_scheduled_tokens[victim]]
      BY <1>4, <2>1 DEF DecodePreempt, TypeInv, TypeOK, victim
    <3>2. 0 < num_tokens[victim] /\ 0 + num_scheduled_tokens[victim] <= num_tokens[victim]
      BY <2>1, CounterTypes
    <3> QED
      BY <3>1, <3>2, <2>1, CounterTypes, CounterUpdate
  <2> QED
    BY <2>5, <2>6, <2>7 DEF TypeInv
<1>5. CASE DecodeDone
  BY <1>5 DEF DecodeDone, TypeInv, TypeOK, PhaseOK, Progress, queueVars, seqVars,
       blockVars, callVars, driverVars
<1>6. CASE PrefillPromote
  <2>1. waiting' \in Seq(Requests)
    BY <1>6, MoveToFrontQueue DEF PrefillPromote, TypeInv, TypeOK
  <2> QED
    BY <1>6, <2>1 DEF PrefillPromote, TypeInv, TypeOK, PhaseOK, Progress, seqVars,
         blockVars, callVars, driverVars
<1>7. CASE PrefillContinuation
  <2>1. waiting' \in Seq(Requests)
    BY <1>7, MoveToFrontQueue DEF PrefillContinuation, TypeInv, TypeOK
  <2> QED
    BY <1>7, <2>1 DEF PrefillContinuation, TypeInv, TypeOK, PhaseOK, Progress, seqVars,
         blockVars, callVars, driverVars
<1>8. CASE PrefillRow
  <2> DEFINE r == Head(waiting)
  <2>1. r \in Requests /\ waiting' \in Seq(Requests)
    BY <1>8, PopLeftQueue DEF PrefillRow, InPrefillLoop, TypeInv, TypeOK
  <2>2. /\ num_tokens[r] \in Nat /\ num_cached_tokens[r] \in Nat
        /\ num_cached_tokens[r] < num_tokens[r]
        /\ remaining \in Nat /\ remaining # 0 /\ num_batched_tokens \in Nat
        /\ num_batched_tokens + remaining = MaxNumBatchedTokens
    <3>1. remaining # 0
      BY <1>8 DEF PrefillRow
    <3> QED
      BY <2>1, <3>1, ConfigAssumption DEF remaining, TypeInv, TypeOK, Progress
  <2>3. /\ chunk(r) \in Nat \ {0} /\ chunk(r) <= remaining
        /\ (IF fresh(r) THEN 0 ELSE num_cached_tokens[r]) + chunk(r) <= num_tokens[r]
    BY <2>2 DEF chunk, num_tokens_left
  <2>4. /\ num_cached_tokens' =
             [num_cached_tokens EXCEPT ![r] = IF fresh(r) THEN 0 ELSE num_cached_tokens[r]]
        /\ num_scheduled_tokens' = [num_scheduled_tokens EXCEPT ![r] = chunk(r)]
        /\ num_batched_tokens' = num_batched_tokens + chunk(r)
        /\ num_tokens' = [num_tokens EXCEPT ![r] = num_tokens[r]]
    BY <1>8, <2>1 DEF PrefillRow, TypeInv, TypeOK
  <2>5. scheduled_seqs' \in Seq(Requests) /\ scheduled_seqs' # <<>>
    <3>1. Append(scheduled_seqs, r) \in Seq(Requests) /\ Append(scheduled_seqs, r) # <<>>
      BY <2>1, AppendQueue DEF TypeInv, TypeOK
    <3> QED
      BY <1>8, <3>1 DEF PrefillRow
  <2>6. block_table' \in [Requests -> Seq(Blocks)] /\ free_block_ids' \in Seq(Blocks)
    <3>1. CASE fresh(r)
      <4>1. num_blocks(r) \in Nat /\ num_blocks(r) <= Len(free_block_ids)
        BY <1>8, <3>1, <2>1, NumBlocksType DEF PrefillRow, Starved, can_allocate, fresh, TypeInv
      <4>2. /\ SubSeq(free_block_ids, 1, num_blocks(r)) \in Seq(Blocks)
            /\ SubSeq(free_block_ids, num_blocks(r) + 1, Len(free_block_ids)) \in Seq(Blocks)
        BY <4>1, SplitQueue DEF TypeInv, TypeOK
      <4> QED
        BY <1>8, <3>1, <2>1, <4>2 DEF PrefillRow, allocate, TypeInv, TypeOK
    <3>2. CASE ~fresh(r)
      BY <1>8, <3>2 DEF PrefillRow, blockVars, TypeInv, TypeOK
    <3> QED
      BY <3>1, <3>2
  <2>c. (IF fresh(r) THEN 0 ELSE num_cached_tokens[r]) \in Nat
        /\ (IF fresh(r) THEN 0 ELSE num_cached_tokens[r]) < num_tokens[r]
    BY <2>2
  <2> HIDE DEF r
  <2>7. /\ num_tokens' \in [Requests -> Nat]
        /\ num_cached_tokens' \in [Requests -> Nat]
        /\ num_scheduled_tokens' \in [Requests -> Nat]
        /\ Progress'
    BY <2>1, <2>2, <2>3, <2>4, <2>c, CounterUpdate
  <2>8. TypeOK'
    <3>1. num_batched_tokens' \in 0..MaxNumBatchedTokens
      BY <2>2, <2>3, <2>4
    <3>2. /\ in_flight' \in SUBSET Requests /\ active_ids' \in SUBSET Requests
          /\ is_prefill' \in [Requests -> BOOLEAN]
      BY <1>8, <2>1 DEF PrefillRow, TypeInv, TypeOK, r
    <3> QED
      BY <1>8, <2>1, <2>5, <2>6, <2>7, <3>1, <3>2 DEF PrefillRow, TypeInv, TypeOK, driverVars
  <2>9. PhaseOK'
    BY <1>8, <2>5 DEF PrefillRow, TypeInv, PhaseOK, driverVars
  <2> QED
    BY <2>7, <2>8, <2>9 DEF TypeInv
<1>9. CASE RaiseExhausted
  <2>1. TypeOK'
    BY <1>9 DEF RaiseExhausted, ResetCall, TypeInv, TypeOK, queueVars, seqVars,
         blockVars, driverVars
  <2>2. PhaseOK'
    BY <1>9 DEF RaiseExhausted, ResetCall, TypeInv, PhaseOK, driverVars
  <2>3. Progress'
    BY <1>9 DEF RaiseExhausted, TypeInv, Progress, seqVars
  <2> QED
    BY <2>1, <2>2, <2>3 DEF TypeInv
<1>10. CASE Return
  <2> DEFINE b == [seqs |-> scheduled_seqs,
                   is_prefill |-> \E r \in ToSet(scheduled_seqs) : is_prefill[r]]
  <2>1. b \in Batch /\ b.seqs = scheduled_seqs
    BY DEF TypeInv, TypeOK, Batch
  <2> HIDE DEF b
  <2>2. /\ batch_queue' \in Seq(Batch)
        /\ \A i \in 1..Len(batch_queue') : batch_queue'[i].seqs # <<>>
    <3>1. CASE scheduled_seqs = <<>>
      BY <1>10, <3>1 DEF Return, TypeInv, TypeOK, PhaseOK
    <3>2. CASE scheduled_seqs # <<>>
      <4>1. batch_queue' = Append(batch_queue, b)
        BY <1>10, <3>2 DEF Return, b
      <4>2. /\ Append(batch_queue, b) \in Seq(Batch)
            /\ Len(Append(batch_queue, b)) = Len(batch_queue) + 1
            /\ \A i \in 1..Len(batch_queue) : Append(batch_queue, b)[i] = batch_queue[i]
            /\ Append(batch_queue, b)[Len(batch_queue) + 1] = b
            /\ Len(batch_queue) \in Nat
        BY <2>1, AppendProperties, ToSetDef DEF TypeInv, TypeOK
      <4>3. ASSUME NEW i \in 1..Len(batch_queue) + 1
            PROVE  Append(batch_queue, b)[i].seqs # <<>>
        <5>1. CASE i = Len(batch_queue) + 1
          BY <5>1, <4>2, <2>1, <3>2
        <5>2. CASE i # Len(batch_queue) + 1
          BY <5>2, <4>2 DEF TypeInv, PhaseOK
        <5> QED
          BY <5>1, <5>2
      <4> QED
        BY <4>1, <4>2, <4>3
    <3> QED
      BY <3>1, <3>2
  <2> QED
    <3>1. TypeOK'
      BY <1>10, <2>2 DEF Return, ResetCall, TypeInv, TypeOK, queueVars, seqVars, blockVars
    <3>2. PhaseOK'
      BY <1>10, <2>2 DEF Return, ResetCall, TypeInv, PhaseOK
    <3>3. Progress'
      BY <1>10 DEF Return, TypeInv, Progress, seqVars
    <3> QED
      BY <3>1, <3>2, <3>3 DEF TypeInv
<1>11. ASSUME NEW i \in 1..Len(batch_queue), BeginPostprocess(i) PROVE TypeInv'
  <2>1. batch' \in Batch /\ batch'.seqs # <<>>
    BY <1>11, ElementOfSeq DEF BeginPostprocess, TypeInv, TypeOK, PhaseOK
  <2>2. batch_queue' \in Seq(Batch)
    BY <1>11, RemoveAtQueue DEF BeginPostprocess, TypeInv, TypeOK
  <2>3. \A k \in 1..Len(batch_queue') : batch_queue'[k].seqs # <<>>
    <3>1. ToSet(batch_queue') \subseteq ToSet(batch_queue)
      BY <1>11, RemoveAtQueue DEF BeginPostprocess, TypeInv, TypeOK
    <3>2. \A b \in ToSet(batch_queue) : b.seqs # <<>>
      <4>1. ToSet(batch_queue) = {batch_queue[k] : k \in 1..Len(batch_queue)}
        BY ToSetDef DEF TypeInv, TypeOK
      <4> QED
        BY <4>1 DEF TypeInv, PhaseOK
    <3>3. \A k \in 1..Len(batch_queue') : batch_queue'[k] \in ToSet(batch_queue')
      BY <2>2, ToSetDef
    <3> QED
      BY <3>1, <3>2, <3>3
  <2> QED
    BY <1>11, <2>1, <2>2, <2>3 DEF BeginPostprocess, TypeInv, TypeOK, PhaseOK, Progress,
         queueVars, seqVars, blockVars, callVars
<1>12. ASSUME NEW eos \in BOOLEAN, Postprocess(eos) PROVE TypeInv'
  <2>1. PostRow
    BY <1>12 DEF Postprocess, PostPartial, PostFinish, PostContinue
  <2>2. PhaseOK'
    BY <2>1, PostRowFacts DEF PostRow, TypeInv, PhaseOK, callVars
  <2>r. /\ row \in Requests /\ num_tokens[row] \in Nat
        /\ num_scheduled_tokens' = [num_scheduled_tokens EXCEPT ![row] = 0]
        /\ num_tokens = [num_tokens EXCEPT ![row] = num_tokens[row]]
        /\ consumed(row) \in Nat /\ consumed(row) <= num_tokens[row]
    BY <2>1, PostRowFacts DEF PostRow, TypeInv, TypeOK
  <2>3. CASE PostPartial
    <3>1. waiting' \in Seq(Requests)
      BY <2>3, <2>r, AppendQueue DEF PostPartial, TypeInv, TypeOK
    <3>2. consumed(row) < num_tokens[row] /\ consumed(row) + 0 <= num_tokens[row]
      BY <2>3, <2>r DEF PostPartial, IsPartial
    <3>3. /\ num_tokens' = [num_tokens EXCEPT ![row] = num_tokens[row]]
          /\ num_cached_tokens' = [num_cached_tokens EXCEPT ![row] = consumed(row)]
      BY <2>3, <2>r DEF PostPartial
    <3>4. /\ num_tokens' \in [Requests -> Nat]
          /\ num_cached_tokens' \in [Requests -> Nat]
          /\ num_scheduled_tokens' \in [Requests -> Nat]
          /\ Progress'
      BY <2>r, <3>2, <3>3, CounterUpdate
    <3>5. TypeOK'
      BY <2>1, <2>3, <3>1, <3>4, PostRowFacts
         DEF PostPartial, PostRow, TypeInv, TypeOK, blockVars, callVars
    <3> QED
      BY <2>2, <3>4, <3>5 DEF TypeInv
  <2>4. CASE PostFinish(eos)
    <3>1. block_table' \in [Requests -> Seq(Blocks)] /\ free_block_ids' \in Seq(Blocks)
      <4>1. Reverse(block_table[row]) \in Seq(Blocks)
        BY <2>r, ReverseQueue DEF TypeInv, TypeOK
      <4> QED
        BY <2>4, <2>r, <4>1, ConcatQueue DEF PostFinish, deallocate, TypeInv, TypeOK
    <3>2. 0 < num_tokens[row] + 1 /\ 0 + 0 <= num_tokens[row] + 1
      BY <2>r
    <3>3. /\ num_tokens' = [num_tokens EXCEPT ![row] = num_tokens[row] + 1]
          /\ num_cached_tokens' = [num_cached_tokens EXCEPT ![row] = 0]
          /\ num_tokens[row] + 1 \in Nat
      BY <2>4, <2>r DEF PostFinish
    <3>4. /\ num_tokens' \in [Requests -> Nat]
          /\ num_cached_tokens' \in [Requests -> Nat]
          /\ num_scheduled_tokens' \in [Requests -> Nat]
          /\ Progress'
      BY <2>r, <3>2, <3>3, CounterUpdate
    <3>5. TypeOK'
      BY <2>1, <2>4, <3>1, <3>4, PostRowFacts
         DEF PostFinish, PostRow, TypeInv, TypeOK, callVars
    <3> QED
      BY <2>2, <3>4, <3>5 DEF TypeInv
  <2>5. CASE PostContinue(eos)
    <3>1. running' \in Seq(Requests)
      BY <2>5, <2>r, AppendQueue DEF PostContinue, TypeInv, TypeOK
    <3>2. consumed(row) < num_tokens[row] + 1 /\ consumed(row) + 0 <= num_tokens[row] + 1
      BY <2>r
    <3>3. /\ num_tokens' = [num_tokens EXCEPT ![row] = num_tokens[row] + 1]
          /\ num_cached_tokens' = [num_cached_tokens EXCEPT ![row] = consumed(row)]
          /\ num_tokens[row] + 1 \in Nat
      BY <2>5, <2>r DEF PostContinue
    <3>4. /\ num_tokens' \in [Requests -> Nat]
          /\ num_cached_tokens' \in [Requests -> Nat]
          /\ num_scheduled_tokens' \in [Requests -> Nat]
          /\ Progress'
      BY <2>r, <3>2, <3>3, CounterUpdate
    <3>5. TypeOK'
      BY <2>1, <2>5, <3>1, <3>4, PostRowFacts
         DEF PostContinue, PostRow, TypeInv, TypeOK, blockVars, callVars
    <3> QED
      BY <2>2, <3>4, <3>5 DEF TypeInv
  <2> QED
    BY <1>12, <2>3, <2>4, <2>5 DEF Postprocess
<1>13. CASE UNCHANGED vars
  BY <1>13 DEF vars, queueVars, seqVars, blockVars, callVars, driverVars, TypeInv, TypeOK,
       PhaseOK, Progress
<1> QED
  BY <1>1, <1>2, <1>3, <1>4, <1>5, <1>6, <1>7, <1>8, <1>9, <1>10, <1>11, <1>12, <1>13
     DEF Next, Schedule
LEMMA TypeInvCorrect == Spec => []TypeInv
<1>1. Init => TypeInv
  BY InitTypeInv
<1>2. TypeInv /\ [Next]_vars => TypeInv'
  BY TypeInvStep
<1> QED
  BY <1>1, <1>2, PTL DEF Spec

(* No step of the scheduler takes a variable out of its type: counters     *)
(* stay natural, the token budget is never overdrawn, and no pop meets an  *)
(* empty deque.                                                            *)
THEOREM TypeCorrect == Spec => []TypeOK
<1>1. TypeInv => TypeOK
  BY DEF TypeInv
<1> QED
  BY <1>1, TypeInvCorrect, PTL

(***************************************************************************)
(* Layer 2: who owns a request.  OneOwner and OneRowPerFlight are          *)
(* inductive together: a row can only be given back to a queue because it  *)
(* is in flight, in no other row, and so in no queue.                      *)
(***************************************************************************)
Ownership == OneOwner /\ OneRowPerFlight

LEMMA InitOwnership == Init => Ownership
<1> SUFFICES ASSUME Init PROVE Ownership
  OBVIOUS
<1>1. ToSet(<<>>) = {} /\ Distinct(<<>>) /\ Len(<<>>) = 0
  BY EmptyQueue
<1>2. OneOwner
  BY <1>1 DEF Init, OneOwner
<1>3. OneRowPerFlight
  BY <1>1 DEF Init, OneRowPerFlight, NoBatch
<1> QED
  BY <1>2, <1>3 DEF Ownership

(* The sets of owners, typed.                                              *)
LEMMA OwnerTypes ==
  ASSUME TypeInv
  PROVE  /\ waiting \in Seq(Requests) /\ running \in Seq(Requests)
         /\ scheduled_seqs \in Seq(Requests) /\ batch.seqs \in Seq(Requests)
         /\ batch_queue \in Seq(Batch) /\ Len(batch_queue) \in Nat
         /\ \A i \in 1..Len(batch_queue) : batch_queue[i].seqs \in Seq(Requests)
         /\ ToSet(waiting) \subseteq Requests /\ ToSet(running) \subseteq Requests
         /\ in_flight \subseteq Requests
         /\ status \in [Requests -> {"NEW", "WAITING", "RUNNING", "FINISHED"}]
<1>1. /\ waiting \in Seq(Requests) /\ running \in Seq(Requests)
      /\ scheduled_seqs \in Seq(Requests) /\ batch \in Batch
      /\ batch_queue \in Seq(Batch) /\ in_flight \subseteq Requests
      /\ status \in [Requests -> {"NEW", "WAITING", "RUNNING", "FINISHED"}]
  BY DEF TypeInv, TypeOK
<1>2. \A i \in 1..Len(batch_queue) : batch_queue[i] \in Batch
  BY <1>1, ElementOfSeq
<1>3. \A b \in Batch : b.seqs \in Seq(Requests)
  BY DEF Batch
<1> QED
  BY <1>1, <1>2, <1>3, ToSetDef

(* A request that was not in flight becomes one more row of the batch      *)
(* being formed.                                                           *)
LEMMA NewRowDisjoint ==
  ASSUME TypeInv, Ownership, NEW r \in Requests, r \notin in_flight,
         in_flight' = in_flight \cup {r},
         ToSet(scheduled_seqs') = ToSet(scheduled_seqs) \cup {r},
         Distinct(scheduled_seqs'), UNCHANGED <<batch_queue, batch>>
  PROVE  OneRowPerFlight'
<1>1. r \notin ToSet(batch.seqs)
  BY DEF Ownership, OneRowPerFlight
<1>2. \A i \in 1..Len(batch_queue) : r \notin ToSet(batch_queue[i].seqs)
  BY DEF Ownership, OneRowPerFlight
<1> QED
  BY <1>1, <1>2 DEF Ownership, OneRowPerFlight

(* The batch formed becomes the last of the queue.                         *)
LEMMA ReturnRows ==
  ASSUME TypeInv, Ownership, Return
  PROVE  OneRowPerFlight'
<1>1. ToSet(<<>>) = {} /\ Distinct(<<>>)
  BY EmptyQueue
<1>2. scheduled_seqs' = <<>> /\ UNCHANGED <<in_flight, batch>>
  BY DEF Return, ResetCall, queueVars
<1>3. CASE scheduled_seqs = <<>>
  BY <1>2, <1>3 DEF Return, Ownership, OneRowPerFlight
<1>4. CASE scheduled_seqs # <<>>
  <2> DEFINE b == [seqs |-> scheduled_seqs,
                   is_prefill |-> \E r \in ToSet(scheduled_seqs) : is_prefill[r]]
             n == Len(batch_queue)
  <2>1. b \in Batch /\ b.seqs = scheduled_seqs
    BY OwnerTypes DEF Batch
  <2>2. batch_queue' = Append(batch_queue, b)
    BY <1>4 DEF Return
  <2> HIDE DEF b
  <2>3. /\ n \in Nat /\ Len(batch_queue') = n + 1
        /\ \A i \in 1..n : batch_queue'[i] = batch_queue[i]
        /\ batch_queue'[n + 1] = b
    BY <2>1, <2>2, OwnerTypes, AppendProperties
  <2> HIDE DEF n
  <2>4. 1..n + 1 = 1..n \cup {n + 1}
    BY <2>3
  <2>5. /\ \A i \in 1..n :
             /\ Distinct(batch_queue[i].seqs)
             /\ ToSet(batch_queue[i].seqs) \cap ToSet(scheduled_seqs) = {}
             /\ ToSet(batch_queue[i].seqs) \cap ToSet(batch.seqs) = {}
             /\ \A j \in 1..n : i # j =>
                  ToSet(batch_queue[i].seqs) \cap ToSet(batch_queue[j].seqs) = {}
        /\ in_flight = ToSet(scheduled_seqs) \cup ToSet(batch.seqs)
             \cup UNION {ToSet(batch_queue[i].seqs) : i \in 1..n}
        /\ Distinct(scheduled_seqs) /\ Distinct(batch.seqs)
        /\ ToSet(scheduled_seqs) \cap ToSet(batch.seqs) = {}
    BY DEF Ownership, OneRowPerFlight, n
  <2>6. ASSUME NEW i \in 1..n + 1
        PROVE  /\ Distinct(batch_queue'[i].seqs)
               /\ ToSet(batch_queue'[i].seqs) \cap ToSet(batch.seqs) = {}
               /\ \A j \in 1..n + 1 : i # j =>
                    ToSet(batch_queue'[i].seqs) \cap ToSet(batch_queue'[j].seqs) = {}
    BY <2>1, <2>3, <2>4, <2>5
  <2>7. in_flight = ToSet(batch.seqs)
          \cup UNION {ToSet(batch_queue'[i].seqs) : i \in 1..n + 1}
    BY <2>1, <2>3, <2>4, <2>5
  <2> QED
    BY <1>1, <1>2, <2>3, <2>5, <2>6, <2>7 DEF OneRowPerFlight
<1> QED
  BY <1>3, <1>4

(* A queued batch becomes the batch in hand.                               *)
LEMMA TakeBatchRows ==
  ASSUME TypeInv, Ownership, NEW i \in 1..Len(batch_queue), BeginPostprocess(i)
  PROVE  OneRowPerFlight'
<1> DEFINE n == Len(batch_queue)
           Old(k) == IF k < i THEN k ELSE k + 1
<1>1. /\ n \in Nat /\ Len(batch_queue') = n - 1
      /\ \A k \in 1..n - 1 :
           batch_queue'[k] = IF k < i THEN batch_queue[k] ELSE batch_queue[k + 1]
  BY OwnerTypes, RemoveAtIndices DEF BeginPostprocess
<1>2. /\ batch' = batch_queue[i] /\ batch.seqs = <<>>
      /\ UNCHANGED <<in_flight, scheduled_seqs>>
  BY DEF BeginPostprocess, TypeInv, PhaseOK, NoBatch, queueVars, callVars
<1>3. ToSet(<<>>) = {} /\ Distinct(<<>>)
  BY EmptyQueue
<1>4. /\ \A k \in 1..n :
           /\ Distinct(batch_queue[k].seqs)
           /\ ToSet(batch_queue[k].seqs) \cap ToSet(scheduled_seqs) = {}
           /\ \A j \in 1..n : k # j =>
                ToSet(batch_queue[k].seqs) \cap ToSet(batch_queue[j].seqs) = {}
      /\ in_flight = ToSet(scheduled_seqs)
           \cup UNION {ToSet(batch_queue[k].seqs) : k \in 1..n}
      /\ Distinct(scheduled_seqs)
  BY <1>2, <1>3 DEF Ownership, OneRowPerFlight
<1>5. /\ \A k \in 1..n - 1 : /\ Old(k) \in 1..n /\ Old(k) # i
                             /\ batch_queue'[k] = batch_queue[Old(k)]
      /\ \A k, j \in 1..n - 1 : k # j => Old(k) # Old(j)
  BY <1>1
<1>6. ASSUME NEW m \in 1..n, m # i
      PROVE  \E k \in 1..n - 1 : batch_queue'[k] = batch_queue[m]
  <2>1. CASE m < i
    <3>1. m \in 1..n - 1 /\ batch_queue'[m] = batch_queue[m]
      BY <1>1, <2>1
    <3> QED
      BY <3>1
  <2>2. CASE m > i
    <3>1. m - 1 \in 1..n - 1 /\ ~(m - 1 < i) /\ (m - 1) + 1 = m
      BY <1>1, <2>2
    <3>2. batch_queue'[m - 1] = batch_queue[m]
      BY <1>1, <3>1
    <3> QED
      BY <3>1, <3>2
  <2> QED
    BY <1>1, <1>6, <2>1, <2>2
<1> HIDE DEF Old, n
<1>7. i \in 1..n
  BY DEF n
<1>8. \A k \in 1..n - 1 :
        /\ Distinct(batch_queue'[k].seqs)
        /\ ToSet(batch_queue'[k].seqs) \cap ToSet(scheduled_seqs) = {}
        /\ ToSet(batch_queue'[k].seqs) \cap ToSet(batch'.seqs) = {}
        /\ \A j \in 1..n - 1 : k # j =>
             ToSet(batch_queue'[k].seqs) \cap ToSet(batch_queue'[j].seqs) = {}
  BY <1>2, <1>4, <1>5, <1>7
<1>9. in_flight = ToSet(scheduled_seqs) \cup ToSet(batch'.seqs)
        \cup UNION {ToSet(batch_queue'[k].seqs) : k \in 1..n - 1}
  <2>1. UNION {ToSet(batch_queue'[k].seqs) : k \in 1..n - 1}
          \subseteq UNION {ToSet(batch_queue[k].seqs) : k \in 1..n}
    BY <1>5
  <2>2. UNION {ToSet(batch_queue[k].seqs) : k \in 1..n}
          \subseteq ToSet(batch_queue[i].seqs)
            \cup UNION {ToSet(batch_queue'[k].seqs) : k \in 1..n - 1}
    BY <1>6, <1>7
  <2>3. ToSet(batch_queue[i].seqs) \subseteq UNION {ToSet(batch_queue[k].seqs) : k \in 1..n}
    BY <1>7
  <2> QED
    BY <1>2, <1>4, <2>1, <2>2, <2>3
<1>10. Distinct(batch'.seqs) /\ ToSet(scheduled_seqs) \cap ToSet(batch'.seqs) = {}
  BY <1>2, <1>4, <1>7
<1> QED
  BY <1>1, <1>2, <1>4, <1>8, <1>9, <1>10 DEF OneRowPerFlight

(* The first row of the batch in hand is done and no longer in flight.     *)
LEMMA PostedRow ==
  ASSUME TypeInv, Ownership, PostRow
  PROVE  OneRowPerFlight'
<1>1. batch.seqs \in Seq(Requests) /\ batch.seqs # <<>> /\ Distinct(batch.seqs)
  BY OwnerTypes DEF PostRow, TypeInv, PhaseOK, Ownership, OneRowPerFlight
<1>2. /\ ToSet(batch.seqs) = {row} \cup ToSet(Tail(batch.seqs))
      /\ row \notin ToSet(Tail(batch.seqs)) /\ Distinct(Tail(batch.seqs))
  BY <1>1, PopLeftQueue DEF row
<1>3. batch'.seqs = Tail(batch.seqs)
  <2>1. [batch EXCEPT !.seqs = Tail(@)].seqs = Tail(batch.seqs)
    BY DEF TypeInv, TypeOK, Batch
  <2> QED
    BY <2>1 DEF PostRow, NoBatch
<1>4. /\ in_flight' = in_flight \ {row}
      /\ UNCHANGED <<scheduled_seqs, batch_queue>>
  BY DEF PostRow, callVars
<1>5. /\ row \notin ToSet(scheduled_seqs)
      /\ \A i \in 1..Len(batch_queue) : row \notin ToSet(batch_queue[i].seqs)
  BY <1>2 DEF Ownership, OneRowPerFlight
<1>6. ToSet(batch'.seqs) = ToSet(batch.seqs) \ {row} /\ Distinct(batch'.seqs)
  BY <1>2, <1>3
<1> HIDE DEF row
<1>7. in_flight' = ToSet(scheduled_seqs) \cup ToSet(batch'.seqs)
        \cup UNION {ToSet(batch_queue[i].seqs) : i \in 1..Len(batch_queue)}
  BY <1>4, <1>5, <1>6 DEF Ownership, OneRowPerFlight
<1>8. /\ ToSet(scheduled_seqs) \cap ToSet(batch'.seqs) = {}
      /\ \A i \in 1..Len(batch_queue) :
           ToSet(batch_queue[i].seqs) \cap ToSet(batch'.seqs) = {}
  BY <1>6 DEF Ownership, OneRowPerFlight
<1>9. /\ Distinct(scheduled_seqs)
      /\ \A i \in 1..Len(batch_queue) :
           /\ Distinct(batch_queue[i].seqs)
           /\ ToSet(batch_queue[i].seqs) \cap ToSet(scheduled_seqs) = {}
           /\ \A j \in 1..Len(batch_queue) :
                i # j => ToSet(batch_queue[i].seqs) \cap ToSet(batch_queue[j].seqs) = {}
  BY DEF Ownership, OneRowPerFlight
<1>10. scheduled_seqs' = scheduled_seqs /\ batch_queue' = batch_queue
  BY <1>4
<1> QED
  BY <1>6, <1>7, <1>8, <1>9, <1>10 DEF OneRowPerFlight

LEMMA OwnershipStep == TypeInv /\ Ownership /\ [Next]_vars => Ownership'
<1> SUFFICES ASSUME TypeInv, Ownership, [Next]_vars PROVE Ownership'
  OBVIOUS
<1>1. ASSUME NEW r \in Requests, add(r) PROVE Ownership'
  <2>1. r \notin in_flight \cup ToSet(waiting) \cup ToSet(running)
    BY <1>1 DEF add, Ownership, OneOwner
  <2>2. ToSet(waiting') = ToSet(waiting) \cup {r} /\ Distinct(waiting')
    BY <1>1, <2>1, OwnerTypes, AppendQueue DEF add, Ownership, OneOwner
  <2>3. \A q \in Requests : status'[q] = IF q = r THEN "WAITING" ELSE status[q]
    BY <1>1, OwnerTypes DEF add
  <2>4. OneOwner'
    BY <1>1, <2>1, <2>2, <2>3 DEF add, Ownership, OneOwner
  <2>5. OneRowPerFlight'
    BY <1>1 DEF add, Ownership, OneRowPerFlight, callVars, driverVars
  <2> QED
    BY <2>4, <2>5 DEF Ownership
<1>2. CASE BeginSchedule
  BY <1>2 DEF BeginSchedule, Ownership, OneOwner, OneRowPerFlight, queueVars, seqVars,
       driverVars
<1>3. CASE DecodeRow
  <2> DEFINE r == Head(running)
  <2>1. /\ r \in Requests /\ r \in ToSet(running) /\ Distinct(running')
        /\ ToSet(running) = {r} \cup ToSet(running') /\ r \notin ToSet(running')
    BY <1>3, OwnerTypes, PopLeftQueue DEF DecodeRow, InDecodeLoop, Ownership, OneOwner
  <2>2. r \notin in_flight /\ r \notin ToSet(scheduled_seqs)
    BY <2>1 DEF Ownership, OneOwner, OneRowPerFlight
  <2>3. scheduled_seqs' = Append(scheduled_seqs, r) /\ in_flight' = in_flight \cup {r}
    BY <1>3 DEF DecodeRow
  <2> HIDE DEF r
  <2>4. ToSet(scheduled_seqs') = ToSet(scheduled_seqs) \cup {r} /\ Distinct(scheduled_seqs')
    BY <2>1, <2>2, <2>3, OwnerTypes, AppendQueue DEF Ownership, OneRowPerFlight
  <2>5. OneOwner'
    BY <1>3, <2>1, <2>2, <2>3 DEF DecodeRow, Ownership, OneOwner
  <2>6. UNCHANGED <<batch_queue, batch>>
    BY <1>3 DEF DecodeRow, driverVars
  <2>7. OneRowPerFlight'
    BY <2>1, <2>2, <2>3, <2>4, <2>6, NewRowDisjoint
  <2> QED
    BY <2>5, <2>7 DEF Ownership
<1>4. CASE DecodePreempt
  <2> DEFINE victim == Last(running)
  <2>1. /\ victim \in Requests /\ victim \in ToSet(running) /\ Distinct(running')
        /\ ToSet(running) = {victim} \cup ToSet(running') /\ victim \notin ToSet(running')
    BY <1>4, OwnerTypes, PopQueue DEF DecodePreempt, InDecodeLoop, Ownership, OneOwner
  <2>2. victim \notin in_flight /\ victim \notin ToSet(waiting)
    BY <2>1 DEF Ownership, OneOwner
  <2>3. waiting' = <<victim>> \o waiting /\ in_flight' = in_flight \ {victim}
    BY <1>4 DEF DecodePreempt
  <2>4. \A q \in Requests : status'[q] = IF q = victim THEN "WAITING" ELSE status[q]
    BY <1>4, OwnerTypes DEF DecodePreempt
  <2> HIDE DEF victim
  <2>5. ToSet(waiting') = ToSet(waiting) \cup {victim} /\ Distinct(waiting')
    BY <2>1, <2>2, <2>3, OwnerTypes, AppendLeftQueue DEF Ownership, OneOwner
  <2>6. in_flight' = in_flight
    BY <2>2, <2>3
  <2>7. OneOwner'
    BY <2>1, <2>2, <2>4, <2>5, <2>6 DEF Ownership, OneOwner
  <2>8. OneRowPerFlight'
    BY <1>4, <2>6 DEF DecodePreempt, Ownership, OneRowPerFlight, callVars, driverVars
  <2> QED
    BY <2>7, <2>8 DEF Ownership
<1>5. CASE DecodeDone
  BY <1>5 DEF DecodeDone, Ownership, OneOwner, OneRowPerFlight, queueVars, seqVars,
       callVars, driverVars
<1>6. CASE PrefillPromote \/ PrefillContinuation
  <2>1. /\ \E i \in 1..Len(waiting) : waiting' = MoveToFront(waiting, i)
        /\ UNCHANGED <<running, in_flight, status, scheduled_seqs, batch, batch_queue>>
    BY <1>6 DEF PrefillPromote, PrefillContinuation, seqVars, callVars, driverVars
  <2>2. ToSet(waiting') = ToSet(waiting) /\ Distinct(waiting')
    BY <2>1, OwnerTypes, MoveToFrontQueue DEF Ownership, OneOwner
  <2>3. OneOwner'
    BY <2>1, <2>2 DEF Ownership, OneOwner
  <2>4. OneRowPerFlight'
    BY <2>1 DEF Ownership, OneRowPerFlight
  <2> QED
    BY <2>3, <2>4 DEF Ownership
<1>7. CASE PrefillRow
  <2> DEFINE r == Head(waiting)
  <2>1. /\ r \in Requests /\ r \in ToSet(waiting) /\ Distinct(waiting')
        /\ ToSet(waiting) = {r} \cup ToSet(waiting') /\ r \notin ToSet(waiting')
    BY <1>7, OwnerTypes, PopLeftQueue DEF PrefillRow, InPrefillLoop, Ownership, OneOwner
  <2>2. r \notin in_flight /\ r \notin ToSet(scheduled_seqs)
    BY <2>1 DEF Ownership, OneOwner, OneRowPerFlight
  <2>3. scheduled_seqs' = Append(scheduled_seqs, r) /\ in_flight' = in_flight \cup {r}
    BY <1>7 DEF PrefillRow
  <2> HIDE DEF r
  <2>4. ToSet(scheduled_seqs') = ToSet(scheduled_seqs) \cup {r} /\ Distinct(scheduled_seqs')
    BY <2>1, <2>2, <2>3, OwnerTypes, AppendQueue DEF Ownership, OneRowPerFlight
  <2>5. OneOwner'
    BY <1>7, <2>1, <2>2, <2>3 DEF PrefillRow, Ownership, OneOwner
  <2>6. UNCHANGED <<batch_queue, batch>>
    BY <1>7 DEF PrefillRow, driverVars
  <2>7. OneRowPerFlight'
    BY <2>1, <2>2, <2>3, <2>4, <2>6, NewRowDisjoint
  <2> QED
    BY <2>5, <2>7 DEF Ownership
<1>8. CASE RaiseExhausted
  <2>1. scheduled_seqs = <<>>
    BY <1>8 DEF RaiseExhausted, Exhausted
  <2>2. scheduled_seqs' = scheduled_seqs /\ UNCHANGED <<queueVars, status, driverVars>>
    BY <1>8, <2>1 DEF RaiseExhausted, ResetCall, seqVars
  <2>3. OneOwner'
    BY <2>2 DEF Ownership, OneOwner, queueVars
  <2>4. OneRowPerFlight'
    BY <2>2 DEF Ownership, OneRowPerFlight, queueVars, driverVars
  <2> QED
    BY <2>3, <2>4 DEF Ownership
<1>9. CASE Return
  <2>1. OneOwner'
    BY <1>9 DEF Return, Ownership, OneOwner, queueVars, seqVars
  <2>2. OneRowPerFlight'
    BY <1>9, ReturnRows
  <2> QED
    BY <2>1, <2>2 DEF Ownership
<1>10. ASSUME NEW i \in 1..Len(batch_queue), BeginPostprocess(i) PROVE Ownership'
  <2>1. OneOwner'
    BY <1>10 DEF BeginPostprocess, Ownership, OneOwner, queueVars, seqVars
  <2>2. OneRowPerFlight'
    BY <1>10, TakeBatchRows
  <2> QED
    BY <2>1, <2>2 DEF Ownership
<1>11. ASSUME NEW eos \in BOOLEAN, Postprocess(eos) PROVE Ownership'
  <2>1. PostRow
    BY <1>11 DEF Postprocess, PostPartial, PostFinish, PostContinue
  <2>2. /\ row \in Requests /\ row \in in_flight /\ in_flight' = in_flight \ {row}
        /\ row \notin ToSet(waiting) /\ row \notin ToSet(running)
        /\ status[row] \in {"WAITING", "RUNNING"}
    BY <2>1, PostRowFacts DEF PostRow, Ownership, OneOwner, OneRowPerFlight
  <2>3. OneRowPerFlight'
    BY <2>1, PostedRow
  <2>4. CASE PostPartial
    <3>1. ToSet(waiting') = ToSet(waiting) \cup {row} /\ Distinct(waiting')
      BY <2>2, <2>4, OwnerTypes, AppendQueue DEF PostPartial, Ownership, OneOwner
    <3> QED
      BY <2>2, <2>3, <2>4, <3>1 DEF PostPartial, Ownership, OneOwner
  <2>5. CASE PostFinish(eos)
    <3>1. \A q \in Requests : status'[q] = IF q = row THEN "FINISHED" ELSE status[q]
      BY <2>2, <2>5, OwnerTypes DEF PostFinish
    <3> QED
      BY <2>2, <2>3, <2>5, <3>1 DEF PostFinish, Ownership, OneOwner
  <2>6. CASE PostContinue(eos)
    <3>1. \A q \in Requests : status'[q] = IF q = row THEN "RUNNING" ELSE status[q]
      BY <2>2, <2>6, OwnerTypes DEF PostContinue
    <3>2. ToSet(running') = ToSet(running) \cup {row} /\ Distinct(running')
      BY <2>2, <2>6, OwnerTypes, AppendQueue DEF PostContinue, Ownership, OneOwner
    <3> QED
      BY <2>2, <2>3, <2>6, <3>1, <3>2 DEF PostContinue, Ownership, OneOwner
  <2> QED
    BY <1>11, <2>4, <2>5, <2>6 DEF Postprocess
<1>12. CASE UNCHANGED vars
  BY <1>12 DEF vars, queueVars, seqVars, callVars, driverVars, Ownership, OneOwner,
       OneRowPerFlight
<1> QED
  BY <1>1, <1>2, <1>3, <1>4, <1>5, <1>6, <1>7, <1>8, <1>9, <1>10, <1>11, <1>12
     DEF Next, Schedule

LEMMA OwnershipCorrect == Spec => []Ownership
<1>1. Init => Ownership
  BY InitOwnership
<1>2. TypeInv /\ Ownership /\ [Next]_vars => Ownership'
  BY OwnershipStep
<1> QED
  BY <1>1, <1>2, TypeInvCorrect, PTL DEF Spec

(* A live request is always owned by exactly one of waiting, running and   *)
(* in_flight: it is neither lost nor scheduled twice, in any interleaving  *)
(* of dispatches and results.                                              *)
THEOREM OneOwnerAlways == Spec => []OneOwner
<1>1. Ownership => OneOwner
  BY DEF Ownership
<1> QED
  BY <1>1, OwnershipCorrect, PTL

(* Each in-flight request is a row of exactly one outstanding batch.       *)
THEOREM OneRowPerFlightAlways == Spec => []OneRowPerFlight
<1>1. Ownership => OneRowPerFlight
  BY DEF Ownership
<1> QED
  BY <1>1, OwnershipCorrect, PTL

(***************************************************************************)
(* Layer 3: the KV blocks.  Allocation, growth and deallocation each move  *)
(* blocks between the free deque and the table of one request, and a table *)
(* is emptied when its request ends.                                       *)
(***************************************************************************)

(* The types the lemmas on sequences ask for.                              *)
LEMMA BlockTypes ==
  ASSUME TypeInv
  PROVE  /\ free_block_ids \in Seq(Blocks)
         /\ block_table \in [Requests -> Seq(Blocks)]
         /\ \A r \in Requests : block_table[r] \in Seq(Blocks)
         /\ status \in [Requests -> {"NEW", "WAITING", "RUNNING", "FINISHED"}]
BY DEF TypeInv, TypeOK

(* Blocks moved between the deque and the table of one request stay        *)
(* conserved.                                                              *)
LEMMA MoveBlocks ==
  ASSUME TypeInv, BlocksConserved, NEW r \in Requests,
         \A q \in Requests \ {r} : block_table'[q] = block_table[q],
         Distinct(free_block_ids'), Distinct(block_table'[r]),
         ToSet(free_block_ids') \cap ToSet(block_table'[r]) = {},
         ToSet(free_block_ids') \cup ToSet(block_table'[r])
           = ToSet(free_block_ids) \cup ToSet(block_table[r]),
         status'[r] \in {"NEW", "FINISHED"} => block_table'[r] = <<>>,
         \A q \in Requests \ {r} :
           status'[q] \in {"NEW", "FINISHED"} => status[q] \in {"NEW", "FINISHED"}
  PROVE  BlocksConserved'
<1> DEFINE Owned(q) == ToSet(block_table[q])
           Owned2(q) == ToSet(block_table'[q])
           Free == ToSet(free_block_ids)
           Free2 == ToSet(free_block_ids')
<1>1. /\ \A q \in Requests \ {r} : Owned2(q) = Owned(q)
      /\ Free2 \cup Owned2(r) = Free \cup Owned(r)
      /\ Free2 \cap Owned2(r) = {}
  OBVIOUS
<1>2. /\ Blocks = Free \cup UNION {Owned(q) : q \in Requests}
      /\ \A q \in Requests : Owned(q) \cap Free = {}
      /\ \A p, q \in Requests : p # q => Owned(p) \cap Owned(q) = {}
  BY DEF BlocksConserved
<1> HIDE DEF Owned, Owned2, Free, Free2
<1>3. Blocks = Free2 \cup UNION {Owned2(q) : q \in Requests}
  <2>1. UNION {Owned(q) : q \in Requests} = Owned(r) \cup UNION {Owned(q) : q \in Requests \ {r}}
    OBVIOUS
  <2>2. UNION {Owned2(q) : q \in Requests} = Owned2(r) \cup UNION {Owned2(q) : q \in Requests \ {r}}
    OBVIOUS
  <2>3. UNION {Owned2(q) : q \in Requests \ {r}} = UNION {Owned(q) : q \in Requests \ {r}}
    BY <1>1
  <2> QED
    BY <1>1, <1>2, <2>1, <2>2, <2>3
<1>4. \A q \in Requests : Owned2(q) \cap Free2 = {}
  BY <1>1, <1>2
<1>5. \A p, q \in Requests : p # q => Owned2(p) \cap Owned2(q) = {}
  BY <1>1, <1>2
<1>6. \A q \in Requests : /\ Distinct(block_table'[q])
                          /\ status'[q] \in {"NEW", "FINISHED"} => block_table'[q] = <<>>
  BY DEF BlocksConserved
<1> USE DEF Owned2, Free2
<1> QED
  BY <1>3, <1>4, <1>5, <1>6 DEF BlocksConserved

(* A step that leaves the blocks alone and ends no request.                *)
LEMMA KeepBlocks ==
  ASSUME BlocksConserved, UNCHANGED <<block_table, free_block_ids>>,
         \A q \in Requests :
           status'[q] \in {"NEW", "FINISHED"} => status[q] \in {"NEW", "FINISHED"}
  PROVE  BlocksConserved'
BY DEF BlocksConserved

(* deallocate(): the table, reversed, joins the deque.                     *)
LEMMA DeallocateBlocks ==
  ASSUME TypeInv, BlocksConserved, NEW r \in Requests, deallocate(r),
         \A q \in Requests \ {r} :
           status'[q] \in {"NEW", "FINISHED"} => status[q] \in {"NEW", "FINISHED"}
  PROVE  BlocksConserved'
<1> DEFINE t == Reverse(block_table[r])
<1>1. /\ free_block_ids' = free_block_ids \o t
      /\ block_table'[r] = <<>>
      /\ \A q \in Requests \ {r} : block_table'[q] = block_table[q]
  BY BlockTypes DEF deallocate
<1>2. t \in Seq(Blocks) /\ ToSet(t) = ToSet(block_table[r]) /\ Distinct(t)
  BY BlockTypes, ReverseQueue DEF BlocksConserved
<1>3. ToSet(free_block_ids) \cap ToSet(t) = {} /\ Distinct(free_block_ids)
  BY <1>2 DEF BlocksConserved
<1> HIDE DEF t
<1>4. /\ ToSet(free_block_ids') = ToSet(free_block_ids) \cup ToSet(t)
      /\ Distinct(free_block_ids')
  BY <1>1, <1>2, <1>3, BlockTypes, ConcatQueue
<1>5. ToSet(<<>>) = {} /\ Distinct(<<>>)
  BY EmptyQueue
<1> QED
  BY <1>1, <1>2, <1>4, <1>5, MoveBlocks

(* allocate(): the front of the deque becomes the table of a request that  *)
(* has none.                                                               *)
LEMMA AllocateBlocks ==
  ASSUME TypeInv, BlocksConserved, NEW r \in Requests, fresh(r), can_allocate(r),
         allocate(r), UNCHANGED status, status[r] \notin {"NEW", "FINISHED"}
  PROVE  BlocksConserved'
<1> DEFINE n == num_blocks(r)
           p == SubSeq(free_block_ids, 1, n)
           q == SubSeq(free_block_ids, n + 1, Len(free_block_ids))
<1>1. n \in Nat /\ n <= Len(free_block_ids)
  BY NumBlocksType DEF can_allocate, TypeInv
<1>2. /\ block_table'[r] = p /\ free_block_ids' = q
      /\ \A k \in Requests \ {r} : block_table'[k] = block_table[k]
  BY BlockTypes DEF allocate
<1> HIDE DEF n
<1>3. /\ ToSet(free_block_ids) = ToSet(p) \cup ToSet(q)
      /\ Distinct(free_block_ids) => /\ Distinct(p) /\ Distinct(q)
                                     /\ ToSet(p) \cap ToSet(q) = {}
  BY <1>1, BlockTypes, SplitQueue
<1>4. Distinct(free_block_ids) /\ ToSet(block_table[r]) = {}
  BY EmptyQueue DEF BlocksConserved, fresh
<1> HIDE DEF p, q
<1> QED
  BY <1>2, <1>3, <1>4, MoveBlocks

(* may_append(): at a boundary, the head of the deque ends the table.      *)
LEMMA GrowBlocks ==
  ASSUME TypeInv, BlocksConserved, NEW r \in Requests, can_append(r), may_append(r),
         UNCHANGED status, status[r] \notin {"NEW", "FINISHED"}
  PROVE  BlocksConserved'
<1>1. CASE needs_block(r)
  <2> DEFINE h == Head(free_block_ids)
  <2>1. free_block_ids # <<>>
    BY <1>1, EmptyQueue DEF can_append
  <2>2. /\ h \in Blocks /\ h \in ToSet(free_block_ids)
        /\ ToSet(free_block_ids) = {h} \cup ToSet(Tail(free_block_ids))
        /\ h \notin ToSet(Tail(free_block_ids)) /\ Distinct(Tail(free_block_ids))
    BY <2>1, BlockTypes, PopLeftQueue DEF BlocksConserved
  <2>3. /\ block_table'[r] = Append(block_table[r], h)
        /\ free_block_ids' = Tail(free_block_ids)
        /\ \A k \in Requests \ {r} : block_table'[k] = block_table[k]
    BY <1>1, BlockTypes DEF may_append
  <2> HIDE DEF h
  <2>4. h \notin ToSet(block_table[r]) /\ Distinct(block_table[r])
        /\ ToSet(block_table[r]) \cap ToSet(free_block_ids) = {}
    BY <2>2 DEF BlocksConserved
  <2>5. /\ ToSet(block_table'[r]) = ToSet(block_table[r]) \cup {h}
        /\ Distinct(block_table'[r])
    BY <2>2, <2>3, <2>4, BlockTypes, AppendQueue
  <2>6. /\ ToSet(free_block_ids') \cap ToSet(block_table'[r]) = {}
        /\ ToSet(free_block_ids') \cup ToSet(block_table'[r])
             = ToSet(free_block_ids) \cup ToSet(block_table[r])
    BY <2>2, <2>3, <2>4, <2>5
  <2> QED
    BY <2>2, <2>3, <2>5, <2>6, MoveBlocks
<1>2. CASE ~needs_block(r)
  BY <1>2, KeepBlocks DEF may_append, blockVars
<1> QED
  BY <1>1, <1>2

LEMMA InitBlocks == Init => BlocksConserved
<1> SUFFICES ASSUME Init PROVE BlocksConserved
  OBVIOUS
<1>1. Cardinality(Blocks) \in Nat /\ IsFiniteSet(Blocks)
  BY ConfigAssumption, FS_CardinalityType
<1>2. /\ free_block_ids \in Seq(Blocks) /\ Len(free_block_ids) = Cardinality(Blocks)
  BY <1>1, FunctionIsQueue DEF Init
<1>3. Distinct(free_block_ids)
  BY <1>2 DEF Init, Distinct
<1>4. /\ ToSet(free_block_ids) \subseteq Blocks
      /\ Cardinality(ToSet(free_block_ids)) = Cardinality(Blocks)
  BY <1>2, <1>3, ToSetDef, DistinctCardinality
<1>5. Blocks = ToSet(free_block_ids)
  BY <1>1, <1>4, FS_Subset
<1>6. /\ \A r \in Requests : block_table[r] = <<>>
      /\ ToSet(<<>>) = {} /\ Distinct(<<>>)
  BY EmptyQueue DEF Init
<1> QED
  BY <1>3, <1>5, <1>6 DEF BlocksConserved

(* The owner of a request says whether it is live.                         *)
LEMMA LiveOwners ==
  ASSUME Ownership, NEW r \in Requests,
         r \in in_flight \/ r \in ToSet(waiting) \/ r \in ToSet(running)
  PROVE  status[r] \notin {"NEW", "FINISHED"}
BY DEF Ownership, OneOwner

LEMMA BlocksStep == TypeInv /\ Ownership /\ BlocksConserved /\ [Next]_vars => BlocksConserved'
<1> SUFFICES ASSUME TypeInv, Ownership, BlocksConserved, [Next]_vars
             PROVE  BlocksConserved'
  OBVIOUS
<1>1. ASSUME NEW r \in Requests, add(r) PROVE BlocksConserved'
  BY <1>1, BlockTypes, KeepBlocks DEF add, blockVars
<1>2. CASE DecodeRow
  <2>1. running # <<>> /\ can_append(Head(running)) /\ may_append(Head(running))
        /\ UNCHANGED status
    BY <1>2 DEF DecodeRow, InDecodeLoop
  <2>2. Head(running) \in Requests /\ Head(running) \in ToSet(running)
    BY <2>1, OwnerTypes, PopLeftQueue
  <2> QED
    BY <2>1, <2>2, LiveOwners, GrowBlocks
<1>3. CASE DecodePreempt
  <2> DEFINE victim == Last(running)
  <2>1. /\ running # <<>> /\ deallocate(victim)
        /\ status' = [status EXCEPT ![victim] = "WAITING"]
    BY <1>3 DEF DecodePreempt, InDecodeLoop
  <2>2. victim \in Requests
    BY <2>1, OwnerTypes, PopQueue
  <2> HIDE DEF victim
  <2>3. \A q \in Requests \ {victim} : status'[q] = status[q]
    BY <2>1, BlockTypes
  <2> QED
    BY <2>1, <2>2, <2>3, DeallocateBlocks
<1>4. CASE PrefillRow
  <2> DEFINE r == Head(waiting)
  <2>1. /\ waiting # <<>> /\ UNCHANGED status
        /\ fresh(r) => can_allocate(r) /\ allocate(r)
        /\ ~fresh(r) => UNCHANGED <<block_table, free_block_ids>>
    BY <1>4 DEF PrefillRow, InPrefillLoop, Starved, blockVars
  <2>2. r \in Requests /\ r \in ToSet(waiting)
    BY <2>1, OwnerTypes, PopLeftQueue
  <2> HIDE DEF r
  <2> QED
    BY <2>1, <2>2, LiveOwners, AllocateBlocks, KeepBlocks
<1>5. CASE BeginSchedule \/ DecodeDone \/ PrefillPromote \/ PrefillContinuation
             \/ RaiseExhausted \/ Return
  BY <1>5, KeepBlocks DEF BeginSchedule, DecodeDone, PrefillPromote, PrefillContinuation,
       RaiseExhausted, Return, seqVars, blockVars
<1>6. ASSUME NEW i \in 1..Len(batch_queue), BeginPostprocess(i) PROVE BlocksConserved'
  BY <1>6, KeepBlocks DEF BeginPostprocess, seqVars, blockVars
<1>7. ASSUME NEW eos \in BOOLEAN, Postprocess(eos) PROVE BlocksConserved'
  <2>1. PostRow
    BY <1>7 DEF Postprocess, PostPartial, PostFinish, PostContinue
  <2>2. row \in Requests
    BY <2>1, PostRowFacts DEF PostRow
  <2>3. CASE PostPartial
    BY <2>3, KeepBlocks DEF PostPartial, blockVars
  <2>4. CASE PostFinish(eos)
    <3>1. deallocate(row) /\ status' = [status EXCEPT ![row] = "FINISHED"]
      BY <2>4 DEF PostFinish
    <3>2. \A q \in Requests \ {row} : status'[q] = status[q]
      BY <2>2, <3>1, BlockTypes
    <3> QED
      BY <2>2, <3>1, <3>2, DeallocateBlocks
  <2>5. CASE PostContinue(eos)
    <3>1. status' = [status EXCEPT ![row] = "RUNNING"] /\ UNCHANGED <<block_table, free_block_ids>>
      BY <2>5 DEF PostContinue, blockVars
    <3>2. \A q \in Requests : status'[q] = IF q = row THEN "RUNNING" ELSE status[q]
      BY <2>2, <3>1, BlockTypes
    <3> QED
      BY <3>1, <3>2, KeepBlocks
  <2> QED
    BY <1>7, <2>3, <2>4, <2>5 DEF Postprocess
<1>8. CASE UNCHANGED vars
  BY <1>8, KeepBlocks DEF vars, seqVars, blockVars
<1> QED
  BY <1>1, <1>2, <1>3, <1>4, <1>5, <1>6, <1>7, <1>8 DEF Next, Schedule

(* No KV block is ever leaked or owned twice, whatever the sequence of     *)
(* admissions, preemptions, partial prompts and completions.               *)
THEOREM BlocksConservedAlways == Spec => []BlocksConserved
<1>1. Init => BlocksConserved
  BY InitBlocks
<1>2. TypeInv /\ Ownership /\ BlocksConserved /\ [Next]_vars => BlocksConserved'
  BY BlocksStep
<1> QED
  BY <1>1, <1>2, TypeInvCorrect, OwnershipCorrect, PTL DEF Spec

(***************************************************************************)
(* Layer 4: the state slots, and what schedule() decides with them: who is *)
(* dispatched, when it gives up.                                           *)
(***************************************************************************)

(* A request not yet added has no progress to keep a slot for.             *)
Untouched ==
  \A r \in Requests :
    status[r] = "NEW" => num_cached_tokens[r] = 0 /\ num_tokens[r] = PromptLen[r]

Scheduling == phase \in {"decode", "prefill"}

(* During schedule() active_ids covers the slot owners, within the slots,  *)
(* and holds live requests only.                                           *)
ActiveOK ==
  Scheduling =>
    /\ SlotOwners \subseteq active_ids
    /\ Cardinality(active_ids) <= MaxNumSeqs
    /\ active_ids \subseteq in_flight \cup ToSet(waiting) \cup ToSet(running)

(* The prompt loop starts when no decode row can join the batch.           *)
DecodeLoopLeft == phase = "prefill" => ~InDecodeLoop

PolicyInv == Untouched /\ SlotsBounded /\ ActiveOK /\ DecodeLoopLeft

Inv == TypeInv /\ Ownership /\ BlocksConserved /\ PolicyInv

LEMMA SlotTypes ==
  ASSUME TypeInv
  PROVE  SlotOwners \subseteq Requests /\ IsFiniteSet(SlotOwners) /\ IsFiniteSet(active_ids)
<1>1. SlotOwners \subseteq Requests /\ active_ids \subseteq Requests
  BY OwnerTypes DEF SlotOwners, TypeInv, TypeOK
<1> QED
  BY <1>1, ConfigAssumption, FS_Subset

LEMMA InitPolicy == Init => PolicyInv
<1> SUFFICES ASSUME Init PROVE PolicyInv
  OBVIOUS
<1>1. SlotOwners = {}
  BY EmptyQueue DEF Init, SlotOwners
<1>2. Cardinality(SlotOwners) = 0
  BY <1>1, FS_EmptySet
<1> QED
  BY <1>2, ConfigAssumption
     DEF Init, PolicyInv, Untouched, SlotsBounded, ActiveOK, Scheduling, DecodeLoopLeft

(* A step that lets no request become a slot owner keeps the bound.        *)
LEMMA FewerSlots ==
  ASSUME TypeInv, SlotsBounded, SlotOwners' \subseteq SlotOwners
  PROVE  SlotsBounded'
<1>1. SlotOwners' \in SUBSET SlotOwners /\ IsFiniteSet(SlotOwners)
  BY SlotTypes
<1> HIDE DEF SlotOwners
<1>2. Cardinality(SlotOwners') <= Cardinality(SlotOwners)
  BY <1>1, FS_Subset
<1>3. Cardinality(SlotOwners) \in Nat /\ Cardinality(SlotOwners') \in Nat
  BY <1>1, FS_Subset, FS_CardinalityType
<1> QED
  BY <1>2, <1>3, ConfigAssumption DEF SlotsBounded

(* A set of slot owners inside active_ids is within the slots.             *)
LEMMA ActiveBound ==
  ASSUME NEW A, IsFiniteSet(A), Cardinality(A) <= MaxNumSeqs, NEW B \in SUBSET A
  PROVE  Cardinality(B) <= MaxNumSeqs
<1>1. /\ Cardinality(B) <= Cardinality(A) /\ Cardinality(A) \in Nat
      /\ Cardinality(B) \in Nat
  BY FS_Subset, FS_CardinalityType
<1> QED
  BY <1>1, ConfigAssumption

LEMMA UntouchedStep ==
  TypeInv /\ Ownership /\ Untouched /\ [Next]_vars => Untouched'
<1> SUFFICES ASSUME TypeInv, Ownership, Untouched, [Next]_vars,
                    NEW q \in Requests, status'[q] = "NEW"
             PROVE  num_cached_tokens'[q] = 0 /\ num_tokens'[q] = PromptLen[q]
  BY DEF Untouched
<1>t. /\ status \in [Requests -> {"NEW", "WAITING", "RUNNING", "FINISHED"}]
      /\ num_cached_tokens \in [Requests -> Nat] /\ num_tokens \in [Requests -> Nat]
  BY DEF TypeInv, TypeOK
<1>u. status[q] = "NEW" =>
        /\ num_cached_tokens[q] = 0 /\ num_tokens[q] = PromptLen[q]
        /\ q \notin in_flight \cup ToSet(waiting) \cup ToSet(running)
  BY DEF Untouched, Ownership, OneOwner
<1>1. ASSUME NEW r \in Requests, add(r)
      PROVE  status[q] = "NEW" /\ UNCHANGED <<num_cached_tokens, num_tokens>>
  BY <1>1, <1>t DEF add
<1>2. CASE DecodePreempt
  <2> DEFINE victim == Last(running)
  <2>1. victim \in Requests /\ victim \in ToSet(running)
    BY <1>2, OwnerTypes, PopQueue DEF DecodePreempt, InDecodeLoop
  <2>2. /\ status' = [status EXCEPT ![victim] = "WAITING"]
        /\ num_cached_tokens' = [num_cached_tokens EXCEPT ![victim] = 0]
        /\ UNCHANGED num_tokens
    BY <1>2 DEF DecodePreempt
  <2> HIDE DEF victim
  <2> QED
    BY <1>t, <1>u, <2>1, <2>2
<1>3. CASE PrefillRow
  <2> DEFINE r == Head(waiting)
  <2>1. r \in Requests /\ r \in ToSet(waiting)
    BY <1>3, OwnerTypes, PopLeftQueue DEF PrefillRow, InPrefillLoop
  <2>2. /\ UNCHANGED <<status, num_tokens>>
        /\ \/ num_cached_tokens' = [num_cached_tokens EXCEPT ![r] = 0]
           \/ UNCHANGED num_cached_tokens
    BY <1>3 DEF PrefillRow
  <2> HIDE DEF r
  <2> QED
    BY <1>t, <1>u, <2>1, <2>2
<1>4. CASE DecodeRow \/ BeginSchedule \/ DecodeDone \/ PrefillPromote
             \/ PrefillContinuation \/ RaiseExhausted \/ Return
  <2>1. UNCHANGED <<status, num_cached_tokens, num_tokens>>
    BY <1>4 DEF DecodeRow, BeginSchedule, DecodeDone, PrefillPromote,
         PrefillContinuation, RaiseExhausted, Return, seqVars
  <2> QED
    BY <1>u, <2>1
<1>5. ASSUME NEW i \in 1..Len(batch_queue), BeginPostprocess(i)
      PROVE  UNCHANGED <<status, num_cached_tokens, num_tokens>>
  BY <1>5 DEF BeginPostprocess, seqVars
<1>6. ASSUME NEW eos \in BOOLEAN, Postprocess(eos)
      PROVE  num_cached_tokens'[q] = 0 /\ num_tokens'[q] = PromptLen[q]
  <2>1. PostRow
    BY <1>6 DEF Postprocess, PostPartial, PostFinish, PostContinue
  <2>2. row \in Requests /\ row \in in_flight
    BY <2>1, PostRowFacts DEF PostRow, Ownership, OneRowPerFlight
  <2> HIDE DEF row
  <2>3. CASE PostPartial
    BY <1>t, <1>u, <2>2, <2>3 DEF PostPartial
  <2>4. CASE PostFinish(eos)
    BY <1>t, <1>u, <2>2, <2>4 DEF PostFinish
  <2>5. CASE PostContinue(eos)
    BY <1>t, <1>u, <2>2, <2>5 DEF PostContinue
  <2> QED
    BY <1>6, <2>3, <2>4, <2>5 DEF Postprocess
<1>7. CASE UNCHANGED vars
  BY <1>7, <1>u DEF vars, seqVars
<1> QED
  BY <1>1, <1>2, <1>3, <1>4, <1>5, <1>6, <1>7, <1>u DEF Next, Schedule

(* The owners of slots and of active_ids move with the queues.             *)
LEMMA SlotsStep ==
  TypeInv /\ Ownership /\ Untouched /\ SlotsBounded /\ ActiveOK /\ [Next]_vars
    => SlotsBounded' /\ ActiveOK'
<1> SUFFICES ASSUME TypeInv, Ownership, Untouched, SlotsBounded, ActiveOK, [Next]_vars
             PROVE  SlotsBounded' /\ ActiveOK'
  OBVIOUS
<1> DEFINE Started(r) == num_cached_tokens[r] > 0 \/ num_completion_tokens(r) > 0
           Owners == in_flight \cup ToSet(waiting) \cup ToSet(running)
<1>d. /\ SlotOwners = in_flight \cup ToSet(running) \cup {r \in ToSet(waiting) : Started(r)}
      /\ SlotOwners' = in_flight' \cup ToSet(running')
                          \cup {r \in ToSet(waiting') : Started(r)'}
  BY DEF SlotOwners
<1>o. Owners' = in_flight' \cup ToSet(waiting') \cup ToSet(running')
  OBVIOUS
<1>f. ASSUME SlotOwners' \subseteq SlotOwners, ~Scheduling' PROVE SlotsBounded' /\ ActiveOK'
  BY <1>f, FewerSlots DEF ActiveOK
<1>g. ASSUME SlotOwners' \subseteq SlotOwners, Scheduling, active_ids' = active_ids,
             Owners' = Owners
      PROVE  SlotsBounded' /\ ActiveOK'
  <2>1. ActiveOK'
    BY <1>g DEF ActiveOK
  <2> QED
    BY <1>g, <2>1, FewerSlots
<1>1. ASSUME NEW r \in Requests, add(r) PROVE SlotsBounded' /\ ActiveOK'
  <2>1. ToSet(waiting') = ToSet(waiting) \cup {r}
    BY <1>1, OwnerTypes, AppendQueue DEF add
  <2>2. UNCHANGED <<in_flight, running, num_cached_tokens, num_tokens, phase>>
    BY <1>1 DEF add
  <2>3. ~Started(r) /\ \A q : Started(q)' = Started(q)
    BY <1>1, <2>2, ConfigAssumption DEF add, Untouched, num_completion_tokens
  <2> HIDE DEF Started
  <2>4. SlotOwners' \subseteq SlotOwners
    BY <1>d, <2>1, <2>2, <2>3
  <2>5. ~Scheduling'
    BY <1>1 DEF add, Scheduling
  <2> QED
    BY <1>f, <2>4, <2>5
<1>2. CASE BeginSchedule
  <2>1. /\ UNCHANGED <<in_flight, running, waiting, num_cached_tokens, num_tokens>>
        /\ active_ids' = SlotOwners
    BY <1>2 DEF BeginSchedule, queueVars, seqVars
  <2>2. SlotOwners' = SlotOwners
    BY <2>1 DEF SlotOwners, num_completion_tokens
  <2>3. active_ids' \subseteq Owners'
    BY <1>d, <1>o, <2>1
  <2> QED
    BY <2>1, <2>2, <2>3 DEF SlotsBounded, ActiveOK
<1>3. CASE DecodeRow
  <2> DEFINE r == Head(running)
  <2>1. ToSet(running) = {r} \cup ToSet(running')
    BY <1>3, OwnerTypes, PopLeftQueue DEF DecodeRow, InDecodeLoop
  <2>2. /\ in_flight' = in_flight \cup {r} /\ Scheduling
        /\ UNCHANGED <<waiting, num_cached_tokens, num_tokens, active_ids>>
    BY <1>3 DEF DecodeRow, Scheduling
  <2>3. \A q : Started(q)' = Started(q)
    BY <2>2 DEF num_completion_tokens
  <2> HIDE DEF r, Started
  <2>4. SlotOwners' \subseteq SlotOwners /\ Owners' = Owners
    BY <1>d, <1>o, <2>1, <2>2, <2>3
  <2> QED
    BY <1>g, <2>2, <2>4
<1>4. CASE DecodePreempt
  <2> DEFINE victim == Last(running)
  <2>1. /\ ToSet(running) = {victim} \cup ToSet(running')
        /\ victim \in Requests /\ victim \in ToSet(running)
    BY <1>4, OwnerTypes, PopQueue DEF DecodePreempt, InDecodeLoop
  <2>2. ToSet(waiting') = ToSet(waiting) \cup {victim}
    BY <1>4, <2>1, OwnerTypes, AppendLeftQueue DEF DecodePreempt
  <2>3. /\ in_flight' = in_flight \ {victim} /\ Scheduling
        /\ num_cached_tokens' = [num_cached_tokens EXCEPT ![victim] = 0]
        /\ UNCHANGED <<num_tokens, active_ids>>
    BY <1>4 DEF DecodePreempt, Scheduling, callVars
  <2>4. \A q \in Requests \ {victim} : Started(q)' = Started(q)
    BY <2>3 DEF num_completion_tokens, TypeInv, TypeOK
  <2>5. ToSet(waiting) \subseteq Requests /\ victim \notin in_flight
    BY <2>1, OwnerTypes DEF Ownership, OneOwner
  <2> HIDE DEF victim, Started
  <2>6. SlotOwners' \subseteq SlotOwners /\ Owners' = Owners
    BY <1>d, <1>o, <2>1, <2>2, <2>3, <2>4, <2>5
  <2> QED
    BY <1>g, <2>3, <2>6
<1>5. CASE DecodeDone \/ PrefillPromote \/ PrefillContinuation
  <2>1. /\ UNCHANGED <<in_flight, running, num_cached_tokens, num_tokens, active_ids>>
        /\ Scheduling
        /\ \/ waiting' = waiting
           \/ \E i \in 1..Len(waiting) : waiting' = MoveToFront(waiting, i)
    BY <1>5 DEF DecodeDone, PrefillPromote, PrefillContinuation, Scheduling, queueVars,
         seqVars, callVars
  <2>2. ToSet(waiting') = ToSet(waiting)
    BY <2>1, OwnerTypes, MoveToFrontQueue
  <2>3. \A q : Started(q)' = Started(q)
    BY <2>1 DEF num_completion_tokens
  <2> HIDE DEF Started
  <2>4. SlotOwners' \subseteq SlotOwners /\ Owners' = Owners
    BY <1>d, <1>o, <2>1, <2>2, <2>3
  <2> QED
    BY <1>g, <2>1, <2>4
<1>6. CASE PrefillRow
  <2> DEFINE r == Head(waiting)
  <2>1. /\ ToSet(waiting) = {r} \cup ToSet(waiting') /\ r \notin ToSet(waiting')
        /\ ToSet(waiting) \subseteq Requests
    BY <1>6, OwnerTypes, PopLeftQueue DEF PrefillRow, InPrefillLoop, Ownership, OneOwner
  <2>2. /\ in_flight' = in_flight \cup {r} /\ active_ids' = active_ids \cup {r}
        /\ r \notin active_ids => ~(Cardinality(active_ids) >= MaxNumSeqs)
        /\ Scheduling /\ UNCHANGED <<running, num_tokens>>
        /\ \/ num_cached_tokens' = [num_cached_tokens EXCEPT ![r] = 0]
           \/ num_cached_tokens' = num_cached_tokens
    BY <1>6 DEF PrefillRow, NeedsSlot, Scheduling
  <2>3. \A q \in Requests \ {r} : Started(q)' = Started(q)
    BY <2>2 DEF num_completion_tokens, TypeInv, TypeOK
  <2> HIDE DEF r, Started
  <2>4. SlotOwners' \subseteq SlotOwners \cup {r} /\ Owners' = Owners
    BY <1>d, <1>o, <2>1, <2>2, <2>3
  <2>5. /\ SlotOwners \subseteq active_ids /\ Cardinality(active_ids) <= MaxNumSeqs
        /\ active_ids \subseteq Owners
    BY <2>2 DEF ActiveOK
  <2>6. SlotOwners' \in SUBSET active_ids' /\ active_ids' \subseteq Owners'
    BY <1>d, <2>1, <2>2, <2>4, <2>5
  <2>7. IsFiniteSet(active_ids') /\ Cardinality(active_ids') <= MaxNumSeqs
    <3>1. IsFiniteSet(active_ids) /\ Cardinality(active_ids) \in Nat
      BY SlotTypes, FS_CardinalityType
    <3>2. /\ IsFiniteSet(active_ids \cup {r})
          /\ Cardinality(active_ids \cup {r}) =
               IF r \in active_ids THEN Cardinality(active_ids)
               ELSE Cardinality(active_ids) + 1
      BY <3>1, FS_AddElement
    <3>3. MaxNumSeqs \in Nat
      BY ConfigAssumption
    <3>4. Cardinality(active_ids \cup {r}) <= MaxNumSeqs
      BY <2>2, <2>5, <3>1, <3>2, <3>3
    <3> QED
      BY <2>2, <3>2, <3>4
  <2> HIDE DEF Owners
  <2>8. Cardinality(SlotOwners') <= MaxNumSeqs
    BY <2>6, <2>7, ActiveBound
  <2> QED
    BY <2>6, <2>7, <2>8 DEF SlotsBounded, ActiveOK, Owners
<1>7. CASE RaiseExhausted \/ Return
  <2>1. /\ UNCHANGED <<in_flight, running, waiting, num_cached_tokens, num_tokens>>
        /\ ~Scheduling'
    BY <1>7 DEF RaiseExhausted, Return, ResetCall, Scheduling, queueVars, seqVars
  <2>2. SlotOwners' = SlotOwners
    BY <2>1 DEF SlotOwners, num_completion_tokens
  <2> QED
    BY <1>f, <2>1, <2>2
<1>8. ASSUME NEW i \in 1..Len(batch_queue), BeginPostprocess(i)
      PROVE  SlotsBounded' /\ ActiveOK'
  <2>1. /\ UNCHANGED <<in_flight, running, waiting, num_cached_tokens, num_tokens>>
        /\ ~Scheduling'
    BY <1>8 DEF BeginPostprocess, Scheduling, queueVars, seqVars
  <2>2. SlotOwners' = SlotOwners
    BY <2>1 DEF SlotOwners, num_completion_tokens
  <2> QED
    BY <1>f, <2>1, <2>2
<1>9. ASSUME NEW eos \in BOOLEAN, Postprocess(eos) PROVE SlotsBounded' /\ ActiveOK'
  <2>1. PostRow
    BY <1>9 DEF Postprocess, PostPartial, PostFinish, PostContinue
  <2>2. row \in Requests /\ row \in in_flight /\ in_flight' = in_flight \ {row} /\ ~Scheduling'
    BY <2>1, PostRowFacts DEF PostRow, Ownership, OneRowPerFlight, Scheduling
  <2>3. ToSet(waiting) \subseteq Requests
    BY OwnerTypes
  <2>4. /\ ToSet(waiting') \subseteq ToSet(waiting) \cup {row}
        /\ ToSet(running') \subseteq ToSet(running) \cup {row}
    <3>1. \/ waiting' = Append(waiting, row) /\ running' = running
          \/ waiting' = waiting /\ running' = running
          \/ waiting' = waiting /\ running' = Append(running, row)
      BY <1>9 DEF Postprocess, PostPartial, PostFinish, PostContinue
    <3>2. /\ ToSet(Append(waiting, row)) = ToSet(waiting) \cup {row}
          /\ ToSet(Append(running, row)) = ToSet(running) \cup {row}
      BY <2>2, OwnerTypes, AppendQueue
    <3> QED
      BY <3>1, <3>2
  <2>5. \A q \in Requests \ {row} : /\ num_cached_tokens'[q] = num_cached_tokens[q]
                                   /\ num_tokens'[q] = num_tokens[q]
    BY <1>9 DEF Postprocess, PostPartial, PostFinish, PostContinue, TypeInv, TypeOK
  <2>6. \A q \in Requests \ {row} : Started(q)' = Started(q)
    BY <2>5 DEF num_completion_tokens
  <2> HIDE DEF row, Started
  <2>7. SlotOwners' \subseteq SlotOwners
    BY <1>d, <2>2, <2>3, <2>4, <2>6
  <2> QED
    BY <1>f, <2>2, <2>7
<1>10. CASE UNCHANGED vars
  <2>1. /\ UNCHANGED <<in_flight, running, waiting, num_cached_tokens, num_tokens,
                      active_ids, phase>>
    BY <1>10 DEF vars, queueVars, seqVars, callVars
  <2>2. SlotOwners' = SlotOwners
    BY <2>1 DEF SlotOwners, num_completion_tokens
  <2> QED
    BY <2>1, <2>2 DEF SlotsBounded, ActiveOK, Scheduling
<1> QED
  BY <1>1, <1>2, <1>3, <1>4, <1>5, <1>6, <1>7, <1>8, <1>9, <1>10 DEF Next, Schedule

(* Only the decode loop takes rows of running away during schedule(), and  *)
(* the prompt loop only adds to the batch.                                 *)
LEMMA DecodeLoopStep ==
  TypeInv /\ DecodeLoopLeft /\ [Next]_vars => DecodeLoopLeft'
<1> SUFFICES ASSUME TypeInv, DecodeLoopLeft, [Next]_vars, phase' = "prefill"
             PROVE  ~InDecodeLoop'
  BY DEF DecodeLoopLeft
<1>t. /\ scheduled_seqs \in Seq(Requests) /\ num_batched_tokens \in Nat
      /\ MaxNumSeqs \in Nat /\ MaxNumBatchedTokens \in Nat
  BY ConfigAssumption DEF TypeInv, TypeOK
<1>1. CASE DecodeDone
  BY <1>1 DEF DecodeDone, InDecodeLoop, remaining, queueVars, callVars
<1>2. CASE PrefillPromote \/ PrefillContinuation
  BY <1>2 DEF PrefillPromote, PrefillContinuation, DecodeLoopLeft, InDecodeLoop, remaining,
       callVars
<1>3. CASE PrefillRow
  <2> DEFINE r == Head(waiting)
  <2>1. r \in Requests /\ ~InDecodeLoop
    BY <1>3, OwnerTypes, PopLeftQueue DEF PrefillRow, InPrefillLoop, DecodeLoopLeft
  <2>2. /\ running' = running /\ scheduled_seqs' = Append(scheduled_seqs, r)
        /\ num_batched_tokens' = num_batched_tokens + chunk(r)
        /\ remaining # 0
    BY <1>3 DEF PrefillRow
  <2>3. /\ num_tokens[r] \in Nat /\ num_cached_tokens[r] \in Nat
        /\ num_cached_tokens[r] < num_tokens[r]
        /\ remaining \in Nat
    BY <2>1, ConfigAssumption, CounterTypes DEF TypeInv, TypeOK, remaining
  <2>4. chunk(r) \in Nat
    BY <2>3 DEF chunk, num_tokens_left
  <2> HIDE DEF r
  <2>5. Len(scheduled_seqs') = Len(scheduled_seqs) + 1 /\ Len(scheduled_seqs) \in Nat
    BY <1>t, <2>1, <2>2, AppendProperties
  <2>6. \/ running = <<>>
        \/ ~(Len(scheduled_seqs) < MaxNumSeqs)
        \/ ~(MaxNumBatchedTokens - num_batched_tokens > 0)
    BY <2>1 DEF InDecodeLoop, remaining
  <2>7. CASE running = <<>>
    BY <2>2, <2>7 DEF InDecodeLoop
  <2>8. CASE ~(Len(scheduled_seqs) < MaxNumSeqs)
    <3>1. ~(Len(scheduled_seqs') < MaxNumSeqs)
      BY <1>t, <2>5, <2>8
    <3> QED
      BY <3>1 DEF InDecodeLoop
  <2>9. CASE ~(MaxNumBatchedTokens - num_batched_tokens > 0)
    <3>1. ~(MaxNumBatchedTokens - num_batched_tokens' > 0)
      BY <1>t, <2>2, <2>4, <2>9
    <3> QED
      BY <3>1 DEF InDecodeLoop, remaining
  <2> QED
    BY <2>6, <2>7, <2>8, <2>9
<1>4. CASE UNCHANGED vars
  BY <1>4 DEF vars, queueVars, callVars, DecodeLoopLeft, InDecodeLoop, remaining
<1>5. ASSUME NEW r \in Requests, add(r) PROVE FALSE
  BY <1>5 DEF add
<1>6. CASE BeginSchedule \/ DecodeRow \/ DecodePreempt \/ RaiseExhausted \/ Return
  BY <1>6 DEF BeginSchedule, DecodeRow, DecodePreempt, RaiseExhausted, Return, ResetCall
<1>7. ASSUME NEW i \in 1..Len(batch_queue), BeginPostprocess(i) PROVE FALSE
  BY <1>7 DEF BeginPostprocess
<1>8. ASSUME NEW eos \in BOOLEAN, Postprocess(eos) PROVE FALSE
  BY <1>8 DEF Postprocess, PostPartial, PostFinish, PostContinue, PostRow
<1> QED
  BY <1>1, <1>2, <1>3, <1>4, <1>5, <1>6, <1>7, <1>8 DEF Next, Schedule

LEMMA InvStep == Inv /\ [Next]_vars => Inv'
<1> SUFFICES ASSUME Inv, [Next]_vars PROVE Inv'
  OBVIOUS
<1>1. TypeInv /\ Ownership /\ BlocksConserved /\ PolicyInv
  BY DEF Inv
<1>2. TypeInv' /\ Ownership' /\ BlocksConserved'
  BY <1>1, TypeInvStep, OwnershipStep, BlocksStep
<1>3. PolicyInv'
  BY <1>1, UntouchedStep, SlotsStep, DecodeLoopStep DEF PolicyInv
<1> QED
  BY <1>2, <1>3 DEF Inv

LEMMA InvCorrect == Spec => []Inv
<1>1. Init => Inv
  BY InitTypeInv, InitOwnership, InitBlocks, InitPolicy DEF Inv
<1> QED
  BY <1>1, InvStep, PTL DEF Spec

(* The slot search of the model runner cannot fail: at most max_num_seqs   *)
(* requests are between their first chunk and their end.                   *)
THEOREM SlotsBoundedAlways == Spec => []SlotsBounded
<1>1. Inv => SlotsBounded
  BY DEF Inv, PolicyInv
<1> QED
  BY <1>1, InvCorrect, PTL

(* A pool all of whose tables are empty is all free.                       *)
LEMMA EmptyPool ==
  ASSUME TypeInv, BlocksConserved, \A r \in Requests : block_table[r] = <<>>
  PROVE  Len(free_block_ids) = Cardinality(Blocks)
<1>1. UNION {ToSet(block_table[r]) : r \in Requests} = {}
  BY EmptyQueue
<1>2. Blocks = ToSet(free_block_ids) /\ Distinct(free_block_ids)
  BY <1>1 DEF BlocksConserved
<1> QED
  BY <1>2, BlockTypes, DistinctCardinality

(* The scheduler gives up on a request only if it could not be admitted to *)
(* an empty pool: when it does, every table is empty.                      *)
THEOREM NoSpuriousExhaustionAlways == Spec => []NoSpuriousExhaustion
<1>1. ASSUME Inv, phase = "prefill", Exhausted
      PROVE  num_blocks(Head(waiting)) > Cardinality(Blocks)
  <2>1. ToSet(running) = {} /\ in_flight = {}
    BY <1>1, EmptyQueue DEF Exhausted
  <2>2. ASSUME NEW r \in Requests PROVE block_table[r] = <<>>
    <3>1. r \in ToSet(waiting) => block_table[r] = <<>>
      BY <1>1 DEF Exhausted, Continuations
    <3>2. r \notin ToSet(waiting) => status[r] \in {"NEW", "FINISHED"}
      BY <1>1, <2>1 DEF Inv, TypeInv, TypeOK, Ownership, OneOwner
    <3> QED
      BY <1>1, <3>1, <3>2 DEF Inv, BlocksConserved
  <2>3. Len(free_block_ids) = Cardinality(Blocks)
    BY <1>1, <2>2, EmptyPool DEF Inv
  <2>4. ~(num_blocks(Head(waiting)) <= Len(free_block_ids))
    BY <1>1 DEF Exhausted, Starved, can_allocate
  <2>5. num_blocks(Head(waiting)) \in Nat /\ Cardinality(Blocks) \in Nat
    <3>1. waiting # <<>> /\ TypeInv
      BY <1>1 DEF Exhausted, InPrefillLoop, Inv
    <3>2. Head(waiting) \in Requests
      BY <3>1, OwnerTypes, PopLeftQueue
    <3> QED
      BY <3>1, <3>2, NumBlocksType, ConfigAssumption, FS_CardinalityType DEF TypeInv
  <2> HIDE DEF num_blocks
  <2> QED
    BY <2>3, <2>4, <2>5
<1>2. Inv => NoSpuriousExhaustion
  BY <1>1 DEF NoSpuriousExhaustion
<1> QED
  BY <1>2, InvCorrect, PTL

(* With no result outstanding and work left, schedule() makes progress:    *)
(* the serial driver loop never spins on empty batches.                    *)
THEOREM NoStallAlways == Spec => []NoStall
<1>1. ASSUME Inv, phase = "prefill", PrefillDone, in_flight = {}
      PROVE  waiting = <<>> /\ running = <<>>
  <2>1. scheduled_seqs = <<>>
    <3>1. ToSet(scheduled_seqs) = {}
      BY <1>1 DEF Inv, Ownership, OneRowPerFlight
    <3> QED
      BY <1>1, <3>1, ToSetDef DEF Inv, TypeInv, TypeOK
  <2>2. /\ Len(scheduled_seqs) < MaxNumSeqs /\ remaining = MaxNumBatchedTokens
        /\ remaining > 0
    BY <1>1, <2>1, ConfigAssumption DEF Inv, TypeInv, PhaseOK, remaining
  <2>3. running = <<>>
    BY <1>1, <2>2 DEF Inv, PolicyInv, DecodeLoopLeft, InDecodeLoop
  <2>4. ASSUME waiting # <<>> PROVE FALSE
    <3>1. \/ NeedsSlot /\ Admitted = {}
          \/ ~NeedsSlot /\ Starved /\ Continuations = {} /\ ~Exhausted
      BY <1>1, <2>2, <2>4 DEF PrefillDone, InPrefillLoop
    <3>2. CASE NeedsSlot /\ Admitted = {}
      <4>1. active_ids \subseteq ToSet(waiting)
        BY <1>1, <2>3, EmptyQueue DEF Inv, PolicyInv, ActiveOK, Scheduling
      <4>2. active_ids = {}
        BY <3>2, <4>1 DEF Admitted
      <4> QED
        BY <3>2, <4>2, FS_EmptySet, ConfigAssumption DEF NeedsSlot
    <3>3. CASE ~NeedsSlot /\ Starved /\ Continuations = {} /\ ~Exhausted
      BY <1>1, <2>1, <2>2, <2>3, <2>4, <3>3 DEF Exhausted, InPrefillLoop
    <3> QED
      BY <3>1, <3>2, <3>3
  <2> QED
    BY <2>3, <2>4
<1>2. Inv => NoStall
  BY <1>1 DEF NoStall
<1> QED
  BY <1>2, InvCorrect, PTL

(* A prompt chunk enters a batch only when every ready decode row is in it *)
(* already.                                                                *)
THEOREM DecodeFirstAlways == Spec => DecodeFirst
<1> DEFINE A == \A r \in Requests :
                  r \in in_flight' \ in_flight /\ is_prefill'[r] => running = <<>>
<1>1. ASSUME Inv, [Next]_vars PROVE A
  <2> SUFFICES ASSUME NEW r \in Requests, r \in in_flight', r \notin in_flight, is_prefill'[r]
               PROVE  running = <<>>
    OBVIOUS
  <2>1. CASE DecodeRow
    <3>1. r = Head(running) /\ is_prefill' = [is_prefill EXCEPT ![r] = FALSE]
      BY <2>1 DEF DecodeRow
    <3> QED
      BY <1>1, <3>1 DEF Inv, TypeInv, TypeOK
  <2>2. CASE PrefillRow
    <3>1. Len(scheduled_seqs) < MaxNumSeqs /\ remaining # 0 /\ ~InDecodeLoop
      BY <1>1, <2>2 DEF PrefillRow, InPrefillLoop, Inv, PolicyInv, DecodeLoopLeft
    <3>2. remaining \in Nat
      BY <1>1, ConfigAssumption DEF Inv, TypeInv, TypeOK, remaining
    <3>3. remaining > 0
      BY <3>1, <3>2
    <3> QED
      BY <3>1, <3>3 DEF InDecodeLoop
  <2>3. ~DecodeRow /\ ~PrefillRow => in_flight' \subseteq in_flight
    <3> SUFFICES ASSUME ~DecodeRow, ~PrefillRow PROVE in_flight' \subseteq in_flight
      OBVIOUS
    <3>1. CASE UNCHANGED vars
      BY <3>1 DEF vars, queueVars
    <3>2. ASSUME NEW q \in Requests, add(q) PROVE in_flight' \subseteq in_flight
      BY <3>2 DEF add
    <3>3. CASE BeginSchedule \/ DecodeDone \/ DecodePreempt \/ PrefillPromote
                 \/ PrefillContinuation \/ RaiseExhausted \/ Return
      BY <3>3 DEF BeginSchedule, DecodeDone, DecodePreempt, PrefillPromote,
           PrefillContinuation, RaiseExhausted, Return, queueVars
    <3>4. ASSUME NEW i \in 1..Len(batch_queue), BeginPostprocess(i)
          PROVE  in_flight' \subseteq in_flight
      BY <3>4 DEF BeginPostprocess, queueVars
    <3>5. ASSUME NEW eos \in BOOLEAN, Postprocess(eos) PROVE in_flight' \subseteq in_flight
      BY <3>5 DEF Postprocess, PostPartial, PostFinish, PostContinue, PostRow
    <3> QED
      BY <1>1, <3>1, <3>2, <3>3, <3>4, <3>5 DEF Next, Schedule
  <2> QED
    BY <2>1, <2>2, <2>3
<1> HIDE DEF A
<1>2. Spec => [][A]_vars
  BY <1>1, InvCorrect, PTL DEF Spec
<1> QED
  BY <1>2 DEF DecodeFirst, A

(***************************************************************************)
(* Layer 5: coverage.  The KV positions a dispatched batch reads and       *)
(* writes are covered by blocks its rows own, and nothing touches them     *)
(* before the result is consumed.                                          *)
(***************************************************************************)
-----------------------------------------------------------------------------
(* Arithmetic of blocks                                                    *)

LEMMA Euclid ==
  ASSUME NEW n \in Nat, NEW b \in Nat, b > 1
  PROVE  n = b * (n \div b) + (n % b) /\ n % b \in 0..b - 1 /\ n \div b \in Int
OBVIOUS

LEMMA RemainderOne ==
  ASSUME NEW b \in Nat, b > 1, NEW q \in Int, NEW k \in Int, NEW m \in 0..b - 1,
         b * q + m = b * k + 1
  PROVE  m = 1
<1> DEFINE x == b * q
           y == b * k
<1>1. x \in Int /\ y \in Int /\ x + m = y + 1
  OBVIOUS
<1>2. q <= k - 1 => x + b <= y
  OBVIOUS
<1>3. k <= q - 1 => y + b <= x
  OBVIOUS
<1>4. q = k => x = y
  OBVIOUS
<1>5. q <= k - 1 \/ k <= q - 1 \/ q = k
  OBVIOUS
<1> HIDE DEF x, y
<1> QED
  BY <1>1, <1>2, <1>3, <1>4, <1>5

(* One token past k full blocks is the first token of a block: the test of *)
(* can_append() and may_append().                                          *)
LEMMA PastFullBlocks ==
  ASSUME NEW b \in Nat, b > 1, NEW k \in Nat, NEW n \in Nat, n = k * b + 1
  PROVE  n % b = 1
<1> DEFINE q == n \div b
           m == n % b
<1>1. n = b * q + m /\ m \in 0..b - 1 /\ q \in Int
  BY Euclid
<1>2. b * k = k * b /\ k \in Int
  OBVIOUS
<1>3. b * q + m = b * k + 1
  BY <1>1, <1>2
<1> HIDE DEF q, m
<1>4. m = 1
  BY <1>1, <1>2, <1>3, RemainderOne, Zenon
<1> QED
  BY <1>4 DEF m

(* num_blocks blocks hold the request.                                     *)
LEMMA EnoughBlocks ==
  ASSUME NEW n \in Nat, NEW b \in Nat, b > 1
  PROVE  n <= ((n + b - 1) \div b) * b
OBVIOUS

-----------------------------------------------------------------------------
(* The KV positions the blocks of a request hold.                          *)
cap(r) == Len(block_table[r]) * BlockSize

(* A dispatched request owns blocks for its whole history, a waiting one   *)
(* for all of it or none, a running one for all but the token it has just  *)
(* got; decode rows compute exactly the last token.                        *)
Covered(r) ==
  /\ r \in in_flight => num_tokens[r] <= cap(r)
  /\ r \in ToSet(waiting) => \/ block_table[r] = <<>> /\ num_cached_tokens[r] = 0
                             \/ num_tokens[r] <= cap(r)
  /\ r \in ToSet(running) => /\ num_tokens[r] <= cap(r) + 1
                             /\ num_cached_tokens[r] = num_tokens[r] - 1
  /\ status[r] \in {"NEW", "FINISHED"} => num_cached_tokens[r] = 0
  /\ r \in in_flight /\ ~is_prefill[r]
       => num_cached_tokens[r] + num_scheduled_tokens[r] = num_tokens[r]

(* A batch not marked as prefill has decode rows only.                     *)
PureDecode(b) == ~b.is_prefill => \A r \in ToSet(b.seqs) : ~is_prefill[r]

Coverage ==
  /\ \A r \in Requests : Covered(r)
  /\ PureDecode(batch)
  /\ \A i \in 1..Len(batch_queue) : PureDecode(batch_queue[i])

(* A step that does not concern r.                                         *)
Same(r) ==
  /\ r \in in_flight' <=> r \in in_flight
  /\ r \in ToSet(waiting') <=> r \in ToSet(waiting)
  /\ r \in ToSet(running') <=> r \in ToSet(running)
  /\ status'[r] = status[r] /\ is_prefill'[r] = is_prefill[r]
  /\ num_tokens'[r] = num_tokens[r]
  /\ num_cached_tokens'[r] = num_cached_tokens[r]
  /\ num_scheduled_tokens'[r] = num_scheduled_tokens[r]
  /\ block_table'[r] = block_table[r]

LEMMA SameCovered ==
  ASSUME NEW r, Covered(r), Same(r)
  PROVE  Covered(r)'
BY DEF Covered, Same, cap

LEMMA CoverageTypes ==
  ASSUME TypeInv
  PROVE  /\ waiting \in Seq(Requests) /\ running \in Seq(Requests)
         /\ status \in [Requests -> {"NEW", "WAITING", "RUNNING", "FINISHED"}]
         /\ is_prefill \in [Requests -> BOOLEAN]
         /\ num_tokens \in [Requests -> Nat]
         /\ num_cached_tokens \in [Requests -> Nat]
         /\ num_scheduled_tokens \in [Requests -> Nat]
         /\ block_table \in [Requests -> Seq(Blocks)]
         /\ \A r \in Requests : /\ Len(block_table[r]) \in Nat /\ cap(r) \in Nat
                                /\ block_table[r] = <<>> => cap(r) = 0
<1>1. \A n \in Nat : n * BlockSize \in Nat /\ 0 * BlockSize = 0
  BY ConfigAssumption
<1>2. /\ waiting \in Seq(Requests) /\ running \in Seq(Requests)
      /\ status \in [Requests -> {"NEW", "WAITING", "RUNNING", "FINISHED"}]
      /\ is_prefill \in [Requests -> BOOLEAN]
      /\ num_tokens \in [Requests -> Nat]
      /\ num_cached_tokens \in [Requests -> Nat]
      /\ num_scheduled_tokens \in [Requests -> Nat]
      /\ block_table \in [Requests -> Seq(Blocks)]
  BY DEF TypeInv, TypeOK
<1>3. ASSUME NEW r \in Requests
      PROVE  /\ Len(block_table[r]) \in Nat
             /\ block_table[r] = <<>> => Len(block_table[r]) = 0
  BY <1>2, ToSetDef
<1> QED
  BY <1>1, <1>2, <1>3 DEF cap

(* Coverage answers KVCovered.                                             *)
LEMMA CoverageImpliesKV ==
  ASSUME Inv, Coverage
  PROVE  KVCovered
<1> SUFFICES ASSUME NEW r \in Requests
             PROVE  /\ r \in in_flight =>
                         num_cached_tokens[r] + num_scheduled_tokens[r] <= cap(r)
                    /\ num_cached_tokens[r] <= cap(r)
                    /\ r \in ToSet(running) => num_cached_tokens[r] = num_tokens[r] - 1
  BY DEF KVCovered, cap
<1>1. /\ num_tokens[r] \in Nat /\ num_cached_tokens[r] \in Nat
      /\ num_scheduled_tokens[r] \in Nat /\ cap(r) \in Nat
      /\ num_cached_tokens[r] < num_tokens[r]
      /\ num_cached_tokens[r] + num_scheduled_tokens[r] <= num_tokens[r]
  BY CounterTypes, CoverageTypes DEF Inv
<1>2. Covered(r)
  BY DEF Coverage
<1>3. r \in in_flight => num_tokens[r] <= cap(r)
  BY <1>2 DEF Covered
<1>4. r \in ToSet(running) => /\ num_tokens[r] <= cap(r) + 1
                              /\ num_cached_tokens[r] = num_tokens[r] - 1
  BY <1>2 DEF Covered
<1>5. r \in ToSet(waiting) => num_cached_tokens[r] = 0 \/ num_tokens[r] <= cap(r)
  BY <1>2 DEF Covered
<1>6. r \notin in_flight \cup ToSet(waiting) \cup ToSet(running) => num_cached_tokens[r] = 0
  <2>1. r \notin in_flight \cup ToSet(waiting) \cup ToSet(running)
          => status[r] \in {"NEW", "FINISHED"}
    BY CoverageTypes DEF Inv, Ownership, OneOwner
  <2> QED
    BY <1>2, <2>1 DEF Covered
<1> HIDE DEF cap
<1> QED
  BY <1>1, <1>3, <1>4, <1>5, <1>6

LEMMA InitCoverage == Init => Coverage
<1> SUFFICES ASSUME Init PROVE Coverage
  OBVIOUS
<1>1. ToSet(<<>>) = {}
  BY EmptyQueue
<1>2. \A r \in Requests : Covered(r)
  BY <1>1 DEF Init, Covered
<1>3. PureDecode(batch)
  BY <1>1 DEF Init, NoBatch, PureDecode
<1>4. Len(batch_queue) = 0
  BY DEF Init
<1> QED
  BY <1>2, <1>3, <1>4 DEF Coverage

(* What a step that concerns one request has to show.                      *)
LEMMA OneCovered ==
  ASSUME Coverage, NEW r \in Requests, \A q \in Requests \ {r} : Same(q), Covered(r)'
  PROVE  \A q \in Requests : Covered(q)'
<1>1. ASSUME NEW q \in Requests PROVE Covered(q)'
  BY SameCovered DEF Coverage
<1> QED
  BY <1>1

(* An exclusive owner after the step.                                      *)
LEMMA NowOwnedBy ==
  ASSUME Inv', NEW r \in Requests
  PROVE  /\ r \in in_flight' => r \notin ToSet(waiting') /\ r \notin ToSet(running')
         /\ r \in ToSet(waiting') => r \notin in_flight' /\ r \notin ToSet(running')
         /\ r \in ToSet(running') => r \notin in_flight' /\ r \notin ToSet(waiting')
         /\ r \in in_flight' \cup ToSet(waiting') \cup ToSet(running')
              => status'[r] \notin {"NEW", "FINISHED"}
         /\ r \notin in_flight' \cup ToSet(waiting') \cup ToSet(running')
              => status'[r] \in {"NEW", "FINISHED"}
<1>1. OneOwner' /\ status' \in [Requests -> {"NEW", "WAITING", "RUNNING", "FINISHED"}]
  BY DEF Inv, TypeInv, TypeOK, Ownership
<1> QED
  BY <1>1 DEF OneOwner

(* The rows of the outstanding batches keep their kind when no in-flight   *)
(* request changes it.                                                     *)
LEMMA SameRows ==
  ASSUME Inv, Coverage, UNCHANGED <<batch, batch_queue>>,
         \A q \in in_flight : is_prefill'[q] = is_prefill[q]
  PROVE  PureDecode(batch)' /\ \A i \in 1..Len(batch_queue') : PureDecode(batch_queue[i])'
<1>1. ToSet(batch.seqs) \subseteq in_flight
  BY DEF Inv, Ownership, OneRowPerFlight
<1>2. \A i \in 1..Len(batch_queue) : ToSet(batch_queue[i].seqs) \subseteq in_flight
  BY DEF Inv, Ownership, OneRowPerFlight
<1>3. PureDecode(batch) /\ \A i \in 1..Len(batch_queue) : PureDecode(batch_queue[i])
  BY DEF Coverage
<1> QED
  BY <1>1, <1>2, <1>3 DEF PureDecode

LEMMA DecodeRowCoverage ==
  ASSUME Inv, Inv', Coverage, DecodeRow
  PROVE  Coverage'
<1>0. PICK r \in Requests : r = Head(running)
  BY OwnerTypes, PopLeftQueue DEF DecodeRow, InDecodeLoop, Inv
<1>1. /\ r \in Requests /\ r \in ToSet(running) /\ r \notin in_flight
      /\ ToSet(running) = {r} \cup ToSet(running') /\ r \notin ToSet(running')
  BY <1>0, OwnerTypes, PopLeftQueue DEF DecodeRow, InDecodeLoop, Inv, Ownership, OneOwner
<1>2. /\ in_flight' = in_flight \cup {r} /\ can_append(r) /\ may_append(r)
      /\ num_scheduled_tokens' = [num_scheduled_tokens EXCEPT ![r] = 1]
      /\ is_prefill' = [is_prefill EXCEPT ![r] = FALSE]
      /\ UNCHANGED <<waiting, status, num_tokens, num_cached_tokens, batch, batch_queue>>
  BY <1>0 DEF DecodeRow, driverVars
<1>3. \A q \in Requests \ {r} : block_table'[q] = block_table[q]
  BY <1>2, CoverageTypes DEF may_append, blockVars, Inv
<1>4. \A q \in Requests \ {r} : Same(q)
  BY <1>1, <1>2, <1>3, CoverageTypes DEF Same, Inv
<1>5. /\ num_tokens[r] \in Nat /\ num_cached_tokens[r] \in Nat /\ cap(r) \in Nat
      /\ num_tokens[r] <= cap(r) + 1 /\ num_cached_tokens[r] = num_tokens[r] - 1
      /\ BlockSize \in Nat /\ BlockSize > 1 /\ Len(block_table[r]) \in Nat
      /\ cap(r) = Len(block_table[r]) * BlockSize
  BY <1>1, CoverageTypes, ConfigAssumption DEF Coverage, Covered, Inv, cap
<1>6. num_tokens[r] <= cap(r)'
  <2>1. CASE needs_block(r)
    <3> DEFINE n == Len(block_table[r])
    <3>1. free_block_ids # <<>>
      BY <1>2, <2>1, EmptyQueue DEF can_append
    <3>2. Len(block_table'[r]) = n + 1
      BY <1>1, <1>2, <2>1, <3>1, CoverageTypes, BlockTypes, PopLeftQueue, AppendProperties
         DEF may_append, Inv
    <3>3. cap(r)' = (n + 1) * BlockSize
      BY <3>2 DEF cap
    <3>4. \A k, b \in Nat : (k + 1) * b = k * b + b
      OBVIOUS
    <3>5. cap(r)' = cap(r) + BlockSize
      BY <1>5, <3>3, <3>4
    <3> HIDE DEF cap, n
    <3> QED
      BY <1>5, <3>5
  <2>2. CASE ~needs_block(r)
    <3>1. cap(r)' = cap(r)
      BY <1>2, <2>2 DEF may_append, blockVars, cap
    <3>2. num_tokens[r] # Len(block_table[r]) * BlockSize + 1
      BY <1>5, <2>2, PastFullBlocks DEF needs_block
    <3> HIDE DEF cap
    <3>3. num_tokens[r] # cap(r) + 1
      BY <1>5, <3>2
    <3> QED
      BY <1>5, <3>1, <3>3
  <2> QED
    BY <2>1, <2>2
<1>7. Covered(r)'
  <2>1. r \in in_flight' /\ num_scheduled_tokens'[r] = 1
    BY <1>1, <1>2, CoverageTypes DEF Inv
  <2>2. num_cached_tokens'[r] + num_scheduled_tokens'[r] = num_tokens'[r]
    BY <1>2, <1>5, <2>1
  <2>3. num_tokens'[r] <= cap(r)'
    BY <1>2, <1>6
  <2> QED
    BY <1>1, <2>1, <2>2, <2>3, NowOwnedBy DEF Covered
<1>8. \A q \in Requests : Covered(q)'
  BY <1>1, <1>4, <1>7, OneCovered
<1>9. \A q \in in_flight : is_prefill'[q] = is_prefill[q]
  BY <1>1, <1>2, CoverageTypes, OwnerTypes DEF Inv
<1> QED
  BY <1>2, <1>8, <1>9, SameRows DEF Coverage

LEMMA DecodePreemptCoverage ==
  ASSUME Inv, Inv', Coverage, DecodePreempt
  PROVE  Coverage'
<1>0. PICK victim \in Requests : victim = Last(running)
  BY OwnerTypes, PopQueue DEF DecodePreempt, InDecodeLoop, Inv
<1>1. /\ victim \in Requests /\ victim \in ToSet(running) /\ victim \notin in_flight
      /\ ToSet(running) = {victim} \cup ToSet(running') /\ victim \notin ToSet(running')
  BY <1>0, OwnerTypes, PopQueue DEF DecodePreempt, InDecodeLoop, Inv, Ownership, OneOwner
<1>2. /\ waiting' = <<victim>> \o waiting /\ in_flight' = in_flight \ {victim}
      /\ status' = [status EXCEPT ![victim] = "WAITING"]
      /\ is_prefill' = [is_prefill EXCEPT ![victim] = TRUE]
      /\ num_cached_tokens' = [num_cached_tokens EXCEPT ![victim] = 0]
      /\ block_table' = [block_table EXCEPT ![victim] = <<>>]
      /\ UNCHANGED <<num_tokens, num_scheduled_tokens, batch, batch_queue>>
  BY <1>0 DEF DecodePreempt, deallocate, driverVars
<1>3. ToSet(waiting') = ToSet(waiting) \cup {victim}
  BY <1>1, <1>2, OwnerTypes, AppendLeftQueue DEF Inv
<1>4. \A q \in Requests \ {victim} : Same(q)
  BY <1>1, <1>2, <1>3, CoverageTypes DEF Same, Inv
<1>5. Covered(victim)'
  <2>1. /\ victim \in ToSet(waiting') /\ block_table'[victim] = <<>>
        /\ num_cached_tokens'[victim] = 0
    BY <1>1, <1>2, <1>3, CoverageTypes DEF Inv
  <2> QED
    BY <1>1, <2>1, NowOwnedBy DEF Covered
<1>6. \A q \in Requests : Covered(q)'
  BY <1>1, <1>4, <1>5, OneCovered
<1>7. \A q \in in_flight : is_prefill'[q] = is_prefill[q]
  BY <1>1, <1>2, CoverageTypes, OwnerTypes DEF Inv
<1> QED
  BY <1>2, <1>6, <1>7, SameRows DEF Coverage

LEMMA PrefillRowCoverage ==
  ASSUME Inv, Inv', Coverage, PrefillRow
  PROVE  Coverage'
<1>0. PICK r \in Requests : r = Head(waiting)
  BY OwnerTypes, PopLeftQueue DEF PrefillRow, InPrefillLoop, Inv
<1>1. /\ r \in Requests /\ r \in ToSet(waiting) /\ r \notin in_flight
      /\ ToSet(waiting) = {r} \cup ToSet(waiting') /\ r \notin ToSet(waiting')
  BY <1>0, OwnerTypes, PopLeftQueue DEF PrefillRow, InPrefillLoop, Inv, Ownership, OneOwner
<1>2. /\ in_flight' = in_flight \cup {r}
      /\ fresh(r) => can_allocate(r) /\ allocate(r)
      /\ ~fresh(r) => UNCHANGED <<block_table, num_cached_tokens>>
      /\ fresh(r) => num_cached_tokens' = [num_cached_tokens EXCEPT ![r] = 0]
      /\ num_scheduled_tokens' = [num_scheduled_tokens EXCEPT ![r] = chunk(r)]
      /\ is_prefill' = [is_prefill EXCEPT ![r] = TRUE]
      /\ UNCHANGED <<running, status, num_tokens, batch, batch_queue>>
  BY <1>0 DEF PrefillRow, Starved, blockVars, driverVars
<1>3. \A q \in Requests \ {r} : block_table'[q] = block_table[q]
  BY <1>2, CoverageTypes DEF allocate, Inv
<1>4. \A q \in Requests \ {r} : Same(q)
  BY <1>1, <1>2, <1>3, CoverageTypes DEF Same, Inv
<1>5. /\ num_tokens[r] \in Nat /\ BlockSize \in Nat /\ BlockSize > 1
      /\ num_blocks(r) \in Nat
  BY <1>1, CoverageTypes, ConfigAssumption, NumBlocksType DEF Inv, TypeInv
<1>6. num_tokens[r] <= cap(r)'
  <2>1. CASE fresh(r)
    <3>1. num_blocks(r) <= Len(free_block_ids)
      BY <1>2, <2>1 DEF can_allocate
    <3>2. /\ block_table'[r] = SubSeq(free_block_ids, 1, num_blocks(r))
          /\ Len(SubSeq(free_block_ids, 1, num_blocks(r))) = num_blocks(r)
      <4> HIDE DEF num_blocks
      <4>1. block_table'[r] = SubSeq(free_block_ids, 1, num_blocks(r))
        BY <1>1, <1>2, <2>1, CoverageTypes DEF allocate, Inv
      <4>2. Len(SubSeq(free_block_ids, 1, num_blocks(r))) = num_blocks(r)
        BY <1>5, <3>1, BlockTypes, SplitQueue DEF Inv
      <4> QED
        BY <4>1, <4>2
    <3>3. cap(r)' = num_blocks(r) * BlockSize
      BY <3>2 DEF cap
    <3> QED
      BY <1>5, <3>3, EnoughBlocks DEF num_blocks
  <2>2. CASE ~fresh(r)
    <3>1. num_tokens[r] <= cap(r)
      BY <1>1, <2>2 DEF Coverage, Covered, fresh
    <3> QED
      BY <1>2, <2>2, <3>1 DEF cap
  <2> QED
    BY <2>1, <2>2
<1>7. Covered(r)'
  <2>1. r \in in_flight' /\ is_prefill'[r] = TRUE /\ num_tokens'[r] = num_tokens[r]
    BY <1>1, <1>2, CoverageTypes DEF Inv
  <2> QED
    BY <1>1, <1>6, <2>1, NowOwnedBy DEF Covered
<1>8. \A q \in Requests : Covered(q)'
  BY <1>1, <1>4, <1>7, OneCovered
<1>9. \A q \in in_flight : is_prefill'[q] = is_prefill[q]
  BY <1>1, <1>2, CoverageTypes, OwnerTypes DEF Inv
<1> QED
  BY <1>2, <1>8, <1>9, SameRows DEF Coverage

(* add() and the steps of schedule() that dispatch nothing.                *)
LEMMA QuietCoverage ==
  ASSUME Inv, Inv', Coverage,
         \/ \E r \in Requests : add(r)
         \/ BeginSchedule \/ DecodeDone \/ PrefillPromote \/ PrefillContinuation
         \/ RaiseExhausted
         \/ UNCHANGED vars
  PROVE  Coverage'
<1>1. UNCHANGED <<in_flight, running, is_prefill, num_tokens, num_cached_tokens,
                  num_scheduled_tokens, block_table, batch, batch_queue>>
  BY DEF add, BeginSchedule, DecodeDone, PrefillPromote, PrefillContinuation,
       RaiseExhausted, queueVars, seqVars, blockVars, driverVars, vars
<1>2. ASSUME NEW q \in Requests PROVE Covered(q)'
  <2>1. CASE ~\E r \in Requests : add(r)
    <3>1. \/ waiting' = waiting
          \/ \E i \in 1..Len(waiting) : waiting' = MoveToFront(waiting, i)
      BY <2>1 DEF BeginSchedule, DecodeDone, PrefillPromote, PrefillContinuation,
           RaiseExhausted, queueVars, vars
    <3>2. ToSet(waiting') = ToSet(waiting)
      BY <3>1, OwnerTypes, MoveToFrontQueue DEF Inv
    <3>3. status' = status
      BY <2>1 DEF BeginSchedule, DecodeDone, PrefillPromote, PrefillContinuation,
           RaiseExhausted, seqVars, vars
    <3> QED
      BY <1>1, <3>2, <3>3, SameCovered DEF Same, Coverage
  <2>2. CASE \E r \in Requests : add(r)
    <3>1. PICK r \in Requests : add(r)
      BY <2>2
    <3>2. ToSet(waiting') = ToSet(waiting) \cup {r}
      BY <3>1, OwnerTypes, AppendQueue DEF add, Inv
    <3>3. status[r] = "NEW" /\ status' = [status EXCEPT ![r] = "WAITING"]
      BY <3>1 DEF add
    <3>4. CASE q = r
      <4>1. num_cached_tokens[r] = 0 /\ block_table[r] = <<>>
        BY <3>3 DEF Inv, BlocksConserved, PolicyInv, Untouched
      <4>2. r \in ToSet(waiting')
        BY <3>2
      <4> QED
        BY <1>1, <3>4, <4>1, <4>2, NowOwnedBy DEF Covered
    <3>5. CASE q # r
      <4>1. status'[q] = status[q]
        BY <3>3, <3>5, CoverageTypes DEF Inv
      <4> QED
        BY <1>1, <3>2, <3>5, <4>1, SameCovered DEF Same, Coverage
    <3> QED
      BY <3>4, <3>5
  <2> QED
    BY <2>1, <2>2
<1>3. \A q \in in_flight : is_prefill'[q] = is_prefill[q]
  BY <1>1
<1> QED
  BY <1>1, <1>2, <1>3, SameRows DEF Coverage

(* The steps that move a batch: nothing happens to the requests.           *)
LEMMA BatchCoverage ==
  ASSUME Inv, Inv', Coverage,
         Return \/ \E i \in 1..Len(batch_queue) : BeginPostprocess(i)
  PROVE  Coverage'
<1>1. UNCHANGED <<queueVars, seqVars, blockVars>>
  BY DEF Return, BeginPostprocess
<1>2. \A q \in Requests : Covered(q)'
  BY <1>1, SameCovered DEF Same, Coverage, queueVars, seqVars, blockVars
<1>4. CASE Return
  <2> DEFINE b == [seqs |-> scheduled_seqs,
                   is_prefill |-> \E r \in ToSet(scheduled_seqs) : is_prefill[r]]
  <2>1. b \in Batch /\ \A r \in ToSet(b.seqs) : ~b.is_prefill => ~is_prefill[r]
    BY OwnerTypes DEF Batch, Inv
  <2>2. batch' = batch /\ (batch_queue' = batch_queue \/ batch_queue' = Append(batch_queue, b))
    BY <1>4 DEF Return
  <2> HIDE DEF b
  <2>3. \A i \in 1..Len(batch_queue') : \A r \in ToSet(batch_queue'[i].seqs) :
          ~batch_queue'[i].is_prefill => ~is_prefill[r]
    <3>1. \A i \in 1..Len(batch_queue) : \A r \in ToSet(batch_queue[i].seqs) :
            ~batch_queue[i].is_prefill => ~is_prefill[r]
      BY DEF Coverage, PureDecode
    <3>2. CASE batch_queue' = Append(batch_queue, b)
      <4>1. /\ Len(batch_queue) \in Nat
            /\ Len(batch_queue') = Len(batch_queue) + 1
            /\ \A i \in 1..Len(batch_queue) : batch_queue'[i] = batch_queue[i]
            /\ batch_queue'[Len(batch_queue) + 1] = b
        BY <2>1, <3>2, OwnerTypes, AppendProperties DEF Inv
      <4> QED
        BY <2>1, <3>1, <4>1
    <3> QED
      BY <2>2, <3>1, <3>2
  <2>4. is_prefill' = is_prefill
    BY <1>1 DEF seqVars
  <2> QED
    BY <1>2, <2>2, <2>3, <2>4 DEF Coverage, PureDecode
<1>5. CASE \E i \in 1..Len(batch_queue) : BeginPostprocess(i)
  <2>1. PICK i \in 1..Len(batch_queue) : BeginPostprocess(i)
    BY <1>5
  <2>2. batch' = batch_queue[i] /\ batch_queue' = RemoveAt(batch_queue, i)
    BY <2>1 DEF BeginPostprocess
  <2>3. /\ Len(batch_queue) \in Nat
        /\ Len(batch_queue') = Len(batch_queue) - 1
        /\ \A k \in 1..Len(batch_queue) - 1 :
             batch_queue'[k] = IF k < i THEN batch_queue[k] ELSE batch_queue[k + 1]
    BY <2>2, OwnerTypes, RemoveAtIndices DEF Inv
  <2>4. \A k \in 1..Len(batch_queue') : \E j \in 1..Len(batch_queue) :
          batch_queue'[k] = batch_queue[j]
    BY <2>3
  <2>5. is_prefill' = is_prefill
    BY <1>1 DEF seqVars
  <2> QED
    BY <1>2, <2>2, <2>4, <2>5 DEF Coverage, PureDecode
<1> QED
  BY <1>4, <1>5

LEMMA PostCoverage ==
  ASSUME Inv, Inv', Coverage, NEW eos \in BOOLEAN, Postprocess(eos)
  PROVE  Coverage'
<1>1. PostRow
  BY DEF Postprocess, PostPartial, PostFinish, PostContinue
<1>2. PICK r \in Requests : r = row
  BY <1>1, PostRowFacts DEF Inv
<1>3. /\ r \in ToSet(batch.seqs) /\ r \in in_flight /\ in_flight' = in_flight \ {r}
      /\ num_scheduled_tokens' = [num_scheduled_tokens EXCEPT ![r] = 0]
      /\ UNCHANGED <<is_prefill, batch_queue>>
  BY <1>1, <1>2, PostRowFacts DEF PostRow, Inv, Ownership, OneRowPerFlight
<1>4. /\ num_tokens[r] \in Nat /\ num_cached_tokens[r] \in Nat /\ cap(r) \in Nat
      /\ num_scheduled_tokens[r] \in Nat
      /\ num_tokens[r] <= cap(r)
      /\ num_cached_tokens[r] + num_scheduled_tokens[r] <= num_tokens[r]
  BY <1>3, CoverageTypes, CounterTypes DEF Inv, Coverage, Covered
<1>5. ASSUME NEW q \in Requests \ {r}
      PROVE  Same(q)
  <2>1. \/ waiting' = waiting /\ running' = running
        \/ waiting' = Append(waiting, r) /\ running' = running
        \/ waiting' = waiting /\ running' = Append(running, r)
    BY <1>2 DEF Postprocess, PostPartial, PostFinish, PostContinue
  <2>2. /\ q \in ToSet(waiting') <=> q \in ToSet(waiting)
        /\ q \in ToSet(running') <=> q \in ToSet(running)
    BY <2>1, OwnerTypes, AppendQueue DEF Inv
  <2>3. /\ status'[q] = status[q] /\ num_tokens'[q] = num_tokens[q]
        /\ num_cached_tokens'[q] = num_cached_tokens[q]
    BY <1>2, CoverageTypes DEF Postprocess, PostPartial, PostFinish, PostContinue, Inv
  <2>4. block_table'[q] = block_table[q]
    BY <1>2, CoverageTypes
       DEF Postprocess, PostPartial, PostFinish, PostContinue, deallocate, blockVars, Inv
  <2> QED
    BY <1>3, <2>2, <2>3, <2>4, CoverageTypes DEF Same, Inv
<1>6. Covered(r)'
  <2>1. CASE PostPartial
    <3>1. r \in ToSet(waiting')
      BY <1>2, <2>1, OwnerTypes, AppendQueue DEF PostPartial, Inv
    <3>2. num_tokens'[r] <= cap(r)'
      BY <1>4, <2>1 DEF PostPartial, blockVars, cap
    <3> QED
      BY <3>1, <3>2, NowOwnedBy DEF Covered
  <2>2. CASE PostFinish(eos)
    <3>1. num_cached_tokens'[r] = 0 /\ status'[r] = "FINISHED"
      BY <1>2, <2>2, CoverageTypes DEF PostFinish, Inv
    <3> QED
      BY <3>1, NowOwnedBy DEF Covered
  <2>3. CASE PostContinue(eos)
    <3>1. /\ r \in ToSet(running')
          /\ num_tokens' = [num_tokens EXCEPT ![r] = num_tokens[r] + 1]
          /\ num_cached_tokens' = [num_cached_tokens EXCEPT ![r] = consumed(r)]
          /\ block_table' = block_table /\ ~IsPartial(r)
      BY <1>2, <2>3, OwnerTypes, AppendQueue DEF PostContinue, blockVars, Inv
    <3>2. num_cached_tokens[r] + num_scheduled_tokens[r] = num_tokens[r]
      <4>1. CASE batch.is_prefill
        <5>1. ~(num_cached_tokens[r] + num_scheduled_tokens[r] < num_tokens[r])
          BY <3>1, <4>1 DEF IsPartial, consumed
        <5> HIDE DEF cap
        <5> QED
          BY <1>4, <5>1
      <4>2. CASE ~batch.is_prefill
        BY <1>3, <4>2 DEF Coverage, PureDecode, Covered
      <4> QED
        BY <4>1, <4>2
    <3>3. /\ num_tokens'[r] = num_tokens[r] + 1
          /\ num_cached_tokens'[r] = num_tokens[r]
      BY <3>1, <3>2, CoverageTypes DEF consumed, Inv
    <3>4. cap(r)' = cap(r)
      BY <3>1 DEF cap
    <3>5. num_tokens'[r] <= cap(r)' + 1 /\ num_cached_tokens'[r] = num_tokens'[r] - 1
      <4> HIDE DEF cap
      <4> QED
        BY <1>4, <3>3, <3>4
    <3> QED
      BY <3>1, <3>5, NowOwnedBy DEF Covered
  <2> QED
    BY <2>1, <2>2, <2>3 DEF Postprocess
<1>7. \A q \in Requests : Covered(q)'
  BY <1>5, <1>6, OneCovered
<1>8. PureDecode(batch)'
  <2>1. batch.seqs \in Seq(Requests) /\ batch.seqs # <<>> /\ batch \in Batch
    BY <1>1, OwnerTypes DEF PostRow, Inv, TypeInv, TypeOK, PhaseOK
  <2>2. ToSet(Tail(batch.seqs)) \subseteq ToSet(batch.seqs)
    BY <2>1, PopLeftQueue
  <2>3. \/ batch' = NoBatch
        \/ batch'.seqs = Tail(batch.seqs) /\ batch'.is_prefill = batch.is_prefill
    BY <1>1, <2>1 DEF PostRow, Batch
  <2>4. \A q \in ToSet(batch'.seqs) : ~batch'.is_prefill => ~is_prefill[q]
    BY <2>2, <2>3, EmptyQueue DEF NoBatch, Coverage, PureDecode
  <2> QED
    BY <1>3, <2>4 DEF PureDecode
<1>9. \A i \in 1..Len(batch_queue') : PureDecode(batch_queue[i])'
  BY <1>3 DEF PureDecode, Coverage
<1> QED
  BY <1>7, <1>8, <1>9 DEF Coverage

LEMMA CoverageStep == Inv /\ Coverage /\ [Next]_vars => Coverage'
<1> SUFFICES ASSUME Inv, Coverage, [Next]_vars PROVE Coverage'
  OBVIOUS
<1>1. Inv'
  BY InvStep
<1> QED
  BY <1>1, DecodeRowCoverage, DecodePreemptCoverage, PrefillRowCoverage, QuietCoverage,
     BatchCoverage, PostCoverage DEF Next, Schedule

LEMMA CoverageCorrect == Spec => []Coverage
BY InitCoverage, CoverageStep, InvCorrect, PTL DEF Spec

(* No dispatched row reads or writes a KV position outside the blocks its  *)
(* request owns, for every block size, chunking and preemption history.    *)
THEOREM KVCoveredAlways == Spec => []KVCovered
<1>1. Inv /\ Coverage => KVCovered
  BY CoverageImpliesKV
<1> QED
  BY <1>1, InvCorrect, CoverageCorrect, PTL

(* While a result is outstanding nothing changes the blocks, the history   *)
(* or the progress of its requests.                                        *)
THEOREM InFlightFrozenAlways == Spec => InFlightFrozen
<1> DEFINE Frozen(q) == /\ block_table'[q] = block_table[q]
                        /\ num_cached_tokens'[q] = num_cached_tokens[q]
                        /\ num_scheduled_tokens'[q] = num_scheduled_tokens[q]
                        /\ num_tokens'[q] = num_tokens[q]
<1>1. ASSUME Inv, [Next]_vars, NEW q \in Requests, q \in in_flight, q \in in_flight'
      PROVE  Frozen(q)
  <2>1. CASE DecodeRow
    <3>1. Head(running) \in ToSet(running) /\ Head(running) # q
      BY <1>1, <2>1, OwnerTypes, PopLeftQueue
         DEF DecodeRow, InDecodeLoop, Inv, Ownership, OneOwner
    <3> QED
      BY <1>1, <2>1, <3>1, CoverageTypes DEF DecodeRow, may_append, blockVars, Inv
  <2>2. CASE DecodePreempt
    <3>1. Last(running) # q
      BY <1>1, <2>2 DEF DecodePreempt
    <3> QED
      BY <1>1, <2>2, <3>1, CoverageTypes DEF DecodePreempt, deallocate, Inv
  <2>3. CASE PrefillRow
    <3>1. Head(waiting) \in ToSet(waiting) /\ Head(waiting) # q
      BY <1>1, <2>3, OwnerTypes, PopLeftQueue
         DEF PrefillRow, InPrefillLoop, Inv, Ownership, OneOwner
    <3> QED
      BY <1>1, <2>3, <3>1, CoverageTypes DEF PrefillRow, allocate, blockVars, Inv
  <2>4. CASE \/ BeginSchedule \/ DecodeDone \/ PrefillPromote \/ PrefillContinuation
             \/ RaiseExhausted \/ Return \/ UNCHANGED vars
             \/ \E r \in Requests : add(r)
             \/ \E i \in 1..Len(batch_queue) : BeginPostprocess(i)
    BY <2>4 DEF BeginSchedule, DecodeDone, PrefillPromote, PrefillContinuation,
         RaiseExhausted, Return, BeginPostprocess, add, vars, seqVars, blockVars
  <2>5. ASSUME NEW eos \in BOOLEAN, Postprocess(eos) PROVE Frozen(q)
    <3>1. row # q /\ num_scheduled_tokens' = [num_scheduled_tokens EXCEPT ![row] = 0]
      BY <1>1, <2>5 DEF Postprocess, PostPartial, PostFinish, PostContinue, PostRow
    <3>2. /\ num_cached_tokens'[q] = num_cached_tokens[q]
          /\ num_tokens'[q] = num_tokens[q]
      BY <1>1, <2>5, <3>1, CoverageTypes
         DEF Postprocess, PostPartial, PostFinish, PostContinue, Inv
    <3>3. block_table'[q] = block_table[q]
      BY <1>1, <2>5, <3>1, CoverageTypes
         DEF Postprocess, PostPartial, PostFinish, PostContinue, deallocate, blockVars, Inv
    <3> QED
      BY <1>1, <3>1, <3>2, <3>3, CoverageTypes DEF Inv
  <2> QED
    BY <1>1, <2>1, <2>2, <2>3, <2>4, <2>5 DEF Next, Schedule
<1> DEFINE A == \A r \in in_flight :
                  r \in in_flight' =>
                    /\ block_table'[r] = block_table[r]
                    /\ num_cached_tokens'[r] = num_cached_tokens[r]
                    /\ num_scheduled_tokens'[r] = num_scheduled_tokens[r]
                    /\ num_tokens'[r] = num_tokens[r]
<1>2. ASSUME Inv, [Next]_vars PROVE A
  BY <1>1, <1>2 DEF Inv, TypeInv, TypeOK
<1> HIDE DEF A
<1>3. Spec => [][A]_vars
  BY <1>2, InvCorrect, PTL DEF Spec
<1> QED
  BY <1>3 DEF InFlightFrozen, A

(***************************************************************************)
(* Layer 6: refinement.  Every step of Scheduler, whatever the driver      *)
(* does, is a step of Generation or leaves its state alone.                *)
(***************************************************************************)
(* A request that has not ended has a token left to generate.              *)
TokensLeft ==
  \A r \in Requests : status[r] # "FINISHED" => num_completion_tokens(r) < MaxTokens[r]

outcomes == [r \in Requests |-> Outcome(r)]

LEMMA InitTokensLeft == Init => TokensLeft
BY ConfigAssumption DEF Init, TokensLeft, num_completion_tokens

HistoryTypes ==
  /\ status \in [Requests -> {"NEW", "WAITING", "RUNNING", "FINISHED"}]
  /\ num_tokens \in [Requests -> Nat]

Ongoing(r) == status[r] \in {"WAITING", "RUNNING"}

(* What a step does to the histories and the statuses: nothing a caller    *)
(* sees, or one request is added, gets a token, or gets its last one.      *)
Silent ==
  /\ UNCHANGED num_tokens
  /\ \A r \in Requests : status'[r] = status[r] \/ (Ongoing(r) /\ Ongoing(r)')

Added(r) ==
  /\ status[r] = "NEW" /\ status' = [status EXCEPT ![r] = "WAITING"]
  /\ UNCHANGED num_tokens

Extended(r) ==
  /\ Ongoing(r) /\ num_completion_tokens(r) + 1 # MaxTokens[r]
  /\ status' \in {status, [status EXCEPT ![r] = "RUNNING"]}
  /\ num_tokens' = [num_tokens EXCEPT ![r] = @ + 1]

Ended(r) ==
  /\ Ongoing(r)
  /\ r \in IgnoreEos => num_completion_tokens(r) + 1 = MaxTokens[r]
  /\ status' = [status EXCEPT ![r] = "FINISHED"]
  /\ num_tokens' = [num_tokens EXCEPT ![r] = @ + 1]

Visible == Silent \/ \E r \in Requests : Added(r) \/ Extended(r) \/ Ended(r)

LEMMA SilentStep == UNCHANGED <<status, num_tokens>> => Silent
BY DEF Silent

LEMMA StepKinds ==
  ASSUME TypeInv, Ownership, [Next]_vars
  PROVE  HistoryTypes /\ HistoryTypes' /\ Visible
<1>t. HistoryTypes /\ HistoryTypes'
  BY TypeInvStep DEF HistoryTypes, TypeInv, TypeOK
<1>1. ASSUME NEW r \in Requests, add(r) PROVE Added(r)
  BY <1>1 DEF add, Added
<1>2. ASSUME DecodePreempt PROVE Silent
  <2>1. PICK victim \in Requests :
          /\ victim \in ToSet(running)
          /\ status' = [status EXCEPT ![victim] = "WAITING"]
          /\ UNCHANGED num_tokens
    BY <1>2, OwnerTypes, PopQueue DEF DecodePreempt, InDecodeLoop
  <2>2. Ongoing(victim)
    BY <2>1 DEF Ownership, OneOwner, Ongoing
  <2>3. Silent
    BY <1>t, <2>1, <2>2 DEF Silent, Ongoing, HistoryTypes
  <2> QED
    BY <2>3
<1>3. ASSUME NEW eos \in BOOLEAN, Postprocess(eos)
      PROVE  \/ Silent
             \/ \E r \in Requests : Extended(r) \/ Ended(r)
  <2>1. PostRow
    BY <1>3 DEF Postprocess, PostPartial, PostFinish, PostContinue
  <2>2. row \in Requests /\ Ongoing(row)
    BY <2>1, PostRowFacts DEF Ownership, OneOwner, OneRowPerFlight, Ongoing
  <2>3. CASE PostPartial
    BY <2>3, SilentStep DEF PostPartial
  <2>4. CASE PostFinish(eos)
    BY <2>2, <2>4 DEF PostFinish, Stops, Ended
  <2>5. CASE PostContinue(eos)
    BY <2>2, <2>5 DEF PostContinue, Stops, Extended
  <2> QED
    BY <1>3, <2>2, <2>3, <2>4, <2>5 DEF Postprocess
<1>4. ASSUME \/ BeginSchedule \/ DecodeRow \/ DecodeDone \/ PrefillPromote
             \/ PrefillContinuation \/ PrefillRow \/ RaiseExhausted \/ Return
      PROVE  Silent
  BY <1>4, SilentStep DEF BeginSchedule, DecodeRow, DecodeDone, PrefillPromote,
       PrefillContinuation, PrefillRow, RaiseExhausted, Return, seqVars
<1>5. ASSUME NEW i \in 1..Len(batch_queue), BeginPostprocess(i) PROVE Silent
  BY <1>5, SilentStep DEF BeginPostprocess, seqVars
<1>6. ASSUME UNCHANGED vars PROVE Silent
  BY <1>6, SilentStep DEF vars, seqVars
<1> QED
  BY <1>t, <1>1, <1>2, <1>3, <1>4, <1>5, <1>6 DEF Next, Schedule, Visible

LEMMA TokensLeftStep ==
  ASSUME HistoryTypes, TokensLeft, Visible
  PROVE  TokensLeft'
<1> SUFFICES ASSUME NEW q \in Requests, status'[q] # "FINISHED"
             PROVE  num_tokens'[q] - PromptLen[q] < MaxTokens[q]
  BY DEF TokensLeft, num_completion_tokens
<1>t. /\ status \in [Requests -> {"NEW", "WAITING", "RUNNING", "FINISHED"}]
      /\ num_tokens \in [Requests -> Nat]
      /\ PromptLen[q] \in Nat /\ MaxTokens[q] \in Nat
  BY ConfigAssumption DEF HistoryTypes
<1>q. status[q] # "FINISHED" => num_tokens[q] - PromptLen[q] < MaxTokens[q]
  BY DEF TokensLeft, num_completion_tokens
<1>1. CASE Silent
  BY <1>1, <1>q DEF Silent, Ongoing
<1>2. ASSUME NEW r \in Requests, Added(r)
      PROVE  num_tokens'[q] - PromptLen[q] < MaxTokens[q]
  <2>1. status[q] # "FINISHED" /\ num_tokens' = num_tokens
    BY <1>2, <1>t DEF Added
  <2> QED
    BY <2>1, <1>q
<1>3. ASSUME NEW r \in Requests, Extended(r) \/ Ended(r)
      PROVE  num_tokens'[q] - PromptLen[q] < MaxTokens[q]
  <2>1. CASE q # r
    <3>1. status[q] # "FINISHED" /\ num_tokens'[q] = num_tokens[q]
      BY <1>3, <1>t, <2>1 DEF Extended, Ended
    <3> QED
      BY <3>1, <1>q
  <2>2. CASE q = r
    <3>1. Extended(q)
      BY <1>3, <1>t, <2>2 DEF Extended, Ended
    <3>2. /\ status[q] # "FINISHED" /\ num_tokens'[q] = num_tokens[q] + 1
          /\ num_tokens[q] - PromptLen[q] + 1 # MaxTokens[q]
      BY <3>1, <1>t DEF Extended, num_completion_tokens, Ongoing
    <3>3. num_tokens[q] \in Nat
      BY <1>t
    <3> QED
      BY <3>2, <3>3, <1>q, <1>t
  <2> QED
    BY <2>1, <2>2
<1> QED
  BY <1>1, <1>2, <1>3 DEF Visible

LEMMA TokensLeftCorrect == Spec => [](TypeInv /\ Ownership /\ TokensLeft)
<1>1. Init => TokensLeft
  BY InitTokensLeft
<1>2. TypeInv /\ Ownership /\ TokensLeft /\ [Next]_vars => TokensLeft'
  BY StepKinds, TokensLeftStep
<1> QED
  BY <1>1, <1>2, TypeInvCorrect, OwnershipCorrect, PTL DEF Spec

LEMMA InitRefines == Init => G!Init
BY DEF Init, G!Init, Outcome

LEMMA StepRefines ==
  ASSUME HistoryTypes, HistoryTypes', TokensLeft, Visible
  PROVE  [G!Next]_<<outcomes, num_tokens>>
<1>t. /\ status \in [Requests -> {"NEW", "WAITING", "RUNNING", "FINISHED"}]
      /\ num_tokens \in [Requests -> Nat]
      /\ \A r \in Requests : PromptLen[r] \in Nat /\ MaxTokens[r] \in Nat
  BY ConfigAssumption DEF HistoryTypes
<1>1. CASE Silent
  <2>1. \A r \in Requests : Outcome(r)' = Outcome(r)
    BY <1>1 DEF Silent, Outcome, Ongoing
  <2> QED
    BY <1>1, <2>1 DEF Silent, outcomes
<1>2. ASSUME NEW r \in Requests, Added(r) PROVE G!Submit(r)
  BY <1>2, <1>t DEF Added, G!Submit, Outcome
<1>3. ASSUME NEW r \in Requests, Extended(r) PROVE G!Emit(r)
  <2>1. num_tokens[r] - PromptLen[r] + 1 < MaxTokens[r]
    <3>1. /\ num_tokens[r] - PromptLen[r] < MaxTokens[r]
          /\ num_tokens[r] - PromptLen[r] + 1 # MaxTokens[r]
      BY <1>3 DEF Extended, TokensLeft, num_completion_tokens, Ongoing
    <3>2. num_tokens[r] \in Nat /\ PromptLen[r] \in Nat /\ MaxTokens[r] \in Nat
      BY <1>t
    <3> QED
      BY <3>1, <3>2
  <2>2. UNCHANGED outcomes /\ Outcome(r) = "ACTIVE"
    BY <1>3, <1>t DEF Extended, outcomes, Outcome, Ongoing
  <2> QED
    BY <1>3, <2>1, <2>2 DEF Extended, G!Emit, G!completion, outcomes
<1>4. ASSUME NEW r \in Requests, Ended(r) PROVE G!Finish(r)
  <2>1. num_tokens[r] - PromptLen[r] + 1 <= MaxTokens[r]
    <3>1. num_tokens[r] - PromptLen[r] < MaxTokens[r]
      BY <1>4 DEF Ended, TokensLeft, num_completion_tokens, Ongoing
    <3>2. num_tokens[r] \in Nat /\ PromptLen[r] \in Nat /\ MaxTokens[r] \in Nat
      BY <1>t
    <3> QED
      BY <3>1, <3>2
  <2>2. /\ [q \in Requests |-> Outcome(q)]' =
             [[q \in Requests |-> Outcome(q)] EXCEPT ![r] = "FINISHED"]
        /\ Outcome(r) = "ACTIVE"
    BY <1>4, <1>t DEF Ended, Outcome, Ongoing
  <2>3. r \in IgnoreEos => num_tokens[r] - PromptLen[r] + 1 = MaxTokens[r]
    BY <1>4 DEF Ended, num_completion_tokens
  <2>4. num_tokens' = [num_tokens EXCEPT ![r] = @ + 1]
    BY <1>4 DEF Ended
  <2> QED
    BY <2>1, <2>2, <2>3, <2>4 DEF G!Finish, G!completion
<1> QED
  BY <1>1, <1>2, <1>3, <1>4 DEF G!Next, Visible

(* From outside, whatever batches are outstanding and however requests are *)
(* preempted, replayed and chunked, each request gets its tokens one at a  *)
(* time, never more than max_tokens, ends once, and is not touched again.  *)
THEOREM SchedulerRefinesGeneration == Spec => ImplementsGeneration
<1>1. Init => G!Init
  BY InitRefines
<1>2. TypeInv /\ Ownership /\ TokensLeft /\ [Next]_vars
        => [G!Next]_<<[r \in Requests |-> Outcome(r)], num_tokens>>
  BY StepKinds, StepRefines DEF outcomes
<1> QED
  BY <1>1, <1>2, TokensLeftCorrect, PTL DEF Spec, ImplementsGeneration, G!Spec
=============================================================================
