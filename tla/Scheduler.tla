----------------------------- MODULE Scheduler -----------------------------
(***************************************************************************)
(* The serial scheduling policy: scheduler/scheduler.py over the block     *)
(* bookkeeping of engine/block_manager.py and the request fields of        *)
(* engine/sequence.py.                                                     *)
(*                                                                         *)
(* schedule() and postprocess() are loops over mutable queues; each        *)
(* iteration of a loop is one action here, and `phase' says which loop the *)
(* single engine thread is in.  A decode candidate stays at the head of    *)
(* running while the inner eviction loop makes room for it (the code holds *)
(* it in a local), which no other code can observe.                        *)
(*                                                                         *)
(* Prefix caching is off, as it must be for the hybrid models              *)
(* (config.py:66-70), so a block has one owner; sharing is a separate      *)
(* concern.  Token values are abstracted to one bit, whether the sampled   *)
(* token is EOS.  The driver is arbitrary: it may hold any number of       *)
(* dispatched batches and hand their results back in any order.            *)
(***************************************************************************)
EXTENDS Config

VARIABLES
  waiting, running, in_flight,          \* the scheduler's owners of a request
  status, num_tokens, num_cached_tokens,
  num_scheduled_tokens, is_prefill,     \* the fields of each Sequence
  block_table, free_block_ids,          \* the block manager
  phase,                                \* the loop the engine thread is in
  scheduled_seqs, num_batched_tokens, active_ids,   \* schedule()'s locals
  batch_queue,                          \* dispatched, result not yet consumed
  batch                                 \* rows postprocess() has still to do

queueVars  == <<waiting, running, in_flight>>
seqVars    == <<status, num_tokens, num_cached_tokens, num_scheduled_tokens,
                is_prefill>>
blockVars  == <<block_table, free_block_ids>>
callVars   == <<scheduled_seqs, num_batched_tokens, active_ids>>
driverVars == <<batch_queue, batch>>
vars == <<queueVars, seqVars, blockVars, phase, callVars, driverVars>>

NoBatch == [seqs |-> <<>>, is_prefill |-> FALSE]

-----------------------------------------------------------------------------
(* Sequence and BlockManager                                               *)

num_completion_tokens(r) == num_tokens[r] - PromptLen[r]
num_blocks(r) == (num_tokens[r] + BlockSize - 1) \div BlockSize

can_allocate(r) == num_blocks(r) <= Len(free_block_ids)

allocate(r) ==
  LET n == num_blocks(r) IN
  /\ block_table' = [block_table EXCEPT ![r] = SubSeq(free_block_ids, 1, n)]
  /\ free_block_ids' = SubSeq(free_block_ids, n + 1, Len(free_block_ids))

deallocate(r) ==
  /\ block_table' = [block_table EXCEPT ![r] = <<>>]
  /\ free_block_ids' = free_block_ids \o Reverse(block_table[r])

(* Mutant: a block is asked for when the last one has just been filled.    *)
Early_needs_block(r) == num_tokens[r] % BlockSize = 0

needs_block(r) == num_tokens[r] % BlockSize = 1

can_append(r) == needs_block(r) => Len(free_block_ids) >= 1

(* Mutant: the new block is not popped from the deque.                     *)
Peek_may_append(r) ==
  IF needs_block(r)
  THEN /\ block_table' =
            [block_table EXCEPT ![r] = Append(@, Head(free_block_ids))]
       /\ UNCHANGED free_block_ids
  ELSE UNCHANGED blockVars

may_append(r) ==
  IF needs_block(r)
  THEN /\ block_table' =
            [block_table EXCEPT ![r] = Append(@, Head(free_block_ids))]
       /\ free_block_ids' = Tail(free_block_ids)
  ELSE UNCHANGED blockVars

-----------------------------------------------------------------------------
Init ==
  /\ waiting = <<>> /\ running = <<>> /\ in_flight = {}
  /\ status = [r \in Requests |-> "NEW"]
  /\ num_tokens = PromptLen
  /\ num_cached_tokens = [r \in Requests |-> 0]
  /\ num_scheduled_tokens = [r \in Requests |-> 0]
  /\ is_prefill = [r \in Requests |-> TRUE]
  /\ block_table = [r \in Requests |-> <<>>]
  /\ free_block_ids \in
       {s \in [1..Cardinality(Blocks) -> Blocks] :
          \A i, j \in DOMAIN s : s[i] = s[j] => i = j}
  /\ phase = "idle"
  /\ scheduled_seqs = <<>> /\ num_batched_tokens = 0 /\ active_ids = {}
  /\ batch_queue = <<>> /\ batch = NoBatch

-----------------------------------------------------------------------------
(* add(): between two calls of the driver a new request joins the queue.   *)

add(r) ==
  /\ phase = "idle" /\ status[r] = "NEW"
  /\ status' = [status EXCEPT ![r] = "WAITING"]
  /\ waiting' = Append(waiting, r)
  /\ UNCHANGED <<running, in_flight, num_tokens, num_cached_tokens,
                 num_scheduled_tokens, is_prefill, blockVars, phase, callVars,
                 driverVars>>

-----------------------------------------------------------------------------
(* schedule()                                                              *)

(* The requests that own a GPU state slot, as the scheduler computes them. *)
SlotOwners ==
  in_flight \cup ToSet(running)
    \cup {r \in ToSet(waiting) :
            num_cached_tokens[r] > 0 \/ num_completion_tokens(r) > 0}

remaining == MaxNumBatchedTokens - num_batched_tokens

(* Mutant: a started request that waits is not counted.                    *)
Forgetful_BeginSchedule ==
  /\ phase = "idle"
  /\ phase' = "decode"
  /\ active_ids' = in_flight \cup ToSet(running)
  /\ UNCHANGED <<queueVars, seqVars, blockVars, scheduled_seqs,
                 num_batched_tokens, driverVars>>

BeginSchedule ==
  /\ phase = "idle"
  /\ phase' = "decode"
  /\ active_ids' = SlotOwners
  /\ UNCHANGED <<queueVars, seqVars, blockVars, scheduled_seqs,
                 num_batched_tokens, driverVars>>

(* Mutant: one decode row per batch while a prompt waits.                  *)
Sharing_InDecodeLoop ==
  /\ running # <<>>
  /\ waiting # <<>> => scheduled_seqs = <<>>
  /\ Len(scheduled_seqs) < MaxNumSeqs
  /\ remaining > 0

InDecodeLoop ==
  /\ running # <<>>
  /\ Len(scheduled_seqs) < MaxNumSeqs
  /\ remaining > 0

(* Mutants: the row stays in running; the row does not become in flight.   *)
Peek_DecodeRow ==
  LET r == Head(running) IN
  /\ phase = "decode" /\ InDecodeLoop /\ can_append(r)
  /\ in_flight' = in_flight \cup {r}
  /\ num_scheduled_tokens' = [num_scheduled_tokens EXCEPT ![r] = 1]
  /\ is_prefill' = [is_prefill EXCEPT ![r] = FALSE]
  /\ may_append(r)
  /\ scheduled_seqs' = Append(scheduled_seqs, r)
  /\ num_batched_tokens' = num_batched_tokens + 1
  /\ UNCHANGED <<running, waiting, status, num_tokens, num_cached_tokens, phase,
                 active_ids, driverVars>>

Unowned_DecodeRow ==
  LET r == Head(running) IN
  /\ phase = "decode" /\ InDecodeLoop /\ can_append(r)
  /\ running' = Tail(running)
  /\ num_scheduled_tokens' = [num_scheduled_tokens EXCEPT ![r] = 1]
  /\ is_prefill' = [is_prefill EXCEPT ![r] = FALSE]
  /\ may_append(r)
  /\ scheduled_seqs' = Append(scheduled_seqs, r)
  /\ num_batched_tokens' = num_batched_tokens + 1
  /\ UNCHANGED <<in_flight, waiting, status, num_tokens, num_cached_tokens, phase,
                 active_ids, driverVars>>

DecodeRow ==
  LET r == Head(running) IN
  /\ phase = "decode" /\ InDecodeLoop /\ can_append(r)
  /\ running' = Tail(running)
  /\ in_flight' = in_flight \cup {r}
  /\ num_scheduled_tokens' = [num_scheduled_tokens EXCEPT ![r] = 1]
  /\ is_prefill' = [is_prefill EXCEPT ![r] = FALSE]
  /\ may_append(r)
  /\ scheduled_seqs' = Append(scheduled_seqs, r)
  /\ num_batched_tokens' = num_batched_tokens + 1
  /\ UNCHANGED <<waiting, status, num_tokens, num_cached_tokens, phase,
                 active_ids, driverVars>>

(* The victim is the newest runner, the candidate itself when it is alone. *)
DecodePreempt ==
  LET victim == Last(running) IN
  /\ phase = "decode" /\ InDecodeLoop /\ ~can_append(Head(running))
  /\ running' = Front(running)
  /\ waiting' = <<victim>> \o waiting
  /\ in_flight' = in_flight \ {victim}
  /\ status' = [status EXCEPT ![victim] = "WAITING"]
  /\ is_prefill' = [is_prefill EXCEPT ![victim] = TRUE]
  /\ num_cached_tokens' = [num_cached_tokens EXCEPT ![victim] = 0]
  /\ deallocate(victim)
  /\ UNCHANGED <<num_tokens, num_scheduled_tokens, phase, callVars,
                 driverVars>>

DecodeDone ==
  /\ phase = "decode" /\ ~InDecodeLoop
  /\ phase' = "prefill"
  /\ UNCHANGED <<queueVars, seqVars, blockVars, callVars, driverVars>>

InPrefillLoop == waiting # <<>> /\ Len(scheduled_seqs) < MaxNumSeqs

NeedsSlot ==
  /\ Head(waiting) \notin active_ids
  /\ Cardinality(active_ids) >= MaxNumSeqs

fresh(r) == block_table[r] = <<>>
num_tokens_left(r) ==
  num_tokens[r] - (IF fresh(r) THEN 0 ELSE num_cached_tokens[r])

(* Mutant: the chunk is not cut to what is left of the budget.             *)
Uncut_chunk(r) == num_tokens_left(r)

chunk(r) ==
  IF num_tokens_left(r) <= remaining THEN num_tokens_left(r) ELSE remaining

IsFirstWaiting(i, W) ==
  /\ waiting[i] \in W
  /\ \A j \in 1..(i - 1) : waiting[j] \notin W

Admitted == {r \in ToSet(waiting) : r \in active_ids}
(* Mutant: only the head is looked at.                                     *)
Head_Continuations == {r \in {Head(waiting)} : block_table[r] # <<>>}

Continuations == {r \in ToSet(waiting) : block_table[r] # <<>>}

Starved == fresh(Head(waiting)) /\ ~can_allocate(Head(waiting))

(* No slot for the head: an admitted prompt behind it is moved to the      *)
(* front, and the same iteration goes on with it.                          *)
PrefillPromote ==
  /\ phase = "prefill" /\ InPrefillLoop /\ NeedsSlot
  /\ \E i \in 1..Len(waiting) :
       /\ IsFirstWaiting(i, Admitted)
       /\ waiting' = MoveToFront(waiting, i)
  /\ UNCHANGED <<running, in_flight, seqVars, blockVars, phase, callVars,
                 driverVars>>

(* No blocks for the head: a prompt that already holds its blocks is moved *)
(* to the front.                                                           *)
PrefillContinuation ==
  /\ phase = "prefill" /\ InPrefillLoop
  /\ ~NeedsSlot /\ remaining # 0 /\ Starved
  /\ \E i \in 1..Len(waiting) :
       /\ IsFirstWaiting(i, Continuations)
       /\ waiting' = MoveToFront(waiting, i)
  /\ UNCHANGED <<running, in_flight, seqVars, blockVars, phase, callVars,
                 driverVars>>

PrefillRow ==
  LET r == Head(waiting) IN
  /\ phase = "prefill" /\ InPrefillLoop
  /\ ~NeedsSlot /\ remaining # 0 /\ ~Starved
  /\ IF fresh(r)
     THEN /\ allocate(r)
          /\ num_cached_tokens' = [num_cached_tokens EXCEPT ![r] = 0]
     ELSE UNCHANGED <<blockVars, num_cached_tokens>>
  /\ num_scheduled_tokens' = [num_scheduled_tokens EXCEPT ![r] = chunk(r)]
  /\ is_prefill' = [is_prefill EXCEPT ![r] = TRUE]
  /\ num_batched_tokens' = num_batched_tokens + chunk(r)
  /\ waiting' = Tail(waiting)
  /\ in_flight' = in_flight \cup {r}
  /\ active_ids' = active_ids \cup {r}
  /\ scheduled_seqs' = Append(scheduled_seqs, r)
  /\ UNCHANGED <<running, status, num_tokens, phase, driverVars>>

(* The two ways the loop gives up on a starved head with no continuation.  *)
(* Mutants: results still outstanding are not waited for; the loop never   *)
(* raises.                                                                 *)
Hasty_Exhausted ==
  /\ InPrefillLoop /\ ~NeedsSlot /\ remaining # 0 /\ Starved
  /\ Continuations = {}
  /\ scheduled_seqs = <<>> /\ running = <<>>

Silent_Exhausted == FALSE

Exhausted ==
  /\ InPrefillLoop /\ ~NeedsSlot /\ remaining # 0 /\ Starved
  /\ Continuations = {}
  /\ scheduled_seqs = <<>> /\ running = <<>> /\ in_flight = {}

(* Mutant: a head without a slot ends the loop, an admitted prompt behind  *)
(* it or not.                                                              *)
Blocked_PrefillDone ==
  InPrefillLoop =>
    \/ NeedsSlot
    \/ ~NeedsSlot /\ remaining = 0
    \/ ~NeedsSlot /\ Starved /\ Continuations = {} /\ ~Exhausted

PrefillDone ==
  InPrefillLoop =>
    \/ NeedsSlot /\ Admitted = {}
    \/ ~NeedsSlot /\ remaining = 0
    \/ ~NeedsSlot /\ Starved /\ Continuations = {} /\ ~Exhausted

ResetCall ==
  /\ phase' = "idle"
  /\ scheduled_seqs' = <<>> /\ num_batched_tokens' = 0 /\ active_ids' = {}

(* RuntimeError("KV cache exhausted before admission") leaves schedule().  *)
RaiseExhausted ==
  /\ phase = "prefill" /\ Exhausted
  /\ ResetCall
  /\ UNCHANGED <<queueVars, seqVars, blockVars, driverVars>>

(* schedule() returns; the driver dispatches a non-empty batch.            *)
Return ==
  /\ phase = "prefill" /\ PrefillDone
  /\ batch_queue' =
       IF scheduled_seqs = <<>> THEN batch_queue
       ELSE Append(batch_queue,
                   [seqs |-> scheduled_seqs,
                    is_prefill |-> \E r \in ToSet(scheduled_seqs) : is_prefill[r]])
  /\ ResetCall
  /\ UNCHANGED <<queueVars, seqVars, blockVars, batch>>

-----------------------------------------------------------------------------
(* postprocess()                                                           *)

(* The driver hands the result of the i-th dispatched batch back.          *)
BeginPostprocess(i) ==
  /\ phase = "idle" /\ i \in 1..Len(batch_queue)
  /\ batch' = batch_queue[i]
  /\ batch_queue' = RemoveAt(batch_queue, i)
  /\ phase' = "post"
  /\ UNCHANGED <<queueVars, seqVars, blockVars, callVars>>

row == Head(batch.seqs)
consumed(r) == num_cached_tokens[r] + num_scheduled_tokens[r]
IsPartial(r) == batch.is_prefill /\ consumed(r) < num_tokens[r]

(* Mutant: max_tokens compared before the token is appended.               *)
Late_Stops(r, eos) ==
  \/ r \notin IgnoreEos /\ eos
  \/ num_completion_tokens(r) = MaxTokens[r]

Stops(r, eos) ==
  \/ r \notin IgnoreEos /\ eos
  \/ num_completion_tokens(r) + 1 = MaxTokens[r]

(* Mutant: the row stays in flight.                                        *)
Sticky_PostRow ==
  /\ phase = "post"
  /\ num_scheduled_tokens' = [num_scheduled_tokens EXCEPT ![row] = 0]
  /\ batch' = IF Tail(batch.seqs) = <<>> THEN NoBatch
              ELSE [batch EXCEPT !.seqs = Tail(@)]
  /\ phase' = IF Tail(batch.seqs) = <<>> THEN "idle" ELSE "post"
  /\ UNCHANGED <<in_flight, is_prefill, callVars, batch_queue>>

PostRow ==
  /\ phase = "post"
  /\ in_flight' = in_flight \ {row}
  /\ num_scheduled_tokens' = [num_scheduled_tokens EXCEPT ![row] = 0]
  /\ batch' = IF Tail(batch.seqs) = <<>> THEN NoBatch
              ELSE [batch EXCEPT !.seqs = Tail(@)]
  /\ phase' = IF Tail(batch.seqs) = <<>> THEN "idle" ELSE "post"
  /\ UNCHANGED <<is_prefill, callVars, batch_queue>>

(* A chunk that did not reach the end of the prompt: back to waiting.      *)
PostPartial ==
  /\ PostRow /\ IsPartial(row)
  /\ num_cached_tokens' = [num_cached_tokens EXCEPT ![row] = consumed(row)]
  /\ waiting' = Append(waiting, row)
  /\ UNCHANGED <<running, status, num_tokens, blockVars>>

PostFinish(eos) ==
  /\ PostRow /\ ~IsPartial(row) /\ Stops(row, eos)
  /\ num_tokens' = [num_tokens EXCEPT ![row] = @ + 1]
  /\ status' = [status EXCEPT ![row] = "FINISHED"]
  /\ num_cached_tokens' = [num_cached_tokens EXCEPT ![row] = 0]
  /\ deallocate(row)
  /\ UNCHANGED <<waiting, running>>

PostContinue(eos) ==
  /\ PostRow /\ ~IsPartial(row) /\ ~Stops(row, eos)
  /\ num_tokens' = [num_tokens EXCEPT ![row] = @ + 1]
  /\ status' = [status EXCEPT ![row] = "RUNNING"]
  /\ num_cached_tokens' = [num_cached_tokens EXCEPT ![row] = consumed(row)]
  /\ running' = Append(running, row)
  /\ UNCHANGED <<waiting, blockVars>>

-----------------------------------------------------------------------------
Schedule ==
  \/ DecodeRow \/ DecodePreempt \/ DecodeDone
  \/ PrefillPromote \/ PrefillContinuation \/ PrefillRow
  \/ RaiseExhausted \/ Return

Postprocess(eos) == PostPartial \/ PostFinish(eos) \/ PostContinue(eos)

Next ==
  \/ \E r \in Requests : add(r)
  \/ BeginSchedule
  \/ Schedule
  \/ \E i \in 1..Len(batch_queue) : BeginPostprocess(i)
  \/ \E eos \in BOOLEAN : Postprocess(eos)

Spec == Init /\ [][Next]_vars

-----------------------------------------------------------------------------
(* Properties                                                              *)

Batch == [seqs : Seq(Requests), is_prefill : BOOLEAN]

(* Every variable keeps its type.                                          *)
TypeOK ==
  /\ waiting \in Seq(Requests) /\ running \in Seq(Requests)
  /\ in_flight \in SUBSET Requests
  /\ status \in [Requests -> {"NEW", "WAITING", "RUNNING", "FINISHED"}]
  /\ num_tokens \in [Requests -> Nat]
  /\ num_cached_tokens \in [Requests -> Nat]
  /\ num_scheduled_tokens \in [Requests -> Nat]
  /\ is_prefill \in [Requests -> BOOLEAN]
  /\ block_table \in [Requests -> Seq(Blocks)]
  /\ free_block_ids \in Seq(Blocks)
  /\ phase \in {"idle", "decode", "prefill", "post"}
  /\ scheduled_seqs \in Seq(Requests)
  /\ num_batched_tokens \in 0..MaxNumBatchedTokens
  /\ active_ids \in SUBSET Requests
  /\ batch_queue \in Seq(Batch)
  /\ batch \in Batch

(* A live request has exactly one owner -- waiting, running or in_flight -- *)
(* and appears there once; a request not yet added, or finished, has none. *)
(* This is what the assertions at scheduler.py:62 and :147 sample: without *)
(* it a request could be dispatched twice, or never again.                 *)
OneOwner ==
  /\ Distinct(waiting) /\ Distinct(running)
  /\ ToSet(waiting) \cap ToSet(running) = {}
  /\ in_flight \cap (ToSet(waiting) \cup ToSet(running)) = {}
  /\ \A r \in Requests :
       status[r] \in {"WAITING", "RUNNING"}
         <=> r \in in_flight \cup ToSet(waiting) \cup ToSet(running)

(* The in-flight requests are the rows of the batch being formed, of the   *)
(* queued batches and of the one being postprocessed, each in one row: a   *)
(* result is applied once, and only to a request still waiting for it.     *)
OneRowPerFlight ==
  /\ Distinct(scheduled_seqs) /\ Distinct(batch.seqs)
  /\ \A i \in 1..Len(batch_queue) : Distinct(batch_queue[i].seqs)
  /\ ToSet(scheduled_seqs) \cap ToSet(batch.seqs) = {}
  /\ \A i \in 1..Len(batch_queue) :
       /\ ToSet(batch_queue[i].seqs) \cap ToSet(scheduled_seqs) = {}
       /\ ToSet(batch_queue[i].seqs) \cap ToSet(batch.seqs) = {}
       /\ \A j \in 1..Len(batch_queue) :
            i # j => ToSet(batch_queue[i].seqs) \cap ToSet(batch_queue[j].seqs) = {}
  /\ in_flight = ToSet(scheduled_seqs) \cup ToSet(batch.seqs)
                   \cup UNION {ToSet(batch_queue[i].seqs) : i \in 1..Len(batch_queue)}

(* Every KV block is in the free deque or in one request's table, once:    *)
(* none is leaked by preemption, completion or a partial prompt, none is   *)
(* given to two requests.                                                  *)
BlocksConserved ==
  /\ Distinct(free_block_ids)
  /\ \A r \in Requests :
       /\ Distinct(block_table[r])
       /\ ToSet(block_table[r]) \cap ToSet(free_block_ids) = {}
       /\ \A q \in Requests :
            r # q => ToSet(block_table[r]) \cap ToSet(block_table[q]) = {}
       /\ status[r] \in {"NEW", "FINISHED"} => block_table[r] = <<>>
  /\ Blocks = ToSet(free_block_ids)
                \cup UNION {ToSet(block_table[r]) : r \in Requests}

(* The requests that own a GPU state slot -- dispatched, decoding, or      *)
(* anywhere between their first chunk and the end, preemption included --  *)
(* never outnumber the slots, whatever the interleaving of batches: past   *)
(* max_num_seqs the runner's slot search fails (model_runner.py:48).       *)
SlotsBounded == Cardinality(SlotOwners) <= MaxNumSeqs

(* A dispatched row has a KV block for every position its batch reads or   *)
(* writes; a request between dispatches has one for every position it has  *)
(* computed, and a decoding request is one token behind its history.       *)
KVCovered ==
  \A r \in Requests :
    /\ r \in in_flight =>
         num_cached_tokens[r] + num_scheduled_tokens[r]
           <= Len(block_table[r]) * BlockSize
    /\ num_cached_tokens[r] <= Len(block_table[r]) * BlockSize
    /\ r \in ToSet(running) => num_cached_tokens[r] = num_tokens[r] - 1

(* schedule() raises "KV cache exhausted" only for a request that could    *)
(* not be admitted to an empty pool, never because of what other requests, *)
(* partial prompts or replays hold at that moment.                         *)
NoSpuriousExhaustion ==
  phase = "prefill" /\ Exhausted => num_blocks(Head(waiting)) > Cardinality(Blocks)

(* With no result outstanding and work left, schedule() returns a batch or *)
(* raises: an empty batch would make the driver's loop spin for ever.      *)
NoStall ==
  phase = "prefill" /\ PrefillDone /\ in_flight = {}
    => waiting = <<>> /\ running = <<>>

(* "Reserve token budget for ready decode before prompt work"              *)
(* (scheduler.py:74): a prompt chunk enters a batch only when no ready     *)
(* decode row is left out of it.                                           *)
DecodeFirst ==
  [][\A r \in Requests :
       r \in in_flight' \ in_flight /\ is_prefill'[r] => running = <<>>]_vars

(* From dispatch to consumption a request's blocks, history and progress   *)
(* are frozen: another request's preemption, admission or completion never *)
(* touches what a queued batch still reads.                                *)
InFlightFrozen ==
  [][\A r \in in_flight :
       r \in in_flight' =>
         /\ block_table'[r] = block_table[r]
         /\ num_cached_tokens'[r] = num_cached_tokens[r]
         /\ num_scheduled_tokens'[r] = num_scheduled_tokens[r]
         /\ num_tokens'[r] = num_tokens[r]]_vars

(* The scheduler implements Generation: from outside, each request gets    *)
(* its tokens one by one, within max_tokens, and ends once.                *)
Outcome(r) == IF status[r] \in {"WAITING", "RUNNING"} THEN "ACTIVE" ELSE status[r]

G == INSTANCE Generation WITH outcome <- [r \in Requests |-> Outcome(r)],
                              length <- num_tokens

ImplementsGeneration == G!Spec
=============================================================================
