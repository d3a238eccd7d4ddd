------------------------------- MODULE Engine -------------------------------
(***************************************************************************)
(* engine/llm_engine.py: step() over the schedulers, the runner and the    *)
(* device.  The host is one thread; `loop' is where step() stands.  The    *)
(* device's steps interleave with it wherever the host is between two      *)
(* calls: inside schedule() and postprocess(), which touch nothing the     *)
(* device does, they are left out.                                         *)
(***************************************************************************)
EXTENDS AsyncDecode, ModelRunner

CONSTANT AsyncScheduling      \* config.async_scheduling

ASSUME AsyncAssumption == AsyncScheduling \in BOOLEAN

VARIABLES
  loop,      \* "top", "fill", "consume", "lookahead", "execute", "retire"
  outputs,   \* the output handles of the queued batches, oldest first
  result     \* the tokens of the rows still to postprocess

engineVars == <<asyncVars, runnerVars, loop, outputs, result>>

max_concurrent_batches == 2

(* The block ids are range(num_blocks), in order.                          *)
EngineInit ==
  /\ AsyncInit
  /\ \A i, j \in 1..Len(free_block_ids) : i < j => free_block_ids[i] < free_block_ids[j]
  /\ RunnerInit
  /\ loop = "top" /\ outputs = <<>> /\ result = <<>>

-----------------------------------------------------------------------------
(* Between two steps: add_request(), or the choice between the two paths.  *)

add_request(r) ==
  /\ loop = "top" /\ add(r)
  /\ UNCHANGED <<cohortVars, runnerVars, loop, outputs, result>>

MayBegin == AsyncScheduling /\ batch_queue = <<>> /\ CanBegin

StepSerial ==
  /\ loop = "top" /\ Serial /\ ~MayBegin
  /\ loop' = "fill"
  /\ UNCHANGED <<asyncVars, runnerVars, outputs, result>>

StepBegin ==
  /\ loop = "top" /\ MayBegin /\ begin_async_decode
  /\ loop' = "lookahead"
  /\ UNCHANGED <<runnerVars, outputs, result>>

(* A cohort goes on, or drains because a request has arrived.              *)
StepAsync ==
  /\ loop = "top" /\ ~Serial
  /\ IF waiting # <<>> /\ ~draining THEN drain_for_arrival ELSE UNCHANGED asyncVars
  /\ loop' = "lookahead"
  /\ UNCHANGED <<runnerVars, outputs, result>>

-----------------------------------------------------------------------------
(* _step_serial(): fill the queue                                          *)

QueuedDecode ==
  \E i \in 1..Len(batch_queue) : \E r \in ToSet(batch_queue[i].seqs) : ~is_prefill[r]

MayFill == Len(batch_queue) < max_concurrent_batches /\ ~QueuedDecode

FillSchedule ==
  /\ loop = "fill" /\ MayFill /\ BeginSchedule
  /\ UNCHANGED <<cohortVars, runnerVars, loop, outputs, result>>

InSchedule ==
  /\ loop = "fill"
  /\ \/ DecodeRow \/ DecodePreempt \/ DecodeDone
     \/ PrefillPromote \/ PrefillContinuation \/ PrefillRow
  /\ UNCHANGED <<cohortVars, runnerVars, loop, outputs, result>>

(* schedule() has a batch: run it next; or none, and the filling stops.    *)
Scheduled ==
  /\ loop = "fill" /\ Return
  /\ loop' = IF scheduled_seqs = <<>> THEN "consume" ELSE "execute"
  /\ UNCHANGED <<cohortVars, runnerVars, outputs, result>>

(* The error leaves step(); the caller may call it again.                  *)
ScheduleRaises ==
  /\ loop = "fill" /\ RaiseExhausted
  /\ loop' = "top"
  /\ UNCHANGED <<cohortVars, runnerVars, outputs, result>>

FillDone ==
  /\ loop = "fill" /\ phase = "idle" /\ ~MayFill
  /\ loop' = "consume"
  /\ UNCHANGED <<asyncVars, runnerVars, outputs, result>>

-----------------------------------------------------------------------------
(* execute_model() and sample_tokens() on the batch just scheduled         *)

Finished == {r \in Requests : status[r] = "FINISHED"}

OwnerRow(r) ==
  [seq |-> r, view |-> FALSE, first |-> num_cached_tokens[r],
   count |-> num_scheduled_tokens[r], len |-> num_tokens[r],
   table |-> block_table[r], is_prefill |-> is_prefill[r]]

ViewRow(v) ==
  [seq |-> v.seq, view |-> TRUE, first |-> v.num_tokens - 1, count |-> 1,
   len |-> v.num_tokens, table |-> v.block_table, is_prefill |-> FALSE]

ExecuteOwners ==
  LET b == Last(batch_queue) IN
  /\ loop = "execute" /\ Serial
  /\ execute_and_sample([i \in DOMAIN b.seqs |-> OwnerRow(b.seqs[i])], b.is_prefill, Finished)
  /\ outputs' = Append(outputs, buf_idx)
  /\ loop' = "fill"
  /\ UNCHANGED <<asyncVars, result>>

ExecuteViews ==
  LET b == Last(dispatched) IN
  /\ loop = "execute" /\ ~Serial
  /\ execute_and_sample([i \in DOMAIN b |-> ViewRow(b[i])], FALSE, Finished)
  /\ outputs' = Append(outputs, buf_idx)
  /\ loop' = "lookahead"
  /\ UNCHANGED <<asyncVars, result>>

-----------------------------------------------------------------------------
(* _step_serial(): consume the oldest batch                                *)

ConsumeNothing ==
  /\ loop = "consume" /\ phase = "idle" /\ batch_queue = <<>>
  /\ loop' = "top"
  /\ UNCHANGED <<asyncVars, runnerVars, outputs, result>>

TakeOutput(n) ==
  /\ OutputReady(Head(outputs))
  /\ result' = get_output(Head(outputs), n)
  /\ outputs' = Tail(outputs)

Consume ==
  /\ loop = "consume" /\ batch_queue # <<>> /\ phase = "idle"
  /\ TakeOutput(Len(Head(batch_queue).seqs))
  /\ BeginPostprocess(1)
  /\ UNCHANGED <<cohortVars, runnerVars, loop>>

(* step() decides with conditions of its own, before postprocess(), which  *)
(* requests leave the runner.                                              *)
(* Mutant: the -1 of a partial prompt is taken for a token.                *)
Uniform_Departs(r, eos) ==
  \/ r \notin IgnoreEos /\ eos
  \/ num_completion_tokens(r) + 1 = MaxTokens[r]

Departs(r, eos) ==
  /\ ~(batch.is_prefill /\ num_cached_tokens[r] + num_scheduled_tokens[r] < num_tokens[r])
  /\ \/ r \notin IgnoreEos /\ eos
     \/ num_completion_tokens(r) + 1 = MaxTokens[r]

PostprocessRow(eos) ==
  /\ loop = "consume" /\ phase = "post"
  /\ Postprocess(eos)
  /\ IF Departs(row, eos) THEN remove_request(row) ELSE UNCHANGED input_batch
  /\ result' = Tail(result)
  /\ loop' = IF phase' = "idle" THEN "top" ELSE "consume"
  /\ UNCHANGED <<cohortVars, decode_cpu, buf_idx, deviceVars, outputs>>

-----------------------------------------------------------------------------
(* _step_async_decode()                                                    *)

LookFurther == Len(dispatched) < max_concurrent_batches /\ ~draining

Look ==
  /\ loop = "lookahead" /\ LookFurther
  /\ \/ async_schedule /\ loop' = "execute"
     \/ async_schedule_empty /\ loop' = loop
  /\ UNCHANGED <<runnerVars, outputs, result>>

(* Nothing could be dispatched: back to the serial path, in the same step. *)
LookNothing ==
  /\ loop = "lookahead" /\ ~LookFurther /\ dispatched = <<>>
  /\ end_async_decode
  /\ loop' = "fill"
  /\ UNCHANGED <<runnerVars, outputs, result>>

LookConsume ==
  /\ loop = "lookahead" /\ ~LookFurther /\ dispatched # <<>>
  /\ TakeOutput(Len(Head(dispatched)))
  /\ BeginCommit
  /\ loop' = "retire"
  /\ UNCHANGED runnerVars

CommitResult ==
  /\ loop = "retire" /\ phase = "commit"
  /\ DiscardToken \/ \E eos \in BOOLEAN : CommitLast(eos) \/ CommitToken(eos)
  /\ IF committed \in in_flight' THEN UNCHANGED input_batch ELSE remove_request(committed)
  /\ result' = Tail(result)
  /\ UNCHANGED <<decode_cpu, buf_idx, deviceVars, loop, outputs>>

LookDone ==
  /\ loop = "retire" /\ phase = "idle"
  /\ IF dispatched = <<>> THEN end_async_decode ELSE UNCHANGED asyncVars
  /\ loop' = "top"
  /\ UNCHANGED <<runnerVars, outputs, result>>

-----------------------------------------------------------------------------
Step ==
  \/ StepSerial \/ StepBegin \/ StepAsync
  \/ FillSchedule \/ InSchedule \/ Scheduled \/ ScheduleRaises \/ FillDone
  \/ ExecuteOwners \/ ExecuteViews
  \/ ConsumeNothing \/ Consume \/ \E eos \in BOOLEAN : PostprocessRow(eos)
  \/ Look \/ LookNothing \/ LookConsume \/ CommitResult \/ LookDone

Compute ==
  /\ phase = "idle"
  /\ PrepareInputs \/ Forward
  /\ UNCHANGED <<asyncVars, loop, outputs, result>>

Copy ==
  /\ phase = "idle" /\ CopyOutput
  /\ UNCHANGED <<asyncVars, loop, outputs, result>>

EngineNext == (\E r \in Requests : add_request(r)) \/ Step \/ Compute \/ Copy

EngineSpec == EngineInit /\ [][EngineNext]_engineVars

(* generate() calls step() while there is work, and the device executes    *)
(* what is queued on each of its streams.                                  *)
FairEngineSpec ==
  EngineSpec /\ WF_engineVars(Step) /\ WF_engineVars(Compute) /\ WF_engineVars(Copy)

-----------------------------------------------------------------------------
(* Properties                                                              *)

(* Every token appended to a history is the one the model computes from    *)
(* exactly that history: slots, states, KV blocks, staging and output      *)
(* buffers of a batch are not disturbed while it is on its way, across     *)
(* preemption, replay, chunked prompts, completion and lookahead.          *)
OutputCorrect ==
  /\ phase = "post" =>
       \A i \in DOMAIN result :
         LET r == batch.seqs[i] IN
         ~IsPartial(r) => result[i] = <<r, num_tokens[r]>>
  /\ phase = "commit" =>
       \A i \in DOMAIN result :
         status[views[i].seq] # "FINISHED" => result[i] = <<views[i].seq, views[i].num_tokens>>

(* Between two steps the runner holds a slot for exactly the requests the  *)
(* scheduler counts as slot owners when it admits new ones.                *)
SlotsAgree ==
  loop = "top" => {r \in Requests : HasSlot(r)} = SlotOwners

(* The slot search of the runner never fails, and a lookahead view always  *)
(* finds its request's slot.                                               *)
SlotForEveryRow ==
  loop = "execute" =>
    IF Serial
    THEN Cardinality({r \in ToSet(Last(batch_queue).seqs) : ~HasSlot(r)})
           <= Cardinality(FreeSlots(remove_finished(Finished)))
    ELSE \A v \in ToSet(Last(dispatched)) : HasSlot(v.seq)

(* Every request that is added finishes (when each alone fits the pool),   *)
(* whatever arrives after it.                                              *)
EveryRequestFinishes ==
  \A r \in Requests : status[r] = "WAITING" ~> status[r] = "FINISHED"

(* The KV entries of all tokens but the last fit the pool.                 *)
Fits(r) == PromptLen[r] + MaxTokens[r] - 1 <= BlockSize * Cardinality(Blocks)

(* A request whose prompt can never be admitted blocks the queue for good, *)
(* step() raising each time; those that already own a slot still finish,   *)
(* their prompts' further chunks and their replays included.               *)
StartedRequestsFinish ==
  \A r \in {q \in Requests : Fits(q)} : r \in SlotOwners ~> status[r] = "FINISHED"
=============================================================================
