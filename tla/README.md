# A verification development for nano_qwen

nano_qwen is a small inference engine for hybrid (attention + gated delta net)
Qwen3.5 models.  The TLA+ modules in this directory model the part of it that
decides *what runs when and who owns what*: the scheduler, the block manager, the
lookahead decode cohort, the engine loop with the GPU streams under it, and the
hand-off of requests through the shared-memory cache; and, below it, the gated delta
net layer, whose recurrent state has to come out the same however a request was
batched; the prefix cache of the block manager; the replay of captured prefill
graphs; and the files of a converted checkpoint.  The other layers' numerics,
tokenisation and benchmarks are outside.  Paths below are relative to
`src/nano_qwen/` of the repository.

## 1. The system

| Component | State it keeps | Operations | Talks to |
|---|---|---|---|
| Sequence (`engine/sequence.py`) | token history, counts of cached and scheduled tokens, block table, status | `append_token`, `num_blocks` | read and written by everyone below |
| Block manager (`engine/block_manager.py`) | free deque, used set, reference counts, hash index | `can_allocate`, `allocate`, `deallocate`, `can_append`, `may_append`, `hash_blocks` | called by the schedulers |
| Serial scheduler (`scheduler/scheduler.py`) | `waiting`, `running`, `in_flight` | `add`, `schedule`, `preempt`, `postprocess` | engine, block manager |
| Lookahead cohort (`scheduler/async_decode.py`) | borrowed requests, outstanding views per request, dispatched batches, `draining` | `begin_async_decode`, `schedule`, `postprocess`, `close` | scheduler, block manager, engine |
| Engine (`engine/llm_engine.py`) | `batch_queue` of two, coalescing statistics | `add_request`, `step`, `generate`, `exit` | scheduler, runner |
| Model runner (`engine/model_runner.py`) | request-to-slot map, per-slot GDN state and last token on the GPU, pinned staging and output buffers, events, a compute and a copy stream | `execute_model`, `sample_tokens`, `remove_request` | engine, CUDA |
| CUDA graphs (`engine/cuda_graph.py`) | captured graphs by size, static buffers that they share | `capture_prefill`, `run_prefill`, `run_decode` | runner, layers |
| Gated delta net (`layers/gated_delta_net.py`, `layers/fla/`) | pools of convolution and recurrent states, one row per slot | `reset_state`, `_forward_prefill`, `_forward_decode`, five chunk kernels | runner |
| Other layers and models (`layers/`, `models/`) | KV cache | `forward` | runner |
| Shared-memory store (`cache/lmcache_shm.py`, `shm_service.py`, `shm_protocol.py`) | objects with leases, owners, a byte budget | `allocate`, `commit`, `abort`, `acquire`, `release`, `delete`, reaping of dead owners | connectors in other processes |
| Connector and hand-off (`cache/shm_connector.py`, `tensor_ops.py`, `engine_ops.py`, `state.py`) | leases held by this process | `prefill_to_cache`, `resume_from_cache`, `restore` | store, engine |
| Loading and quantization (`utils/loader.py`, `quantization/`) | shards, index, `config.json`, metadata file | `convert_checkpoint`, `load_model` | file system, configuration |
| Configuration (`config/config.py`) | -- | validation | everyone |

**Where it is hard.**  The host runs up to two batches ahead of the device.  A
request whose batch is outstanding must not be scheduled again, must keep its KV
blocks and its recurrent-state slot, and must not be touched by the preemption of
another one; when a result finally arrives it must still mean what it meant when it
was dispatched.  Slots outlive dispatches, so admission has to count requests that
are in none of the obvious queues.  Blocks are exhausted in the middle of a
schedule, and the way out (preemption, moving a prompt that already holds blocks to
the front) must neither deadlock nor give up too soon.  With lookahead a request
can end while a batch computing its next token is still on its way.

**What makes each component correct.**

* Scheduler: a live request has one owner; a result is applied once; slots are never
  oversubscribed; it raises only when a request can never fit, and never returns an
  empty batch while there is work and nothing outstanding.
* Block manager: blocks are neither leaked nor shared; every position a batch
  touches lies in a block of its request.  With prefix caching: a hash leads only to
  the text it was computed from, a block is free exactly when nobody reads it, and
  nobody writes into a block that another request reads.
* Cohort: results are committed in order to the history they continue; a finished
  request's history never changes; blocks are held until the last view retires.
* Engine and runner: the token appended to a history is the one the model computes
  from exactly that history; slots and buffers are not reused too early; every
  request that fits finishes.
* Gated delta net: slot state and outputs are those of the token-by-token recurrence,
  whatever shared the batch, whoever had the slot, and whether a prompt was cut inside a
  chunk or between two; in a quantised layer, as long as cuts fall between chunks, they
  are the same to the bit.
* CUDA graphs: a replay returns what the model returns without graphs, whatever the
  shared buffers held before.
* Store and hand-off: a reader sees only committed bytes; a request is continued in
  at most one place; space comes back when a process dies; an engine keeps no block
  and no slot of a transfer that failed.
* Loading and quantization: a checkpoint recognised as FP8 is complete; a quantised
  model that loads has every one of its own tensors.

## 2. Modules

| Module | Models | Extends |
|---|---|---|
| `Queues`, `Config` | deque idioms; the parameters, with their assumptions | -- |
| `Generation` | what a caller is promised: tokens one by one, an end, nothing after it | `Config` |
| `Scheduler` | serial scheduler, sequence fields, blocks without prefix caching | `Config` |
| `AsyncDecode` | lookahead cohort | `Scheduler` |
| `ModelRunner` | slots, staging and output buffers, streams, the device's state | `Config` |
| `Engine` | `step()`, both of its paths, over all of the above | `AsyncDecode`, `ModelRunner` |
| `ShmStore` | catalogue of the shared-memory service | -- |
| `Handoff` | prefill and decode processes, connector, network, arena, the blocks and slot of a transfer | `ShmStore` |
| `PrefixCache` | the block manager with prefix caching, under any scheduling policy | `Queues` |
| `CudaGraph` | replaying piecewise prefill graphs; the eager model they stand for | -- |
| `Checkpoint` | the converter, the directory it fills, and a process that loads from it | -- |
| `DeltaRule` | the token-by-token recurrence, which is also the decode kernel | -- |
| `ChunkScan` | the chunk kernels, each an operator on the tensors it reads | `DeltaRule` |
| `GatedDeltaNet` | the layer: pools, forwards, kernel launches, the state kernel's programs | `ChunkScan` |
| `MC*` | values of the constants for TLC | one each |
| `QueueLemmas` | lemmas about the operators of `Queues`, induction by counting | `Queues` |
| `SchedulerProofs` | proofs about `Scheduler`, in six layers | `Scheduler`, `QueueLemmas` |
| `AsyncProofs` | proofs about `AsyncDecode` | `AsyncDecode`, `SchedulerProofs` |
| `EngineProofs` | proofs about `Engine` and its runner: the slots, and the tokens on their way | `Engine`, `AsyncProofs` |
| `HandoffProofs`, `PrefixCacheProofs`, `CheckpointProofs`, `CudaGraphProofs` | proofs about the module each is named after | that module |

A definition named `Adjective_name` is a variant of `name` with a plausible bug.
No behaviour uses it; it is there to see that the property it is written for would
notice.

### `Scheduler`

One action per loop iteration of `schedule()` and per row of `postprocess()`; the
variable `phase` says which loop the single engine thread is in.

| Code | TLA+ |
|---|---|
| `waiting`, `running`, `in_flight` | the same names; sequences and a set of requests |
| fields of `Sequence` | functions on `Requests` |
| `free_block_ids`, `seq.block_table` | sequence of blocks, function to sequences |
| `add` | `add(r)` |
| `schedule` 49-72 | `BeginSchedule` |
| decode loop 75-92 | `DecodeRow`, `DecodePreempt`, `DecodeDone` |
| prompt loop 96-143 | `PrefillPromote`, `PrefillContinuation`, `PrefillRow`, `RaiseExhausted` |
| return 145-150 | `Return`, which also dispatches a non-empty batch |
| `postprocess` | `BeginPostprocess`, then `PostPartial`, `PostFinish` or `PostContinue` per row |

The driver is arbitrary: any number of batches may be outstanding and their results
may be handed back in any order, which is more than the engine does (two, oldest
first).  Token values are abstracted to one bit, whether EOS was sampled.

### `AsyncDecode`

The cohort borrows all requests of `running`; they sit in `in_flight` until it ends.
A dispatched row is a *view*: a copy of the request with its history extended by
tokens that are still on the device.  `async_schedule` (22-61) dispatches one view
per request that still needs a token; when blocks run short or a request arrives it
starts draining instead.  `postprocess` is one action per row, in its three outcomes:
`DiscardToken` (the request ended already, more views outstanding), `CommitLast`
(last view of a request that ended), `CommitToken`.  `end_async_decode` gives the
unfinished requests back.

### `ModelRunner`

The device's data is reduced to its provenance: `<<r, p>>` is "the token at position
p of the only right history of r".  A forward whose inputs -- input token, slot
state, KV entries of all earlier positions -- are not exactly those of the row's
history produces `Wrong`, and everything computed from that is `Wrong` too.  The
host's `execute_and_sample` queues a *prepare* and a *forward* on the compute
stream; `PrepareInputs`, `Forward` and `CopyOutput` are the device's own steps, in
stream order, with the copy stream beside them.  Pinned staging (`decode_cpu`) and
the two output buffers are read when the device gets to it, not when the host queued
the work.  CUDA's stream and event semantics are external.

### `Engine`

`step()` with its serial path (`_step_serial`: fill the queue of two, then consume
the oldest) and its lookahead path (`_step_async_decode`).  `loop` is where the host
is; the device may run between any two host steps.  Decode
coalescing -- nothing more is scheduled while queued batches hold decode rows -- is
`QueuedDecode`; only its statistics are left out.  The second copy of the stop condition
in `step()` is `Departs`.

### `ShmStore` and `Handoff`

Every store operation holds the service's lock, so each is an action, and each
starts with `_reap()`, which is `Reaped`.  A process death is visible to the store at
once (`pidfd`); that nobody polls is modelled by reaping only inside operations.
The TTL is a choice: any ready snapshot may be old.

A call of the connector is a message.  The service is a `ThreadingHTTPServer`, so a
message may be handled at any later time, in any order, after its sender gave up or
died, or never; the reply may be lost (`NoAnswer`), which the caller cannot tell from
a refusal.  Every statement of `prefill_to_cache` and `resume_from_cache` that can
raise has its failure action.  A copy to the arena is visible in parts
(`CopyPart`), and the GPU goes on writing after the host gave up, until a
synchronize.

The engine's side is `held`: what a process keeps for the request, blocks and a slot.
`prefill_to_cache` gives them back with the commit; `resume_from_cache` rejects a
payload (`Rejected`), takes blocks (`PlaceBlocks`) and a slot (`AssignSlot`), and every
later failure undoes what had been taken.  `held` is a set: that a slot given back by
`restore()` is given back once more by its caller (`tensor_ops.py:122`) does not show, nor
would a block table freed twice; in the code both find nothing left (`InputBatch.remove`
and `deallocate` forget what they release).

### `PrefixCache`

A hash is an xxhash of a block's tokens chained with the hash of the blocks before
it; here it *is* that text, so that two prefixes hash alike only if they are alike.
The KV of a position is likewise the text up to it, written by `Forward`, which runs
some time after the dispatch, and the properties compare it with the history of
whoever reads it.

| Code | TLA+ |
|---|---|
| `Block.ref_count`, `.hash`, `.token_ids` | `ref_count`, `hash`, and `block_tokens`, the end of the hash |
| `free_block_ids`, `hash_to_block_id` | a sequence, from whose middle a cached block is taken; a function of texts |
| `can_allocate`, `allocate` | `num_cached_blocks`, `can_allocate`, `allocate` in `Admit` |
| `deallocate` | in `Preempt` and `PostFinish` |
| `may_append`, `hash_blocks` | in `Decode`; first thing in `PostRow` |

The scheduler is any policy: whatever can be admitted, continued, decoded or preempted
may be, which covers `Scheduler`'s queues, budget and slots.

### `CudaGraph`

A graph is captured on the static buffers' first `graph_size` rows, and from then on
reads and writes exactly those.  `Pre` and `Post` are a refill and a replay; the
attention core between them runs eagerly on the rows of the batch.  One row of hidden
states is a number modulo `P`, one operator for each kind of dense work, not linear
where the code is not, so that a row that is stale, shifted, or of another layer shows
in the result.  `forward` is `Qwen3_5Model.forward`, written from `qwen3_5.py`, and is
what the replay is compared with.

### `Checkpoint`

| Code | TLA+ |
|---|---|
| the destination directory | `dir`: shards, `config.json`, metadata file, index, each absent, partial or whole |
| the loop of `convert_checkpoint` | `Take`, `Collect`, `Flush`, `Saved` |
| its end, 146-172 | `ShardsDone`, `CopyConfig`, `WriteIndex`, `WriteMarker` |
| an exception, or a process that dies | `Interrupted`, anywhere |
| `Config.__post_init__` | `ReadConfig` |
| `load_model`, `_load_fp8_model` | `LoadModel`, `List`, `Validate`, `Validated`, `Copy`, `LoadPlain`, `Loaded` |

A shard may end before any tensor, in particular between a weight and its scale; that
stands for every `--shard-mib`.  A file is written in two steps.  A stopped conversion
leaves the directory as it is, and an operator may empty it and start another one, of
either scheme, at any moment of a process that is loading.

`_load_fp8_model` opens the shards a second time to copy, and does not validate again
(`utils/loader.py:99-108`).  If the directory was emptied and refilled between two of
those copies, a model can load with the weight of a projection quantised by one scheme and
its scale by the other, without an error: TLC finds a behaviour of 29 states once
`LoadedIsConverted` is stated without its exception.  `ld.torn` is a history of that: it
is set by `Emptied` during the copy and read by the property only.  Every other place a
conversion may come in between is harmless.  The repository does not say that the
directory of a loading process may be replaced, so this is no finding.

### `DeltaRule`, `ChunkScan` and `GatedDeltaNet`

The chunk form of the rule (a triangular solve inside each chunk, a scan between
chunks) is algebraically equal to the recurrence, and it is the algebra that the
index arithmetic of five kernels can get wrong: masks, chunk tables, boundary checks,
offsets.  So numbers are residues modulo a prime, where equality is exact; log gates
stay integers `<= 0` and `exp` is a power of `DecayRoot`, so that `safe_exp`, which
cuts off positive exponents, means what it means in the code.  Casts to the pool's
and the keys' dtype are the constants `ToPool` and `ToKey`: the identity where the
recurrence is the reference, and a lossy map where the question is which casts happen.

| Code | TLA+ |
|---|---|
| `conv_states`, `recurrent_states` | the same names, functions on slots |
| `reset_state`, and the runner's call of it | `reset_state` in `Admit` |
| `_forward_prefill` up to the core | `ForwardPrefill` (`padded_qkv`, `packed`) |
| `_prefill_core` | `PackedCall`, or `RowCall` and `MixedDecodeRow` row by row when `StableGates` |
| `chunk_local_cumsum`, `chunk_gated_delta_rule_fwd_intra`, `recompute_w_u_fwd` | `StartCall`, `KktSolve`, `RecomputeWU` |
| state kernel, one program per row | `LoadState`, `ScanChunk`, `StoreState`, in any interleaving |
| `chunk_fwd_o` | `ChunkOutput` |
| rest of `_forward_prefill` (`new_conv`) | `EndPrefill` |
| `_forward_decode` | `ForwardDecode` |

A piecewise-captured prefill runs the same core, so there is one.  The rows the layer
is called with are what `prepare_prefill` and `prepare_decode` build: distinct slots,
each row the next tokens of its slot's request.  Texts are fixed per request, so a
decode row's token is given, not sampled.  Positions count from one.  Left out: heads
(independent programs), the tiling of K and V (partial sums of the same sum), the `gk`
path (no caller), and the projections and the norm around the core.

## 3. Runs

| Run | Instance | What it shows |
|---|---|---|
| `scheduler` | 5 requests, 3 slots, 6 blocks of 2 tokens, one that outgrows the pool and one that never fits | ownership, block conservation, coverage and refinement under preemption, replay and cut prompts; admission stays within the slots; prompts never displace a ready decode row; "KV cache exhausted" is raised when nothing can free a block and only then |
| `async_cohort` | 3 requests, 5 blocks, 2 slots | lookahead: order, ownership, limits, and the same `Generation` |
| `engine_serial` | 3 requests, 5 blocks, 2 slots, device behind the host | every token is computed from the history it is appended to; all requests finish |
| `engine_async` | the same with lookahead | the same, with cohorts that begin, drain and end; slots agree |
| `engine_stuck` | 3 blocks, a prompt that never fits | what has started still finishes although every `schedule()` raises |
| `handoff_lossy` | 1 producer, 2 consumers, 1 extent, 4 leases | one live process decodes a payload; an ACK can be repeated; nothing unfinished is readable; an extent under a live mapping or a running copy is nobody else's; engines give back what a failed transfer held |
| `handoff_kept` | 1 producer, 1 consumer | **violated**: see Findings |
| `gdn_wide` | chunks of 16 in sub-chunks of 4, prompts of 18 and 3 tokens fed in pieces of 1, 6, 13, 16 or the rest, an unquantised layer, whose decode rows are packed with prompts | pools and outputs are those of the recurrence |
| `gdn_rounded` | chunks of 4, prompts of 10 and 3 tokens, cut at chunk boundaries only, casts that drop a bit, decode rows of a mixed batch through the decode kernel | batching, and cutting between chunks, change no number of a quantised layer |
| `prefix_cache` | 4 prompts that share prefixes or whose text is another's second block, 4 blocks of 2 tokens | a hash leads to computed text only; reference counts are exact; nobody writes into a shared block |
| `checkpoint` | one weight that is kept, one that is quantised | what is recognised as FP8 is complete; what loads as quantised is whole, and of its own scheme unless the directory was emptied during the copy |
| `graphs` | 3 layers, 2 of one type, buckets of 2 and 4 | a replay returns what the eager model returns |

**Bounds.**  Blocks of two tokens (a multiple of 256 in the code) make every boundary case of `len % block_size`
appear within three tokens.  Pools are one or two blocks short of what the requests
need together, so that preemption, promotion and replay all happen.  Requests end, so
the state space is finite without further bounds; `Scheduler`'s outstanding batches
are bounded by the number of requests.  The remaining bounds are named constants:
`LastToken`, the leases handed out in a behaviour (four are a write, two reads given
back or taken over, and one more), and `ReceiptLimit`, which is 2 instead of 1024 so
that receipts are in fact evicted: within four leases the receipt of an
acknowledgement still being retried is never among those, as it is not in the code
within 1024 releases.  `Blocks` is symmetric where no order of blocks is used
(invariants, action properties and refinement); the liveness runs have no symmetry.

In `prefix_cache` four blocks are too few for all prompts at once, so that preemption
happens and a freed block is both taken back by its hash and
overwritten by other text.  In `checkpoint` two weights are three converted tensors: a
weight alone, a weight and its scale, in one shard or up to three, in either order; a
second weight of a kind would be another independent name and multiplies the states by
hundreds.  In `graphs` buckets of two and four give a batch that fills its bucket, one
that is filled up by one row, and one that leaves the last rows of a larger call
behind; two of the three layers share the buffer of their projections, the third has
its own, and there is a first layer (no residual), an inner one and a last.  `P` = 11,
and cubing is a bijection modulo 11, so that the final norm hides no wrong row.

In the layer's runs a chunk is four sub-chunks of `BC` = 1 or 4 rows (64 and 16 in
the code): 1, in `gdn_rounded`, leaves the substitution inside a sub-chunk empty and
makes the merging of the four the whole solve; 4, in `gdn_wide`, is the least at which the substitution's loop, which
starts at the third row, has two rounds.  Eighteen tokens are a full chunk and a
partial one.  The pieces of `gdn_wide` (1, 6, 13 and 16 tokens, or the rest) put cuts after
the first token, inside both chunks and between them; those of `gdn_rounded` are multiples
of the chunk, as in
`tests/test_quantization.py:492`: the scheduler cuts a prompt wherever the token budget ends
(`scheduler.py:137`), a quantised layer then rounds its state inside a chunk, and that the
result is still the same to the bit nobody promises and no run claims.  Only in a
quantised layer (`StableGates`) does a mixed batch alternate the decode and the chunk
kernels, so only `gdn_rounded` shows that; in `gdn_wide` all rows of a mixed batch go
through the latter.
`SplitSizes`, `MaxRows`, `MaxBatchTokens` and `MaxAdmissions` bound the
batches; three admissions to two slots reuse one.  `P` = 19 has 2 as a primitive root;
a wrong term shows unless it happens to vanish modulo 19 in every behaviour.

**Deadlock** is an error in the layer's runs (all that came has run to its end, or
something can happen) and in the scheduler, cohort and engine runs: a step can
always be called, with or without work.  In the `Handoff` runs it is not, as all
processes may have died or ended and the bound on leases may be used up.  In the runs of
`PrefixCache`, `Checkpoint` and `CudaGraph` it is an error as well.

**Fairness** (`Engine`).  `WF(Step)`: `generate()` calls `step()` as long as
`is_finished()` is false, and a thread that can run does.  `WF(Compute)` and
`WF(Copy)`: the device executes what is queued on each stream.  Nothing is assumed
about arrivals, about EOS, or about which action inside a step comes next.  The layer's
model states no liveness: its launches are the ones `Engine` calls one forward.  The store
and the hand-off get no fairness: nothing in the code obliges a process to retry, or
anybody to call the service, so no liveness is stated of them; nor of a conversion,
which may stop for good.

## 4. Findings

* **A lost commit receipt leaves the request in two places** (`handoff_kept`).
  `commit` is carried out by the store but its answer does not arrive.
  `prefill_to_cache` aborts; the store refuses (the entry is `ready`), the refusal is
  swallowed, and the call raises with the request still in `scheduler.running`, where
  the producer goes on decoding it, as `tests/test_lmcache_pd_shm.py:170-181` wants of
  a failed commit.  The same test asserts that the store is then empty; it is not,
  and a consumer can resume the same request.  `commit` is idempotent for its token,
  so repeating it would settle the question.

A smaller divergence has no run of its own: `layers/fla/chunk.py:102` says of the
returned `h` that "``h[:, -1]`` is the final state".  `chunk_delta_h.py:154-158` stores
the state that *enters* each chunk, as `ScanChunk` does; the final state goes to the
pool only.  No caller in the repository reads `h`.

Two things met on the way contradict nothing the repository says, and are listed as
hazards without a property.  A per-channel conversion that dies after copying
`config.json` and before writing its metadata leaves a directory that loads, as an
unquantised model: the FP8 weights are copied and their scales ignored as unknown names
(`LoadPlain`).  And `execute_model` raising leaves the rows of its batch in `in_flight`
for good.

## 5. Proofs

Every theorem holds for all values of the constants that satisfy the named assumptions
of its module; `PROJECT.json` lists the theorems.  The assumptions say that the sets are
finite, sizes are positive, every request has a prompt and at least one token to generate.
(The code guarantees the block size, `config.py:55`; `max_tokens = 0` is not rejected by
the code, and the serial loop would not stop.)

**`SchedulerProofs`** is in layers, each inductive relative to those before it:

1. `TypeInv` = `TypeOK`, `PhaseOK`, `Progress`.  A scheduled chunk is a number only
   because no counter passes the length of the history, and a row is taken from the
   batch in hand only because the phases say there is one.
2. `Ownership` = `OneOwner`, `OneRowPerFlight`.  Neither is inductive alone: a result
   gives its request an owner, and that is its only one because a request in flight
   is in one row and in no queue.
3. `BlocksConserved`, given the first two: an action takes blocks from the head of the
   free deque or puts those of one table back at its tail, and tables belong to live
   requests.
4. `PolicyInv` = `Untouched`, `SlotsBounded`, `ActiveOK`, `DecodeLoopLeft`.
   `SlotsBounded` needs `ActiveOK`: during a call `active_ids` covers the slot owners
   and stays within the slots.  `NoStall` and `DecodeFirst` need `DecodeLoopLeft`:
   when the prompt loop runs, no further decode row could join the batch.
   `NoSpuriousExhaustion` follows because, when the code raises, nothing runs or is in
   flight and no waiting request has a table, so that by conservation the pool is
   whole.
5. `Coverage`: for each place a request can be in, how its counters relate to its
   table, and that a batch not marked as prefill has decode rows only; `KVCovered`
   follows.  `InFlightFrozen` needs the first four layers only.
6. `SchedulerRefinesGeneration`: every step of `Scheduler` is a step of `Generation`
   or leaves it alone, from `TypeInv`, `Ownership` and `TokensLeft` (a request that
   has not ended has a token left to generate).

**`AsyncProofs`** puts the cohort on top of them.  `AsyncInv` is a case distinction.
Without a cohort (`NoCohort`) the serial invariants hold and the cohort's variables are
empty.  With one (`CohortInv`) the serial scheduler stands still (`Still`): nothing is
waiting that has a table, and everything borrowed is in flight.  Then

* at most two batches are outstanding, none is empty, and a request has at most one view
  in each (`Shape`); it has one in *every* batch until it is finished or done
  (`InEveryBatch`), so that there is never a third view of a request;
* the number the cohort counts for a request is the number of its views (`Account`), and
  the views continue its history one after the other, within its blocks and its tokens
  (`OnItsWay`).  A finished request's views are exempt from continuing, not from the rest.

`ViewsAreInOrder`, `ViewsKeepTheirBlocks`, `ViewsWithinMaxTokens` and
`CohortOwnersAlways` are read off; `AsyncBlocksAlways` is conserved beside it.  The step
that matters is `end_async_decode`: it has to give back a state in which all six serial
layers hold, which is where "no view is outstanding" is used.  `CohortRefinesGeneration`
names what a step may do to the abstract state: nothing, a request more, tokens more, or
an end.

**`EngineProofs`** has two parts.  The first proves that the runner's slots and the
scheduler's count of them agree.
`EngineIsAsync` shows every step of `step()` to be a step of `AsyncSpec` or none, so that
`AsyncInv` holds here too.  `EngineInv` adds to it

* where `step()` can stand, and what the schedulers are doing then (`LoopOK`);
* that a request which decodes has a token, and a row in flight computes one (`Worked`):
  this is why a request that is preempted, or whose prompt goes on, still counts as the
  owner of the slot it keeps;
* that no request has two slots (`OneSlot`), and that the users of slots are owners, all of
  them except the rows of the batch being scheduled or about to be executed (`SlotsHeld`);
* that a slot holds a view, not the request, once a view of that request has been executed
  and its result is outstanding, or the request has ended (`ViewSlots`): so that
  `remove_finished()` never takes the slot of a request which is to leave only with the last
  of its results.  It follows that it removes nothing at all (`NoneToRemove`): `step()` has
  taken every request that ends out of the runner by name.

`SlotsAgreeAlways` is this between two steps.  `SlotForEveryRowAlways` counts: users and free
slots together are `max_num_seqs` (`SlotCount`), owners are no more (`SlotsBounded`), and the
rows without a slot are owners that use none.  `Updated` says what `update()` does when the
slots suffice, one row after the other.  The proofs assume that the mark of a vacant slot is
not a request (`NoneAssumption`); in the code it is `None`.

The second part proves `OutputCorrectAlways`: the token appended to a history is the one
computed from exactly that history.  The property looks at one result being consumed.  What
makes it so happened up to two batches earlier, and the device may have done none, some or
all of it since; `PipeInv` says what is true in between.  Its measure is `Landed(r, k)`: how
far `r` is when the result being consumed and the first `k` outstanding batches are counted.
At most two batches are outstanding, numbered from the oldest; the oldest `Done` of them have
landed.  Then

* the handles, the scheduler's queue and the two output buffers are in step (`Handles`),
  although a batch is queued before it is executed;
* the compute stream holds a suffix of the outstanding batches, at most one preparation
  among them and only the newest one's, because the host waits for the one before
  (`StreamOK`); the pinned staging is that of the preparation to come, the device's copy that
  of the decode forward to come (`StagingOK`);
* for every request that has not ended, the cache holds its first `Landed(r, Done)` positions
  in the blocks of its table, its slot holds the state after them, and the token buffer
  holds the token that follows, unless a preparation is going to put it there (`DeviceOK`);
* a landed batch's tokens are in the copy that waits or in the buffer its handle names
  (`OutputsOK`), and those taken from there are what the property says (`ResultOK`);
* no table has a block to spare (`TightOK`): a decode row is given the *last* block of its
  table, which is its position's block only for that reason; and a decode row in flight
  computes one token (`DecodeOK`).

`RowOK` derives from these what the model relies on in a row: it goes on exactly where the
batches before it leave its request.  `RowIsRight` is the heart of the device's part: when
its turn comes, a row of a request that has not ended finds every input right.  The host's
steps all leave the stream alone except `execute_model()`; `HostStep` treats them at once,
given what the step does to one request (`SameProgress`): it keeps what has been computed,
with at most one token more of its history known, or it makes a request without outstanding
batches start over.  `TakeStep` moves the numbering when the oldest batch is taken,
`PostprocessOnly` and `CommitOnly` append the token, and `ExecuteOnly` adds a batch: a
request that gets a slot has computed nothing, so that its slot's leftovers are reset.  TLC
found `PipeInv` to hold in every state of the three runs of `MCEngine` before it was proved.

**`HandoffProofs`**.  `HandoffInv` says, beside types, what each place of a process means
for its lease (`Local`), that every lease is backed by an entry with its extent
(`Backed`) and no two leases have one token (`Apart`), what each message on its way may
claim (`Mail`) although it may be handled at any later time, and what the bytes of each
extent are (`Contents`).  `LeasesBacked`, `SnapshotsWhole`, `EnginesGiveBack` and
`StoreTypeCorrect` follow.  `DecodedOnce` is a second layer, about consumers of one entry.
`AcksRetriable` needs a third, the order in which receipts were given and evicted, and
one hypothesis, `LastToken <= ReceiptLimit`: as many receipts are kept as tokens are
given out.  Without it the property is false: a release acknowledged 1024 releases ago
has no receipt, and repeating it is an error.

**`PrefixCacheProofs`**.  `PrefixInv` relates the reference counts, the index and the free
list (`RefCountsExact`, `IndexOK`), what is on its way to the device (`LaunchOK`), the
text a hashed block holds or is about to hold (`HashedKV`), and, for each row, its place,
its chain of hashes and what has been written of it (`Rows`).  That a row that was found
to fit does fit, with cached blocks leaving the middle of the free list while others are
taken from its head, is a pigeonhole argument (`RoomForRest`).

**`CheckpointProofs`** proves `RecognizedIsComplete` for any finite sets of
weights (`LayersAssumption`).  The property says nothing of a conversion that runs, so
the invariant, `CheckpointInv`, adds what is on disk at each place of it: the tensors due
so far are in the index, collected, or about to be, each in one of the three
(`Accounted`); shards are numbered without gaps, so that `len(set(index.values())) + 1`
is a new name (`Numbered`); a shard holds what the index says (`Indexed`); and no marker
is there before the rest is (`Files`, `AllStored`).  `LoadedConverted` is about the other
process, which reads that directory at its own pace while it is emptied and filled again
at any moment: `LoaderInv` adds that a directory holds tensors of one scheme only
(`OneScheme`), and what the loader has established of what it is about to copy
(`Validating`, `Copying`).  What has been copied is still in the directory unless it was
emptied, and then the names of the scales give the scheme away (`AllOfOneScheme`); if it
was, each tensor by itself is of a scheme that has its name (`OnlyWeightsDiffer`).

**`CudaGraphProofs`** proves `ReplayIsEager` for any number of layers, any sharing of
buffers, any buckets and any operators for the dense work.  `GraphInv` says that buffers
keep their length and that after each `Pre` and `Post` the rows of the batch are
what the eager model computes up to that layer (`Replaying`); rows beyond them may hold
anything.

A recursive *function* whose argument is counted up can be reasoned about by the
well-foundedness of `<` on its range (`CountUp` in `QueueLemmas`), which is how the
filter of `Queues`, the slots given to a batch and the eager model's layers are unrolled.

**Only model-checked**: the three properties of `GatedDeltaNet`, which compare the chunk
form with the recurrence, an induction over sums and products of data that is out of the
provers' reach; and all liveness, which is beyond them altogether.

## 6. Not modelled

* Hash collisions in the prefix cache: the code compares the tokens of one block, not
  of the chain before it, and relies on 64 bits for the rest.
* CUDA graph capture, which is driver behaviour, and the decode graph: it runs only at
  a batch size it was captured for, with every input refilled, so that nothing of an
  earlier call can remain.
* The numerics of the layers and of quantisation; rounding in the chunk kernels beyond
  the two casts.
* Two conversions at once into one directory, and the comparison of tied heads.
* `delete_after_restore=False`, an interrupt during the acknowledgement, and a service
  restart in the hand-off.  A process whose `prefill_to_cache` raised is not followed
  further.
* Tensor parallelism (not supported with the hybrid models), tracing, tokenisation.

## 7. Plan

1. `delete_after_restore=False` and a restart of the service in `Handoff`.
2. The sharing of `PrefixCache` under the whole `Scheduler`, in place of the policy
   that drives it.
