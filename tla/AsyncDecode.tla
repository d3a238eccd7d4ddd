---------------------------- MODULE AsyncDecode ----------------------------
(***************************************************************************)
(* One-batch lookahead: scheduler/async_decode.py on top of the serial     *)
(* scheduler, with begin_async_decode() and end_async_decode() of          *)
(* scheduler.py.                                                           *)
(*                                                                         *)
(* A cohort borrows every running request.  While it lasts, schedule()     *)
(* dispatches views of them, up to two batches deep, before the tokens of  *)
(* the earlier batch are known; postprocess() commits the results in order *)
(* and throws away those computed past the end of a request.  One row of   *)
(* postprocess() is one action.                                            *)
(***************************************************************************)
EXTENDS Scheduler

VARIABLES
  live,         \* the borrowed requests, in order; <<>> when there is no cohort
  pending,      \* [Requests -> views dispatched and not yet postprocessed]
  dispatched,   \* the dispatched batches of views, oldest first
  draining,     \* no further dispatch
  views         \* the views postprocess() has still to do

cohortVars == <<live, pending, dispatched, draining, views>>
asyncVars == <<vars, cohortVars>>

AsyncInit ==
  /\ Init
  /\ live = <<>> /\ pending = [r \in Requests |-> 0]
  /\ dispatched = <<>> /\ draining = FALSE /\ views = <<>>

Serial == live = <<>>

-----------------------------------------------------------------------------
CanBegin ==
  /\ Serial
  /\ waiting = <<>> /\ in_flight = {} /\ running # <<>>
  /\ Len(running) <= MaxNumSeqs /\ Len(running) <= MaxNumBatchedTokens

begin_async_decode ==
  /\ phase = "idle" /\ CanBegin
  /\ live' = running
  /\ running' = <<>>
  /\ in_flight' = ToSet(running)
  /\ pending' = [r \in Requests |-> 0]
  /\ dispatched' = <<>> /\ draining' = FALSE
  /\ UNCHANGED <<waiting, seqVars, blockVars, phase, callVars, driverVars, views>>

-----------------------------------------------------------------------------
(* AsyncDecodeCohort.schedule()                                            *)

(* Mutant: the tokens on their way are not counted against max_tokens.     *)
Optimistic_HasMore(r) ==
  status[r] # "FINISHED" /\ num_completion_tokens(r) < MaxTokens[r]

HasMore(r) ==
  status[r] # "FINISHED" /\ num_completion_tokens(r) + pending[r] < MaxTokens[r]

Ready == Only(live, {r \in Requests : HasMore(r)})

(* The length of the view of r, and the blocks it needs.                   *)
view_tokens(r) == num_tokens[r] + pending[r]
view_blocks(r) == (view_tokens(r) + BlockSize - 1) \div BlockSize

Growing == Only(Ready, {r \in Requests : Len(block_table[r]) < view_blocks(r)})

(* Mutant: no limit on the outstanding views of a request.                 *)
Unlimited_InSchedulableCohort == phase = "idle" /\ ~Serial /\ ~draining

(* Two outstanding views of a request are the limit: a third schedule()    *)
(* raises before it changes anything.                                      *)
InSchedulableCohort ==
  /\ phase = "idle" /\ ~Serial /\ ~draining
  /\ \A r \in ToSet(Ready) : pending[r] < 2

CohortFits == Ready # <<>> /\ Len(Growing) <= Len(free_block_ids)

View(r, table) == [seq |-> r, num_tokens |-> view_tokens(r), block_table |-> table]

(* Mutant: the blocks stay in the deque while the views use them.          *)
Unreserved_async_schedule ==
  /\ InSchedulableCohort /\ CohortFits
  /\ block_table' =
       [r \in Requests |->
          IF r \in ToSet(Growing)
          THEN Append(block_table[r],
                      free_block_ids[CHOOSE k \in 1..Len(Growing) : Growing[k] = r])
          ELSE block_table[r]]
  /\ pending' = [r \in Requests |->
                   IF r \in ToSet(Ready) THEN pending[r] + 1 ELSE pending[r]]
  /\ dispatched' = Append(dispatched,
                          [k \in 1..Len(Ready) |-> View(Ready[k], block_table'[Ready[k]])])
  /\ UNCHANGED <<free_block_ids, queueVars, seqVars, phase, callVars, driverVars, live,
                 draining, views>>

(* Each growing view takes the next free block; every view gets a frozen   *)
(* copy of its table.                                                      *)
async_schedule ==
  /\ InSchedulableCohort /\ CohortFits
  /\ block_table' =
       [r \in Requests |->
          IF r \in ToSet(Growing)
          THEN Append(block_table[r],
                      free_block_ids[CHOOSE k \in 1..Len(Growing) : Growing[k] = r])
          ELSE block_table[r]]
  /\ free_block_ids' = SubSeq(free_block_ids, Len(Growing) + 1, Len(free_block_ids))
  /\ pending' = [r \in Requests |->
                   IF r \in ToSet(Ready) THEN pending[r] + 1 ELSE pending[r]]
  /\ dispatched' = Append(dispatched,
                          [k \in 1..Len(Ready) |-> View(Ready[k], block_table'[Ready[k]])])
  /\ UNCHANGED <<queueVars, seqVars, phase, callVars, driverVars, live, draining, views>>

StartDraining ==
  /\ draining' = TRUE
  /\ UNCHANGED <<vars, live, pending, dispatched, views>>

async_schedule_empty == InSchedulableCohort /\ ~CohortFits /\ StartDraining

(* The engine drains the cohort when a request has arrived.                *)
drain_for_arrival ==
  /\ phase = "idle" /\ ~Serial /\ ~draining /\ waiting # <<>>
  /\ StartDraining

-----------------------------------------------------------------------------
(* AsyncDecodeCohort.postprocess(), in dispatch order                      *)

(* Mutant: the newest batch is committed first.                            *)
Newest_BeginCommit ==
  /\ phase = "idle" /\ ~Serial /\ dispatched # <<>>
  /\ phase' = "commit"
  /\ views' = Last(dispatched)
  /\ dispatched' = Front(dispatched)
  /\ UNCHANGED <<queueVars, seqVars, blockVars, callVars, driverVars, live, pending,
                 draining>>

BeginCommit ==
  /\ phase = "idle" /\ ~Serial /\ dispatched # <<>>
  /\ phase' = "commit"
  /\ views' = Head(dispatched)
  /\ dispatched' = Tail(dispatched)
  /\ UNCHANGED <<queueVars, seqVars, blockVars, callVars, driverVars, live, pending,
                 draining>>

view == Head(views)
committed == view.seq

CommitStops(r, eos) ==
  \/ r \notin IgnoreEos /\ eos
  \/ num_completion_tokens(r) + 1 >= MaxTokens[r]

(* The last outstanding view of a finished request gives back its blocks.  *)
Retire(r) ==
  /\ deallocate(r)
  /\ in_flight' = in_flight \ {r}

CommitRow ==
  /\ phase = "commit"
  /\ pending' = [pending EXCEPT ![committed] = @ - 1]
  /\ views' = Tail(views)
  /\ phase' = IF Tail(views) = <<>> THEN "idle" ELSE "commit"
  /\ UNCHANGED <<waiting, running, callVars, driverVars, live, dispatched, draining>>

(* Mutant: the result of a finished request is appended all the same.      *)
Trusting_DiscardToken ==
  /\ CommitRow /\ status[committed] = "FINISHED"
  /\ num_tokens' = [num_tokens EXCEPT ![committed] = @ + 1]
  /\ IF pending[committed] = 1
     THEN Retire(committed) /\ num_cached_tokens' = [num_cached_tokens EXCEPT ![committed] = 0]
     ELSE UNCHANGED <<blockVars, in_flight, num_cached_tokens>>
  /\ UNCHANGED <<status, num_scheduled_tokens, is_prefill>>

(* The request ended with an earlier result: this one is thrown away.      *)
DiscardToken ==
  /\ CommitRow /\ status[committed] = "FINISHED"
  /\ IF pending[committed] = 1
     THEN Retire(committed) /\ num_cached_tokens' = [num_cached_tokens EXCEPT ![committed] = 0]
     ELSE UNCHANGED <<blockVars, in_flight, num_cached_tokens>>
  /\ UNCHANGED <<status, num_tokens, num_scheduled_tokens, is_prefill>>

AppendToken ==
  /\ num_tokens' = [num_tokens EXCEPT ![committed] = @ + 1]
  /\ num_scheduled_tokens' = [num_scheduled_tokens EXCEPT ![committed] = 0]
  /\ is_prefill' = [is_prefill EXCEPT ![committed] = FALSE]

(* Mutant: a finished request gives its blocks back at once, whatever is   *)
(* still on its way.                                                       *)
Eager_CommitLast(eos) ==
  /\ CommitRow /\ status[committed] # "FINISHED" /\ CommitStops(committed, eos)
  /\ AppendToken
  /\ status' = [status EXCEPT ![committed] = "FINISHED"]
  /\ Retire(committed) /\ num_cached_tokens' = [num_cached_tokens EXCEPT ![committed] = 0]

CommitLast(eos) ==
  /\ CommitRow /\ status[committed] # "FINISHED" /\ CommitStops(committed, eos)
  /\ AppendToken
  /\ status' = [status EXCEPT ![committed] = "FINISHED"]
  /\ IF pending[committed] = 1
     THEN Retire(committed) /\ num_cached_tokens' = [num_cached_tokens EXCEPT ![committed] = 0]
     ELSE /\ num_cached_tokens' = [num_cached_tokens EXCEPT ![committed] = @ + 1]
          /\ UNCHANGED <<blockVars, in_flight>>

CommitToken(eos) ==
  /\ CommitRow /\ status[committed] # "FINISHED" /\ ~CommitStops(committed, eos)
  /\ AppendToken
  /\ num_cached_tokens' = [num_cached_tokens EXCEPT ![committed] = @ + 1]
  /\ UNCHANGED <<status, blockVars, in_flight>>

-----------------------------------------------------------------------------
(* Mutant: the cohort is released with results outstanding.                *)
Early_end_async_decode ==
  /\ phase = "idle" /\ ~Serial
  /\ in_flight' = in_flight \ ToSet(live)
  /\ LET unfinished == Only(live, {r \in Requests : status[r] # "FINISHED"}) IN
     /\ running' = running \o unfinished
     /\ status' = [r \in Requests |->
                     IF r \in ToSet(unfinished) THEN "RUNNING" ELSE status[r]]
     /\ is_prefill' = [r \in Requests |-> is_prefill[r] /\ r \notin ToSet(unfinished)]
     /\ num_scheduled_tokens' = [r \in Requests |->
                     IF r \in ToSet(unfinished) THEN 0 ELSE num_scheduled_tokens[r]]
  /\ live' = <<>>
  /\ UNCHANGED <<waiting, num_tokens, num_cached_tokens, blockVars, phase, callVars,
                 driverVars, pending, dispatched, draining, views>>

(* Mutant: the owners leave in_flight and join no queue.                   *)
Dropping_end_async_decode ==
  /\ phase = "idle" /\ ~Serial
  /\ dispatched = <<>> /\ \A r \in ToSet(live) : pending[r] = 0
  /\ in_flight' = in_flight \ ToSet(live)
  /\ live' = <<>>
  /\ UNCHANGED <<waiting, running, seqVars, blockVars, phase, callVars, driverVars, pending,
                 dispatched, draining, views>>

(* close() refuses to release a cohort that is not drained.                *)
end_async_decode ==
  /\ phase = "idle" /\ ~Serial
  /\ dispatched = <<>> /\ \A r \in ToSet(live) : pending[r] = 0
  /\ in_flight' = in_flight \ ToSet(live)
  /\ LET unfinished == Only(live, {r \in Requests : status[r] # "FINISHED"}) IN
     /\ running' = running \o unfinished
     /\ status' = [r \in Requests |->
                     IF r \in ToSet(unfinished) THEN "RUNNING" ELSE status[r]]
     /\ is_prefill' = [r \in Requests |-> is_prefill[r] /\ r \notin ToSet(unfinished)]
     /\ num_scheduled_tokens' = [r \in Requests |->
                     IF r \in ToSet(unfinished) THEN 0 ELSE num_scheduled_tokens[r]]
  /\ live' = <<>>
  /\ UNCHANGED <<waiting, num_tokens, num_cached_tokens, blockVars, phase, callVars,
                 driverVars, pending, dispatched, draining, views>>

-----------------------------------------------------------------------------
(* While there is a cohort, schedule() and postprocess() are the cohort's. *)
SerialNext ==
  \/ \E r \in Requests : add(r)
  \/ Serial /\ BeginSchedule
  \/ Schedule
  \/ Serial /\ \E i \in 1..Len(batch_queue) : BeginPostprocess(i)
  \/ \E eos \in BOOLEAN : Postprocess(eos)

CohortNext ==
  \/ begin_async_decode
  \/ async_schedule \/ async_schedule_empty \/ drain_for_arrival
  \/ BeginCommit
  \/ DiscardToken
  \/ \E eos \in BOOLEAN : CommitLast(eos) \/ CommitToken(eos)
  \/ end_async_decode

AsyncNext ==
  \/ SerialNext /\ UNCHANGED cohortVars
  \/ CohortNext

AsyncSpec == AsyncInit /\ [][AsyncNext]_asyncVars

-----------------------------------------------------------------------------
(* Properties                                                              *)

Views == Seq([seq : Requests, num_tokens : Nat, block_table : Seq(Blocks)])

(* Every variable keeps its type.                                          *)
AsyncTypeOK ==
  /\ phase \in {"idle", "decode", "prefill", "post", "commit"}
  /\ num_tokens \in [Requests -> Nat] /\ num_cached_tokens \in [Requests -> Nat]
  /\ num_scheduled_tokens \in [Requests -> Nat] /\ is_prefill \in [Requests -> BOOLEAN]
  /\ block_table \in [Requests -> Seq(Blocks)] /\ free_block_ids \in Seq(Blocks)
  /\ status \in [Requests -> {"NEW", "WAITING", "RUNNING", "FINISHED"}]
  /\ live \in Seq(Requests) /\ pending \in [Requests -> 0..2]
  /\ dispatched \in Seq(Views) /\ draining \in BOOLEAN /\ views \in Views

(* The views of r, oldest first, that have been dispatched and not done.   *)
Outstanding(r) ==
  LET all == views \o FlattenSeq(dispatched) IN Only(all, {v \in ToSet(all) : v.seq = r})

(* The views of one request, outstanding or about to be dispatched, are    *)
(* consecutive lengths starting at its committed one, unless it has ended: *)
(* the token a result carries is the next one of the history it is         *)
(* appended to.  This is what the assertion at async_decode.py:74 samples. *)
InOrder ==
  \A r \in Requests :
    /\ Len(Outstanding(r)) = pending[r]
    /\ status[r] # "FINISHED" =>
         \A k \in 1..pending[r] : Outstanding(r)[k].num_tokens = num_tokens[r] + k - 1

(* A dispatched view owns a block for every position it reads or writes    *)
(* for as long as it is outstanding, whether its request still needs the   *)
(* result or has already ended: the blocks stay in the request's table.    *)
ViewsOwnTheirBlocks ==
  \A r \in Requests : \A k \in 1..Len(Outstanding(r)) :
    LET v == Outstanding(r)[k] IN
      /\ v.num_tokens <= Len(v.block_table) * BlockSize
      /\ IsPrefix(v.block_table, block_table[r])

(* Blocks are neither leaked nor shared, those of finished requests with a *)
(* view outstanding included.                                              *)
AsyncBlocksConserved ==
  /\ Distinct(free_block_ids)
  /\ \A r \in Requests :
       /\ Distinct(block_table[r])
       /\ ToSet(block_table[r]) \cap ToSet(free_block_ids) = {}
       /\ \A q \in Requests \ {r} : ToSet(block_table[r]) \cap ToSet(block_table[q]) = {}
       /\ status[r] \in {"NEW", "FINISHED"} /\ pending[r] = 0 => block_table[r] = <<>>
  /\ Blocks = ToSet(free_block_ids) \cup UNION {ToSet(block_table[r]) : r \in Requests}

(* A cohort holds every request that is not waiting, and a finished one    *)
(* stays in flight -- keeping its slot -- exactly until its last view is   *)
(* done; without a cohort every live request has its one serial owner.     *)
CohortOwners ==
  /\ ~Serial =>
       /\ running = <<>> /\ batch_queue = <<>> /\ Distinct(live)
       /\ in_flight = {r \in ToSet(live) : status[r] # "FINISHED" \/ pending[r] > 0}
       /\ in_flight \cap ToSet(waiting) = {}
  /\ Serial => OneOwner /\ dispatched = <<>>

(* No view computes a token past its request's max_tokens.                 *)
WithinMaxTokens ==
  \A r \in Requests : \A k \in 1..Len(Outstanding(r)) :
    Outstanding(r)[k].num_tokens - PromptLen[r] < MaxTokens[r]
=============================================================================
