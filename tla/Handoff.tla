------------------------------ MODULE Handoff ------------------------------
(***************************************************************************)
(* The hand-off of one request at a time from a prefill process to a       *)
(* decode process, through the store of ShmStore: cache/tensor_ops.py over *)
(* the connector cache/shm_connector.py and the control service            *)
(* cache/shm_service.py.                                                   *)
(*                                                                         *)
(* A call of the connector is a message that the threaded server may       *)
(* handle at any later time, also after the caller gave up on it; its      *)
(* reply may be lost.  The caller cannot tell a refusal from a lost call.  *)
(* The payload does not travel: it is in the arena, mem, which both sides  *)
(* map, and a copy to it is seen in parts.  A payload is known by the      *)
(* write token it was copied under.                                        *)
(***************************************************************************)
EXTENDS ShmStore

CONSTANTS Producers, Consumers   \* the processes that prefill, and that decode

ASSUME HandoffAssumption == Producers \subseteq Procs /\ Consumers \subseteq Procs

VARIABLES
  pc,      \* where each process is
  key,     \* the transfer it works on
  lease,   \* its TensorLease; mapped: the lease has tensor views
  dma,     \* the extent its GPU still writes to
  got,     \* the payload it restored, and decodes from
  held,    \* what the request has in its engine: blocks, a slot, a place in running
  mem,     \* the arena
  net,     \* calls not handled yet
  inbox    \* the reply a waiting process can see

procVars == <<pc, key, lease, dma, got, held>>
vars == <<storeVars, alive, procVars, mem, net, inbox>>

Silence == [kind |-> "none", token |-> NoToken, extent |-> "none"]
NoLease == [token |-> NoToken, extent |-> "none", mapped |-> FALSE]
All == {"blocks", "slot", "running"}
Waiting == {"allocating", "committing", "aborting", "acquiring", "acking", "unlocking"}
Decoding == {"acking", "unacked", "running"}

HandoffInit ==
  /\ StoreInit
  /\ pc = [p \in Procs |-> "idle"]
  /\ key = [p \in Procs |-> "none"]
  /\ lease = [p \in Procs |-> NoLease]
  /\ dma = [p \in Procs |-> "none"]
  /\ got = [p \in Procs |-> NoToken]
  /\ held = [p \in Procs |-> {}]
  /\ mem = [x \in Extents |-> [token |-> NoToken, whole |-> TRUE]]
  /\ net = {}
  /\ inbox = [p \in Procs |-> Silence]

-----------------------------------------------------------------------------
(* Calls.                                                                  *)

Send(p, op, k, token, delete) ==
  net' = net \cup {[from |-> p, op |-> op, key |-> k, token |-> token,
                    delete |-> delete, awaited |-> TRUE]}

(* _request(): the client thread does the first three, the service Serve.  *)
Goto(p, at) == alive' = alive /\ p \in alive /\ pc' = [pc EXCEPT ![p] = at]

Return(p) ==
  /\ Goto(p, "idle")
  /\ key' = [key EXCEPT ![p] = "none"]
  /\ lease' = [lease EXCEPT ![p] = NoLease]

Holds(p, resources) == held' = [held EXCEPT ![p] = resources]

Hear(p, kind) == inbox[p].kind = kind /\ inbox' = [inbox EXCEPT ![p] = Silence]

NoAnswer(p) ==
  /\ pc[p] \in Waiting /\ p \in alive
  /\ inbox' = [inbox EXCEPT ![p] = Refused]
  /\ net' = {[m EXCEPT !.awaited = @ /\ m.from # p] : m \in net}
  /\ UNCHANGED <<storeVars, alive, procVars, mem>>

Serve(m) == \E reply \in Replies :
  /\ CASE m.op = "allocate" -> allocate(m.key, m.from, reply)
       [] m.op = "commit"   -> commit(m.key, m.token, reply)
       [] m.op = "abort"    -> abort(m.key, m.token, reply)
       [] m.op = "acquire"  -> acquire(m.key, m.from, reply)
       [] m.op = "release"  -> release(m.key, m.token, m.delete, reply)
  /\ net' = net \ {m}
  /\ inbox' = IF m.awaited THEN [inbox EXCEPT ![m.from] = reply] ELSE inbox
  /\ UNCHANGED <<alive, procVars, mem>>

Housekeeping ==
  /\ health \/ \E k \in Keys, reply \in Replies : delete_snapshot(k, reply)
  /\ UNCHANGED <<alive, procVars, mem, net, inbox>>

(* The process exits, with whatever its GPU was doing; what it asked stays *)
(* on the way.                                                             *)
Crash(p) ==
  /\ p \in alive
  /\ alive' = alive \ {p}
  /\ pc' = [pc EXCEPT ![p] = "dead"]
  /\ lease' = [lease EXCEPT ![p] = NoLease]
  /\ dma' = [dma EXCEPT ![p] = "none"]
  /\ inbox' = [inbox EXCEPT ![p] = Silence]
  /\ net' = {[m EXCEPT !.awaited = @ /\ m.from # p] : m \in net}
  /\ key' = [key EXCEPT ![p] = "none"]
  /\ got' = [got EXCEPT ![p] = NoToken]
  /\ held' = [held EXCEPT ![p] = {}]
  /\ UNCHANGED <<storeVars, mem>>

(* TensorLease(): the views of the descriptor's extent.                    *)
MapViews(p) ==
  lease' = [lease EXCEPT ![p] = [token |-> inbox[p].token,
                                 extent |-> inbox[p].extent, mapped |-> TRUE]]

DropViews(p) == lease' = [lease EXCEPT ![p].mapped = FALSE]

-----------------------------------------------------------------------------
(* prefill_to_cache(), from where the engine has run the prompt.  A        *)
(* process is "kept" when the call raised: the request stays in its        *)
(* engine, which goes on decoding it.                                      *)

Prefill(p, k) ==
  /\ p \in Producers /\ pc[p] = "idle"
  /\ Goto(p, "allocating") /\ key' = [key EXCEPT ![p] = k]
  /\ Holds(p, All)
  /\ Send(p, "allocate", k, NoToken, FALSE)
  /\ UNCHANGED <<storeVars, lease, dma, got, mem, inbox>>

Allocated(p) ==
  /\ pc[p] = "allocating" /\ Hear(p, "descriptor")
  /\ Goto(p, "copying") /\ MapViews(p)
  /\ dma' = [dma EXCEPT ![p] = inbox[p].extent]
  /\ UNCHANGED <<storeVars, key, got, held, mem, net>>

AllocateFailed(p) ==
  /\ pc[p] = "allocating" /\ Hear(p, "error") /\ Goto(p, "kept")
  /\ UNCHANGED <<storeVars, key, lease, dma, got, held, mem, net>>

(* The views cannot be built: TensorLease raises and allocate() aborts.    *)
MapFailed(p) ==
  /\ pc[p] = "allocating" /\ Hear(p, "descriptor") /\ Goto(p, "aborting")
  /\ Send(p, "abort", key[p], inbox[p].token, FALSE)
  /\ UNCHANGED <<storeVars, key, lease, dma, got, held, mem>>

(* The GPU writes as long as the copy is not synchronised with, also when  *)
(* the host has given up on it.                                            *)
CopyPart(p) ==
  /\ p \in alive /\ dma[p] # "none"
  /\ mem' = [mem EXCEPT ![dma[p]] = [token |-> lease[p].token, whole |-> FALSE]]
  /\ UNCHANGED <<storeVars, alive, procVars, net, inbox>>

(* copy_into() returns after synchronize(); commit() drops the views.      *)
CopyDone(p) ==
  /\ pc[p] = "copying" /\ Goto(p, "committing")
  /\ mem' = [mem EXCEPT ![dma[p]] = [token |-> lease[p].token, whole |-> TRUE]]
  /\ dma' = [dma EXCEPT ![p] = "none"]
  /\ DropViews(p)
  /\ Send(p, "commit", key[p], lease[p].token, FALSE)
  /\ UNCHANGED <<storeVars, key, got, held, inbox>>

CopyFailed(p) ==
  /\ pc[p] = "copying" /\ Goto(p, "syncing")
  /\ UNCHANGED <<storeVars, key, lease, dma, got, held, mem, net, inbox>>

Committed(p) ==
  /\ pc[p] = "committing" /\ Hear(p, "receipt") /\ Return(p) /\ Holds(p, {})
  /\ UNCHANGED <<storeVars, dma, got, mem, net>>

CommitFailed(p) ==
  /\ pc[p] = "committing" /\ Hear(p, "error") /\ Goto(p, "syncing")
  /\ UNCHANGED <<storeVars, key, lease, dma, got, held, mem, net>>

SyncFailed(p) ==
  /\ pc[p] = "syncing" /\ Goto(p, "kept")
  /\ UNCHANGED <<storeVars, key, lease, dma, got, held, mem, net, inbox>>

(* Mutant: the abort does not wait for the GPU.                            *)
Hasty_Abort(p) ==
  /\ pc[p] = "syncing" /\ Goto(p, "aborting") /\ DropViews(p)
  /\ Send(p, "abort", key[p], lease[p].token, FALSE)
  /\ UNCHANGED <<storeVars, key, dma, got, held, mem, inbox>>

Abort(p) ==
  /\ pc[p] = "syncing" /\ Goto(p, "aborting") /\ DropViews(p)
  /\ dma' = [dma EXCEPT ![p] = "none"]
  /\ Send(p, "abort", key[p], lease[p].token, FALSE)
  /\ UNCHANGED <<storeVars, key, got, held, mem, inbox>>

(* Whatever the answer: the exception of the copy or the commit goes on.   *)
AbortAnswered(p) ==
  /\ pc[p] = "aborting" /\ (Hear(p, "receipt") \/ Hear(p, "error"))
  /\ Goto(p, "kept")
  /\ UNCHANGED <<storeVars, key, lease, dma, got, held, mem, net>>

-----------------------------------------------------------------------------
(* resume_from_cache(), with delete_after_restore.                         *)

Resume(p, k) ==
  /\ p \in Consumers /\ pc[p] = "idle"
  /\ Goto(p, "acquiring") /\ key' = [key EXCEPT ![p] = k]
  /\ Send(p, "acquire", k, NoToken, FALSE)
  /\ UNCHANGED <<storeVars, lease, dma, got, held, mem, inbox>>

Acquired(p) ==
  /\ pc[p] = "acquiring" /\ Hear(p, "descriptor")
  /\ Goto(p, "restoring") /\ MapViews(p)
  /\ UNCHANGED <<storeVars, key, dma, got, held, mem, net>>

AcquireFailed(p) ==
  /\ pc[p] = "acquiring" /\ Hear(p, "error") /\ Return(p)
  /\ UNCHANGED <<storeVars, dma, got, held, mem, net>>

ViewsFailed(p) ==
  /\ pc[p] = "acquiring" /\ Hear(p, "descriptor") /\ Goto(p, "unlocking")
  /\ Send(p, "release", key[p], inbox[p].token, FALSE)
  /\ UNCHANGED <<storeVars, key, lease, dma, got, held, mem>>

(* The request ends, and with it the engine is idle again.                 *)
Finished(p) ==
  /\ pc[p] = "running" /\ Return(p) /\ Holds(p, {})
  /\ got' = [got EXCEPT ![p] = NoToken]
  /\ UNCHANGED <<storeVars, dma, mem, net, inbox>>

(* validate() refuses the snapshot, or the pool is too small for it.       *)
Rejected(p) ==
  /\ pc[p] = "restoring" /\ Goto(p, "resyncing")
  /\ UNCHANGED <<storeVars, key, lease, dma, got, held, mem, net, inbox>>

PlaceBlocks(p) ==
  /\ pc[p] = "restoring" /\ Goto(p, "placed") /\ Holds(p, {"blocks"})
  /\ UNCHANGED <<storeVars, key, lease, dma, got, mem, net, inbox>>

(* restore() gives the request its slot, and copies.                       *)
AssignSlot(p) ==
  /\ pc[p] = "placed" /\ Goto(p, "loading") /\ Holds(p, held[p] \cup {"slot"})
  /\ UNCHANGED <<storeVars, key, lease, dma, got, mem, net, inbox>>

(* Mutant: what restore() undid is all that is undone.                     *)
Partial_RestoreFailed(p) ==
  /\ pc[p] \in {"placed", "loading"} /\ Goto(p, "resyncing")
  /\ Holds(p, held[p] \ {"slot"})
  /\ UNCHANGED <<storeVars, key, lease, dma, got, mem, net, inbox>>

(* restore() raises; it has removed the request from its slot, if it had   *)
(* one, and the handler of resume_from_cache() frees the blocks.           *)
RestoreFailed(p) ==
  /\ pc[p] \in {"placed", "loading"} /\ Goto(p, "resyncing")
  /\ Holds(p, held[p] \ {"slot", "blocks"})
  /\ UNCHANGED <<storeVars, key, lease, dma, got, mem, net, inbox>>

(* The request runs on this engine from here, acknowledged or not.         *)
Restored(p) ==
  /\ pc[p] = "loading" /\ Goto(p, "acking")
  /\ Holds(p, held[p] \cup {"running"})
  /\ got' = [got EXCEPT ![p] = mem[lease[p].extent].token]
  /\ DropViews(p)
  /\ Send(p, "release", key[p], lease[p].token, TRUE)
  /\ UNCHANGED <<storeVars, key, dma, mem, inbox>>

ResyncFailed(p) ==
  /\ pc[p] = "resyncing" /\ Goto(p, "wedged")
  /\ UNCHANGED <<storeVars, key, lease, dma, got, held, mem, net, inbox>>

Unlock(p) ==
  /\ pc[p] = "resyncing" /\ Goto(p, "unlocking") /\ DropViews(p)
  /\ Send(p, "release", key[p], lease[p].token, FALSE)
  /\ UNCHANGED <<storeVars, key, dma, got, held, mem, inbox>>

UnlockAnswered(p) ==
  /\ pc[p] = "unlocking" /\ (Hear(p, "receipt") \/ Hear(p, "error"))
  /\ Return(p)
  /\ UNCHANGED <<storeVars, dma, got, held, mem, net>>

Acked(p) ==
  /\ pc[p] = "acking" /\ Hear(p, "receipt") /\ Goto(p, "running")
  /\ UNCHANGED <<storeVars, key, lease, dma, got, held, mem, net>>

AckFailed(p) ==
  /\ pc[p] = "acking" /\ Hear(p, "error") /\ Goto(p, "unacked")
  /\ UNCHANGED <<storeVars, key, lease, dma, got, held, mem, net>>

RetryAck(p) ==
  /\ pc[p] = "unacked" /\ Goto(p, "acking")
  /\ Send(p, "release", key[p], lease[p].token, TRUE)
  /\ UNCHANGED <<storeVars, key, lease, dma, got, held, mem, inbox>>

-----------------------------------------------------------------------------
ProducerStep(p) ==
  \/ \E k \in Keys : Prefill(p, k)
  \/ Allocated(p) \/ AllocateFailed(p) \/ MapFailed(p)
  \/ CopyPart(p) \/ CopyDone(p) \/ CopyFailed(p) \/ Committed(p) \/ CommitFailed(p)
  \/ SyncFailed(p) \/ Abort(p) \/ AbortAnswered(p)

ConsumerStep(p) ==
  \/ \E k \in Keys : Resume(p, k)
  \/ Acquired(p) \/ AcquireFailed(p) \/ ViewsFailed(p)
  \/ Rejected(p) \/ PlaceBlocks(p) \/ AssignSlot(p) \/ RestoreFailed(p)
  \/ Restored(p) \/ ResyncFailed(p)
  \/ Unlock(p) \/ UnlockAnswered(p) \/ Acked(p) \/ AckFailed(p) \/ RetryAck(p)
  \/ Finished(p)

Next ==
  \/ \E p \in Procs : ProducerStep(p) \/ ConsumerStep(p) \/ NoAnswer(p) \/ Crash(p)
  \/ \E m \in net : Serve(m)
  \/ Housekeeping

Spec == HandoffInit /\ [][Next]_vars

-----------------------------------------------------------------------------
(* Properties.                                                             *)

(* A tensor view, and a GPU still writing, has a lease behind it: the      *)
(* catalogue has the entry, leased to this very process under this token,  *)
(* and so nobody else is given the extent.  It must survive lost calls,    *)
(* the TTL, other processes' crashes and a GPU that cannot be waited for.  *)
WriterOf(p, x) == \E k \in Keys :
  /\ entries[k].state = "writing" /\ entries[k].pidfd = p
  /\ entries[k].write_token = lease[p].token /\ entries[k].extent = x
ReaderOf(p, x) == \E k \in Keys :
  /\ entries[k].state = "reading" /\ entries[k].pidfd = p
  /\ entries[k].read_token = lease[p].token /\ entries[k].extent = x
LeaseBacked == \A p \in alive :
  /\ lease[p].mapped => WriterOf(p, lease[p].extent) \/ ReaderOf(p, lease[p].extent)
  /\ dma[p] # "none" => WriterOf(p, dma[p])

(* What can be read is what its writer completed: the extent of a ready or *)
(* a reading entry holds the whole payload of the write that made it,      *)
(* whatever copies failed, were cut short, or were committed late.         *)
ReadableIsWhole == \A k \in Keys :
  entries[k].state \in {"ready", "reading"} =>
    mem[entries[k].extent] = [token |-> entries[k].write_token, whole |-> TRUE]

(* A request is decoded by one process: no two live processes restored the *)
(* same payload, though acknowledgements are lost, late and repeated and   *)
(* a reader that dies gives its snapshot back.                             *)
OneConsumer == \A p, q \in alive :
  p # q /\ pc[p] \in Decoding /\ pc[q] \in Decoding => got[p] # got[q]

(* As long as the release is unconfirmed, repeating it will succeed: the   *)
(* lease is still held, or its receipt is remembered.                      *)
AckCanBeRetried == \A p \in alive :
  pc[p] \in {"acking", "unacked"} =>
    \/ entries[key[p]].state = "reading" /\ entries[key[p]].read_token = lease[p].token
    \/ Contains(completed, <<key[p], lease[p].token>>)

(* An engine that can be asked for the next transfer, or that gives up on  *)
(* one, holds nothing of the last: no block, no slot, no queue entry stays *)
(* behind whatever step failed.  One that goes on decoding has all three.  *)
EngineGivesBack == \A p \in alive :
  /\ pc[p] \in {"idle", "acquiring", "restoring", "resyncing", "unlocking", "wedged"}
       => held[p] = {}
  /\ pc[p] \in Decoding \cup {"kept"} => held[p] = All

(* A producer whose commit failed still decodes its request, so, once all  *)
(* its calls have been handled, it left no snapshot that another process   *)
(* could decode the same request from.  The test of a failing commit       *)
(* asserts it: the store holds nothing.                                    *)
KeptMeansNotCommitted == \A p \in alive :
  pc[p] = "kept" /\ lease[p].token # NoToken /\ (\A m \in net : m.from # p) =>
    ~\E k \in Keys : /\ entries[k].state \in {"ready", "reading"}
                     /\ entries[k].write_token = lease[p].token
=============================================================================
