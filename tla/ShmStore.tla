------------------------------ MODULE ShmStore ------------------------------
(***************************************************************************)
(* The catalogue of the shared-memory arena: cache/lmcache_shm.py.  Every  *)
(* operation runs under one lock, so it is one action, and starts with     *)
(* _reap().  The reply an operation gives is its last argument, so that    *)
(* the caller of this module decides what becomes of it.                   *)
(*                                                                         *)
(* LMCache's L1Manager, which is external, is the choice of a free extent: *)
(* objects are of one size, and the arena has room for Extents of them.    *)
(* Time is left out: any READY object may be older than the TTL.           *)
(***************************************************************************)
EXTENDS Integers, FiniteSets, SequencesExt

CONSTANTS
  Keys,          \* transfer ids
  Procs,         \* the inference processes
  Extents,       \* where in the arena an object can be
  ReceiptLimit,  \* release receipts kept for retries, 1024 in the code
  LastToken      \* bound: lease tokens handed out in a behaviour

ASSUME StoreAssumption ==
  /\ ReceiptLimit \in Nat \ {0} /\ LastToken \in Nat
  /\ "none" \notin Procs /\ "none" \notin Extents

VARIABLES
  entries,       \* the catalogue
  completed,     \* receipts <<key, token>> of releases, oldest first
  next_token,    \* lease tokens are uuids: never the same twice
  alive          \* the processes that have not exited, as their pidfds tell

storeVars == <<entries, completed, next_token>>

NoToken == 0
Absent == [state |-> "absent", write_token |-> NoToken, read_token |-> NoToken,
           pidfd |-> "none", extent |-> "none"]

Refused == [kind |-> "error", token |-> NoToken, extent |-> "none"]
Receipt == [kind |-> "receipt", token |-> NoToken, extent |-> "none"]
Descriptor(x) == [kind |-> "descriptor", token |-> next_token, extent |-> x]
Replies == [kind : {"error", "receipt", "descriptor"}, token : 0..LastToken,
            extent : Extents \cup {"none"}]

StoreInit ==
  /\ entries = [k \in Keys |-> Absent]
  /\ completed = <<>> /\ next_token = 1
  /\ alive = Procs

IssueToken == next_token <= LastToken /\ next_token' = next_token + 1

-----------------------------------------------------------------------------
(* _reap(): the lease of a dead process ends -- an unfinished write is     *)
(* dropped, a read leaves the snapshot ready -- and old snapshots go.      *)

Leased(e) == e.state \in {"writing", "reading"}

Unlocked(e) == [e EXCEPT !.state = "ready", !.read_token = NoToken, !.pidfd = "none"]

(* Mutant: the TTL applies to a lease of a live process too.               *)
Impatient_MayExpire(e) == e.state # "absent"

MayExpire(e) == e.state = "ready"

Reclaimed(e) ==
  IF ~Leased(e) \/ e.pidfd \in alive THEN e
  ELSE IF e.state = "writing" THEN Absent ELSE Unlocked(e)

Reaped ==
  {[k \in Keys |-> IF k \in old THEN Absent ELSE Reclaimed(entries[k])] :
     old \in SUBSET {k \in Keys : MayExpire(entries[k])}}

-----------------------------------------------------------------------------
(* The operations.  E is the catalogue after _reap().                      *)

Stored(E) == {k \in Keys : E[k].state # "absent"}

FreeExtents(E) == Extents \ {E[k].extent : k \in Stored(E)}

Refuse(E, reply) ==
  /\ reply = Refused
  /\ entries' = E
  /\ UNCHANGED <<completed, next_token>>

allocate(k, p, reply) == \E E \in Reaped :
  \/ /\ k \in Stored(E) \/ p \notin alive \/ FreeExtents(E) = {}
     /\ Refuse(E, reply)
  \/ /\ k \notin Stored(E) /\ p \in alive
     /\ \E x \in FreeExtents(E) :
          /\ entries' = [E EXCEPT ![k] =
                           [state |-> "writing", write_token |-> next_token,
                            read_token |-> NoToken, pidfd |-> p, extent |-> x]]
          /\ reply = Descriptor(x)
     /\ IssueToken
     /\ UNCHANGED completed

(* Mutant: the pidfd of the writer is not closed.                          *)
Leaky_commit(k, token, reply) == \E E \in Reaped :
  \/ /\ k \notin Stored(E) \/ E[k].write_token # token
     /\ Refuse(E, reply)
  \/ /\ k \in Stored(E) /\ E[k].write_token = token
     /\ entries' = IF E[k].state = "writing" THEN [E EXCEPT ![k].state = "ready"] ELSE E
     /\ reply = Receipt
     /\ UNCHANGED <<completed, next_token>>

(* A commit is recognised by its token whenever it is repeated.            *)
commit(k, token, reply) == \E E \in Reaped :
  \/ /\ k \notin Stored(E) \/ E[k].write_token # token
     /\ Refuse(E, reply)
  \/ /\ k \in Stored(E) /\ E[k].write_token = token
     /\ entries' = IF E[k].state = "writing" THEN [E EXCEPT ![k] = Unlocked(@)] ELSE E
     /\ reply = Receipt
     /\ UNCHANGED <<completed, next_token>>

abort(k, token, reply) == \E E \in Reaped :
  \/ /\ k \in Stored(E) /\ (E[k].state # "writing" \/ E[k].write_token # token)
     /\ Refuse(E, reply)
  \/ /\ k \in Stored(E) => E[k].state = "writing" /\ E[k].write_token = token
     /\ entries' = [E EXCEPT ![k] = Absent]
     /\ reply = Receipt
     /\ UNCHANGED <<completed, next_token>>

(* Mutants: a write in progress may be read; a reader does not exclude     *)
(* others.                                                                 *)
Early_Acquirable(e) == e.state \in {"writing", "ready"}
Shared_Acquirable(e) == e.state \in {"ready", "reading"}

Acquirable(e) == e.state = "ready"

acquire(k, p, reply) == \E E \in Reaped :
  \/ /\ ~Acquirable(E[k]) \/ p \notin alive
     /\ Refuse(E, reply)
  \/ /\ Acquirable(E[k]) /\ p \in alive
     /\ entries' = [E EXCEPT ![k].state = "reading", ![k].read_token = next_token,
                             ![k].pidfd = p]
     /\ reply = Descriptor(E[k].extent)
     /\ IssueToken
     /\ UNCHANGED completed

Remember(receipt) ==
  completed' = IF Len(completed) < ReceiptLimit THEN Append(completed, receipt)
               ELSE Append(Tail(completed), receipt)

(* Mutant: no receipt is kept.                                             *)
Forgetful_release(k, token, delete, reply) == \E E \in Reaped :
  \/ /\ E[k].state # "reading" \/ E[k].read_token # token
     /\ Refuse(E, reply)
  \/ /\ E[k].state = "reading" /\ E[k].read_token = token
     /\ entries' = [E EXCEPT ![k] = IF delete THEN Absent ELSE Unlocked(@)]
     /\ reply = Receipt
     /\ UNCHANGED <<completed, next_token>>

release(k, token, delete, reply) == \E E \in Reaped :
  \/ /\ Contains(completed, <<k, token>>)
     /\ entries' = E /\ reply = Receipt
     /\ UNCHANGED <<completed, next_token>>
  \/ /\ ~Contains(completed, <<k, token>>)
     /\ E[k].state # "reading" \/ E[k].read_token # token
     /\ Refuse(E, reply)
  \/ /\ ~Contains(completed, <<k, token>>)
     /\ E[k].state = "reading" /\ E[k].read_token = token
     /\ entries' = [E EXCEPT ![k] = IF delete THEN Absent ELSE Unlocked(@)]
     /\ Remember(<<k, token>>)
     /\ reply = Receipt
     /\ UNCHANGED next_token

delete_snapshot(k, reply) == \E E \in Reaped :
  \/ Leased(E[k]) /\ Refuse(E, reply)
  \/ /\ ~Leased(E[k])
     /\ entries' = [E EXCEPT ![k] = Absent]
     /\ reply = Receipt
     /\ UNCHANGED <<completed, next_token>>

health == entries' \in Reaped /\ UNCHANGED <<completed, next_token>>

-----------------------------------------------------------------------------
(* The catalogue keeps its type; a pidfd is held for a leased entry and    *)
(* for no other, or the service runs out of descriptors.                   *)
StoreTypeOK ==
  /\ entries \in [Keys -> [state : {"absent", "writing", "ready", "reading"},
                           write_token : 0..LastToken, read_token : 0..LastToken,
                           pidfd : Procs \cup {"none"}, extent : Extents \cup {"none"}]]
  /\ completed \in Seq(Keys \X (1..LastToken)) /\ Len(completed) <= ReceiptLimit
  /\ next_token \in 1..(LastToken + 1)
  /\ alive \subseteq Procs
  /\ \A k \in Keys : Leased(entries[k]) <=> entries[k].pidfd # "none"
=============================================================================
