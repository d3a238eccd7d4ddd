--------------------------- MODULE HandoffProofs ---------------------------
(***************************************************************************)
(* Proofs about Handoff and the store it runs over, for every number of    *)
(* transfers, processes, extents and tokens.                               *)
(***************************************************************************)
EXTENDS Handoff, FiniteSetTheorems, TLAPS

(***************************************************************************)
(* Types.                                                                  *)
(***************************************************************************)
Places == Waiting \cup Decoding \cup
  {"idle", "dead", "copying", "syncing", "kept",
   "restoring", "placed", "loading", "resyncing", "wedged"}

Tokens == 0 .. LastToken
Entry == [state : {"absent", "writing", "ready", "reading"}, write_token : Tokens,
          read_token : Tokens, pidfd : Procs \cup {"none"}, extent : Extents \cup {"none"}]
Call == [from : Procs, op : {"allocate", "commit", "abort", "acquire", "release"},
         key : Keys, token : Tokens, delete : BOOLEAN, awaited : BOOLEAN]

Lease == [token : Tokens, extent : Extents \cup {"none"}, mapped : BOOLEAN]
Answer == [kind : {"none", "error", "receipt", "descriptor"}, token : Tokens,
           extent : Extents \cup {"none"}]

HandoffType ==
  /\ StoreTypeOK
  /\ pc \in [Procs -> Places]
  /\ key \in [Procs -> Keys \cup {"none"}]
  /\ lease \in [Procs -> Lease]
  /\ dma \in [Procs -> Extents \cup {"none"}]
  /\ got \in [Procs -> Tokens]
  /\ held \in [Procs -> SUBSET All]
  /\ mem \in [Extents -> [token : Tokens, whole : BOOLEAN]]
  /\ net \subseteq Call
  /\ inbox \in [Procs -> Answer]

(***************************************************************************)
(* What a process has been granted and not given back yet: the descriptor  *)
(* in its inbox or the lease it maps.                                      *)
(***************************************************************************)
Writers == {"copying", "syncing", "kept"}
Readers == {"restoring", "placed", "loading", "resyncing", "wedged"}

Granted(p) == inbox[p].kind = "descriptor" \/ lease[p].mapped
Grant(p) == IF inbox[p].kind = "descriptor" THEN inbox[p] ELSE lease[p]
Token(p) == Grant(p).token

(* What a process at a place of the transfer holds in its engine.          *)
HeldAt(place) ==
  CASE place \in {"placed"} -> {"blocks"}
    [] place \in {"loading"} -> {"blocks", "slot"}
    [] place \in {"idle", "dead", "acquiring", "restoring", "resyncing", "unlocking",
                  "wedged"} -> {}
    [] OTHER -> All

(* What a process knows agrees with where it is.                           *)
Local(p) ==
  /\ p \in alive <=> pc[p] # "dead"
  /\ pc[p] \notin {"idle", "dead"} => key[p] \in Keys
  /\ pc[p] \notin Waiting => inbox[p] = Silence
  /\ inbox[p].kind = "descriptor" => pc[p] \in {"allocating", "acquiring"}
  /\ inbox[p].kind # "descriptor" => inbox[p].token = NoToken
  /\ lease[p].mapped => pc[p] \in Writers \cup Readers
  /\ pc[p] \in {"copying"} \cup Readers => lease[p].mapped
  /\ pc[p] \in {"idle", "dead", "allocating", "acquiring"} => lease[p] = NoLease
  /\ dma[p] # "none" <=> lease[p].mapped /\ pc[p] \in Writers
  /\ dma[p] # "none" => dma[p] = lease[p].extent
  /\ pc[p] \in Decoding => lease[p].token # NoToken /\ got[p] # NoToken
  /\ held[p] = HeldAt(pc[p])
  /\ Token(p) < next_token /\ got[p] < next_token

(* The catalogue C bears out the lease of p; and of the payload it decodes *)
(* there is no entry but the one it has not acknowledged yet.              *)
Backed(C, p) ==
  /\ Granted(p) /\ pc[p] \in {"allocating"} \cup Writers =>
       C[key[p]] = [state |-> "writing", write_token |-> Token(p), read_token |-> NoToken,
                    pidfd |-> p, extent |-> Grant(p).extent]
  /\ Granted(p) /\ pc[p] \in {"acquiring"} \cup Readers =>
       /\ C[key[p]].state = "reading" /\ C[key[p]].pidfd = p
       /\ C[key[p]].read_token = Token(p) /\ C[key[p]].extent = Grant(p).extent
  /\ pc[p] \in Decoding => \A k \in Keys :
       C[k].state # "absent" /\ C[k].write_token = got[p] =>
         C[k].state = "reading" /\ C[k].pidfd = p /\ C[k].read_token = lease[p].token

(* No two processes have the same lease.                                   *)
Apart(p, q) == p # q /\ Token(p) # NoToken => Token(p) # Token(q)

(* The calls, and where the caller waits for the answer.                   *)
Asks == {<<"allocate", "allocating">>, <<"commit", "committing">>, <<"abort", "aborting">>,
         <<"acquire", "acquiring">>, <<"release", "acking">>, <<"release", "unlocking">>}

(* A call on the way: one that is awaited fits what its caller is doing,   *)
(* and one that names a lease comes from its holder, who gave it up        *)
(* before.                                                                 *)
Mail(p, m) ==
  /\ m.token < next_token
  /\ m.awaited /\ m.from = p =>
       /\ p \in alive /\ inbox[p] = Silence /\ m.key = key[p]
       /\ <<m.op, pc[p]>> \in Asks
  /\ m.token # NoToken /\ m.token = Token(p) =>
       /\ m.from = p /\ ~Granted(p)
       /\ pc[p] \in Decoding => m.op = "release" /\ m.delete

OneAwaited == \A m, n \in net : m.awaited /\ n.awaited /\ m.from = n.from => m = n

(* Entries of the catalogue, one by one and two by two.                    *)
EntryOK(e, next) ==
  /\ e.state = "absent" => e = Absent
  /\ e.state # "absent" =>
       e.write_token \in 1 .. next - 1 /\ e.extent # "none"
  /\ e.state = "writing" => e.pidfd # "none" /\ e.read_token = NoToken
  /\ e.state = "ready" => e.pidfd = "none" /\ e.read_token = NoToken
  /\ e.state = "reading" => e.pidfd # "none" /\ e.read_token \in 1 .. next - 1

Distinct(e, f) ==
  /\ e.state # "absent" /\ f.state # "absent" =>
       e.write_token # f.write_token /\ e.extent # f.extent
  /\ e.state = "reading" /\ f.state = "reading" => e.read_token # f.read_token

Catalogue(C) ==
  /\ C \in [Keys -> Entry]
  /\ \A k \in Keys : EntryOK(C[k], next_token)
  /\ \A k, l \in Keys : k # l => Distinct(C[k], C[l])

(* What the arena has for entries that may be read, and for those that a   *)
(* commit on the way would make readable.                                  *)
Whole(x, token) == mem[x] = [token |-> token, whole |-> TRUE]

Contents(C) ==
  /\ \A k \in Keys : C[k].state \in {"ready", "reading"} => Whole(C[k].extent, C[k].write_token)
  /\ \A m \in net, k \in Keys :
       m.op = "commit" /\ C[k].state = "writing" /\ C[k].write_token = m.token =>
         Whole(C[k].extent, m.token)

HandoffInv ==
  /\ HandoffType
  /\ \A p \in Procs : Local(p) /\ Backed(entries, p)
  /\ \A p, q \in Procs : Apart(p, q)
  /\ \A p \in Procs, m \in net : Mail(p, m)
  /\ OneAwaited
  /\ Catalogue(entries)
  /\ Contents(entries)
-----------------------------------------------------------------------------
(* A step of one process.                                                  *)

Same(q) ==
  /\ pc'[q] = pc[q] /\ key'[q] = key[q] /\ lease'[q] = lease[q] /\ dma'[q] = dma[q]
  /\ got'[q] = got[q] /\ held'[q] = held[q] /\ inbox'[q] = inbox[q]

(* What a step leaves to a process it is not about.                        *)
LEMMA SameGrant ==
  ASSUME NEW q, Same(q)
  PROVE  /\ Granted(q)' <=> Granted(q)
         /\ Grant(q)' = Grant(q) /\ Token(q)' = Token(q)
BY DEF Same, Granted, Grant, Token

LEMMA SameLocal ==
  ASSUME NEW q, Same(q), alive' = alive, next_token' = next_token, Local(q)
  PROVE  Local(q)'
BY SameGrant DEF Same, Local

LEMMA SameBacked ==
  ASSUME NEW q, Same(q), entries' = entries, Backed(entries, q)
  PROVE  Backed(entries, q)'
BY SameGrant DEF Same, Backed

LEMMA ContentsKept ==
  ASSUME Contents(entries), entries' = entries, mem' = mem,
         \A m \in net' : m \in net \/ m.op # "commit"
  PROVE  Contents(entries)'
BY DEF Contents, Whole

(* A process asks the store for something, under its lease or without one. *)
Asking(p) == \E call \in Call :
  /\ net' = net \cup {call}
  /\ call.from = p /\ call.key = key'[p] /\ call.token \in {NoToken, Token(p)}
  /\ <<call.op, pc'[p]>> \in Asks
  /\ pc'[p] \in Decoding => call.op = "release" /\ call.delete
  /\ ~Granted(p)' /\ inbox'[p] = Silence

LEMMA Sent ==
  ASSUME NEW p \in Procs, NEW op, NEW k \in Keys, NEW token \in {NoToken, Token(p)},
         NEW delete \in BOOLEAN, Send(p, op, k, token, delete),
         token \in Tokens, k = key'[p], <<op, pc'[p]>> \in Asks,
         pc'[p] \in Decoding => op = "release" /\ delete,
         ~Granted(p)', inbox'[p] = Silence
  PROVE  Asking(p)
<1> DEFINE call == [from |-> p, op |-> op, key |-> k, token |-> token,
                    delete |-> delete, awaited |-> TRUE]
<1>1. op \in {"allocate", "commit", "abort", "acquire", "release"}
  BY DEF Asks
<1>2. call \in Call /\ net' = net \cup {call}
  BY <1>1 DEF Call, Send
<1>3. /\ call.from = p /\ call.op = op /\ call.key = k /\ call.token = token
      /\ call.delete = delete
  OBVIOUS
<1> HIDE DEF call
<1> QED
  BY <1>2, <1>3 DEF Asking

LEMMA ProcessStep ==
  ASSUME HandoffInv, NEW p \in alive, HandoffType', Contents(entries)',
         UNCHANGED <<storeVars, alive>>,
         net' = net \/ Asking(p),
         pc[p] \notin Waiting \/ inbox[p] # Silence,
         \A q \in Procs \ {p} : Same(q),
         Token(p)' \in {NoToken, Token(p)},
         Granted(p)' => Granted(p),
         pc'[p] \in Decoding => pc[p] \in Decoding \/ Granted(p),
         Local(p)', Backed(entries, p)'
  PROVE  HandoffInv'
<1>0. p \in Procs /\ net \subseteq Call /\ net' \subseteq Call
  BY DEF HandoffInv, HandoffType, StoreTypeOK
<1>1. next_token' = next_token /\ entries' = entries /\ next_token \in Nat \ {0}
  BY DEF storeVars, HandoffInv, HandoffType, StoreTypeOK
<1>2. \A m \in net : ~(m.awaited /\ m.from = p)
  BY <1>0 DEF HandoffInv, Mail, Asks, Waiting
<1>3. \A q \in Procs : Local(q)' /\ Backed(entries, q)'
  BY <1>1, SameLocal, SameBacked DEF HandoffInv
<1>4. \A q \in Procs : Token(q)' \in {NoToken, Token(q)}
  BY SameGrant
<1>5. \A q, r \in Procs : Apart(q, r)'
  BY <1>4 DEF HandoffInv, Apart
<1>6. ASSUME NEW q \in Procs, NEW m \in net PROVE Mail(q, m)'
  <2>1. Mail(q, m) /\ m \in Call
    BY <1>0 DEF HandoffInv
  <2>2. m.token < next_token'
    BY <1>1, <2>1 DEF Mail, Asks
  <2>3. m.awaited /\ m.from = q => Same(q) /\ q \in alive
    BY <1>2, <2>1 DEF Mail, Asks
  <2>4. m.token # NoToken /\ m.token = Token(q)' =>
          /\ m.from = q /\ ~Granted(q)'
          /\ pc'[q] \in Decoding => m.op = "release" /\ m.delete
    BY <2>1, <1>4, SameGrant DEF Mail, Asks, Same
  <2> QED
    BY <2>1, <2>2, <2>3, <2>4 DEF Mail, Asks, Same
<1>7. ASSUME NEW q \in Procs, NEW m \in net' \ net PROVE Mail(q, m)'
  <2>0. /\ m.from = p /\ m.key = key'[p] /\ m.token \in {NoToken, Token(p)}
        /\ <<m.op, pc'[p]>> \in Asks
        /\ pc'[p] \in Decoding => m.op = "release" /\ m.delete
        /\ ~Granted(p)' /\ inbox'[p] = Silence
    BY <1>7 DEF Asking
  <2>1. m.token < next_token'
    BY <1>0, <1>1, <2>0 DEF HandoffInv, Local, NoToken
  <2>2. m.token # NoToken => q = p \/ m.token # Token(q)'
    BY <1>0, <1>4, <2>0 DEF HandoffInv, Apart
  <2> QED
    BY <1>0, <2>0, <2>1, <2>2 DEF Mail, Asks
<1>8. OneAwaited'
  <2>1. \A m, n \in net' : m \notin net /\ n \notin net => m = n
    BY DEF Asking
  <2>2. \A m \in net' : m \notin net => m.from = p
    BY DEF Asking
  <2> QED
    BY <1>2, <2>1, <2>2 DEF HandoffInv, OneAwaited
<1>9. Catalogue(entries)'
  BY <1>1 DEF HandoffInv, Catalogue, EntryOK
<1> QED
  BY <1>3, <1>5, <1>6, <1>7, <1>8, <1>9 DEF HandoffInv

(* The two assignments to leases.                                          *)
LEMMA DropViewsValue ==
  ASSUME lease \in [Procs -> Lease], NEW p \in Procs, DropViews(p)
  PROVE  /\ lease' \in [Procs -> Lease]
         /\ \A q \in Procs \ {p} : lease'[q] = lease[q]
         /\ lease'[p].token = lease[p].token /\ lease'[p].extent = lease[p].extent
         /\ ~lease'[p].mapped
BY DEF DropViews, Lease

LEMMA MapViewsValue ==
  ASSUME lease \in [Procs -> Lease], inbox \in [Procs -> Answer], NEW p \in Procs, MapViews(p)
  PROVE  /\ lease' \in [Procs -> Lease]
         /\ \A q \in Procs \ {p} : lease'[q] = lease[q]
         /\ lease'[p] = [token |-> inbox[p].token, extent |-> inbox[p].extent, mapped |-> TRUE]
<1>1. [token |-> inbox[p].token, extent |-> inbox[p].extent, mapped |-> TRUE] \in Lease
  BY DEF Lease, Answer
<1> QED
  BY <1>1 DEF MapViews

LEMMA Nothing ==
  /\ NoToken \in Tokens /\ NoLease \in Lease /\ Silence \in Answer
  /\ NoLease.mapped = FALSE /\ NoLease.token = NoToken
  /\ Silence.kind = "none" /\ Silence.token = NoToken
BY StoreAssumption DEF NoToken, NoLease, Silence, Tokens, Lease, Answer

-----------------------------------------------------------------------------
(* The steps that ask the store for nothing.                               *)
LEMMA QuietInv ==
  ASSUME HandoffInv, NEW p \in Procs,
         \/ AllocateFailed(p) \/ CopyFailed(p) \/ CommitFailed(p) \/ SyncFailed(p)
         \/ AbortAnswered(p)
         \/ Rejected(p) \/ ResyncFailed(p) \/ Acked(p) \/ AckFailed(p)
         \/ PlaceBlocks(p) \/ AssignSlot(p) \/ RestoreFailed(p)
         \/ Committed(p) \/ AcquireFailed(p) \/ UnlockAnswered(p) \/ Finished(p)
  PROVE  HandoffInv'
<1> USE DEF AllocateFailed, CopyFailed, CommitFailed, SyncFailed, AbortAnswered, Rejected,
     ResyncFailed, Acked, AckFailed, PlaceBlocks, AssignSlot, RestoreFailed, Committed, AcquireFailed,
     UnlockAnswered, Finished, Goto, Hear, Holds, Return
<1>1. /\ HandoffType /\ Local(p) /\ Backed(entries, p)
      /\ Catalogue(entries) /\ Contents(entries)
  BY DEF HandoffInv
<1>2. /\ p \in alive /\ UNCHANGED <<storeVars, alive>> /\ mem' = mem
      /\ pc[p] \notin Waiting \/ inbox[p] # Silence
  BY Nothing DEF Waiting
<1>3. /\ lease' \in [Procs -> Lease]
      /\ \A q \in Procs \ {p} : lease'[q] = lease[q]
      /\ lease'[p] \in {lease[p], NoLease}
  BY <1>1, Nothing DEF HandoffType
<1>4. net' = net
  OBVIOUS
<1>5. HandoffType'
  <2>1. net' \subseteq Call
    BY <1>1, <1>4 DEF HandoffType, Asking
  <2>2. StoreTypeOK' /\ mem' \in [Extents -> [token : Tokens, whole : BOOLEAN]]
    BY <1>1, <1>2 DEF HandoffType, StoreTypeOK, storeVars
  <2>3. pc' \in [Procs -> Places]
    BY <1>1 DEF HandoffType, Places, Waiting, Decoding
  <2>4. inbox' \in [Procs -> Answer]
    BY <1>1, Nothing DEF HandoffType
  <2>6. held' \in [Procs -> SUBSET All]
    BY <1>1 DEF HandoffType, All
  <2>7. key' \in [Procs -> Keys \cup {"none"}]
    BY <1>1 DEF HandoffType
  <2>5. got' \in [Procs -> Tokens] /\ dma' \in [Procs -> Extents \cup {"none"}]
    BY <1>1, Nothing DEF HandoffType, Answer
  <2> QED
    BY <1>3, <2>1, <2>2, <2>3, <2>4, <2>5, <2>6, <2>7 DEF HandoffType
<1>6. \A q \in Procs \ {p} : Same(q)
  BY <1>1, <1>3 DEF HandoffType, Same
<1>7. /\ Token(p)' \in {NoToken, Token(p)}
      /\ Granted(p)' => Granted(p)
      /\ pc'[p] \in Decoding => pc[p] \in Decoding \/ Granted(p)
  BY <1>1, <1>3, Nothing DEF HandoffType, Local, Token, Grant, Granted, Decoding, Readers, Writers
<1>8. Local(p)'
  <2>1. held'[p] = HeldAt(pc'[p])
    BY <1>1 DEF HandoffType, Local, HeldAt, All
  <2>2. Token(p)' < next_token'
    <3>1. next_token' = next_token /\ next_token \in Nat \ {0} /\ Token(p) < next_token
      BY <1>1, <1>2 DEF HandoffType, StoreTypeOK, storeVars, Local
    <3> QED
      BY <1>7, <3>1 DEF NoToken
  <2>7. got'[p] < next_token'
    BY <1>1, <1>2 DEF HandoffType, StoreTypeOK, storeVars, Local, NoToken
  <2>3. (p \in alive)' /\ pc'[p] # "dead" /\ (pc'[p] # "idle" => key'[p] \in Keys)
    BY <1>1, <1>2 DEF HandoffType, Local
  <2>4. /\ pc'[p] \notin Waiting => inbox'[p] = Silence
        /\ inbox'[p].kind = "descriptor" => pc'[p] \in {"allocating", "acquiring"}
        /\ inbox'[p].kind # "descriptor" => inbox'[p].token = NoToken
    BY <1>1, Nothing DEF HandoffType, Local, Waiting
  <2>5. /\ lease'[p].mapped => pc'[p] \in Writers \cup Readers
        /\ pc'[p] \in {"copying"} \cup Readers => lease'[p].mapped
        /\ pc'[p] \in {"idle", "dead", "allocating", "acquiring"} => lease'[p] = NoLease
        /\ dma'[p] # "none" <=> lease'[p].mapped /\ pc'[p] \in Writers
        /\ dma'[p] # "none" => dma'[p] = lease'[p].extent
    BY <1>1, <1>3, Nothing DEF HandoffType, Local, Writers, Readers
  <2>6. pc'[p] \in Decoding => lease'[p].token # NoToken /\ got'[p] # NoToken
    BY <1>1, <1>3 DEF HandoffType, Local, Decoding, NoToken
  <2> QED
    BY <2>1, <2>2, <2>3, <2>4, <2>5, <2>6, <2>7 DEF Local
<1>9. Backed(entries, p)'
  BY <1>1, <1>2, <1>3, <1>7, Nothing
  DEF HandoffType, storeVars, Local, Backed, Granted, Token, Grant, Waiting, Decoding, Writers,
      Readers
<1>10. Contents(entries)'
  BY <1>1, <1>2, <1>4, ContentsKept DEF storeVars, Asking, Asks
<1> HIDE DEF AllocateFailed, CopyFailed, CommitFailed, SyncFailed, AbortAnswered, Rejected,
     ResyncFailed, Acked, AckFailed, PlaceBlocks, AssignSlot, RestoreFailed, Committed, AcquireFailed,
     UnlockAnswered, Finished
<1> QED
  BY <1>2, <1>4, <1>5, <1>6, <1>7, <1>8, <1>9, <1>10, ProcessStep

(* A lease is mapped.                                                      *)
LEMMA MapsInv ==
  ASSUME HandoffInv, NEW p \in Procs,
         Allocated(p) \/ Acquired(p)
  PROVE  HandoffInv'
<1> USE DEF Allocated, Acquired, Goto, Hear
<1>1. /\ HandoffType /\ Local(p) /\ Backed(entries, p)
      /\ Catalogue(entries) /\ Contents(entries)
  BY DEF HandoffInv
<1>0. inbox[p].extent # "none"
  BY <1>1, Nothing DEF HandoffType, Local, Backed, Granted, Grant, Catalogue, EntryOK, Waiting
<1>2. /\ p \in alive /\ UNCHANGED <<storeVars, alive>> /\ mem' = mem
      /\ pc[p] \notin Waiting \/ inbox[p] # Silence
  BY Nothing DEF Waiting
<1>3. /\ lease' \in [Procs -> Lease]
      /\ \A q \in Procs \ {p} : lease'[q] = lease[q]
      /\ lease'[p] = [token |-> inbox[p].token, extent |-> inbox[p].extent, mapped |-> TRUE]
  BY <1>1, Nothing, MapViewsValue DEF HandoffType
<1>4. net' = net
  OBVIOUS
<1>5. HandoffType'
  <2>1. net' \subseteq Call
    BY <1>1, <1>4 DEF HandoffType, Asking
  <2>2. StoreTypeOK' /\ mem' \in [Extents -> [token : Tokens, whole : BOOLEAN]]
    BY <1>1, <1>2 DEF HandoffType, StoreTypeOK, storeVars
  <2>3. pc' \in [Procs -> Places]
    BY <1>1 DEF HandoffType, Places, Waiting, Decoding
  <2>4. inbox' \in [Procs -> Answer]
    BY <1>1, Nothing DEF HandoffType
  <2>6. held' \in [Procs -> SUBSET All]
    BY <1>1 DEF HandoffType, All
  <2>7. key' \in [Procs -> Keys \cup {"none"}]
    BY <1>1 DEF HandoffType
  <2>5. got' \in [Procs -> Tokens] /\ dma' \in [Procs -> Extents \cup {"none"}]
    BY <1>1, Nothing DEF HandoffType, Answer
  <2> QED
    BY <1>3, <2>1, <2>2, <2>3, <2>4, <2>5, <2>6, <2>7 DEF HandoffType
<1>6. \A q \in Procs \ {p} : Same(q)
  BY <1>1, <1>3 DEF HandoffType, Same
<1>7. /\ Token(p)' \in {NoToken, Token(p)}
      /\ Granted(p)' => Granted(p)
      /\ pc'[p] \in Decoding => pc[p] \in Decoding \/ Granted(p)
  BY <1>1, <1>3, Nothing DEF HandoffType, Local, Token, Grant, Granted, Decoding, Readers, Writers
<1>8. Local(p)'
  <2>1. held'[p] = HeldAt(pc'[p])
    BY <1>1 DEF HandoffType, Local, HeldAt, All
  <2>2. Token(p)' < next_token'
    <3>1. next_token' = next_token /\ next_token \in Nat \ {0} /\ Token(p) < next_token
      BY <1>1, <1>2 DEF HandoffType, StoreTypeOK, storeVars, Local
    <3> QED
      BY <1>7, <3>1 DEF NoToken
  <2>7. got'[p] < next_token'
    BY <1>1, <1>2 DEF HandoffType, StoreTypeOK, storeVars, Local, NoToken
  <2>3. (p \in alive)' /\ pc'[p] # "dead" /\ (pc'[p] # "idle" => key'[p] \in Keys)
    BY <1>1, <1>2 DEF HandoffType, Local
  <2>4. /\ pc'[p] \notin Waiting => inbox'[p] = Silence
        /\ inbox'[p].kind = "descriptor" => pc'[p] \in {"allocating", "acquiring"}
        /\ inbox'[p].kind # "descriptor" => inbox'[p].token = NoToken
    BY <1>1, Nothing DEF HandoffType, Local, Waiting
  <2>5. /\ lease'[p].mapped => pc'[p] \in Writers \cup Readers
        /\ pc'[p] \in {"copying"} \cup Readers => lease'[p].mapped
        /\ pc'[p] \in {"idle", "dead", "allocating", "acquiring"} => lease'[p] = NoLease
        /\ dma'[p] # "none" <=> lease'[p].mapped /\ pc'[p] \in Writers
        /\ dma'[p] # "none" => dma'[p] = lease'[p].extent
    BY <1>1, <1>3, <1>0, Nothing DEF HandoffType, Local, Writers, Readers
  <2>6. pc'[p] \in Decoding => lease'[p].token # NoToken /\ got'[p] # NoToken
    BY <1>1, <1>3 DEF HandoffType, Local, Decoding, NoToken
  <2> QED
    BY <2>1, <2>2, <2>3, <2>4, <2>5, <2>6, <2>7 DEF Local
<1>9. Backed(entries, p)'
  BY <1>1, <1>2, <1>3, <1>7, Nothing
  DEF HandoffType, storeVars, Local, Backed, Granted, Token, Grant, Waiting, Decoding, Writers,
      Readers
<1>10. Contents(entries)'
  BY <1>1, <1>2, <1>4, ContentsKept DEF storeVars, Asking, Asks
<1> HIDE DEF Allocated, Acquired
<1> QED
  BY <1>2, <1>4, <1>5, <1>6, <1>7, <1>8, <1>9, <1>10, ProcessStep

(* The steps that ask, and leave their lease as it is.                     *)
LEMMA AsksInv ==
  ASSUME HandoffInv, NEW p \in Procs,
         \/ (\E k \in Keys : Prefill(p, k) \/ Resume(p, k))
         \/ MapFailed(p) \/ ViewsFailed(p) \/ RetryAck(p)
  PROVE  HandoffInv'
<1> USE DEF Prefill, Resume, MapFailed, ViewsFailed, RetryAck, Goto, Hear, Holds
<1>1. /\ HandoffType /\ Local(p) /\ Backed(entries, p)
      /\ Catalogue(entries) /\ Contents(entries)
  BY DEF HandoffInv
<1>2. /\ p \in alive /\ UNCHANGED <<storeVars, alive>> /\ mem' = mem
      /\ pc[p] \notin Waiting \/ inbox[p] # Silence
  BY Nothing DEF Waiting
<1>3. /\ lease' \in [Procs -> Lease]
      /\ \A q \in Procs \ {p} : lease'[q] = lease[q]
      /\ lease'[p] = lease[p]
  BY <1>1, Nothing DEF HandoffType
<1>4. Asking(p) /\ pc'[p] # "committing"
  <2>1. /\ ~Granted(p)' /\ inbox'[p] = Silence
        /\ inbox[p].token \in Tokens /\ lease[p].token \in Tokens
    BY <1>1, <1>3, Nothing DEF HandoffType, Local, Granted, Waiting, Writers, Readers, Answer, Lease
  <2>2. ASSUME NEW k \in Keys, Prefill(p, k) PROVE Asking(p)
    <3>1. Send(p, "allocate", k, NoToken, FALSE) /\ k \in Keys /\ k = key'[p]
      BY <1>1, <2>2 DEF HandoffType, Local
    <3>2. NoToken \in {NoToken, Token(p)} /\ NoToken \in Tokens
      BY <1>1, <2>1, <2>2, Nothing DEF Local, Token, Grant, Waiting
    <3>3. <<"allocate", pc'[p]>> \in Asks /\ pc'[p] \notin Decoding
      BY <1>1, <2>2 DEF HandoffType, Asks, Decoding
    <3> HIDE DEF Prefill, Resume, MapFailed, ViewsFailed, RetryAck
    <3> QED
      BY <2>1, <3>1, <3>2, <3>3, Sent
  <2>3. ASSUME NEW k \in Keys, Resume(p, k) PROVE Asking(p)
    <3>1. Send(p, "acquire", k, NoToken, FALSE) /\ k \in Keys /\ k = key'[p]
      BY <1>1, <2>3 DEF HandoffType, Local
    <3>2. NoToken \in {NoToken, Token(p)} /\ NoToken \in Tokens
      BY <1>1, <2>1, <2>3, Nothing DEF Local, Token, Grant, Waiting
    <3>3. <<"acquire", pc'[p]>> \in Asks /\ pc'[p] \notin Decoding
      BY <1>1, <2>3 DEF HandoffType, Asks, Decoding
    <3> HIDE DEF Prefill, Resume, MapFailed, ViewsFailed, RetryAck
    <3> QED
      BY <2>1, <3>1, <3>2, <3>3, Sent
  <2>4. ASSUME MapFailed(p) PROVE Asking(p)
    <3>1. Send(p, "abort", key[p], inbox[p].token, FALSE) /\ key[p] \in Keys /\ key[p] = key'[p]
      BY <1>1, <2>4 DEF HandoffType, Local
    <3>2. inbox[p].token \in {NoToken, Token(p)} /\ inbox[p].token \in Tokens
      BY <1>1, <2>1, <2>4, Nothing DEF Local, Token, Grant, Waiting
    <3>3. <<"abort", pc'[p]>> \in Asks /\ pc'[p] \notin Decoding
      BY <1>1, <2>4 DEF HandoffType, Asks, Decoding
    <3> HIDE DEF Prefill, Resume, MapFailed, ViewsFailed, RetryAck
    <3> QED
      BY <2>1, <3>1, <3>2, <3>3, Sent
  <2>5. ASSUME ViewsFailed(p) PROVE Asking(p)
    <3>1. Send(p, "release", key[p], inbox[p].token, FALSE) /\ key[p] \in Keys /\ key[p] = key'[p]
      BY <1>1, <2>5 DEF HandoffType, Local
    <3>2. inbox[p].token \in {NoToken, Token(p)} /\ inbox[p].token \in Tokens
      BY <1>1, <2>1, <2>5, Nothing DEF Local, Token, Grant, Waiting
    <3>3. <<"release", pc'[p]>> \in Asks /\ pc'[p] \notin Decoding
      BY <1>1, <2>5 DEF HandoffType, Asks, Decoding
    <3> HIDE DEF Prefill, Resume, MapFailed, ViewsFailed, RetryAck
    <3> QED
      BY <2>1, <3>1, <3>2, <3>3, Sent
  <2>6. ASSUME RetryAck(p) PROVE Asking(p)
    <3>1. Send(p, "release", key[p], lease[p].token, TRUE) /\ key[p] \in Keys /\ key[p] = key'[p]
      BY <1>1, <2>6 DEF HandoffType, Local
    <3>2. lease[p].token \in {NoToken, Token(p)} /\ lease[p].token \in Tokens
      BY <1>1, <2>1, <2>6, Nothing DEF Local, Token, Grant, Waiting
    <3>3. <<"release", pc'[p]>> \in Asks
      BY <1>1, <2>6 DEF HandoffType, Asks, Decoding
    <3> HIDE DEF Prefill, Resume, MapFailed, ViewsFailed, RetryAck
    <3> QED
      BY <2>1, <3>1, <3>2, <3>3, Sent
  <2> QED
    BY <1>1, <2>2, <2>3, <2>4, <2>5, <2>6 DEF HandoffType
<1>5. HandoffType'
  <2>1. net' \subseteq Call
    BY <1>1, <1>4 DEF HandoffType, Asking
  <2>2. StoreTypeOK' /\ mem' \in [Extents -> [token : Tokens, whole : BOOLEAN]]
    BY <1>1, <1>2 DEF HandoffType, StoreTypeOK, storeVars
  <2>3. pc' \in [Procs -> Places]
    BY <1>1 DEF HandoffType, Places, Waiting, Decoding
  <2>4. inbox' \in [Procs -> Answer]
    BY <1>1, Nothing DEF HandoffType
  <2>6. held' \in [Procs -> SUBSET All]
    BY <1>1 DEF HandoffType, All
  <2>7. key' \in [Procs -> Keys \cup {"none"}]
    BY <1>1 DEF HandoffType
  <2>5. got' \in [Procs -> Tokens] /\ dma' \in [Procs -> Extents \cup {"none"}]
    BY <1>1, Nothing DEF HandoffType, Answer
  <2> QED
    BY <1>3, <2>1, <2>2, <2>3, <2>4, <2>5, <2>6, <2>7 DEF HandoffType
<1>6. \A q \in Procs \ {p} : Same(q)
  BY <1>1, <1>3 DEF HandoffType, Same
<1>7. /\ Token(p)' \in {NoToken, Token(p)}
      /\ Granted(p)' => Granted(p)
      /\ pc'[p] \in Decoding => pc[p] \in Decoding \/ Granted(p)
  BY <1>1, <1>3, Nothing DEF HandoffType, Local, Token, Grant, Granted, Decoding, Readers, Writers
<1>8. Local(p)'
  <2>1. held'[p] = HeldAt(pc'[p])
    BY <1>1 DEF HandoffType, Local, HeldAt, All
  <2>2. Token(p)' < next_token'
    <3>1. next_token' = next_token /\ next_token \in Nat \ {0} /\ Token(p) < next_token
      BY <1>1, <1>2 DEF HandoffType, StoreTypeOK, storeVars, Local
    <3> QED
      BY <1>7, <3>1 DEF NoToken
  <2>7. got'[p] < next_token'
    BY <1>1, <1>2 DEF HandoffType, StoreTypeOK, storeVars, Local, NoToken
  <2>3. (p \in alive)' /\ pc'[p] # "dead" /\ (pc'[p] # "idle" => key'[p] \in Keys)
    BY <1>1, <1>2 DEF HandoffType, Local
  <2>4. /\ pc'[p] \notin Waiting => inbox'[p] = Silence
        /\ inbox'[p].kind = "descriptor" => pc'[p] \in {"allocating", "acquiring"}
        /\ inbox'[p].kind # "descriptor" => inbox'[p].token = NoToken
    BY <1>1, Nothing DEF HandoffType, Local, Waiting
  <2>5. /\ lease'[p].mapped => pc'[p] \in Writers \cup Readers
        /\ pc'[p] \in {"copying"} \cup Readers => lease'[p].mapped
        /\ pc'[p] \in {"idle", "dead", "allocating", "acquiring"} => lease'[p] = NoLease
        /\ dma'[p] # "none" <=> lease'[p].mapped /\ pc'[p] \in Writers
        /\ dma'[p] # "none" => dma'[p] = lease'[p].extent
    BY <1>1, <1>3, Nothing DEF HandoffType, Local, Writers, Readers
  <2>6. pc'[p] \in Decoding => lease'[p].token # NoToken /\ got'[p] # NoToken
    BY <1>1, <1>3 DEF HandoffType, Local, Decoding, NoToken
  <2> QED
    BY <2>1, <2>2, <2>3, <2>4, <2>5, <2>6, <2>7 DEF Local
<1>9. Backed(entries, p)'
  <2>1. ~Granted(p)' /\ entries' = entries
    BY <1>2, <1>4 DEF Asking, storeVars
  <2>2. /\ lease'[p] = lease[p] /\ got'[p] = got[p]
        /\ pc'[p] \in Decoding => pc[p] \in Decoding
    BY <1>1, <1>3 DEF HandoffType, Decoding
  <2> QED
    BY <1>1, <2>1, <2>2 DEF Backed
<1>10. Contents(entries)'
  BY <1>1, <1>2, <1>4, ContentsKept DEF storeVars, Asking, Asks
<1> HIDE DEF Prefill, Resume, MapFailed, ViewsFailed, RetryAck
<1> QED
  BY <1>2, <1>4, <1>5, <1>6, <1>7, <1>8, <1>9, <1>10, ProcessStep

(* The steps that ask, and drop the views of their lease.                  *)
LEMMA DropsInv ==
  ASSUME HandoffInv, NEW p \in Procs,
         Abort(p) \/ Unlock(p)
  PROVE  HandoffInv'
<1> USE DEF Abort, Unlock, Goto
<1>1. /\ HandoffType /\ Local(p) /\ Backed(entries, p)
      /\ Catalogue(entries) /\ Contents(entries)
  BY DEF HandoffInv
<1>2. /\ p \in alive /\ UNCHANGED <<storeVars, alive>> /\ mem' = mem
      /\ pc[p] \notin Waiting \/ inbox[p] # Silence
  BY Nothing DEF Waiting
<1>3. /\ lease' \in [Procs -> Lease]
      /\ \A q \in Procs \ {p} : lease'[q] = lease[q]
      /\ lease'[p].token = lease[p].token /\ lease'[p].extent = lease[p].extent
      /\ ~lease'[p].mapped
  BY <1>1, Nothing, DropViewsValue DEF HandoffType
<1>4. Asking(p) /\ pc'[p] # "committing"
  <2>1. /\ ~Granted(p)' /\ inbox'[p] = Silence
        /\ inbox[p].token \in Tokens /\ lease[p].token \in Tokens
    BY <1>1, <1>3, Nothing DEF HandoffType, Local, Granted, Waiting, Writers, Readers, Answer, Lease
  <2>2. ASSUME Abort(p) PROVE Asking(p)
    <3>1. Send(p, "abort", key[p], lease[p].token, FALSE) /\ key[p] \in Keys /\ key[p] = key'[p]
      BY <1>1, <2>2 DEF HandoffType, Local
    <3>2. lease[p].token \in {NoToken, Token(p)} /\ lease[p].token \in Tokens
      BY <1>1, <2>1, <2>2, Nothing DEF Local, Token, Grant, Waiting
    <3>3. <<"abort", pc'[p]>> \in Asks /\ pc'[p] \notin Decoding
      BY <1>1, <2>2 DEF HandoffType, Asks, Decoding
    <3> HIDE DEF Abort, Unlock
    <3> QED
      BY <2>1, <3>1, <3>2, <3>3, Sent
  <2>3. ASSUME Unlock(p) PROVE Asking(p)
    <3>1. Send(p, "release", key[p], lease[p].token, FALSE) /\ key[p] \in Keys /\ key[p] = key'[p]
      BY <1>1, <2>3 DEF HandoffType, Local
    <3>2. lease[p].token \in {NoToken, Token(p)} /\ lease[p].token \in Tokens
      BY <1>1, <2>1, <2>3, Nothing DEF Local, Token, Grant, Waiting
    <3>3. <<"release", pc'[p]>> \in Asks /\ pc'[p] \notin Decoding
      BY <1>1, <2>3 DEF HandoffType, Asks, Decoding
    <3> HIDE DEF Abort, Unlock
    <3> QED
      BY <2>1, <3>1, <3>2, <3>3, Sent
  <2> QED
    BY <1>1, <2>2, <2>3 DEF HandoffType
<1>5. HandoffType'
  <2>1. net' \subseteq Call
    BY <1>1, <1>4 DEF HandoffType, Asking
  <2>2. StoreTypeOK' /\ mem' \in [Extents -> [token : Tokens, whole : BOOLEAN]]
    BY <1>1, <1>2 DEF HandoffType, StoreTypeOK, storeVars
  <2>3. pc' \in [Procs -> Places]
    BY <1>1 DEF HandoffType, Places, Waiting, Decoding
  <2>4. inbox' \in [Procs -> Answer]
    BY <1>1, Nothing DEF HandoffType
  <2>6. held' \in [Procs -> SUBSET All]
    BY <1>1 DEF HandoffType, All
  <2>7. key' \in [Procs -> Keys \cup {"none"}]
    BY <1>1 DEF HandoffType
  <2>5. got' \in [Procs -> Tokens] /\ dma' \in [Procs -> Extents \cup {"none"}]
    BY <1>1, Nothing DEF HandoffType, Answer
  <2> QED
    BY <1>3, <2>1, <2>2, <2>3, <2>4, <2>5, <2>6, <2>7 DEF HandoffType
<1>6. \A q \in Procs \ {p} : Same(q)
  BY <1>1, <1>3 DEF HandoffType, Same
<1>7. /\ Token(p)' \in {NoToken, Token(p)}
      /\ Granted(p)' => Granted(p)
      /\ pc'[p] \in Decoding => pc[p] \in Decoding \/ Granted(p)
  BY <1>1, <1>3, Nothing DEF HandoffType, Local, Token, Grant, Granted, Decoding, Readers, Writers
<1>8. Local(p)'
  <2>1. held'[p] = HeldAt(pc'[p])
    BY <1>1 DEF HandoffType, Local, HeldAt, All
  <2>2. Token(p)' < next_token'
    <3>1. next_token' = next_token /\ next_token \in Nat \ {0} /\ Token(p) < next_token
      BY <1>1, <1>2 DEF HandoffType, StoreTypeOK, storeVars, Local
    <3> QED
      BY <1>7, <3>1 DEF NoToken
  <2>7. got'[p] < next_token'
    BY <1>1, <1>2 DEF HandoffType, StoreTypeOK, storeVars, Local, NoToken
  <2>3. (p \in alive)' /\ pc'[p] # "dead" /\ (pc'[p] # "idle" => key'[p] \in Keys)
    BY <1>1, <1>2 DEF HandoffType, Local
  <2>4. /\ pc'[p] \notin Waiting => inbox'[p] = Silence
        /\ inbox'[p].kind = "descriptor" => pc'[p] \in {"allocating", "acquiring"}
        /\ inbox'[p].kind # "descriptor" => inbox'[p].token = NoToken
    BY <1>1, Nothing DEF HandoffType, Local, Waiting
  <2>5. /\ lease'[p].mapped => pc'[p] \in Writers \cup Readers
        /\ pc'[p] \in {"copying"} \cup Readers => lease'[p].mapped
        /\ pc'[p] \in {"idle", "dead", "allocating", "acquiring"} => lease'[p] = NoLease
        /\ dma'[p] # "none" <=> lease'[p].mapped /\ pc'[p] \in Writers
        /\ dma'[p] # "none" => dma'[p] = lease'[p].extent
    BY <1>1, <1>3, Nothing DEF HandoffType, Local, Writers, Readers
  <2>6. pc'[p] \in Decoding => lease'[p].token # NoToken /\ got'[p] # NoToken
    BY <1>1, <1>3 DEF HandoffType, Local, Decoding, NoToken
  <2> QED
    BY <2>1, <2>2, <2>3, <2>4, <2>5, <2>6, <2>7 DEF Local
<1>9. Backed(entries, p)'
  <2>1. ~Granted(p)' /\ pc'[p] \notin Decoding
    BY <1>1, <1>4 DEF HandoffType, Asking, Decoding
  <2> QED
    BY <2>1 DEF Backed
<1>10. Contents(entries)'
  BY <1>1, <1>2, <1>4, ContentsKept DEF storeVars, Asking, Asks
<1> HIDE DEF Abort, Unlock
<1> QED
  BY <1>2, <1>4, <1>5, <1>6, <1>7, <1>8, <1>9, <1>10, ProcessStep

(* The payload is decoded from here.                                       *)
LEMMA RestoredInv ==
  ASSUME HandoffInv, NEW p \in Procs,
         Restored(p)
  PROVE  HandoffInv'
<1> USE DEF Restored, Goto, Holds
<1>1. /\ HandoffType /\ Local(p) /\ Backed(entries, p)
      /\ Catalogue(entries) /\ Contents(entries)
  BY DEF HandoffInv
<1>0. /\ entries[key[p]].state = "reading" /\ entries[key[p]].pidfd = p
      /\ entries[key[p]].read_token = lease[p].token
      /\ lease[p].token \in 1 .. next_token - 1
      /\ entries[key[p]].write_token = mem[lease[p].extent].token
      /\ mem[lease[p].extent].token \in 1 .. next_token - 1
      /\ got' = [got EXCEPT ![p] = mem[lease[p].extent].token]
      /\ mem[lease[p].extent].token \in Tokens
      /\ \A k \in Keys \ {key[p]} :
           entries[k].state = "absent" \/ entries[k].write_token # mem[lease[p].extent].token
  <2>1. pc[p] = "loading" /\ lease[p].mapped /\ key[p] \in Keys /\ inbox[p] = Silence
    BY <1>1 DEF Local, Waiting, Readers
  <2>2. /\ entries[key[p]].state = "reading" /\ entries[key[p]].pidfd = p
        /\ entries[key[p]].read_token = lease[p].token
        /\ entries[key[p]].extent = lease[p].extent
    BY <1>1, <2>1, Nothing DEF Backed, Granted, Token, Grant, Readers
  <2>3. EntryOK(entries[key[p]], next_token) /\ entries[key[p]] \in Entry
    BY <1>1, <2>1 DEF Catalogue
  <2>4. Whole(lease[p].extent, entries[key[p]].write_token)
    BY <1>1, <2>1, <2>2 DEF Contents
  <2>5. \A k \in Keys \ {key[p]} :
           entries[k].state = "absent" \/ entries[k].write_token # entries[key[p]].write_token
    BY <1>1, <2>1, <2>2 DEF Catalogue, Distinct
  <2> QED
    BY <2>2, <2>3, <2>4, <2>5 DEF EntryOK, Entry, Whole
<1>2. /\ p \in alive /\ UNCHANGED <<storeVars, alive>> /\ mem' = mem
      /\ pc[p] \notin Waiting \/ inbox[p] # Silence
  BY Nothing DEF Waiting
<1>3. /\ lease' \in [Procs -> Lease]
      /\ \A q \in Procs \ {p} : lease'[q] = lease[q]
      /\ lease'[p].token = lease[p].token /\ lease'[p].extent = lease[p].extent
      /\ ~lease'[p].mapped
  BY <1>1, Nothing, DropViewsValue DEF HandoffType
<1>4. Asking(p) /\ pc'[p] # "committing"
  <2>1. /\ ~Granted(p)' /\ inbox'[p] = Silence
        /\ inbox[p].token \in Tokens /\ lease[p].token \in Tokens
    BY <1>1, <1>3, Nothing DEF HandoffType, Local, Granted, Waiting, Writers, Readers, Answer, Lease
  <2>2. ASSUME Restored(p) PROVE Asking(p)
    <3>1. Send(p, "release", key[p], lease[p].token, TRUE) /\ key[p] \in Keys /\ key[p] = key'[p]
      BY <1>1, <2>2 DEF HandoffType, Local
    <3>2. lease[p].token \in {NoToken, Token(p)} /\ lease[p].token \in Tokens
      BY <1>1, <2>1, <2>2, Nothing DEF Local, Token, Grant, Waiting
    <3>3. <<"release", pc'[p]>> \in Asks
      BY <1>1, <2>2 DEF HandoffType, Asks, Decoding
    <3> HIDE DEF Restored
    <3> QED
      BY <2>1, <3>1, <3>2, <3>3, Sent
  <2> QED
    BY <1>1, <2>2 DEF HandoffType
<1>5. HandoffType'
  <2>1. net' \subseteq Call
    BY <1>1, <1>4 DEF HandoffType, Asking
  <2>2. StoreTypeOK' /\ mem' \in [Extents -> [token : Tokens, whole : BOOLEAN]]
    BY <1>1, <1>2 DEF HandoffType, StoreTypeOK, storeVars
  <2>3. pc' \in [Procs -> Places]
    BY <1>1 DEF HandoffType, Places, Waiting, Decoding
  <2>4. inbox' \in [Procs -> Answer]
    BY <1>1, Nothing DEF HandoffType
  <2>6. held' \in [Procs -> SUBSET All]
    BY <1>1 DEF HandoffType, All
  <2>7. key' \in [Procs -> Keys \cup {"none"}]
    BY <1>1 DEF HandoffType
  <2>5. got' \in [Procs -> Tokens] /\ dma' \in [Procs -> Extents \cup {"none"}]
    BY <1>1, <1>0, Nothing DEF HandoffType, Answer
  <2> QED
    BY <1>3, <2>1, <2>2, <2>3, <2>4, <2>5, <2>6, <2>7 DEF HandoffType
<1>6. \A q \in Procs \ {p} : Same(q)
  BY <1>1, <1>3 DEF HandoffType, Same
<1>7. /\ Token(p)' \in {NoToken, Token(p)}
      /\ Granted(p)' => Granted(p)
      /\ pc'[p] \in Decoding => pc[p] \in Decoding \/ Granted(p)
  BY <1>1, <1>3, Nothing DEF HandoffType, Local, Token, Grant, Granted, Decoding, Readers, Writers
<1>8. Local(p)'
  <2>1. held'[p] = HeldAt(pc'[p])
    BY <1>1 DEF HandoffType, Local, HeldAt, All
  <2>2. Token(p)' < next_token'
    <3>1. next_token' = next_token /\ next_token \in Nat \ {0} /\ Token(p) < next_token
      BY <1>1, <1>2 DEF HandoffType, StoreTypeOK, storeVars, Local
    <3> QED
      BY <1>7, <3>1 DEF NoToken
  <2>7. got'[p] < next_token'
    BY <1>1, <1>2, <1>0 DEF HandoffType, StoreTypeOK, storeVars, Local, NoToken
  <2>3. (p \in alive)' /\ pc'[p] # "dead" /\ (pc'[p] # "idle" => key'[p] \in Keys)
    BY <1>1, <1>2 DEF HandoffType, Local
  <2>4. /\ pc'[p] \notin Waiting => inbox'[p] = Silence
        /\ inbox'[p].kind = "descriptor" => pc'[p] \in {"allocating", "acquiring"}
        /\ inbox'[p].kind # "descriptor" => inbox'[p].token = NoToken
    BY <1>1, Nothing DEF HandoffType, Local, Waiting
  <2>5. /\ lease'[p].mapped => pc'[p] \in Writers \cup Readers
        /\ pc'[p] \in {"copying"} \cup Readers => lease'[p].mapped
        /\ pc'[p] \in {"idle", "dead", "allocating", "acquiring"} => lease'[p] = NoLease
        /\ dma'[p] # "none" <=> lease'[p].mapped /\ pc'[p] \in Writers
        /\ dma'[p] # "none" => dma'[p] = lease'[p].extent
    BY <1>1, <1>3, Nothing DEF HandoffType, Local, Writers, Readers
  <2>6. pc'[p] \in Decoding => lease'[p].token # NoToken /\ got'[p] # NoToken
    BY <1>1, <1>3, <1>0 DEF HandoffType, Local, Decoding, NoToken
  <2> QED
    BY <2>1, <2>2, <2>3, <2>4, <2>5, <2>6, <2>7 DEF Local
<1>9. Backed(entries, p)'
  BY <1>1, <1>2, <1>3, <1>7, <1>0, Nothing
  DEF HandoffType, storeVars, Local, Backed, Granted, Token, Grant, Waiting, Decoding, Writers,
      Readers
<1>10. Contents(entries)'
  BY <1>1, <1>2, <1>4, ContentsKept DEF storeVars, Asking, Asks
<1> HIDE DEF Restored
<1> QED
  BY <1>2, <1>4, <1>5, <1>6, <1>7, <1>8, <1>9, <1>10, ProcessStep
-----------------------------------------------------------------------------
(* The copy to the arena.                                                  *)

LEMMA WriterFacts ==
  ASSUME HandoffInv, NEW p \in Procs, dma[p] # "none"
  PROVE  /\ pc[p] \in Writers /\ lease[p].mapped /\ dma[p] = lease[p].extent
         /\ key[p] \in Keys /\ dma[p] \in Extents /\ lease[p].token \in 1 .. next_token - 1
         /\ entries[key[p]].state = "writing" /\ entries[key[p]].extent = dma[p]
         /\ entries[key[p]].write_token = lease[p].token
         /\ \A k \in Keys \ {key[p]} : entries[k].state # "absent" =>
              entries[k].extent # dma[p] /\ entries[k].write_token # lease[p].token
         /\ \A m \in net : m.token # lease[p].token
<1>1. HandoffType /\ Local(p) /\ Backed(entries, p) /\ Catalogue(entries)
  BY DEF HandoffInv
<1>2. pc[p] \in Writers /\ lease[p].mapped /\ dma[p] = lease[p].extent /\ dma[p] \in Extents
  BY <1>1 DEF Local, HandoffType
<1>3. key[p] \in Keys /\ inbox[p] = Silence
  BY <1>1, <1>2 DEF Local, Waiting, Writers
<1>4. Granted(p) /\ Grant(p) = lease[p] /\ Token(p) = lease[p].token
  BY <1>2, <1>3, Nothing DEF Granted, Grant, Token
<1>5. entries[key[p]] = [state |-> "writing", write_token |-> lease[p].token,
                         read_token |-> NoToken, pidfd |-> p, extent |-> dma[p]]
  BY <1>1, <1>2, <1>4 DEF Backed
<1>6. lease[p].token \in 1 .. next_token - 1
  BY <1>1, <1>3, <1>5 DEF Catalogue, EntryOK
<1>7. \A k \in Keys \ {key[p]} : entries[k].state # "absent" =>
        entries[k].extent # dma[p] /\ entries[k].write_token # lease[p].token
  BY <1>1, <1>3, <1>5 DEF Catalogue, Distinct
<1>8. \A m \in net : m.token # lease[p].token
  BY <1>4, <1>6 DEF HandoffInv, Mail, Asks, NoToken
<1> QED
  BY <1>2, <1>3, <1>5, <1>6, <1>7, <1>8

LEMMA ArenaWritten ==
  ASSUME HandoffInv, NEW p \in Procs, dma[p] # "none", entries' = entries,
         \A x \in Extents \ {dma[p]} : mem'[x] = mem[x],
         \A m \in net' :
           m \in net \/ (m.token = lease[p].token
                        /\ mem'[dma[p]] = [token |-> lease[p].token, whole |-> TRUE])
  PROVE  Contents(entries)'
<1>1. /\ mem \in [Extents -> [token : Tokens, whole : BOOLEAN]] /\ Contents(entries)
      /\ \A k \in Keys : entries[k] \in Entry /\ EntryOK(entries[k], next_token)
  BY DEF HandoffInv, HandoffType, Catalogue
<1>2. /\ key[p] \in Keys /\ dma[p] \in Extents
      /\ entries[key[p]].state = "writing" /\ entries[key[p]].extent = dma[p]
      /\ entries[key[p]].write_token = lease[p].token
      /\ \A k \in Keys \ {key[p]} : entries[k].state # "absent" =>
           entries[k].extent # dma[p] /\ entries[k].write_token # lease[p].token
      /\ \A m \in net : m.token # lease[p].token
  BY WriterFacts
<1>3. ASSUME NEW k \in Keys \ {key[p]}, entries[k].state # "absent"
      PROVE  mem'[entries[k].extent] = mem[entries[k].extent]
  <2>1. entries[k].extent \in Extents
    BY <1>1, <1>3 DEF EntryOK, Entry
  <2> QED
    BY <1>1, <1>2, <1>3, <2>1
<1>5. ASSUME NEW k \in Keys, entries[k].state \in {"ready", "reading"}
      PROVE  mem'[entries[k].extent] = [token |-> entries[k].write_token, whole |-> TRUE]
  <2>1. k # key[p]
    BY <1>2, <1>5
  <2> QED
    BY <1>1, <1>3, <1>5, <2>1 DEF Contents, Whole
<1>6. ASSUME NEW m \in net', NEW k \in Keys, m.op = "commit", entries[k].state = "writing",
             entries[k].write_token = m.token
      PROVE  mem'[entries[k].extent] = [token |-> m.token, whole |-> TRUE]
  <2>1. CASE k = key[p]
    <3>1. entries[k].write_token = lease[p].token
      BY <1>2, <2>1
    <3>2. m \notin net
      BY <1>2, <1>6, <3>1
    <3> QED
      BY <1>2, <2>1, <3>1, <1>6, <3>2 DEF Whole
  <2>2. CASE k # key[p]
    <3>1. m \in net
      BY <1>2, <1>6, <2>2
    <3> QED
      BY <1>1, <1>3, <1>6, <2>2, <3>1 DEF Contents, Whole
  <2> QED
    BY <2>1, <2>2
<1>7. \A k \in Keys : entries'[k] = entries[k]
  OBVIOUS
<1> QED
  BY <1>5, <1>6, <1>7 DEF Contents, Whole

LEMMA CopyPartInv ==
  ASSUME HandoffInv, NEW p \in Procs, CopyPart(p)
  PROVE  HandoffInv'
<1>1. HandoffType'
  BY WriterFacts DEF HandoffInv, HandoffType, StoreTypeOK, CopyPart, storeVars, procVars, Lease
<1>2. Contents(entries)'
  <2>1. /\ entries' = entries /\ (\A m \in net' : m \in net) /\ dma[p] # "none"
        /\ \A x \in Extents \ {dma[p]} : mem'[x] = mem[x]
    BY DEF CopyPart, storeVars, HandoffInv, HandoffType
  <2> QED
    BY <2>1, ArenaWritten
<1>3. \A q \in Procs : Same(q)
  BY DEF CopyPart, procVars, Same
<1>4. entries' = entries /\ next_token' = next_token /\ alive' = alive /\ net' = net
  BY DEF CopyPart, storeVars
<1>5. \A q \in Procs : Local(q)' /\ Backed(entries, q)'
  BY <1>3, <1>4, SameLocal, SameBacked DEF HandoffInv
<1>6. \A q, r \in Procs : Apart(q, r)'
  BY <1>3, SameGrant DEF HandoffInv, Apart
<1>7. \A q \in Procs, m \in net : Mail(q, m)'
  BY <1>3, <1>4, SameGrant DEF HandoffInv, Mail, Asks, Same
<1>8. OneAwaited' /\ Catalogue(entries)'
  BY <1>4 DEF HandoffInv, OneAwaited, Catalogue, EntryOK
<1> QED
  BY <1>1, <1>2, <1>4, <1>5, <1>6, <1>7, <1>8 DEF HandoffInv

LEMMA CopyDoneInv ==
  ASSUME HandoffInv, NEW p \in Procs, CopyDone(p)
  PROVE  HandoffInv'
<1> USE DEF CopyDone, Goto
<1>1. HandoffType /\ Local(p) /\ Contents(entries) /\ dma[p] # "none"
  BY DEF HandoffInv, Local, Writers
<1>2. /\ p \in alive /\ UNCHANGED <<storeVars, alive>>
      /\ pc[p] \notin Waiting /\ pc'[p] \notin Decoding
  BY <1>1 DEF HandoffType, Waiting, Decoding
<1>3. /\ lease' \in [Procs -> Lease]
      /\ \A q \in Procs \ {p} : lease'[q] = lease[q]
      /\ lease'[p].token = lease[p].token /\ ~lease'[p].mapped
  BY <1>1, DropViewsValue DEF HandoffType
<1>10. Asking(p)
  <2>1. Send(p, "commit", key[p], lease[p].token, FALSE) /\ <<"commit", pc'[p]>> \in Asks
    BY <1>1 DEF HandoffType, Asks
  <2>2. lease[p].token \in Tokens /\ key[p] \in Keys /\ key'[p] = key[p]
    BY <1>1, WriterFacts DEF HandoffType, Lease
  <2>3. inbox'[p] = Silence /\ ~Granted(p)' /\ Token(p) = lease[p].token
    BY <1>1, <1>3, Nothing DEF Local, Waiting, Granted, Token, Grant
  <2> HIDE DEF CopyDone, Goto
  <2> QED
    BY <1>2, <2>1, <2>2, <2>3, Sent
<1>4. HandoffType'
  <2>1. net' \subseteq Call
    BY <1>1, <1>10 DEF HandoffType, Asking
  <2>2. StoreTypeOK' /\ mem' \in [Extents -> [token : Tokens, whole : BOOLEAN]]
    BY <1>1 DEF HandoffType, StoreTypeOK, storeVars, Lease
  <2>3. pc' \in [Procs -> Places] /\ dma' \in [Procs -> Extents \cup {"none"}]
    BY <1>1 DEF HandoffType, Places, Waiting
  <2> QED
    BY <1>1, <1>3, <2>1, <2>2, <2>3 DEF HandoffType
<1>5. \A q \in Procs \ {p} : Same(q)
  BY <1>1, <1>3 DEF HandoffType, Same
<1>6. inbox'[p] = Silence /\ ~Granted(p)' /\ Token(p)' = Token(p)
  BY <1>1, <1>3, Nothing DEF Local, Waiting, Granted, Token, Grant
<1>7. Local(p)'
  BY <1>1, <1>2, <1>3, <1>6, Nothing
  DEF HandoffType, storeVars, Local, Waiting, Decoding, Writers, Readers, HeldAt
<1>8. Backed(entries, p)'
  BY <1>1, <1>6 DEF HandoffType, Backed, Decoding
<1>9. Contents(entries)'
  <2>1. /\ entries' = entries
        /\ \A x \in Extents \ {dma[p]} : mem'[x] = mem[x]
        /\ \A m \in net' : m \in net \/ m.token = lease[p].token
        /\ mem'[dma[p]] = [token |-> lease[p].token, whole |-> TRUE]
        /\ dma'[p] = "none" /\ lease'[p].token = lease[p].token
    BY <1>1, <1>3, WriterFacts DEF HandoffType, storeVars, Send
  <2> HIDE DEF CopyDone, Goto
  <2> QED
    BY <1>1, <2>1, ArenaWritten
<1> HIDE DEF CopyDone, Goto
<1> QED
  BY <1>1, <1>2, <1>4, <1>5, <1>6, <1>7, <1>8, <1>9, <1>10, ProcessStep
-----------------------------------------------------------------------------
(* A process stops waiting, or exits: nothing it asked is awaited now.     *)

LEMMA UnawaitedCalls ==
  ASSUME net \subseteq Call, NEW p \in Procs,
         net' = {[m EXCEPT !.awaited = @ /\ m.from # p] : m \in net}
  PROVE  /\ net' \subseteq Call
         /\ \A n \in net' : \E m \in net :
              /\ n.from = m.from /\ n.op = m.op /\ n.key = m.key /\ n.token = m.token
              /\ n.delete = m.delete
              /\ n.awaited => m.awaited /\ m.from # p
         /\ OneAwaited => OneAwaited'
<1> DEFINE After(m) == [m EXCEPT !.awaited = @ /\ m.from # p]
<1>1. \A m \in Call :
        /\ After(m) \in Call
        /\ After(m).from = m.from /\ After(m).op = m.op /\ After(m).key = m.key
        /\ After(m).token = m.token /\ After(m).delete = m.delete
        /\ After(m).awaited = (m.awaited /\ m.from # p)
  BY DEF Call
<1>2. \A n \in net' : \E m \in net : n = After(m)
  OBVIOUS
<1> HIDE DEF After
<1>3. ASSUME OneAwaited, NEW n1 \in net', NEW n2 \in net',
              n1.awaited, n2.awaited, n1.from = n2.from
      PROVE  n1 = n2
  <2>1. PICK m1 \in net, m2 \in net : n1 = After(m1) /\ n2 = After(m2)
    BY <1>2
  <2>2. m1 = m2
    BY <1>1, <1>3, <2>1 DEF OneAwaited
  <2> QED
    BY <2>1, <2>2
<1>4. OneAwaited => OneAwaited'
  BY <1>3 DEF OneAwaited
<1>5. net' \subseteq Call
  BY <1>1, <1>2
<1>6. ASSUME NEW n \in net'
      PROVE  \E m \in net :
               /\ n.from = m.from /\ n.op = m.op /\ n.key = m.key /\ n.token = m.token
               /\ n.delete = m.delete
               /\ n.awaited => m.awaited /\ m.from # p
  <2>1. PICK m \in net : n = After(m)
    BY <1>2
  <2> QED
    BY <1>1, <2>1
<1> QED
  BY <1>4, <1>5, <1>6

LEMMA SilencedStep ==
  ASSUME HandoffInv, NEW p \in Procs, HandoffType', mem' = mem,
         entries' = entries, next_token' = next_token,
         net' = {[m EXCEPT !.awaited = @ /\ m.from # p] : m \in net},
         alive' \in {alive, alive \ {p}},
         \A q \in Procs \ {p} : Same(q),
         ~Granted(p)', Token(p)' \in {NoToken, Token(p)},
         pc'[p] \in Decoding => pc[p] \in Decoding,
         Local(p)', Backed(entries, p)'
  PROVE  HandoffInv'
<1>1. /\ \A n \in net' : \E m \in net :
           /\ n.from = m.from /\ n.op = m.op /\ n.key = m.key /\ n.token = m.token
           /\ n.delete = m.delete
           /\ n.awaited => m.awaited /\ m.from # p
      /\ OneAwaited'
  BY UnawaitedCalls DEF HandoffInv, HandoffType
<1>2. \A q \in Procs \ {p} : (q \in alive)' <=> q \in alive
  OBVIOUS
<1>3. \A q \in Procs : Local(q)' /\ Backed(entries, q)'
  <2>1. ASSUME NEW q \in Procs \ {p} PROVE Local(q)'
    BY <1>2, SameGrant DEF HandoffInv, Local, Same
  <2> QED
    BY <2>1, SameBacked DEF HandoffInv
<1>4. \A q \in Procs : /\ Token(q)' \in {NoToken, Token(q)}
                       /\ Granted(q)' => Granted(q)
                       /\ pc'[q] \in Decoding => pc[q] \in Decoding
  BY SameGrant DEF Same
<1>5. \A q, r \in Procs : Apart(q, r)'
  BY <1>4 DEF HandoffInv, Apart
<1>6. ASSUME NEW q \in Procs, NEW n \in net' PROVE Mail(q, n)'
  <2>1. PICK m \in net :
          /\ n.from = m.from /\ n.op = m.op /\ n.key = m.key /\ n.token = m.token
          /\ n.delete = m.delete
          /\ n.awaited => m.awaited /\ m.from # p
    BY <1>1
  <2>2. Mail(q, m)
    BY DEF HandoffInv
  <2>3. n.awaited /\ n.from = q => Same(q) /\ (q \in alive)'
    BY <1>2, <2>1, <2>2 DEF Mail, Asks
  <2> QED
    BY <1>4, <2>1, <2>2, <2>3 DEF Mail, Asks, Same
<1>8. Catalogue(entries)'
  BY DEF HandoffInv, Catalogue, EntryOK
<1>9. Contents(entries)'
  BY <1>1 DEF HandoffInv, Contents, Whole
<1> QED
  BY <1>1, <1>3, <1>5, <1>6, <1>8, <1>9 DEF HandoffInv

LEMMA NoAnswerInv ==
  ASSUME HandoffInv, NEW p \in Procs, NoAnswer(p)
  PROVE  HandoffInv'
<1> USE DEF NoAnswer
<1>1. HandoffType /\ Local(p) /\ Backed(entries, p)
  BY DEF HandoffInv
<1>2. Refused \in Answer /\ Refused.kind = "error" /\ Refused.token = NoToken
  BY StoreAssumption DEF Refused, Answer, Tokens, NoToken
<1>3. HandoffType'
  BY <1>1, <1>2, UnawaitedCalls DEF HandoffType, StoreTypeOK, storeVars, procVars
<1>4. ~lease[p].mapped
  BY <1>1 DEF Local, Waiting, Writers, Readers
<1>5. ~Granted(p)' /\ Token(p)' \in {NoToken, Token(p)}
  BY <1>1, <1>2, <1>4 DEF HandoffType, procVars, Local, Granted, Token, Grant, NoLease
<1>6. Local(p)'
  <2>1. Token(p)' < next_token'
    BY <1>1, <1>5 DEF HandoffType, StoreTypeOK, storeVars, Local, NoToken
  <2> QED
    BY <1>1, <1>2, <2>1 DEF HandoffType, storeVars, procVars, Local
<1>7. Backed(entries, p)'
  BY <1>1, <1>5 DEF storeVars, procVars, Backed
<1>8. \A q \in Procs \ {p} : Same(q)
  BY <1>1 DEF HandoffType, procVars, Same
<1> HIDE DEF NoAnswer
<1>9. /\ entries' = entries /\ next_token' = next_token /\ alive' = alive
      /\ net' = {[m EXCEPT !.awaited = @ /\ m.from # p] : m \in net}
      /\ mem' = mem /\ pc' = pc
  BY DEF NoAnswer, storeVars, procVars
<1> QED
  BY <1>3, <1>5, <1>6, <1>7, <1>8, <1>9, SilencedStep

LEMMA CrashInv ==
  ASSUME HandoffInv, NEW p \in Procs, Crash(p)
  PROVE  HandoffInv'
<1>1. HandoffType /\ Local(p)
  BY DEF HandoffInv
<1>2. HandoffType'
  <2>1. net' \subseteq Call
    BY <1>1, UnawaitedCalls DEF HandoffType, Crash
  <2>2. StoreTypeOK'
    BY <1>1 DEF HandoffType, StoreTypeOK, Crash, storeVars
  <2> QED
    BY <1>1, <2>1, <2>2, Nothing DEF HandoffType, Crash, Places
<1>3. /\ pc'[p] = "dead" /\ lease'[p] = NoLease /\ dma'[p] = "none" /\ inbox'[p] = Silence
      /\ key'[p] = "none" /\ got'[p] = NoToken /\ held'[p] = {} /\ ~(p \in alive)'
  BY <1>1 DEF HandoffType, Crash
<1>4. ~Granted(p)' /\ Token(p)' = NoToken /\ pc'[p] \notin Decoding
  BY <1>3, Nothing DEF Granted, Token, Grant, Decoding
<1>5. next_token' = next_token /\ next_token \in Nat \ {0}
  BY <1>1 DEF Crash, HandoffType, storeVars, StoreTypeOK
<1>6. Local(p)'
  BY <1>3, <1>4, <1>5, Nothing DEF Local, Waiting, Writers, Readers, Decoding, HeldAt, NoToken
<1>7. Backed(entries, p)'
  BY <1>4 DEF Backed
<1>8. \A q \in Procs \ {p} : Same(q)
  BY <1>1 DEF HandoffType, Crash, Same
<1>9. /\ entries' = entries /\ next_token' = next_token /\ alive' = alive \ {p}
      /\ net' = {[m EXCEPT !.awaited = @ /\ m.from # p] : m \in net} /\ mem' = mem
  BY DEF Crash, storeVars
<1> QED
  BY <1>2, <1>4, <1>6, <1>7, <1>8, <1>9, SilencedStep
-----------------------------------------------------------------------------
(* The catalogue after _reap().                                            *)

(* A catalogue that the processes can go on with; what _reap() does to an  *)
(* entry.                                                                  *)
Consistent(C) == Catalogue(C) /\ Contents(C) /\ \A p \in Procs : Backed(C, p)

Fades(e, f) ==
  \/ f = e /\ (Leased(e) => e.pidfd \in alive)
  \/ f = Absent /\ (Leased(e) => e.pidfd \notin alive)
  \/ f = Unlocked(e) /\ e.state = "reading" /\ e.pidfd \notin alive

LEMMA AbsentEntry ==
  /\ Absent \in Entry /\ Absent.state = "absent" /\ \A n : EntryOK(Absent, n)
  /\ \A e : Distinct(Absent, e) /\ Distinct(e, Absent)
BY StoreAssumption DEF Absent, Entry, Tokens, NoToken, EntryOK, Distinct

LEMMA UnlockedEntry ==
  ASSUME NEW e \in Entry
  PROVE  /\ Unlocked(e) \in Entry /\ Unlocked(e).state = "ready"
         /\ Unlocked(e).read_token = NoToken /\ Unlocked(e).pidfd = "none"
         /\ Unlocked(e).write_token = e.write_token /\ Unlocked(e).extent = e.extent
<1>1. NoToken \in Tokens
  BY Nothing
<1>2. Unlocked(e) \in Entry
  BY <1>1 DEF Unlocked, Entry
<1> QED
  BY <1>2 DEF Unlocked, Entry

LEMMA ReapedEntries ==
  ASSUME entries \in [Keys -> Entry], NEW E \in Reaped
  PROVE  E \in [Keys -> Entry] /\ \A k \in Keys : Fades(entries[k], E[k])
<1>1. PICK old \in SUBSET {k \in Keys : MayExpire(entries[k])} :
        E = [k \in Keys |-> IF k \in old THEN Absent ELSE Reclaimed(entries[k])]
  BY DEF Reaped
<1>2. \A k \in Keys : Fades(entries[k], E[k])
  BY <1>1 DEF Fades, MayExpire, Reclaimed, Leased
<1>3. \A k \in Keys : E[k] \in Entry
  BY <1>2, AbsentEntry, UnlockedEntry DEF Fades
<1> QED
  BY <1>1, <1>2, <1>3

LEMMA ReapConsistent ==
  ASSUME HandoffInv, NEW E \in Reaped
  PROVE  Consistent(E)
<1>1. E \in [Keys -> Entry] /\ \A k \in Keys : Fades(entries[k], E[k])
  BY ReapedEntries DEF HandoffInv, Catalogue
<1>2. \A k \in Keys : entries[k] \in Entry /\ EntryOK(entries[k], next_token)
  BY DEF HandoffInv, Catalogue
<1>3. \A k \in Keys :
        \/ E[k] = Absent \/ E[k] = entries[k]
        \/ /\ entries[k].state = "reading"
           /\ E[k].state = "ready" /\ E[k].read_token = NoToken /\ E[k].pidfd = "none"
           /\ E[k].write_token = entries[k].write_token /\ E[k].extent = entries[k].extent
  BY <1>1, <1>2, UnlockedEntry DEF Fades
<1>4. Catalogue(E)
  <2>1. \A k \in Keys : EntryOK(E[k], next_token)
    BY <1>2, <1>3, AbsentEntry DEF EntryOK
  <2>2. ASSUME NEW k \in Keys, NEW l \in Keys, k # l PROVE Distinct(E[k], E[l])
    <3>1. Distinct(entries[k], entries[l])
      BY <2>2 DEF HandoffInv, Catalogue
    <3> QED
      BY <1>3, <3>1, AbsentEntry DEF Distinct
  <2> QED
    BY <1>1, <2>1, <2>2 DEF Catalogue
<1>5. Contents(E)
  BY <1>3, AbsentEntry DEF HandoffInv, Contents
<1>6. ASSUME NEW p \in Procs PROVE Backed(E, p)
  <2>1. Local(p) /\ Backed(entries, p)
    BY DEF HandoffInv
  <2>2. Granted(p) => p \in alive /\ key[p] \in Keys
    BY <2>1 DEF Local, Granted, Writers, Readers
  <2>3. pc[p] \in Decoding => p \in alive
    BY <2>1 DEF Local, Decoding
  <2>4. \A k \in Keys : Leased(entries[k]) /\ entries[k].pidfd \in alive => E[k] = entries[k]
    BY <1>1 DEF Fades, Leased
  <2>5. Granted(p) /\ pc[p] \in {"allocating"} \cup Writers =>
          E[key[p]] = [state |-> "writing", write_token |-> Token(p), read_token |-> NoToken,
                       pidfd |-> p, extent |-> Grant(p).extent]
    BY <2>1, <2>2, <2>4 DEF Backed, Leased
  <2>6. Granted(p) /\ pc[p] \in {"acquiring"} \cup Readers =>
          /\ E[key[p]].state = "reading" /\ E[key[p]].pidfd = p
          /\ E[key[p]].read_token = Token(p) /\ E[key[p]].extent = Grant(p).extent
    BY <2>1, <2>2, <2>4 DEF Backed, Leased
  <2>7. ASSUME pc[p] \in Decoding, NEW k \in Keys,
               E[k].state # "absent", E[k].write_token = got[p]
        PROVE  E[k].state = "reading" /\ E[k].pidfd = p /\ E[k].read_token = lease[p].token
    <3>1. entries[k].state # "absent" /\ entries[k].write_token = got[p]
      BY <1>2, <1>3, <2>7, AbsentEntry DEF EntryOK
    <3> QED
      BY <2>1, <2>3, <2>4, <2>7, <3>1 DEF Backed, Leased
  <2> QED
    BY <2>5, <2>6, <2>7 DEF Backed
<1> QED
  BY <1>4, <1>5, <1>6 DEF Consistent

(* One entry of a consistent catalogue is replaced.                        *)
LEMMA ReplaceEntry ==
  ASSUME HandoffInv, NEW E, Consistent(E), NEW k \in Keys, NEW e \in Entry,
         entries' = [E EXCEPT ![k] = e],
         next_token' \in {next_token, next_token + 1},
         EntryOK(e, next_token'), \A l \in Keys \ {k} : Distinct(e, E[l]),
         e.state \in {"ready", "reading"} => Whole(e.extent, e.write_token),
         e.state = "writing" =>
           \A m \in net : m.op = "commit" => m.token # e.write_token,
         \A p \in Procs : Granted(p) => key[p] # k,
         \A p \in Procs :
           pc[p] \in Decoding /\ e.state # "absent" => e.write_token # got[p]
  PROVE  /\ Catalogue(entries)' /\ Contents(entries')
         /\ \A p \in Procs : Backed(entries', p)
<1>1. E \in [Keys -> Entry] /\ next_token \in Nat
  BY DEF Consistent, Catalogue, HandoffInv, HandoffType, StoreTypeOK
<1>2. entries' \in [Keys -> Entry] /\ entries'[k] = e
      /\ \A l \in Keys \ {k} : entries'[l] = E[l]
  BY <1>1
<1>3. Catalogue(entries)'
  <2>1. \A l \in Keys \ {k} : EntryOK(E[l], next_token')
    BY <1>1 DEF Consistent, Catalogue, EntryOK
  <2>2. \A l \in Keys : EntryOK(entries'[l], next_token')
    BY <1>2, <2>1
  <2>3. \A l1, l2 \in Keys : l1 # l2 => Distinct(entries'[l1], entries'[l2])
    BY <1>2 DEF Consistent, Catalogue, Distinct
  <2> QED
    BY <1>2, <2>2, <2>3 DEF Catalogue
<1>4. Contents(entries')
  BY <1>2 DEF Consistent, Contents
<1>5. ASSUME NEW p \in Procs PROVE Backed(entries', p)
  <2>1. Backed(E, p) /\ Local(p)
    BY DEF Consistent, HandoffInv
  <2>2. Granted(p) => key[p] \in Keys \ {k}
    BY <2>1 DEF Local, Granted, Writers, Readers
  <2> QED
    BY <1>2, <2>1, <2>2 DEF Backed
<1> QED
  BY <1>3, <1>4, <1>5
-----------------------------------------------------------------------------
(* The operations of the store.  What each does to the catalogue, when a   *)
(* call m asks for it.                                                     *)

(* The reply: a descriptor only to a call that asks for a lease, with a    *)
(* token never issued before.                                              *)
ReplyOK(m, reply) ==
  /\ reply.kind = "descriptor" =>
       /\ reply.token = next_token /\ next_token' = next_token + 1
       /\ m.op = "allocate" =>
            entries'[m.key] = [state |-> "writing", write_token |-> reply.token,
                               read_token |-> NoToken, pidfd |-> m.from, extent |-> reply.extent]
       /\ m.op = "acquire" =>
            /\ entries'[m.key].state = "reading" /\ entries'[m.key].pidfd = m.from
            /\ entries'[m.key].read_token = reply.token
            /\ entries'[m.key].extent = reply.extent
       /\ m.op \in {"allocate", "acquire"}
  /\ reply.kind # "descriptor" => reply.token = NoToken

(* What an operation leaves true, whatever it was.                         *)
StoreStep ==
  /\ next_token' \in {next_token, next_token + 1} /\ next_token' \in 1 .. LastToken + 1
  /\ completed' \in Seq(Keys \X (1 .. LastToken)) /\ Len(completed') <= ReceiptLimit
  /\ Catalogue(entries)' /\ Contents(entries')
  /\ \A p \in Procs : Backed(entries', p)

LEMMA Facts ==
  ASSUME HandoffInv
  PROVE  /\ entries \in [Keys -> Entry] /\ next_token \in 1 .. LastToken + 1
         /\ completed \in Seq(Keys \X (1 .. LastToken)) /\ Len(completed) <= ReceiptLimit
         /\ LastToken \in Nat /\ ReceiptLimit \in Nat \ {0}
         /\ net \subseteq Call /\ \A m \in net : m.token \in Nat /\ m.token < next_token
         /\ \A p \in Procs : got[p] < next_token
<1>1. /\ StoreTypeOK /\ net \subseteq Call /\ LastToken \in Nat /\ ReceiptLimit \in Nat \ {0}
      /\ \A p \in Procs : Local(p)
  BY StoreAssumption DEF HandoffInv, HandoffType
<1>2. entries \in [Keys -> Entry]
  BY DEF HandoffInv, Catalogue
<1>3. ASSUME NEW m \in net PROVE m.token \in Nat /\ m.token < next_token
  <2>1. m.token \in Nat /\ m.from \in Procs
    BY <1>1 DEF Call, Tokens
  <2> QED
    BY <2>1 DEF HandoffInv, Mail
<1> QED
  BY <1>1, <1>2, <1>3 DEF StoreTypeOK, Local

LEMMA AnswerKinds ==
  /\ Refused.kind = "error" /\ Refused.token = NoToken
  /\ Receipt.kind = "receipt" /\ Receipt.token = NoToken
BY DEF Refused, Receipt

(* A lease stays with the process it was granted to.                       *)
LEMMA GrantedEntry ==
  ASSUME HandoffInv, NEW E, Consistent(E), NEW p \in Procs, Granted(p)
  PROVE  /\ key[p] \in Keys
         /\ \/ E[key[p]].state = "writing" /\ E[key[p]].write_token = Token(p)
            \/ E[key[p]].state = "reading" /\ E[key[p]].read_token = Token(p)
<1>1. Local(p) /\ Backed(E, p)
  BY DEF HandoffInv, Consistent
<1> QED
  BY <1>1 DEF Local, Backed, Granted, Writers, Readers

LEMMA Unchanged ==
  ASSUME HandoffInv, NEW E \in Reaped, entries' = E, next_token' = next_token,
         completed' = completed
  PROVE  StoreStep
<1>1. Consistent(E)
  BY ReapConsistent
<1> QED
  BY <1>1, Facts DEF StoreStep, Consistent, Catalogue

(* What replacing an entry needs, for a call that names its lease.         *)
LEMMA LeaseOver ==
  ASSUME HandoffInv, NEW E, Consistent(E), NEW m \in net, NEW k \in Keys,
         \/ E[k].state = "writing" /\ E[k].write_token = m.token
         \/ E[k].state = "reading" /\ E[k].read_token = m.token
  PROVE  /\ m.token \in 1 .. next_token - 1
         /\ \A p \in Procs : Granted(p) => key[p] # k
         /\ \A p \in Procs : pc[p] \in Decoding /\ E[k].write_token = got[p] =>
              m.op = "release" /\ m.delete
<1>1. EntryOK(E[k], next_token)
  BY DEF Consistent, Catalogue
<1>2. m.token \in 1 .. next_token - 1
  BY <1>1 DEF EntryOK
<1>3. ASSUME NEW p \in Procs, Granted(p), key[p] = k PROVE FALSE
  <2>1. Token(p) = m.token
    BY <1>3, GrantedEntry
  <2> QED
    BY <1>2, <1>3, <2>1 DEF HandoffInv, Mail, Asks, NoToken
<1>4. ASSUME NEW p \in Procs, pc[p] \in Decoding, E[k].write_token = got[p]
      PROVE  m.op = "release" /\ m.delete
  <2>1. Local(p) /\ Backed(E, p) /\ Mail(p, m)
    BY DEF HandoffInv, Consistent
  <2>2. E[k].state = "reading" /\ lease[p].token = m.token
    BY <1>4, <2>1 DEF Backed
  <2>3. Token(p) = lease[p].token
    BY <1>4, <2>1 DEF Local, Token, Grant, Decoding
  <2> QED
    BY <1>2, <1>4, <2>1, <2>2, <2>3 DEF Mail, Asks, NoToken
<1> QED
  BY <1>2, <1>3, <1>4

LEMMA allocateStep ==
  ASSUME HandoffInv, NEW m \in net, NEW reply, m.op = "allocate",
         allocate(m.key, m.from, reply)
  PROVE  StoreStep /\ ReplyOK(m, reply)
<1>1. PICK E \in Reaped :
        \/ Refuse(E, reply)
        \/ /\ m.key \notin Stored(E)
           /\ \E x \in FreeExtents(E) :
                /\ entries' = [E EXCEPT ![m.key] =
                                 [state |-> "writing", write_token |-> next_token,
                                  read_token |-> NoToken, pidfd |-> m.from, extent |-> x]]
                /\ reply = Descriptor(x)
           /\ IssueToken
           /\ UNCHANGED completed
  BY DEF allocate
<1>2. Consistent(E) /\ m.key \in Keys /\ m.from \in Procs
  BY ReapConsistent, Facts DEF Call
<1>3. CASE Refuse(E, reply)
  BY <1>3, Unchanged, AnswerKinds DEF Refuse, ReplyOK
<1>4. CASE ~Refuse(E, reply)
  <2>1. PICK x \in FreeExtents(E) :
          /\ entries' = [E EXCEPT ![m.key] =
                           [state |-> "writing", write_token |-> next_token,
                            read_token |-> NoToken, pidfd |-> m.from, extent |-> x]]
          /\ reply = Descriptor(x)
    BY <1>1, <1>4
  <2> DEFINE e == [state |-> "writing", write_token |-> next_token,
                   read_token |-> NoToken, pidfd |-> m.from, extent |-> x]
  <2>2. /\ E[m.key].state = "absent" /\ completed' = completed
        /\ next_token \in 1 .. LastToken /\ next_token' = next_token + 1
    BY <1>1, <1>2, <1>4, Facts DEF Stored, IssueToken
  <2>3. e \in Entry /\ EntryOK(e, next_token')
    BY <1>2, <2>2, StoreAssumption DEF FreeExtents, Entry, Tokens, NoToken, EntryOK
  <2>4. \A l \in Keys \ {m.key} : Distinct(e, E[l])
    <3>1. ASSUME NEW l \in Keys, E[l].state # "absent"
          PROVE  E[l].extent # x /\ E[l].write_token # next_token
      <4>1. E[l].extent # x
        BY <3>1 DEF FreeExtents, Stored
      <4>2. EntryOK(E[l], next_token)
        BY <1>2 DEF Consistent, Catalogue
      <4> QED
        BY <3>1, <4>1, <4>2, Facts DEF EntryOK
    <3> QED
      BY <3>1 DEF Distinct
  <2>5. \A n \in net : n.op = "commit" => n.token # e.write_token
    BY Facts
  <2>6. \A p \in Procs : Granted(p) => key[p] # m.key
    BY <2>2, <1>2, GrantedEntry
  <2>7. \A p \in Procs : pc[p] \in Decoding => e.write_token # got[p]
    BY Facts
  <2>8. e.state = "writing" /\ entries' = [E EXCEPT ![m.key] = e]
    BY <2>1
  <2>9. entries'[m.key] = e /\ reply.token = next_token /\ reply.extent = x
    BY <2>1, <1>2 DEF Descriptor, Consistent, Catalogue
  <2>10. ReplyOK(m, reply)
    BY <2>2, <2>9, <2>1 DEF ReplyOK, Descriptor
  <2> HIDE DEF e
  <2>11. /\ Catalogue(entries)' /\ Contents(entries')
         /\ \A p \in Procs : Backed(entries', p)
    BY <1>2, <2>2, <2>3, <2>4, <2>5, <2>6, <2>7, <2>8, ReplaceEntry
  <2> QED
    BY <2>2, <2>10, <2>11, Facts DEF StoreStep
<1> QED
  BY <1>3, <1>4

LEMMA acquireStep ==
  ASSUME HandoffInv, NEW m \in net, NEW reply, m.op = "acquire",
         acquire(m.key, m.from, reply)
  PROVE  StoreStep /\ ReplyOK(m, reply)
<1>1. PICK E \in Reaped :
        \/ Refuse(E, reply)
        \/ /\ Acquirable(E[m.key])
           /\ entries' = [E EXCEPT ![m.key].state = "reading", ![m.key].read_token = next_token,
                                   ![m.key].pidfd = m.from]
           /\ reply = Descriptor(E[m.key].extent)
           /\ IssueToken
           /\ UNCHANGED completed
  BY DEF acquire
<1>2. Consistent(E) /\ m.key \in Keys /\ m.from \in Procs /\ E \in [Keys -> Entry]
  BY ReapConsistent, Facts DEF Call, Consistent, Catalogue
<1>3. CASE Refuse(E, reply)
  BY <1>3, Unchanged, AnswerKinds DEF Refuse, ReplyOK
<1>4. CASE ~Refuse(E, reply)
  <2> DEFINE e == [E[m.key] EXCEPT !.state = "reading", !.read_token = next_token,
                                   !.pidfd = m.from]
  <2>1. /\ E[m.key].state = "ready" /\ completed' = completed
        /\ next_token <= LastToken /\ next_token' = next_token + 1
        /\ reply = Descriptor(E[m.key].extent)
    BY <1>1, <1>4 DEF Acquirable, IssueToken
  <2>12. entries' = [E EXCEPT ![m.key] = e]
    BY <1>1, <1>2, <1>4
  <2>2. /\ e \in Entry /\ e.state = "reading" /\ e.read_token = next_token
        /\ e.pidfd = m.from /\ e.write_token = E[m.key].write_token
        /\ e.extent = E[m.key].extent
    <3>1. next_token \in Tokens /\ E[m.key] \in Entry
      BY <1>2, <2>1, Facts DEF Tokens
    <3> QED
      BY <1>2, <3>1 DEF Entry
  <2> HIDE DEF e
  <2>3. EntryOK(E[m.key], next_token)
    BY <1>2 DEF Consistent, Catalogue
  <2>4. EntryOK(e, next_token')
    BY <1>2, <2>1, <2>2, <2>3, StoreAssumption, Facts DEF EntryOK
  <2>5. \A l \in Keys \ {m.key} : Distinct(e, E[l])
    <3>1. ASSUME NEW l \in Keys \ {m.key}
          PROVE  Distinct(E[m.key], E[l]) /\ EntryOK(E[l], next_token)
      BY <1>2 DEF Consistent, Catalogue
    <3> QED
      BY <2>1, <2>2, <3>1 DEF Distinct, EntryOK
  <2>6. Whole(e.extent, e.write_token)
    BY <1>2, <2>1, <2>2 DEF Consistent, Contents
  <2>7. \A p \in Procs : Granted(p) => key[p] # m.key
    BY <2>1, <1>2, GrantedEntry
  <2>8. \A p \in Procs : pc[p] \in Decoding => e.write_token # got[p]
    <3>1. ASSUME NEW p \in Procs, pc[p] \in Decoding PROVE E[m.key].write_token # got[p]
      <4>1. Backed(E, p)
        BY <1>2 DEF Consistent
      <4> QED
        BY <1>2, <2>1, <3>1, <4>1 DEF Backed
    <3> QED
      BY <2>2, <3>1
  <2>9. entries'[m.key] = e /\ reply.token = next_token /\ reply.extent = e.extent
    BY <1>2, <2>1, <2>2, <2>12 DEF Descriptor
  <2>10. ReplyOK(m, reply)
    BY <2>1, <2>2, <2>9 DEF ReplyOK, Descriptor
  <2>11. e.state # "writing" /\ m.key \in Keys
    BY <1>2, <2>2
  <2>13. /\ Catalogue(entries)' /\ Contents(entries')
         /\ \A p \in Procs : Backed(entries', p)
    BY <1>2, <2>1, <2>2, <2>4, <2>5, <2>6, <2>7, <2>8, <2>11, <2>12, ReplaceEntry
  <2> QED
    BY <2>1, <2>10, <2>13, Facts DEF StoreStep
<1> QED
  BY <1>3, <1>4

LEMMA Removed ==
  ASSUME HandoffInv, NEW E, Consistent(E), NEW k \in Keys, entries' = [E EXCEPT ![k] = Absent],
         next_token' = next_token,
         \A p \in Procs : Granted(p) => key[p] # k
  PROVE  /\ Catalogue(entries)' /\ Contents(entries')
         /\ \A p \in Procs : Backed(entries', p)
<1>1. EntryOK(Absent, next_token') /\ \A l \in Keys \ {k} : Distinct(Absent, E[l])
  BY AbsentEntry
<1> QED
  BY <1>1, AbsentEntry, ReplaceEntry

LEMMA UnlockedStep ==
  ASSUME HandoffInv, NEW E, Consistent(E), NEW k \in Keys,
         entries' = [E EXCEPT ![k] = Unlocked(@)], next_token' = next_token,
         E[k].state \in {"writing", "reading"}, Whole(E[k].extent, E[k].write_token),
         \A p \in Procs : Granted(p) => key[p] # k,
         \A p \in Procs : pc[p] \in Decoding => E[k].write_token # got[p]
  PROVE  /\ Catalogue(entries)' /\ Contents(entries')
         /\ \A p \in Procs : Backed(entries', p)
<1> DEFINE e == Unlocked(E[k])
<1>1. E \in [Keys -> Entry] /\ EntryOK(E[k], next_token)
  BY DEF Consistent, Catalogue
<1>2. /\ e \in Entry /\ e.state = "ready" /\ e.read_token = NoToken /\ e.pidfd = "none"
      /\ e.write_token = E[k].write_token /\ e.extent = E[k].extent
  BY <1>1, UnlockedEntry
<1>3. entries' = [E EXCEPT ![k] = e]
  BY <1>1
<1> HIDE DEF e
<1>4. EntryOK(e, next_token')
  BY <1>1, <1>2 DEF EntryOK
<1>5. \A l \in Keys \ {k} : Distinct(e, E[l])
  <2>1. ASSUME NEW l \in Keys \ {k} PROVE Distinct(E[k], E[l])
    BY DEF Consistent, Catalogue
  <2> QED
    BY <1>2, <2>1 DEF Distinct
<1>6. Whole(e.extent, e.write_token) /\ e.state # "writing"
  BY <1>2
<1>7. \A p \in Procs : pc[p] \in Decoding /\ e.state # "absent" => e.write_token # got[p]
  BY <1>2
<1>8. e \in Entry
  BY <1>2
<1> QED
  BY <1>3, <1>4, <1>5, <1>6, <1>7, <1>8, ReplaceEntry

LEMMA commitStep ==
  ASSUME HandoffInv, NEW m \in net, NEW reply, m.op = "commit", commit(m.key, m.token, reply)
  PROVE  StoreStep /\ ReplyOK(m, reply)
<1>1. PICK E \in Reaped :
        \/ Refuse(E, reply)
        \/ /\ E[m.key].write_token = m.token
           /\ entries' = IF E[m.key].state = "writing"
                         THEN [E EXCEPT ![m.key] = Unlocked(@)] ELSE E
           /\ reply = Receipt
           /\ UNCHANGED <<completed, next_token>>
  BY DEF commit
<1>2. Consistent(E) /\ m.key \in Keys
  BY ReapConsistent, Facts DEF Call
<1>3. ReplyOK(m, reply)
  BY <1>1, AnswerKinds DEF Refuse, ReplyOK
<1>4. CASE entries' = E
  BY <1>1, <1>4, Unchanged, <1>3 DEF Refuse
<1>5. CASE entries' # E
  <2>1. /\ E[m.key].state = "writing" /\ E[m.key].write_token = m.token
        /\ entries' = [E EXCEPT ![m.key] = Unlocked(@)]
        /\ completed' = completed /\ next_token' = next_token
    BY <1>1, <1>5 DEF Refuse
  <2>2. /\ \A p \in Procs : Granted(p) => key[p] # m.key
        /\ \A p \in Procs : pc[p] \in Decoding => E[m.key].write_token # got[p]
    BY <1>2, <2>1, LeaseOver
  <2>3. Whole(E[m.key].extent, E[m.key].write_token)
    BY <1>2, <2>1 DEF Consistent, Contents
  <2>4. /\ Catalogue(entries)' /\ Contents(entries')
        /\ \A p \in Procs : Backed(entries', p)
    BY <1>2, <2>1, <2>2, <2>3, UnlockedStep
  <2> QED
    BY <1>3, <2>1, <2>4, Facts DEF StoreStep
<1> QED
  BY <1>4, <1>5

LEMMA abortStep ==
  ASSUME HandoffInv, NEW m \in net, NEW reply, m.op = "abort", abort(m.key, m.token, reply)
  PROVE  StoreStep /\ ReplyOK(m, reply)
<1>1. PICK E \in Reaped :
        \/ Refuse(E, reply)
        \/ /\ m.key \in Stored(E) => E[m.key].state = "writing" /\ E[m.key].write_token = m.token
           /\ entries' = [E EXCEPT ![m.key] = Absent]
           /\ reply = Receipt
           /\ UNCHANGED <<completed, next_token>>
  BY DEF abort
<1>2. Consistent(E) /\ m.key \in Keys
  BY ReapConsistent, Facts DEF Call
<1>3. ReplyOK(m, reply)
  BY <1>1, AnswerKinds DEF Refuse, ReplyOK
<1>4. CASE Refuse(E, reply)
  BY <1>4, Unchanged, <1>3 DEF Refuse
<1>5. CASE ~Refuse(E, reply)
  <2>1. \A p \in Procs : Granted(p) => key[p] # m.key
    BY <1>1, <1>2, <1>5, LeaseOver, GrantedEntry DEF Stored
  <2>2. /\ Catalogue(entries)' /\ Contents(entries')
        /\ \A p \in Procs : Backed(entries', p)
    BY <1>1, <1>2, <1>5, <2>1, Removed
  <2> QED
    BY <1>1, <1>3, <1>5, <2>2, Facts DEF StoreStep
<1> QED
  BY <1>4, <1>5

LEMMA RememberType ==
  ASSUME completed \in Seq(Keys \X (1 .. LastToken)), Len(completed) <= ReceiptLimit,
         NEW receipt \in Keys \X (1 .. LastToken), Remember(receipt)
  PROVE  completed' \in Seq(Keys \X (1 .. LastToken)) /\ Len(completed') <= ReceiptLimit
<1>1. CASE Len(completed) < ReceiptLimit
  BY <1>1, StoreAssumption DEF Remember
<1>2. CASE ~(Len(completed) < ReceiptLimit)
  <2>1. completed # <<>>
    BY <1>2, StoreAssumption
  <2>2. /\ Tail(completed) \in Seq(Keys \X (1 .. LastToken))
        /\ Len(Tail(completed)) = Len(completed) - 1
    BY <2>1
  <2>3. completed' = Append(Tail(completed), receipt)
    BY <1>2 DEF Remember
  <2> QED
    BY <2>2, <2>3, StoreAssumption
<1> QED
  BY <1>1, <1>2

LEMMA releaseStep ==
  ASSUME HandoffInv, NEW m \in net, NEW reply, m.op = "release",
         release(m.key, m.token, m.delete, reply)
  PROVE  StoreStep /\ ReplyOK(m, reply)
<1>1. PICK E \in Reaped :
        \/ /\ entries' = E /\ reply = Receipt
           /\ UNCHANGED <<completed, next_token>>
        \/ Refuse(E, reply)
        \/ /\ E[m.key].state = "reading" /\ E[m.key].read_token = m.token
           /\ entries' = [E EXCEPT ![m.key] = IF m.delete THEN Absent ELSE Unlocked(@)]
           /\ Remember(<<m.key, m.token>>)
           /\ reply = Receipt
           /\ UNCHANGED next_token
  BY DEF release
<1>2. Consistent(E) /\ m.key \in Keys
  BY ReapConsistent, Facts DEF Call
<1>3. ReplyOK(m, reply)
  BY <1>1, AnswerKinds DEF Refuse, ReplyOK
<1>4. CASE entries' = E /\ UNCHANGED <<completed, next_token>>
  BY <1>4, Unchanged, <1>3
<1>5. CASE ~(entries' = E /\ UNCHANGED <<completed, next_token>>)
  <2>1. /\ E[m.key].state = "reading" /\ E[m.key].read_token = m.token
        /\ entries' = [E EXCEPT ![m.key] = IF m.delete THEN Absent ELSE Unlocked(@)]
        /\ Remember(<<m.key, m.token>>)
        /\ next_token' = next_token
    BY <1>1, <1>5 DEF Refuse
  <2>2. /\ m.token \in 1 .. next_token - 1
        /\ \A p \in Procs : Granted(p) => key[p] # m.key
        /\ ~m.delete => \A p \in Procs : pc[p] \in Decoding => E[m.key].write_token # got[p]
    BY <1>2, <2>1, LeaseOver
  <2>3. <<m.key, m.token>> \in Keys \X (1 .. LastToken)
    BY <1>2, <2>2, Facts
  <2>4. completed' \in Seq(Keys \X (1 .. LastToken)) /\ Len(completed') <= ReceiptLimit
    BY <2>1, <2>3, RememberType, Facts
  <2>5. Whole(E[m.key].extent, E[m.key].write_token)
    BY <1>2, <2>1 DEF Consistent, Contents
  <2>6. /\ Catalogue(entries)' /\ Contents(entries')
        /\ \A p \in Procs : Backed(entries', p)
    <3>1. CASE m.delete
      BY <1>2, <2>1, <2>2, <3>1, Removed
    <3>2. CASE ~m.delete
      BY <1>2, <2>1, <2>2, <2>5, <3>2, UnlockedStep
    <3> QED
      BY <3>1, <3>2
  <2> QED
    BY <1>3, <2>1, <2>4, <2>6, Facts DEF StoreStep
<1> QED
  BY <1>4, <1>5

LEMMA HousekeepingStep ==
  ASSUME HandoffInv, Housekeeping
  PROVE  StoreStep
<1>1. CASE health
  BY <1>1, Unchanged DEF health
<1>2. ASSUME NEW k \in Keys, NEW reply \in Replies, delete_snapshot(k, reply)
      PROVE  StoreStep
  <2>1. PICK E \in Reaped :
          \/ Refuse(E, reply)
          \/ /\ ~Leased(E[k])
             /\ entries' = [E EXCEPT ![k] = Absent]
             /\ UNCHANGED <<completed, next_token>>
    BY <1>2 DEF delete_snapshot
  <2>2. Consistent(E)
    BY ReapConsistent
  <2>3. CASE Refuse(E, reply)
    BY <2>3, Unchanged DEF Refuse
  <2>4. CASE ~Refuse(E, reply)
    <3>1. \A p \in Procs : Granted(p) => key[p] # k
      BY <2>1, <2>2, <2>4, GrantedEntry DEF Leased
    <3>2. /\ Catalogue(entries)' /\ Contents(entries')
          /\ \A p \in Procs : Backed(entries', p)
      BY <2>1, <2>2, <2>4, <3>1, Removed
    <3> QED
      BY <2>1, <2>4, <3>2, Facts DEF StoreStep
  <2> QED
    BY <2>3, <2>4
<1> QED
  BY <1>1, <1>2 DEF Housekeeping

-----------------------------------------------------------------------------
(* A call is handled.                                                      *)

LEMMA StoreTypeStep ==
  ASSUME StoreTypeOK, StoreStep, alive' = alive
  PROVE  StoreTypeOK'
<1>1. /\ entries' \in [Keys -> Entry] /\ \A k \in Keys : EntryOK(entries'[k], next_token')
  BY DEF StoreStep, Catalogue
<1>2. \A k \in Keys : Leased(entries'[k]) <=> entries'[k].pidfd # "none"
  BY <1>1, AbsentEntry DEF EntryOK, Leased, Entry, Absent
<1> QED
  BY <1>1, <1>2 DEF StoreStep, StoreTypeOK, Entry, Tokens

LEMMA HousekeepingInv ==
  ASSUME HandoffInv, Housekeeping
  PROVE  HandoffInv'
<1>1. StoreStep
  BY HousekeepingStep
<1>2. /\ alive' = alive /\ net' = net /\ mem' = mem /\ \A p : Same(p)
      /\ UNCHANGED <<procVars, inbox>>
  BY DEF Housekeeping, procVars, Same
<1>3. HandoffType'
  BY <1>1, <1>2, StoreTypeStep DEF HandoffInv, HandoffType, procVars
<1>4. next_token \in Nat /\ next_token' \in Nat /\ next_token <= next_token'
  BY <1>1, Facts DEF StoreStep
<1>5. ASSUME NEW p \in Procs PROVE Local(p)' /\ Backed(entries, p)'
  <2>1. Token(p) \in Nat /\ got[p] \in Nat
    BY StoreAssumption DEF HandoffInv, HandoffType, Token, Grant, Lease, Answer, Tokens
  <2>2. Local(p)'
    BY <1>2, <1>4, <2>1, SameGrant DEF HandoffInv, Local, Same
  <2>3. Backed(entries, p)'
    BY <1>1, <1>2, SameGrant DEF StoreStep, Backed, Same
  <2> QED
    BY <2>2, <2>3
<1>6. \A p, q \in Procs : Apart(p, q)'
  BY <1>2, SameGrant DEF HandoffInv, Apart
<1>7. \A p \in Procs, m \in net : Mail(p, m)'
  BY <1>2, <1>4, SameGrant, Facts DEF HandoffInv, Mail, Asks, Same
<1>8. OneAwaited' /\ Contents(entries)' /\ Catalogue(entries)'
  BY <1>1, <1>2 DEF HandoffInv, OneAwaited, StoreStep, Contents, Whole
<1> QED
  BY <1>2, <1>3, <1>5, <1>6, <1>7, <1>8 DEF HandoffInv

LEMMA ServeInv ==
  ASSUME HandoffInv, NEW m \in net, Serve(m)
  PROVE  HandoffInv'
<1>1. PICK reply \in Replies :
        /\ CASE m.op = "allocate" -> allocate(m.key, m.from, reply)
             [] m.op = "commit"   -> commit(m.key, m.token, reply)
             [] m.op = "abort"    -> abort(m.key, m.token, reply)
             [] m.op = "acquire"  -> acquire(m.key, m.from, reply)
             [] m.op = "release"  -> release(m.key, m.token, m.delete, reply)
        /\ net' = net \ {m}
        /\ inbox' = IF m.awaited THEN [inbox EXCEPT ![m.from] = reply] ELSE inbox
        /\ UNCHANGED <<alive, procVars, mem>>
  BY DEF Serve
<1>2. m \in Call /\ HandoffType
  BY Facts DEF HandoffInv
<1>3. StoreStep /\ ReplyOK(m, reply)
  <2>1. m.op \in {"allocate", "commit", "abort", "acquire", "release"}
    BY <1>2 DEF Call
  <2>2. CASE m.op = "allocate"
    BY <1>1, <2>2, allocateStep
  <2>3. CASE m.op = "commit"
    BY <1>1, <2>3, commitStep
  <2>4. CASE m.op = "abort"
    BY <1>1, <2>4, abortStep
  <2>5. CASE m.op = "acquire"
    BY <1>1, <2>5, acquireStep
  <2>6. CASE m.op = "release"
    BY <1>1, <2>6, releaseStep
  <2> QED
    BY <2>1, <2>2, <2>3, <2>4, <2>5, <2>6
<1>4. next_token \in Nat /\ next_token' \in Nat /\ next_token <= next_token'
  BY <1>3, Facts DEF StoreStep
<1>5. reply \in Answer /\ reply.token \in Nat /\ reply.kind # "none"
  BY StoreAssumption DEF Replies, Answer, Tokens
<1>6. /\ pc' = pc /\ key' = key /\ lease' = lease /\ dma' = dma /\ got' = got /\ held' = held
      /\ alive' = alive /\ mem' = mem /\ net' \subseteq net
  BY <1>1 DEF procVars
<1>7. HandoffType'
  <2>1. inbox' \in [Procs -> Answer]
    BY <1>1, <1>2, <1>5 DEF HandoffType, Call
  <2> QED
    BY <1>2, <1>3, <1>6, <2>1, StoreTypeStep DEF HandoffType
(* Either a process sees nothing of it, or it waited for this reply.       *)
<1>8. ASSUME NEW p \in Procs
      PROVE  \/ inbox'[p] = inbox[p]
             \/ /\ m.awaited /\ m.from = p /\ inbox'[p] = reply /\ inbox[p] = Silence
                /\ m.key = key[p] /\ p \in alive
                /\ <<m.op, pc[p]>> \in Asks
  <2>1. Mail(p, m)
    BY DEF HandoffInv
  <2> QED
    BY <1>1, <1>2, <2>1 DEF HandoffType, Mail, Asks
<1>9. ASSUME NEW p \in Procs
      PROVE  \/ Grant(p)' = Grant(p) /\ (Granted(p)' <=> Granted(p))
             \/ Token(p)' = Token(p) /\ ~Granted(p)' /\ ~Granted(p)
             \/ /\ m.awaited /\ m.from = p /\ Grant(p)' = reply /\ reply.kind = "descriptor"
                /\ m.key = key[p] /\ Token(p)' = next_token /\ next_token' = next_token + 1
                /\ \/ m.op = "allocate" /\ pc[p] = "allocating"
                   \/ m.op = "acquire" /\ pc[p] = "acquiring"
  <2>1. CASE inbox'[p] = inbox[p]
    BY <2>1, <1>6 DEF Grant, Granted
  <2>2. CASE inbox'[p] # inbox[p] /\ reply.kind # "descriptor"
    BY <2>2, <1>6, <1>8, Nothing DEF Grant, Granted, Token
  <2>3. CASE inbox'[p] # inbox[p] /\ reply.kind = "descriptor"
    BY <2>3, <1>3, <1>8 DEF Grant, Granted, Token, ReplyOK, Asks
  <2> QED
    BY <2>1, <2>2, <2>3
<1>10. ASSUME NEW p \in Procs PROVE Local(p)' /\ Backed(entries, p)'
  <2>1. Token(p) \in Nat /\ got[p] \in Nat /\ Local(p) /\ Backed(entries', p)
    BY <1>2, <1>3, StoreAssumption
    DEF HandoffInv, HandoffType, Token, Grant, Lease, Answer, Tokens, StoreStep
  <2>2. Token(p)' < next_token'
    BY <1>4, <1>9, <2>1 DEF Local, Token
  <2>3. /\ pc'[p] \notin Waiting => inbox'[p] = Silence
        /\ inbox'[p].kind = "descriptor" => pc'[p] \in {"allocating", "acquiring"}
        /\ inbox'[p].kind # "descriptor" => inbox'[p].token = NoToken
    BY <1>3, <1>6, <1>8, <2>1 DEF Local, Waiting, ReplyOK, Asks
  <2>4. Local(p)'
    BY <1>4, <1>6, <2>1, <2>2, <2>3 DEF Local
  <2>5. Backed(entries, p)'
    <3>1. CASE Grant(p)' = Grant(p) /\ (Granted(p)' <=> Granted(p))
      BY <1>6, <2>1, <3>1 DEF Backed, Token
    <3>2. CASE ~Granted(p)' /\ ~Granted(p)
      BY <1>6, <2>1, <3>2 DEF Backed
    <3>3. CASE /\ m.from = p /\ Grant(p)' = reply /\ m.key = key[p]
               /\ reply.kind = "descriptor"
               /\ Token(p)' = next_token /\ next_token' = next_token + 1
               /\ \/ m.op = "allocate" /\ pc[p] = "allocating"
                  \/ m.op = "acquire" /\ pc[p] = "acquiring"
      <4>1. reply.kind = "descriptor" /\ reply.token = next_token
        BY <1>4, <1>5, <1>3, <3>3 DEF ReplyOK, Token
      <4> QED
        BY <1>3, <1>6, <2>1, <3>3, <4>1 DEF Backed, ReplyOK, Writers, Readers, Decoding
    <3> QED
      BY <1>9, <3>1, <3>2, <3>3
  <2> QED
    BY <2>4, <2>5
<1>11. ASSUME NEW p \in Procs, NEW q \in Procs PROVE Apart(p, q)'
  <2>1. Token(p) < next_token /\ Token(q) < next_token /\ Token(p) \in Nat /\ Token(q) \in Nat
    BY <1>2, StoreAssumption DEF HandoffInv, Local, HandoffType, Token, Grant, Lease, Answer, Tokens
  <2> QED
    BY <1>4, <1>9, <2>1 DEF HandoffInv, Apart, Token
<1>12. ASSUME NEW p \in Procs, NEW n \in net' PROVE Mail(p, n)'
  <2>1. n \in net /\ n # m /\ Mail(p, n) /\ n.token \in Nat /\ n.token < next_token
    BY <1>1, Facts DEF HandoffInv
  <2>2. n.awaited /\ n.from = p => inbox'[p] = inbox[p]
    BY <1>8, <2>1 DEF HandoffInv, OneAwaited
  <2>3. n.token # NoToken /\ n.token = Token(p)' =>
          /\ n.from = p /\ ~Granted(p)'
          /\ pc'[p] \in Decoding => n.op = "release" /\ n.delete
    BY <1>6, <1>9, <2>1 DEF Mail, Asks, Token
  <2> QED
    BY <1>4, <1>6, <2>1, <2>2, <2>3 DEF Mail, Asks
<1>13. OneAwaited' /\ Contents(entries)' /\ Catalogue(entries)'
  BY <1>3, <1>6 DEF HandoffInv, OneAwaited, StoreStep, Contents, Whole
<1> QED
  BY <1>7, <1>10, <1>11, <1>12, <1>13 DEF HandoffInv
-----------------------------------------------------------------------------
LEMMA InitInv == HandoffInit => HandoffInv
<1> SUFFICES ASSUME HandoffInit PROVE HandoffInv
  OBVIOUS
<1> USE StoreAssumption DEF HandoffInit, StoreInit
<1>1. 1 \in 1 .. LastToken + 1 /\ <<>> \in Seq(Keys \X (1 .. LastToken))
  OBVIOUS
<1>2. StoreTypeOK
  BY <1>1, AbsentEntry DEF StoreTypeOK, Entry, Tokens, Absent, Leased
<1>3. HandoffType
  BY <1>2, Nothing DEF HandoffType, Places, All, Tokens, NoToken
<1>4. \A p \in Procs : ~Granted(p) /\ Token(p) = NoToken
  BY Nothing DEF Granted, Token, Grant
<1>5. \A p \in Procs : Local(p) /\ Backed(entries, p)
  BY <1>4, Nothing DEF Local, Backed, Waiting, Writers, Readers, Decoding, HeldAt, NoToken
<1>6. Catalogue(entries) /\ Contents(entries)
  BY AbsentEntry DEF Catalogue, Contents
<1> QED
  BY <1>3, <1>4, <1>5, <1>6 DEF HandoffInv, Apart, OneAwaited

LEMMA StepInv == HandoffInv /\ [Next]_vars => HandoffInv'
<1> SUFFICES ASSUME HandoffInv, [Next]_vars PROVE HandoffInv'
  OBVIOUS
<1>1. ASSUME NEW p \in Procs, ProducerStep(p) PROVE HandoffInv'
  BY <1>1, QuietInv, MapsInv, AsksInv, DropsInv, CopyPartInv, CopyDoneInv DEF ProducerStep
<1>2. ASSUME NEW p \in Procs, ConsumerStep(p) PROVE HandoffInv'
  BY <1>2, QuietInv, MapsInv, AsksInv, DropsInv, RestoredInv DEF ConsumerStep
<1>3. CASE UNCHANGED vars
  <2>1. /\ alive' = alive /\ net' = net /\ mem' = mem /\ \A p : Same(p)
        /\ entries' = entries /\ next_token' = next_token /\ completed' = completed
    BY <1>3 DEF vars, storeVars, procVars, Same
  <2>2. HandoffType'
    BY <1>3 DEF HandoffInv, HandoffType, StoreTypeOK, vars, storeVars, procVars
  <2>3. \A p \in Procs : Local(p)' /\ Backed(entries, p)'
    BY <2>1, SameLocal, SameBacked DEF HandoffInv
  <2>4. \A p, q \in Procs : Apart(p, q)'
    BY <2>1, SameGrant DEF HandoffInv, Apart
  <2>5. \A p \in Procs, m \in net : Mail(p, m)'
    BY <2>1, SameGrant DEF HandoffInv, Mail, Asks, Same
  <2>6. OneAwaited' /\ Contents(entries)' /\ Catalogue(entries)'
    BY <2>1 DEF HandoffInv, OneAwaited, Contents, Whole, Catalogue
  <2> QED
    BY <2>1, <2>2, <2>3, <2>4, <2>5, <2>6 DEF HandoffInv
<1> QED
  BY <1>1, <1>2, <1>3, NoAnswerInv, CrashInv, ServeInv, HousekeepingInv DEF Next

LEMMA Invariance == Spec => []HandoffInv
BY InitInv, StepInv, PTL DEF Spec

-----------------------------------------------------------------------------
(* What a step may do to a process that decodes.                           *)
LEMMA DecodesOn ==
  ASSUME HandoffInv, [Next]_vars, NEW p \in Procs, p \in alive', pc'[p] \in Decoding
  PROVE  /\ p \in alive
         /\ Restored(p) \/ (pc[p] \in Decoding /\ got'[p] = got[p])
<1> USE DEF Decoding
<1>1. HandoffType
  BY DEF HandoffInv
<1>2. CASE \E q \in Procs : ProducerStep(q)
  BY <1>1, <1>2 DEF HandoffType, ProducerStep, Prefill, Allocated, AllocateFailed, MapFailed,
     CopyPart, CopyDone, CopyFailed, Committed, CommitFailed, SyncFailed, Abort, AbortAnswered,
     Goto, Return, procVars
<1>3. CASE \E q \in Procs : ConsumerStep(q)
  BY <1>1, <1>3 DEF HandoffType, ConsumerStep, Resume, Acquired, AcquireFailed, ViewsFailed,
     Rejected, PlaceBlocks, AssignSlot, RestoreFailed, Restored, ResyncFailed, Unlock,
     UnlockAnswered, Acked, AckFailed, RetryAck, Finished, Goto, Return
<1>4. CASE \E q \in Procs : NoAnswer(q) \/ Crash(q)
  BY <1>1, <1>4 DEF HandoffType, NoAnswer, Crash, procVars
<1>5. CASE (\E m \in net : Serve(m)) \/ Housekeeping \/ UNCHANGED vars
  BY <1>5 DEF Serve, Housekeeping, vars, procVars
<1> QED
  BY <1>2, <1>3, <1>4, <1>5 DEF Next

LEMMA ConsumerStepInv == HandoffInv /\ OneConsumer /\ [Next]_vars => OneConsumer'
<1> SUFFICES ASSUME HandoffInv, OneConsumer, [Next]_vars,
                    NEW p \in alive', NEW q \in alive', p # q,
                    pc'[p] \in Decoding, pc'[q] \in Decoding
             PROVE  got'[p] # got'[q]
  BY DEF OneConsumer
<1>1. HandoffInv'
  BY StepInv
<1>2. HandoffType /\ p \in Procs /\ q \in Procs
  BY <1>1 DEF HandoffInv, HandoffType, StoreTypeOK
<1>3. /\ p \in alive /\ (Restored(p) \/ (pc[p] \in Decoding /\ got'[p] = got[p]))
      /\ q \in alive /\ (Restored(q) \/ (pc[q] \in Decoding /\ got'[q] = got[q]))
  BY <1>2, DecodesOn
<1>4. ASSUME NEW r \in Procs, NEW s \in Procs, r # s, Restored(r), pc[s] \in Decoding
      PROVE  got'[r] # got[s] /\ got'[s] = got[s]
  <2>1. /\ pc[r] = "loading" /\ got' = [got EXCEPT ![r] = mem[lease[r].extent].token]
    BY <1>4 DEF Restored
  <2>2. /\ Local(r) /\ Backed(entries, r) /\ Local(s) /\ Backed(entries, s) /\ Apart(r, s)
        /\ Contents(entries)
    BY DEF HandoffInv
  <2>3. Granted(r) /\ Grant(r) = lease[r] /\ Token(r) = lease[r].token /\ key[r] \in Keys
    BY <2>1, <2>2, Nothing DEF Local, Granted, Grant, Token, Readers, Waiting
  <2>4. /\ entries[key[r]].state = "reading" /\ entries[key[r]].read_token = lease[r].token
        /\ entries[key[r]].extent = lease[r].extent
    BY <2>1, <2>2, <2>3 DEF Backed, Readers
  <2>5. mem[lease[r].extent].token = entries[key[r]].write_token
    <3>1. Whole(entries[key[r]].extent, entries[key[r]].write_token)
      BY <2>2, <2>3, <2>4 DEF Contents
    <3> QED
      BY <2>4, <3>1 DEF Whole
  <2>6. Token(s) = lease[s].token /\ lease[s].token # NoToken
    BY <1>4, <2>2 DEF Local, Token, Grant, Decoding
  <2>7. entries[key[r]].write_token # got[s]
    BY <1>4, <2>2, <2>3, <2>4, <2>6 DEF Backed, Apart
  <2> QED
    BY <1>2, <1>4, <2>1, <2>5, <2>7 DEF HandoffType
<1>5. CASE pc[p] \in Decoding /\ pc[q] \in Decoding /\ ~Restored(p) /\ ~Restored(q)
  BY <1>3, <1>5 DEF OneConsumer
<1>6. CASE Restored(p)
  <2>1. pc[p] = "loading" /\ pc' = [pc EXCEPT ![p] = "acking"]
    BY <1>6 DEF Restored, Goto
  <2>2. pc[q] \in Decoding
    BY <1>2, <2>1 DEF HandoffType
  <2> QED
    BY <1>2, <1>4, <1>6, <2>2
<1>7. CASE Restored(q)
  <2>1. pc[q] = "loading" /\ pc' = [pc EXCEPT ![q] = "acking"]
    BY <1>7 DEF Restored, Goto
  <2>2. pc[p] \in Decoding
    BY <1>2, <2>1 DEF HandoffType
  <2> QED
    BY <1>2, <1>4, <1>7, <2>2
<1> QED
  BY <1>3, <1>5, <1>6, <1>7
-----------------------------------------------------------------------------
(* Receipts.  One is kept for each read lease that was released, and none  *)
(* is forgotten while the store has issued no more tokens than it keeps    *)
(* receipts.                                                               *)
Held(p) ==
  /\ entries[key[p]].state = "reading" /\ entries[key[p]].pidfd = p
  /\ entries[key[p]].read_token = lease[p].token

Ledger ==
  /\ \A i, j \in 1 .. Len(completed) : i # j => completed[i][2] # completed[j][2]
  /\ \A i \in 1 .. Len(completed) :
       /\ completed[i][2] < next_token
       /\ \A k \in Keys : entries[k].state = "reading" =>
            entries[k].read_token # completed[i][2]
  /\ \A p \in Procs : pc[p] \in {"acking", "unacked"} =>
       Held(p) \/ Contains(completed, <<key[p], lease[p].token>>)

(* Read leases: a step of the store ends none of a live process's without  *)
(* a receipt, and issues none with a token used before.                    *)
Renewed(k) ==
  \/ entries'[k] = entries[k]
  \/ /\ entries[k].state = "reading" => entries[k].pidfd \notin alive
     /\ entries'[k].state = "reading" =>
          entries'[k].read_token = next_token /\ next_token' = next_token + 1

Released(k) ==
  /\ entries[k].state = "reading" /\ entries'[k].state # "reading"
  /\ Remember(<<k, entries[k].read_token>>)

ReceiptStep ==
  \/ completed' = completed /\ \A k \in Keys : Renewed(k)
  \/ \E k \in Keys : Released(k) /\ \A l \in Keys \ {k} : Renewed(l)

LEMMA ReapedLeases ==
  ASSUME HandoffInv, NEW E \in Reaped, NEW k \in Keys
  PROVE  \/ E[k] = entries[k]
         \/ /\ E[k].state # "reading" /\ entries[k].state # "absent"
            /\ entries[k].state = "reading" => entries[k].pidfd \notin alive
<1>1. entries[k] \in Entry /\ EntryOK(entries[k], next_token) /\ Fades(entries[k], E[k])
  BY ReapedEntries DEF HandoffInv, Catalogue
<1> QED
  BY <1>1, AbsentEntry, UnlockedEntry DEF Fades, Leased, EntryOK

LEMMA Untaken ==
  ASSUME HandoffInv, NEW E \in Reaped, NEW k \in Keys,
         completed' = completed, \A l \in Keys \ {k} : entries'[l] = E[l],
         \/ entries'[k] = E[k]
         \/ entries'[k].state # "reading" /\ E[k].state # "reading"
         \/ /\ entries'[k].state = "reading" /\ E[k].state = "ready"
            /\ entries'[k].read_token = next_token /\ next_token' = next_token + 1
  PROVE  ReceiptStep
<1>1. \A l \in Keys : \/ E[l] = entries[l]
                      \/ /\ E[l].state # "reading" /\ entries[l].state # "absent"
                         /\ entries[l].state = "reading" => entries[l].pidfd \notin alive
  BY ReapedLeases
<1> QED
  BY <1>1 DEF ReceiptStep, Renewed

LEMMA ServeReceipts ==
  ASSUME HandoffInv, NEW m \in net, Serve(m)
  PROVE  ReceiptStep
<1>0. m \in Call /\ m.key \in Keys /\ entries \in [Keys -> Entry]
  BY Facts DEF Call
<1>1. PICK reply \in Replies :
        CASE m.op = "allocate" -> allocate(m.key, m.from, reply)
          [] m.op = "commit"   -> commit(m.key, m.token, reply)
          [] m.op = "abort"    -> abort(m.key, m.token, reply)
          [] m.op = "acquire"  -> acquire(m.key, m.from, reply)
          [] m.op = "release"  -> release(m.key, m.token, m.delete, reply)
  BY DEF Serve
<1>2. \A E \in Reaped : E \in [Keys -> Entry]
  BY <1>0, ReapedEntries
<1>3. ASSUME NEW E \in Reaped, entries' = E, completed' = completed PROVE ReceiptStep
  BY <1>0, <1>3, Untaken
<1>4. CASE m.op = "allocate"
  <2>1. PICK E \in Reaped :
          \/ entries' = E
          \/ /\ E[m.key].state = "absent"
             /\ \E x : entries' = [E EXCEPT ![m.key] =
                                 [state |-> "writing", write_token |-> next_token,
                                  read_token |-> NoToken, pidfd |-> m.from, extent |-> x]]
    BY <1>0, <1>1, <1>4 DEF allocate, Refuse, Stored
  <2>2. completed' = completed
    BY <1>1, <1>4 DEF allocate, Refuse
  <2>3. CASE entries' = E
    BY <1>3, <2>2, <2>3
  <2>4. CASE entries' # E
    <3>1. /\ E[m.key].state = "absent" /\ entries'[m.key].state = "writing"
          /\ \A l \in Keys \ {m.key} : entries'[l] = E[l]
      <4>1. PICK x : entries' = [E EXCEPT ![m.key] =
                                 [state |-> "writing", write_token |-> next_token,
                                  read_token |-> NoToken, pidfd |-> m.from, extent |-> x]]
        BY <2>1, <2>4
      <4> QED
        BY <1>0, <1>2, <2>1, <2>4, <4>1
    <3> QED
      BY <1>0, <2>2, <3>1, Untaken
  <2> QED
    BY <2>3, <2>4
<1>5. CASE m.op = "commit"
  <2>1. PICK E \in Reaped :
          \/ entries' = E
          \/ E[m.key].state = "writing" /\ entries' = [E EXCEPT ![m.key] = Unlocked(@)]
    BY <1>0, <1>1, <1>5 DEF commit, Refuse
  <2>2. completed' = completed
    BY <1>1, <1>5 DEF commit, Refuse
  <2>3. CASE entries' = E
    BY <1>3, <2>2, <2>3
  <2>4. CASE entries' # E
    <3>1. /\ E[m.key].state = "writing" /\ entries'[m.key].state = "ready"
          /\ \A l \in Keys \ {m.key} : entries'[l] = E[l]
      BY <1>0, <1>2, <2>1, <2>4, UnlockedEntry
    <3> QED
      BY <1>0, <2>2, <3>1, Untaken
  <2> QED
    BY <2>3, <2>4
<1>6. CASE m.op = "abort"
  <2>1. PICK E \in Reaped :
          \/ entries' = E
          \/ E[m.key].state \in {"absent", "writing"} /\ entries' = [E EXCEPT ![m.key] = Absent]
    BY <1>0, <1>1, <1>6 DEF abort, Refuse, Stored
  <2>2. completed' = completed
    BY <1>1, <1>6 DEF abort, Refuse
  <2>3. /\ \A l \in Keys \ {m.key} : entries'[l] = E[l]
        /\ entries' = E \/ (entries'[m.key].state # "reading" /\ E[m.key].state # "reading")
    BY <1>0, <1>2, <2>1, AbsentEntry
  <2> QED
    BY <1>0, <2>2, <2>3, Untaken
<1>7. CASE m.op = "acquire"
  <2>1. PICK E \in Reaped :
          \/ entries' = E
          \/ /\ E[m.key].state = "ready" /\ next_token' = next_token + 1
             /\ entries' = [E EXCEPT ![m.key].state = "reading", ![m.key].read_token = next_token,
                                     ![m.key].pidfd = m.from]
    BY <1>0, <1>1, <1>7 DEF acquire, Refuse, Acquirable, IssueToken
  <2>2. completed' = completed
    BY <1>1, <1>7 DEF acquire, Refuse
  <2>3. CASE entries' = E
    BY <1>3, <2>2, <2>3
  <2>4. CASE entries' # E
    <3>1. \A l \in Keys \ {m.key} : entries'[l] = E[l]
      BY <1>0, <1>2, <2>1, <2>4
    <3>2. entries'[m.key].state = "reading" /\ entries'[m.key].read_token = next_token
      BY <1>0, <1>2, <2>1, <2>4 DEF Entry
    <3> QED
      BY <1>0, <2>1, <2>2, <2>4, <3>1, <3>2, Untaken
  <2> QED
    BY <2>3, <2>4
<1>8. CASE m.op = "release"
  <2>1. PICK E \in Reaped :
          \/ entries' = E /\ completed' = completed
          \/ /\ E[m.key].state = "reading" /\ E[m.key].read_token = m.token
             /\ entries' = [E EXCEPT ![m.key] = IF m.delete THEN Absent ELSE Unlocked(@)]
             /\ Remember(<<m.key, m.token>>)
    BY <1>1, <1>8 DEF release, Refuse
  <2>2. CASE entries' = E /\ completed' = completed
    BY <1>3, <2>2
  <2>3. CASE ~(entries' = E /\ completed' = completed)
    <3>1. E[m.key] = entries[m.key]
      BY <1>0, <2>1, <2>3, ReapedLeases
    <3>2. /\ \A l \in Keys \ {m.key} : entries'[l] = E[l]
          /\ entries'[m.key].state # "reading"
      BY <1>0, <1>2, <2>1, <2>3, AbsentEntry, UnlockedEntry
    <3>3. Released(m.key)
      BY <2>1, <2>3, <3>1, <3>2 DEF Released
    <3>4. \A l \in Keys \ {m.key} : Renewed(l)
      BY <3>2, ReapedLeases DEF Renewed
    <3> QED
      BY <1>0, <3>3, <3>4 DEF ReceiptStep
  <2> QED
    BY <2>2, <2>3
<1>9. m.op \in {"allocate", "commit", "abort", "acquire", "release"}
  BY <1>0 DEF Call
<1> QED
  BY <1>4, <1>5, <1>6, <1>7, <1>8, <1>9

LEMMA HousekeepingReceipts ==
  ASSUME HandoffInv, Housekeeping
  PROVE  ReceiptStep
<1>1. \A E \in Reaped : E \in [Keys -> Entry]
  BY Facts, ReapedEntries
<1>2. ASSUME NEW E \in Reaped, entries' = E, completed' = completed PROVE ReceiptStep
  BY <1>2, ReapedLeases DEF ReceiptStep, Renewed
<1>3. CASE health
  BY <1>2, <1>3 DEF health
<1>4. ASSUME NEW k \in Keys, NEW reply \in Replies, delete_snapshot(k, reply)
      PROVE  ReceiptStep
  <2>1. PICK E \in Reaped :
          \/ entries' = E
          \/ ~Leased(E[k]) /\ entries' = [E EXCEPT ![k] = Absent]
    BY <1>4 DEF delete_snapshot, Refuse
  <2>2. completed' = completed
    BY <1>4 DEF delete_snapshot, Refuse
  <2>3. CASE entries' = E
    BY <1>2, <2>2, <2>3
  <2>4. CASE entries' # E
    <3>1. /\ \A l \in Keys \ {k} : entries'[l] = E[l]
          /\ entries'[k].state # "reading" /\ E[k].state # "reading"
      BY <1>1, <2>1, <2>4, AbsentEntry DEF Leased
    <3> QED
      BY <2>2, <3>1, Untaken
  <2> QED
    BY <2>3, <2>4
<1> QED
  BY <1>3, <1>4 DEF Housekeeping

(* There is room for the receipt of a lease that is still held.            *)
LEMMA RoomForReceipt ==
  ASSUME HandoffInv, Ledger, LastToken <= ReceiptLimit, NEW k \in Keys,
         entries[k].state = "reading"
  PROVE  Len(completed) < ReceiptLimit
<1> DEFINE I == 1 .. Len(completed)
           T == (1 .. LastToken) \ {entries[k].read_token}
           token == [i \in I |-> completed[i][2]]
<1>1. /\ completed \in Seq(Keys \X (1 .. LastToken)) /\ LastToken \in Nat /\ ReceiptLimit \in Nat
      /\ next_token \in 1 .. LastToken + 1 /\ Len(completed) \in Nat
  BY Facts
<1>2. entries[k].read_token \in 1 .. LastToken
  BY <1>1 DEF HandoffInv, Catalogue, EntryOK
<1>3. \A i \in I : completed[i][2] \in T
  <2>1. \A i \in I : completed[i] \in Keys \X (1 .. LastToken)
    BY <1>1
  <2> QED
    BY <2>1 DEF Ledger
<1>4. token \in Injection(I, T)
  BY <1>3 DEF Injection, IsInjective, Ledger
<1>5. IsFiniteSet(T) /\ Cardinality(T) = LastToken - 1
  <2>1. IsFiniteSet(1 .. LastToken) /\ Cardinality(1 .. LastToken) = LastToken
    BY <1>1, FS_Interval
  <2> QED
    BY <1>2, <2>1, FS_RemoveElement
<1>6. IsFiniteSet(I) /\ Cardinality(I) = Len(completed)
  <2>1. \A n \in Nat : IsFiniteSet(1 .. n) /\ Cardinality(1 .. n) = n
    BY FS_Interval
  <2> QED
    BY <1>1, <2>1
<1> HIDE DEF I, T, token
<1>7. Cardinality(I) <= Cardinality(T)
  BY <1>4, <1>5, FS_Injection
<1> QED
  BY <1>1, <1>5, <1>6, <1>7

LEMMA LedgerStep ==
  ASSUME HandoffInv, Ledger, LastToken <= ReceiptLimit, ReceiptStep,
         next_token' \in {next_token, next_token + 1}, UNCHANGED procVars
  PROVE  Ledger'
<1>1. /\ next_token \in Nat /\ completed \in Seq(Keys \X (1 .. LastToken))
      /\ \A i \in 1 .. Len(completed) :
           completed[i][2] # next_token /\ completed[i][2] < next_token'
  BY Facts DEF Ledger
<1>2. ASSUME NEW k \in Keys, Renewed(k), NEW i \in 1 .. Len(completed),
             entries'[k].state = "reading"
      PROVE  entries'[k].read_token # completed[i][2]
  BY <1>1, <1>2 DEF Renewed, Ledger
<1>3. /\ pc' = pc /\ key' = key /\ lease' = lease
      /\ \A p \in Procs : pc[p] \in {"acking", "unacked"} => p \in alive /\ key[p] \in Keys
  BY DEF procVars, HandoffInv, Local
<1>4. ASSUME NEW p \in Procs, Held(p), p \in alive, Renewed(key[p]) PROVE Held(p)'
  BY <1>3, <1>4 DEF Held, Renewed
<1>5. CASE completed' = completed /\ \A k \in Keys : Renewed(k)
  <2>1. \A p \in Procs : pc'[p] \in {"acking", "unacked"} =>
          Held(p)' \/ Contains(completed', <<key'[p], lease'[p].token>>)
    BY <1>3, <1>4, <1>5 DEF Ledger
  <2>2. \A i, j \in 1 .. Len(completed') : i # j => completed'[i][2] # completed'[j][2]
    BY <1>5 DEF Ledger
  <2>3. \A i \in 1 .. Len(completed') :
          /\ completed'[i][2] < next_token'
          /\ \A k \in Keys : entries'[k].state = "reading" =>
               entries'[k].read_token # completed'[i][2]
    BY <1>1, <1>2, <1>5
  <2> QED
    BY <2>1, <2>2, <2>3 DEF Ledger
<1>6. ASSUME NEW k \in Keys, Released(k), \A l \in Keys \ {k} : Renewed(l)
      PROVE  Ledger'
  <2> DEFINE token == entries[k].read_token
             n == Len(completed)
  <2>1. /\ entries[k].state = "reading" /\ entries'[k].state # "reading"
        /\ completed' = Append(completed, <<k, token>>)
    BY <1>6, RoomForReceipt DEF Released, Remember
  <2>2. /\ Len(completed') = n + 1 /\ completed'[n + 1][2] = token /\ n \in Nat
        /\ completed'[n + 1] = <<k, token>>
        /\ \A i \in 1 .. n : completed'[i] = completed[i]
    BY <1>1, <2>1
  <2>3. \A i \in 1 .. n : completed[i][2] # token
    BY <2>1 DEF Ledger
  <2>4. /\ token < next_token' /\ token # next_token
        /\ \A l \in Keys \ {k} : entries[l].state = "reading" => entries[l].read_token # token
    BY <1>1, <2>1 DEF HandoffInv, Catalogue, EntryOK, Distinct
  <2> HIDE DEF token, n
  <2>5. \A i, j \in 1 .. Len(completed') : i # j => completed'[i][2] # completed'[j][2]
    <3>1. \A i, j \in 1 .. n : i # j => completed[i][2] # completed[j][2]
      BY DEF Ledger, n
    <3>2. \A i \in 1 .. n + 1 : i \in 1 .. n \/ i = n + 1
      BY <2>2
    <3> QED
      BY <2>2, <2>3, <3>1, <3>2
  <2>6. ASSUME NEW i \in 1 .. Len(completed')
        PROVE  /\ completed'[i][2] < next_token'
               /\ \A l \in Keys : entries'[l].state = "reading" =>
                    entries'[l].read_token # completed'[i][2]
    <3>1. CASE i = n + 1
      BY <1>6, <2>1, <2>2, <2>4, <3>1 DEF Renewed
    <3>2. CASE i # n + 1
      <4>1. i \in 1 .. n /\ completed'[i] = completed[i]
        BY <2>2, <3>2
      <4> QED
        BY <1>1, <1>2, <1>6, <2>1, <4>1 DEF n
    <3> QED
      BY <3>1, <3>2
  <2>7. ASSUME NEW p \in Procs, pc'[p] \in {"acking", "unacked"}
        PROVE  Held(p)' \/ Contains(completed', <<key'[p], lease'[p].token>>)
    <3>1. Held(p) \/ Contains(completed, <<key[p], lease[p].token>>)
      BY <1>3, <2>7 DEF Ledger
    <3>2. CASE Held(p) /\ key[p] # k
      BY <1>3, <1>4, <1>6, <2>7, <3>2
    <3>3. CASE Held(p) /\ key[p] = k
      <4>1. completed'[n + 1] = <<key'[p], lease'[p].token>> /\ n + 1 \in 1 .. Len(completed')
        BY <1>3, <2>2, <3>3 DEF Held, token
      <4> QED
        BY <4>1 DEF Contains
    <3>4. CASE Contains(completed, <<key[p], lease[p].token>>)
      <4>1. PICK i \in 1 .. n : completed[i] = <<key[p], lease[p].token>>
        BY <3>4 DEF Contains, n
      <4>2. i \in 1 .. Len(completed') /\ completed'[i] = <<key'[p], lease'[p].token>>
        BY <1>3, <2>2, <4>1
      <4> QED
        BY <4>2 DEF Contains
    <3> QED
      BY <3>1, <3>2, <3>3, <3>4
  <2> QED
    BY <2>5, <2>6, <2>7 DEF Ledger
<1> QED
  BY <1>5, <1>6 DEF ReceiptStep

LEMMA TokensIssued ==
  ASSUME HandoffInv, (\E m \in net : Serve(m)) \/ Housekeeping
  PROVE  next_token' \in {next_token, next_token + 1}
<1>1. ASSUME NEW m \in net, Serve(m) PROVE next_token' \in {next_token, next_token + 1}
  <2>1. ASSUME NEW reply, \/ allocate(m.key, m.from, reply) \/ commit(m.key, m.token, reply)
                          \/ abort(m.key, m.token, reply) \/ acquire(m.key, m.from, reply)
                          \/ release(m.key, m.token, m.delete, reply)
        PROVE  next_token' \in {next_token, next_token + 1}
    BY <2>1 DEF allocate, commit, abort, acquire, release, Refuse, IssueToken
  <2>2. m.op \in {"allocate", "commit", "abort", "acquire", "release"}
    BY Facts DEF Call
  <2> QED
    BY <1>1, <2>1, <2>2 DEF Serve
<1>2. CASE Housekeeping
  BY <1>2 DEF Housekeeping, health, delete_snapshot, Refuse
<1> QED
  BY <1>1, <1>2

(* What a step of a process may do to one that is acknowledging.           *)
LEMMA AcksOn ==
  ASSUME HandoffInv, NEW p \in Procs, pc'[p] \in {"acking", "unacked"},
         \/ \E q \in Procs : ProducerStep(q) \/ ConsumerStep(q) \/ NoAnswer(q) \/ Crash(q)
         \/ UNCHANGED vars
  PROVE  /\ key'[p] = key[p] /\ lease'[p].token = lease[p].token
         /\ pc[p] \in {"acking", "unacked"} \/ Restored(p)
<1>1. HandoffType
  BY DEF HandoffInv
<1>2. CASE \E q \in Procs : ProducerStep(q)
  BY <1>1, <1>2 DEF HandoffType, ProducerStep, Prefill, Allocated, AllocateFailed, MapFailed,
     CopyPart, CopyDone, CopyFailed, Committed, CommitFailed, SyncFailed, Abort, AbortAnswered,
     Goto, Return, procVars, DropViews, MapViews
<1>3. ASSUME NEW q \in Procs, ConsumerStep(q)
      PROVE  /\ key'[p] = key[p] /\ lease'[p].token = lease[p].token
             /\ pc[p] \in {"acking", "unacked"} \/ Restored(p)
  <2>1. CASE Unlock(q) \/ Restored(q)
    <3>1. lease'[p].token = lease[p].token
      BY <1>1, <2>1, DropViewsValue DEF HandoffType, Unlock, Restored
    <3> QED
      BY <1>1, <2>1, <3>1 DEF HandoffType, Unlock, Restored, Goto
  <2>2. CASE ~(Unlock(q) \/ Restored(q))
    BY <1>1, <1>3, <2>2 DEF HandoffType, ConsumerStep, Resume, Acquired, AcquireFailed,
       ViewsFailed, Rejected, PlaceBlocks, AssignSlot, RestoreFailed, ResyncFailed,
       UnlockAnswered, Acked, AckFailed, RetryAck, Finished, Goto, Return, MapViews
  <2> QED
    BY <2>1, <2>2
<1>4. CASE \E q \in Procs : NoAnswer(q) \/ Crash(q)
  BY <1>1, <1>4 DEF HandoffType, NoAnswer, Crash, procVars
<1>5. CASE UNCHANGED vars
  BY <1>5 DEF vars, procVars
<1> QED
  BY <1>2, <1>3, <1>4, <1>5

LEMMA ProcessLedger ==
  ASSUME HandoffInv, Ledger,
         \/ \E q \in Procs : ProducerStep(q) \/ ConsumerStep(q) \/ NoAnswer(q) \/ Crash(q)
         \/ UNCHANGED vars
  PROVE  Ledger'
<1>1. UNCHANGED storeVars
  BY DEF ProducerStep, Prefill, Allocated, AllocateFailed, MapFailed, CopyPart, CopyDone,
     CopyFailed, Committed, CommitFailed, SyncFailed, Abort, AbortAnswered, ConsumerStep, Resume,
     Acquired, AcquireFailed, ViewsFailed, Rejected, PlaceBlocks, AssignSlot, RestoreFailed,
     Restored, ResyncFailed, Unlock, UnlockAnswered, Acked, AckFailed, RetryAck, Finished,
     NoAnswer, Crash, vars
<1>2. ASSUME NEW p \in Procs, pc'[p] \in {"acking", "unacked"}
      PROVE  Held(p)' \/ Contains(completed', <<key'[p], lease'[p].token>>)
  <2>1. /\ key'[p] = key[p] /\ lease'[p].token = lease[p].token
        /\ pc[p] \in {"acking", "unacked"} \/ Restored(p)
    BY <1>2, AcksOn
  <2>2. Held(p) \/ Contains(completed, <<key[p], lease[p].token>>)
    <3>1. CASE pc[p] \in {"acking", "unacked"}
      BY <3>1 DEF Ledger
    <3>2. CASE Restored(p)
      <4>1. pc[p] = "loading" /\ Local(p) /\ Backed(entries, p)
        BY <3>2 DEF Restored, HandoffInv
      <4>2. Granted(p) /\ Token(p) = lease[p].token
        BY <4>1, Nothing DEF Local, Granted, Grant, Token, Readers, Waiting
      <4> QED
        BY <4>1, <4>2 DEF Backed, Held, Readers
    <3> QED
      BY <2>1, <3>1, <3>2
  <2> QED
    BY <1>1, <2>1, <2>2 DEF Held, storeVars
<1> QED
  BY <1>1, <1>2 DEF Ledger, storeVars
-----------------------------------------------------------------------------
(* The properties.                                                         *)

(* The catalogue of lmcache_shm.py keeps its type, and a pidfd is open for *)
(* a leased entry and for no other: _owner() and _drop_owner() match.      *)
THEOREM StoreTypeCorrect == Spec => []StoreTypeOK
<1>1. HandoffInv => StoreTypeOK
  BY DEF HandoffInv, HandoffType
<1> QED
  BY <1>1, Invariance, PTL

(* No process has tensor views of an extent, and no GPU writes to one,     *)
(* without the lease of it in the catalogue: allocate(), acquire() and the *)
(* _reap() of lmcache_shm.py, against the steps of tensor_ops.py.          *)
THEOREM LeasesBacked == Spec => []LeaseBacked
<1>1. ASSUME HandoffInv, NEW p \in alive, lease[p].mapped
      PROVE  /\ WriterOf(p, lease[p].extent) \/ ReaderOf(p, lease[p].extent)
             /\ dma[p] # "none" => WriterOf(p, dma[p])
  <2>1. p \in Procs /\ Local(p) /\ Backed(entries, p)
    BY <1>1 DEF HandoffInv, HandoffType, StoreTypeOK
  <2>2. Granted(p) /\ Grant(p) = lease[p] /\ Token(p) = lease[p].token /\ key[p] \in Keys
    BY <1>1, <2>1, Nothing DEF Local, Granted, Grant, Token, Writers, Readers
  <2>3. CASE pc[p] \in Writers
    BY <2>1, <2>2, <2>3 DEF Backed, Local, WriterOf
  <2>4. CASE pc[p] \in Readers
    BY <2>1, <2>2, <2>4 DEF Backed, Local, ReaderOf, Writers, Readers
  <2> QED
    BY <1>1, <2>1, <2>3, <2>4 DEF Local
<1>2. HandoffInv => \A p \in alive : dma[p] # "none" => lease[p].mapped
  BY DEF HandoffInv, HandoffType, StoreTypeOK, Local
<1>3. HandoffInv => LeaseBacked
  BY <1>1, <1>2 DEF LeaseBacked
<1> QED
  BY <1>3, Invariance, PTL

(* The extent of a snapshot that may be read holds the whole payload of    *)
(* the write that made it: copy_into() before commit(), abort() only after *)
(* synchronize(), in prefill_to_cache().                                   *)
THEOREM SnapshotsWhole == Spec => []ReadableIsWhole
<1>1. HandoffInv => ReadableIsWhole
  BY DEF HandoffInv, Contents, Whole, ReadableIsWhole
<1> QED
  BY <1>1, Invariance, PTL

(* No two live processes decode the payload of one write: the read lease   *)
(* of acquire(), its release and the retries of resume_from_cache().       *)
THEOREM DecodedOnce == Spec => []OneConsumer
<1>1. HandoffInit => OneConsumer
  BY DEF HandoffInit, StoreInit, OneConsumer, Decoding
<1> QED
  BY <1>1, ConsumerStepInv, Invariance, PTL DEF Spec

(* Whatever step fails, an engine that is idle or gives a transfer up has  *)
(* given back the blocks, the slot and the place in running: the handlers  *)
(* of resume_from_cache() and prefill_to_cache().                          *)
THEOREM EnginesGiveBack == Spec => []EngineGivesBack
<1>1. HandoffInv => EngineGivesBack
  BY DEF HandoffInv, HandoffType, StoreTypeOK, Local, HeldAt, EngineGivesBack, Decoding, All
<1> QED
  BY <1>1, Invariance, PTL

(* While no more tokens are issued than the service keeps receipts, a      *)
(* reader that is not sure of its release can repeat it: release() of  *)
(* lmcache_shm.py, and the retry of the release by resume_from_cache().    *)
THEOREM AcksRetriable == LastToken <= ReceiptLimit => (Spec => []AckCanBeRetried)
<1> SUFFICES ASSUME LastToken <= ReceiptLimit PROVE Spec => []AckCanBeRetried
  OBVIOUS
<1>1. HandoffInit => Ledger
  BY DEF HandoffInit, StoreInit, Ledger
<1>2. HandoffInv /\ Ledger /\ [Next]_vars => Ledger'
  <2> SUFFICES ASSUME HandoffInv, Ledger, [Next]_vars PROVE Ledger'
    OBVIOUS
  <2>1. CASE (\E m \in net : Serve(m)) \/ Housekeeping
    <3>1. ReceiptStep /\ next_token' \in {next_token, next_token + 1}
      BY <2>1, ServeReceipts, HousekeepingReceipts, TokensIssued
    <3>2. UNCHANGED procVars
      BY <2>1 DEF Serve, Housekeeping
    <3> QED
      BY <3>1, <3>2, LedgerStep
  <2>2. CASE ~((\E m \in net : Serve(m)) \/ Housekeeping)
    BY <2>2, ProcessLedger DEF Next
  <2> QED
    BY <2>1, <2>2
<1>3. HandoffInv /\ Ledger => AckCanBeRetried
  BY DEF HandoffInv, HandoffType, StoreTypeOK, Ledger, Held, AckCanBeRetried
<1> QED
  BY <1>1, <1>2, <1>3, Invariance, PTL DEF Spec
=============================================================================
