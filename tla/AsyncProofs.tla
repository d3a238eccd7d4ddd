----------------------------- MODULE AsyncProofs -----------------------------
(***************************************************************************)
(* The lookahead cohort keeps its views in order and within their blocks,  *)
(* gives every block and every request back, and implements Generation.    *)
(*                                                                         *)
(* Without a cohort the state is the serial scheduler's, and its invariant *)
(* holds (NoCohort).  While there is one, CohortInv says, of each request, *)
(* how its fields, its place in the cohort and its views on their way      *)
(* agree.  The views of a request lie in the two outstanding batches, at   *)
(* most one in each: Flight is what they have to do with its history.      *)
(***************************************************************************)
EXTENDS AsyncDecode, SchedulerProofs

-----------------------------------------------------------------------------
(* Batches of views                                                        *)

ViewType == [seq : Requests, num_tokens : Nat, block_table : Seq(Blocks)]

(* The views of r in a batch: at most one of them.                         *)
RowsOf(r, b) == {b[k] : k \in {i \in 1..Len(b) : b[i].seq = r}}

OneEach(b) == \A i, j \in 1..Len(b) : b[i].seq = b[j].seq => i = j

LEMMA RowsOfTypes ==
  ASSUME NEW b \in Views, NEW r
  PROVE  /\ RowsOf(r, b) \subseteq ViewType
         /\ \A v \in RowsOf(r, b) : v.seq = r /\ v \in ToSet(b)
         /\ \A i \in 1..Len(b) : b[i] \in RowsOf(b[i].seq, b) /\ b[i].seq \in Requests
         /\ OneEach(b) => \A v, w \in RowsOf(r, b) : v = w
         /\ Len(b) \in Nat /\ b \in Seq(ViewType)
<1>1. b \in Seq(ViewType) /\ Len(b) \in Nat /\ \A i \in 1..Len(b) : b[i] \in ViewType
  BY LenProperties, ElementOfSeq DEF Views, ViewType
<1>2. ToSet(b) = {b[i] : i \in 1..Len(b)}
  BY <1>1, ToSetDef
<1>3. \A v \in ViewType : v.seq \in Requests
  BY DEF ViewType
<1> QED
  BY <1>1, <1>2, <1>3 DEF RowsOf, OneEach

LEMMA NoRows == \A r : RowsOf(r, <<>>) = {} /\ OneEach(<<>>)
<1>1. Len(<<>>) = 0
  OBVIOUS
<1>2. 1..0 = {}
  OBVIOUS
<1> QED
  BY <1>1, <1>2 DEF RowsOf, OneEach

(* postprocess() takes the next view of its batch.                         *)
LEMMA PopView ==
  ASSUME NEW b \in Views, b # <<>>, OneEach(b)
  PROVE  LET c == Head(b).seq
         IN  /\ c \in Requests /\ Head(b) \in ViewType /\ Tail(b) \in Views
             /\ RowsOf(c, b) = {Head(b)} /\ RowsOf(c, Tail(b)) = {}
             /\ \A q \in Requests \ {c} : RowsOf(q, Tail(b)) = RowsOf(q, b)
             /\ OneEach(Tail(b))
<1> DEFINE n == Len(b)
           t == Tail(b)
<1>0. b \in Seq(ViewType) /\ n \in Nat /\ n # 0
  BY LenProperties, EmptySeq DEF Views, ViewType
<1>1. /\ b \in Seq(ViewType) /\ n \in Nat \ {0} /\ Len(t) = n - 1 /\ t \in Seq(ViewType)
      /\ \A i \in 1..n - 1 : t[i] = b[i + 1]
      /\ Head(b) = b[1] /\ b[1] \in ViewType
  <2>1. t \in Seq(ViewType) /\ Len(t) = n - 1 /\ \A i \in 1..Len(t) : t[i] = b[i + 1]
    BY <1>0, HeadTailProperties
  <2>2. Head(b) = b[1]
    BY <1>0
  <2>3. 1 \in 1..n
    BY <1>0
  <2>4. b[1] \in ViewType
    BY <1>0, <2>3, ElementOfSeq
  <2> QED
    BY <1>0, <2>1, <2>2, <2>4
<1> HIDE DEF n, t
<1>2. \A i \in 1..n : i = 1 \/ (i - 1 \in 1..n - 1 /\ t[i - 1] = b[i])
  BY <1>1
<1>3. 1 \in 1..n /\ \A i \in 1..n - 1 : i + 1 \in 1..n /\ i + 1 # 1
  BY <1>1
<1>4. \A i, j \in 1..n : b[i].seq = b[j].seq => i = j
  BY DEF OneEach, n
<1>5. RowsOf(b[1].seq, b) = {b[1]}
  BY <1>3, <1>4 DEF RowsOf, n
<1>6. ASSUME NEW q, q # b[1].seq
      PROVE  RowsOf(q, t) = RowsOf(q, b)
  <2>1. ASSUME NEW v \in RowsOf(q, t) PROVE v \in RowsOf(q, b)
    <3>1. PICK i \in 1..n - 1 : t[i].seq = q /\ v = t[i]
      BY <1>1 DEF RowsOf
    <3> QED
      BY <1>1, <1>3, <3>1 DEF RowsOf, n
  <2>2. ASSUME NEW v \in RowsOf(q, b) PROVE v \in RowsOf(q, t)
    <3>1. PICK i \in 1..n : b[i].seq = q /\ v = b[i]
      BY DEF RowsOf, n
    <3>2. i - 1 \in 1..n - 1 /\ t[i - 1] = b[i]
      BY <1>2, <1>6, <3>1
    <3> QED
      BY <1>1, <3>1, <3>2 DEF RowsOf
  <2> QED
    BY <2>1, <2>2
<1>7. \A i \in 1..n - 1 : t[i].seq # b[1].seq
  BY <1>1, <1>3, <1>4
<1>8. RowsOf(b[1].seq, t) = {}
  BY <1>1, <1>7 DEF RowsOf
<1>9. OneEach(t)
  <2>1. ASSUME NEW i \in 1..n - 1, NEW j \in 1..n - 1, t[i].seq = t[j].seq PROVE i = j
    <3>1. i + 1 = j + 1
      BY <1>1, <1>3, <1>4, <2>1
    <3> QED
      BY <1>1, <3>1
  <2> QED
    BY <1>1, <2>1 DEF OneEach
<1>10. b[1].seq \in Requests
  BY <1>1 DEF ViewType
<1>11. t \in Views
  BY <1>1 DEF Views, ViewType
<1> QED
  BY <1>1, <1>5, <1>6, <1>8, <1>9, <1>10, <1>11 DEF t

-----------------------------------------------------------------------------
(* Prefixes                                                                *)

LEMMA PrefixIs ==
  ASSUME NEW T, NEW s \in Seq(T), NEW t \in Seq(T)
  PROVE  IsPrefix(s, t) <=> Len(s) <= Len(t) /\ \A i \in 1..Len(s) : s[i] = t[i]
<1>1. Len(s) \in Nat /\ Len(t) \in Nat
  BY LenProperties
<1>2. SubSeq(s, 1, Len(s)) = s
  BY SubSeqFull
<1>3. ASSUME Len(s) <= Len(t)
      PROVE  SubSeq(s, 1, Len(s)) = SubSeq(t, 1, Len(s))
               <=> \A i \in 1..Len(s) : s[i] = t[i]
  <2> DEFINE p == SubSeq(t, 1, Len(s))
  <2>1. p \in Seq(T) /\ Len(p) = Len(s) /\ \A i \in 1..Len(s) : p[i] = t[i]
    BY <1>1, <1>3, SubSeqProperties
  <2> HIDE DEF p
  <2>2. s = p <=> \A i \in 1..Len(s) : s[i] = p[i]
    BY <2>1, SeqEqual
  <2> QED
    BY <1>2, <2>1, <2>2 DEF p
<1> QED
  BY <1>3 DEF IsPrefix

LEMMA PrefixGrows ==
  ASSUME NEW T, NEW s \in Seq(T), NEW t \in Seq(T), NEW e \in T
  PROVE  /\ IsPrefix(s, s)
         /\ IsPrefix(s, t) => IsPrefix(s, Append(t, e))
<1>1. IsPrefix(s, s)
  BY PrefixIs, LenProperties
<1>2. ASSUME IsPrefix(s, t) PROVE IsPrefix(s, Append(t, e))
  <2>1. Len(s) <= Len(t) /\ (\A i \in 1..Len(s) : s[i] = t[i]) /\ Len(s) \in Nat /\ Len(t) \in Nat
    BY <1>2, PrefixIs, LenProperties
  <2>2. /\ Append(t, e) \in Seq(T) /\ Len(Append(t, e)) = Len(t) + 1
        /\ \A i \in 1..Len(t) : Append(t, e)[i] = t[i]
    BY AppendProperties
  <2>3. Len(s) <= Len(Append(t, e)) /\ \A i \in 1..Len(s) : s[i] = Append(t, e)[i]
    BY <2>1, <2>2
  <2> QED
    BY <2>2, <2>3, PrefixIs
<1> QED
  BY <1>1, <1>2

-----------------------------------------------------------------------------
(* The views of one request on their way                                   *)

Count(S) == IF S = {} THEN 0 ELSE 1

(* A view computes a token within max_tokens at a position it has a block  *)
(* for, and its blocks still are the first of the request's table.         *)
ViewOK(v, table, limit) ==
  /\ v \in ViewType
  /\ v.num_tokens <= Len(v.block_table) * BlockSize
  /\ IsPrefix(v.block_table, table)
  /\ v.num_tokens < limit

(* With n committed tokens and p views on their way, `old' in the older    *)
(* and `new' in the newer batch: a request that has not ended has them at  *)
(* consecutive lengths.                                                    *)
Flight(p, st, n, table, limit, old, new) ==
  /\ p = Count(old) + Count(new)
  /\ \A v \in old \cup new : ViewOK(v, table, limit)
  /\ st # "FINISHED" => /\ \A v \in old : v.num_tokens = n
                        /\ \A v \in new : v.num_tokens = n + Count(old)

LEMMA FlightShift ==
  ASSUME NEW p, NEW st, NEW n \in Nat, NEW table, NEW limit, NEW S,
         Flight(p, st, n, table, limit, {}, S)
  PROVE  Flight(p, st, n, table, limit, S, {})
BY DEF Flight, Count

LEMMA FlightGrows ==
  ASSUME NEW p, NEW st, NEW n, NEW table \in Seq(Blocks), NEW limit, NEW old, NEW new,
         NEW e \in Blocks, Flight(p, st, n, table, limit, old, new)
  PROVE  Flight(p, st, n, Append(table, e), limit, old, new)
<1>1. \A v \in old \cup new : IsPrefix(v.block_table, Append(table, e))
  <2>1. \A v \in old \cup new : v.block_table \in Seq(Blocks) /\ IsPrefix(v.block_table, table)
    BY DEF Flight, ViewOK, ViewType
  <2> QED
    BY <2>1, PrefixGrows
<1> QED
  BY <1>1 DEF Flight, ViewOK

LEMMA FlightFirst ==
  ASSUME NEW p, NEW st, NEW n \in Nat, NEW table, NEW limit, NEW v,
         Flight(p, st, n, table, limit, {}, {}), ViewOK(v, table, limit), v.num_tokens = n + p
  PROVE  Flight(p + 1, st, n, table, limit, {v}, {})
BY DEF Flight, Count

LEMMA FlightSecond ==
  ASSUME NEW p, NEW st, NEW n \in Nat, NEW table, NEW limit, NEW v, NEW old,
         Flight(p, st, n, table, limit, old, {}), ViewOK(v, table, limit), v.num_tokens = n + p
  PROVE  Flight(p + 1, st, n, table, limit, old, {v})
BY DEF Flight, Count

(* A result is appended, or belongs to a request that has ended.           *)
LEMMA FlightLands ==
  ASSUME NEW p, NEW st, NEW n \in Nat, NEW table, NEW limit, NEW v, NEW new,
         Flight(p, st, n, table, limit, {v}, new), NEW p2, NEW st2, NEW n2, p2 = p - 1,
         st2 = "FINISHED" \/ (st # "FINISHED" /\ n2 = n + 1)
  PROVE  Flight(p2, st2, n2, table, limit, {}, new)
<1>1. Count({v}) = 1 /\ Count({}) = 0 /\ Count(new) \in 0..1
  BY DEF Count
<1>2. p2 = Count({}) + Count(new)
  BY <1>1 DEF Flight
<1>3. ASSUME st2 # "FINISHED", NEW w \in new PROVE w.num_tokens = n2 + Count({})
  BY <1>1, <1>3 DEF Flight
<1> QED
  BY <1>2, <1>3 DEF Flight

(* The last view of a request that has ended leaves it without any.        *)
LEMMA FlightEnds ==
  ASSUME NEW p, NEW st, NEW n, NEW table, NEW limit, NEW v, NEW new, p = 1,
         Flight(p, st, n, table, limit, {v}, new),
         NEW p2, NEW st2, NEW n2, NEW table2, p2 = 0, st2 = "FINISHED"
  PROVE  Flight(p2, st2, n2, table2, limit, {}, new)
<1>1. Count({v}) = 1 /\ Count({}) = 0 /\ Count(new) \in 0..1
  BY DEF Count
<1>2. Count(new) = 0
  BY <1>1 DEF Flight
<1>3. new = {}
  BY <1>2 DEF Count
<1> QED
  BY <1>3 DEF Flight, Count

-----------------------------------------------------------------------------
(* The invariant                                                           *)

(* The outstanding batches: the one whose results come first, or what      *)
(* postprocess() has left of it, and the one dispatched on top of it.      *)
Older == IF phase = "commit" THEN views
         ELSE IF dispatched = <<>> THEN <<>> ELSE dispatched[1]
Newer == IF phase = "commit" THEN (IF dispatched = <<>> THEN <<>> ELSE dispatched[1])
         ELSE IF Len(dispatched) < 2 THEN <<>> ELSE dispatched[2]

Shape ==
  /\ phase = "idle" => views = <<>> /\ Len(dispatched) <= 2
  /\ phase = "commit" => views # <<>> /\ Len(dispatched) <= 1
  /\ \A i \in 1..Len(dispatched) : dispatched[i] # <<>>
  /\ OneEach(Older) /\ OneEach(Newer)

Limit(r) == PromptLen[r] + MaxTokens[r]

OnItsWay(r) ==
  Flight(pending[r], status[r], num_tokens[r], block_table[r], Limit(r),
         RowsOf(r, Older), RowsOf(r, Newer))

(* A request that still has tokens to compute has a view in every batch    *)
(* dispatched: so no request ever has a third one.                         *)
InEveryBatch(r) ==
  r \in ToSet(live) /\ HasMore(r) => \A i \in 1..Len(dispatched) : RowsOf(r, dispatched[i]) # {}

(* What the fields of a request say while there is a cohort.               *)
Account(r) ==
  /\ num_cached_tokens[r] < num_tokens[r]
  /\ num_cached_tokens[r] + num_scheduled_tokens[r] <= num_tokens[r]
  /\ status[r] = "NEW" => num_cached_tokens[r] = 0 /\ num_tokens[r] = PromptLen[r]
  /\ status[r] = "FINISHED" /\ pending[r] = 0 => num_cached_tokens[r] = 0
  /\ r \in ToSet(waiting) => /\ status[r] \in {"WAITING", "RUNNING"} /\ r \notin ToSet(live)
                             /\ block_table[r] = <<>> /\ num_cached_tokens[r] = 0
                             /\ num_tokens[r] = PromptLen[r]
  /\ r \in ToSet(live) => status[r] # "NEW"
  /\ r \in ToSet(live) /\ status[r] # "FINISHED"
       => /\ num_cached_tokens[r] = num_tokens[r] - 1
          /\ num_tokens[r] + pending[r] <= cap(r) + 1
  /\ r \notin ToSet(live) => pending[r] = 0
  /\ status[r] \in {"WAITING", "RUNNING"} => r \in ToSet(waiting) \cup ToSet(live)
  /\ r \in in_flight <=> r \in ToSet(live) /\ (status[r] # "FINISHED" \/ pending[r] > 0)

(* The serial scheduler stands still.                                      *)
Still ==
  /\ running = <<>> /\ batch_queue = <<>> /\ batch = NoBatch
  /\ scheduled_seqs = <<>> /\ num_batched_tokens = 0
  /\ phase \in {"idle", "commit"} /\ active_ids \in SUBSET Requests

CohortTypes ==
  /\ waiting \in Seq(Requests) /\ in_flight \in SUBSET Requests
  /\ status \in [Requests -> {"NEW", "WAITING", "RUNNING", "FINISHED"}]
  /\ num_tokens \in [Requests -> Nat] /\ num_cached_tokens \in [Requests -> Nat]
  /\ num_scheduled_tokens \in [Requests -> Nat] /\ is_prefill \in [Requests -> BOOLEAN]
  /\ block_table \in [Requests -> Seq(Blocks)] /\ free_block_ids \in Seq(Blocks)
  /\ live \in Seq(Requests) /\ pending \in [Requests -> 0..2]
  /\ dispatched \in Seq(Views) /\ views \in Views /\ draining \in BOOLEAN

Owners == Distinct(waiting) /\ Distinct(live) /\ Len(live) <= MaxNumSeqs

CohortInv ==
  /\ CohortTypes /\ Still /\ Shape /\ AsyncBlocksConserved /\ Owners
  /\ \A r \in Requests : Account(r) /\ InEveryBatch(r) /\ OnItsWay(r)

NoCohort ==
  /\ pending = [r \in Requests |-> 0] /\ dispatched = <<>> /\ views = <<>>
  /\ draining \in BOOLEAN /\ Inv /\ Coverage

AsyncInv == IF Serial THEN NoCohort ELSE CohortInv

-----------------------------------------------------------------------------
LEMMA InitAsyncInv == AsyncInit => AsyncInv
BY InitTypeInv, InitOwnership, InitBlocks, InitPolicy, InitCoverage
   DEF AsyncInit, AsyncInv, NoCohort, Serial, Inv

(* Without a cohort the steps are the serial scheduler's.                  *)
LEMMA SerialStep ==
  ASSUME NoCohort, SerialNext \/ UNCHANGED vars, UNCHANGED cohortVars
  PROVE  NoCohort'
<1>1. [Next]_vars
  BY DEF SerialNext, Next
<1>2. Inv' /\ Coverage'
  BY <1>1, InvStep, CoverageStep DEF NoCohort
<1> QED
  BY <1>2 DEF NoCohort, cohortVars

(* Outside schedule() and postprocess(), with nothing in flight, nothing   *)
(* is queued.                                                              *)
LEMMA NothingQueued ==
  ASSUME Inv, phase = "idle", in_flight = {}
  PROVE  batch_queue = <<>> /\ batch = NoBatch /\ scheduled_seqs = <<>> /\ num_batched_tokens = 0
<1>1. Len(batch_queue) = 0
  <2>1. ASSUME NEW i \in 1..Len(batch_queue) PROVE FALSE
    <3>1. batch_queue[i].seqs \in Seq(Requests) /\ batch_queue[i].seqs # <<>>
      BY <2>1, OwnerTypes DEF Inv, TypeInv, PhaseOK
    <3>2. ToSet(batch_queue[i].seqs) # {}
      BY <3>1, ToSetDef
    <3> QED
      BY <2>1, <3>2 DEF Inv, Ownership, OneRowPerFlight
  <2>2. Len(batch_queue) \in Nat
    BY OwnerTypes DEF Inv
  <2> QED
    BY <2>1, <2>2
<1>2. batch_queue = <<>>
  BY <1>1, ToSetDef DEF Inv, TypeInv, TypeOK
<1> QED
  BY <1>2 DEF Inv, TypeInv, PhaseOK

LEMMA AsyncBlocks ==
  ASSUME BlocksConserved
  PROVE  AsyncBlocksConserved
BY DEF BlocksConserved, AsyncBlocksConserved

LEMMA BeginCohort ==
  ASSUME NoCohort, begin_async_decode
  PROVE  CohortInv' /\ live' # <<>>
<1> USE DEF begin_async_decode
<1>1. /\ batch_queue = <<>> /\ batch = NoBatch /\ scheduled_seqs = <<>> /\ num_batched_tokens = 0
      /\ Inv /\ Coverage /\ TypeInv /\ TypeOK
  BY NothingQueued DEF NoCohort, CanBegin, Inv, TypeInv
<1>2. CohortTypes' /\ Still'
  <2>1. <<>> \in Views /\ <<>> \in Seq(Views)
    BY DEF Views
  <2>2. ToSet(running) \in SUBSET Requests
    BY <1>1, OwnerTypes
  <2>3. waiting' \in Seq(Requests) /\ in_flight' \in SUBSET Requests /\ live' \in Seq(Requests)
    BY <1>1, <2>2 DEF TypeOK
  <2>4. /\ status' \in [Requests -> {"NEW", "WAITING", "RUNNING", "FINISHED"}]
        /\ num_tokens' \in [Requests -> Nat] /\ num_cached_tokens' \in [Requests -> Nat]
        /\ num_scheduled_tokens' \in [Requests -> Nat] /\ is_prefill' \in [Requests -> BOOLEAN]
    BY <1>1 DEF TypeOK, seqVars
  <2>5. block_table' \in [Requests -> Seq(Blocks)] /\ free_block_ids' \in Seq(Blocks)
    BY <1>1 DEF TypeOK, blockVars
  <2>6. pending' \in [Requests -> 0..2] /\ dispatched' \in Seq(Views) /\ views' \in Views
        /\ draining' \in BOOLEAN
    <3>1. pending' = [r \in Requests |-> 0] /\ 0 \in 0..2
      OBVIOUS
    <3>2. dispatched' = <<>> /\ views' = <<>> /\ draining' = FALSE
      BY DEF NoCohort
    <3> QED
      BY <2>1, <3>1, <3>2
  <2>7. Still'
    BY <1>1 DEF Still, TypeOK, callVars, driverVars
  <2> QED
    BY <2>3, <2>4, <2>5, <2>6, <2>7 DEF CohortTypes
<1>3. Older' = <<>> /\ Newer' = <<>> /\ Len(dispatched') = 0 /\ views' = <<>> /\ phase' = "idle"
  BY DEF Older, Newer, NoCohort
<1>4. Shape'
  BY <1>3, NoRows DEF Shape
<1>5. AsyncBlocksConserved'
  <2>1. AsyncBlocksConserved
    BY <1>1, AsyncBlocks DEF Inv
  <2>2. UNCHANGED <<block_table, free_block_ids, status, pending>>
    BY DEF blockVars, seqVars, NoCohort
  <2> QED
    BY <2>1, <2>2 DEF AsyncBlocksConserved
<1>6. Owners' /\ live' # <<>>
  BY <1>1, EmptyQueue DEF Owners, CanBegin, Inv, Ownership, OneOwner
<1>7. ASSUME NEW r \in Requests PROVE Account(r)' /\ InEveryBatch(r)' /\ OnItsWay(r)'
  <2>1. InEveryBatch(r)'
    BY <1>3 DEF InEveryBatch
  <2>2. OnItsWay(r)'
    BY <1>3, NoRows DEF OnItsWay, Flight, Count
  <2>3. /\ UNCHANGED <<block_table, status, num_tokens, num_cached_tokens, num_scheduled_tokens>>
        /\ pending'[r] = 0 /\ ToSet(waiting') = {} /\ ToSet(waiting) = {} /\ live' = running
        /\ in_flight' = ToSet(running)
    BY EmptyQueue DEF CanBegin, blockVars, seqVars
  <2>4. /\ num_cached_tokens[r] < num_tokens[r] /\ num_tokens[r] \in Nat
        /\ num_cached_tokens[r] + num_scheduled_tokens[r] <= num_tokens[r]
    BY <1>1, CounterTypes
  <2>5. status[r] = "NEW" => num_cached_tokens[r] = 0 /\ num_tokens[r] = PromptLen[r]
    BY <1>1 DEF Inv, PolicyInv, Untouched
  <2>6. Covered(r) /\ cap(r)' = cap(r)
    BY <1>1, <2>3 DEF Coverage, cap
  <2>7. status[r] \in {"WAITING", "RUNNING"} <=> r \in ToSet(running)
    BY <1>1, <2>3 DEF Inv, Ownership, OneOwner, CanBegin
  <2>8. status[r] \in {"NEW", "WAITING", "RUNNING", "FINISHED"}
    BY <1>1 DEF TypeOK
  <2> QED
    BY <2>1, <2>2, <2>3, <2>4, <2>5, <2>6, <2>7, <2>8 DEF Account, Covered
<1> QED
  BY <1>2, <1>4, <1>5, <1>6, <1>7 DEF CohortInv

-----------------------------------------------------------------------------
(* A new request arrives while there is a cohort.                          *)
LEMMA CohortAlone ==
  ASSUME Still, SerialNext, ~Serial
  PROVE  \E r \in Requests : add(r)
BY DEF Still, SerialNext, Schedule, Postprocess, DecodeRow, DecodePreempt, DecodeDone,
       PrefillPromote, PrefillContinuation, PrefillRow, RaiseExhausted, Return,
       PostPartial, PostFinish, PostContinue, PostRow

LEMMA AddCohort ==
  ASSUME CohortInv, NEW r \in Requests, add(r), UNCHANGED cohortVars
  PROVE  CohortInv'
<1> USE DEF add
<1>1. /\ Account(r) /\ CohortTypes /\ Still /\ Shape /\ AsyncBlocksConserved /\ Owners
      /\ \A q \in Requests : Account(q) /\ InEveryBatch(q) /\ OnItsWay(q)
  BY DEF CohortInv
<1>2. r \notin ToSet(waiting) /\ r \notin ToSet(live) /\ pending[r] = 0 /\ block_table[r] = <<>>
  BY <1>1 DEF Account, AsyncBlocksConserved
<1>3. /\ Append(waiting, r) \in Seq(Requests)
      /\ ToSet(Append(waiting, r)) = ToSet(waiting) \cup {r}
      /\ Distinct(Append(waiting, r))
  BY <1>1, <1>2, AppendQueue DEF CohortTypes, Owners
<1>4. /\ UNCHANGED <<running, in_flight, num_tokens, num_cached_tokens, num_scheduled_tokens,
                     is_prefill, block_table, free_block_ids, phase, scheduled_seqs,
                     num_batched_tokens, active_ids, batch_queue, batch>>
      /\ UNCHANGED <<live, pending, dispatched, draining, views>>
  BY DEF blockVars, callVars, driverVars, cohortVars
<1>5. CohortTypes'
  BY <1>1, <1>3, <1>4 DEF CohortTypes
<1>6. Still' /\ Owners'
  BY <1>1, <1>3, <1>4 DEF Still, Owners
<1>7. Older' = Older /\ Newer' = Newer
  BY <1>4 DEF Older, Newer
<1>8. Shape'
  BY <1>1, <1>4, <1>7 DEF Shape
<1>9. /\ status'[r] = "WAITING" /\ status[r] = "NEW"
      /\ \A q \in Requests \ {r} : status'[q] = status[q]
  BY <1>1 DEF CohortTypes
<1>10. AsyncBlocksConserved'
  BY <1>1, <1>4, <1>9 DEF AsyncBlocksConserved
<1>11. ASSUME NEW q \in Requests PROVE Account(q)' /\ InEveryBatch(q)' /\ OnItsWay(q)'
  <2>1. Account(q) /\ InEveryBatch(q) /\ OnItsWay(q)
    BY <1>1
  <2>2. cap(q)' = cap(q)
    BY <1>4 DEF cap
  <2>3. CASE q = r
    <3>1. Account(r)'
      BY <1>1, <1>2, <1>3, <1>4, <1>9 DEF Account
    <3>2. InEveryBatch(r)'
      BY <1>2, <1>4 DEF InEveryBatch
    <3>3. OnItsWay(r)'
      BY <1>1, <1>4, <1>7, <1>9 DEF OnItsWay, Flight
    <3> QED
      BY <2>3, <3>1, <3>2, <3>3
  <2>4. CASE q # r
    <3>1. status'[q] = status[q] /\ (q \in ToSet(waiting') <=> q \in ToSet(waiting))
      BY <1>3, <1>9, <2>4
    <3>2. Account(q)'
      BY <1>4, <2>1, <2>2, <3>1 DEF Account
    <3>3. InEveryBatch(q)'
      BY <1>4, <2>1, <3>1 DEF InEveryBatch, HasMore, num_completion_tokens
    <3>4. OnItsWay(q)'
      BY <1>4, <1>7, <2>1, <3>1 DEF OnItsWay
    <3> QED
      BY <3>2, <3>3, <3>4
  <2> QED
    BY <2>3, <2>4
<1> QED
  BY <1>5, <1>6, <1>8, <1>10, <1>11 DEF CohortInv

(* Steps that change neither the requests nor the batches.                 *)
LEMMA QuietCohort ==
  ASSUME CohortInv, UNCHANGED <<vars, live, pending, dispatched, views>>, draining' \in BOOLEAN
  PROVE  CohortInv'
<1>1. /\ UNCHANGED <<running, in_flight, num_tokens, num_cached_tokens, num_scheduled_tokens,
                     is_prefill, block_table, free_block_ids, phase, scheduled_seqs,
                     num_batched_tokens, active_ids, batch_queue, batch, status, waiting>>
      /\ UNCHANGED <<live, pending, dispatched, views>>
  BY DEF vars, queueVars, seqVars, blockVars, callVars, driverVars
<1>2. Older' = Older /\ Newer' = Newer
  BY <1>1 DEF Older, Newer
<1>3. CohortTypes' /\ Still' /\ Owners' /\ Shape' /\ AsyncBlocksConserved'
  <2>1. CohortTypes'
    BY <1>1 DEF CohortInv, CohortTypes
  <2>2. Still' /\ Owners'
    BY <1>1 DEF CohortInv, Still, Owners
  <2>3. Shape'
    BY <1>1, <1>2 DEF CohortInv, Shape
  <2>4. AsyncBlocksConserved'
    BY <1>1 DEF CohortInv, AsyncBlocksConserved
  <2> QED
    BY <2>1, <2>2, <2>3, <2>4
<1>4. ASSUME NEW q \in Requests PROVE Account(q)' /\ InEveryBatch(q)' /\ OnItsWay(q)'
  <2>1. Account(q) /\ InEveryBatch(q) /\ OnItsWay(q)
    BY DEF CohortInv
  <2>2. Account(q)'
    BY <1>1, <2>1 DEF Account, cap
  <2>3. InEveryBatch(q)'
    BY <1>1, <2>1 DEF InEveryBatch, HasMore, num_completion_tokens
  <2>4. OnItsWay(q)'
    BY <1>1, <1>2, <2>1 DEF OnItsWay
  <2> QED
    BY <2>2, <2>3, <2>4
<1> QED
  BY <1>3, <1>4 DEF CohortInv

(* postprocess() starts with the oldest batch.                             *)
LEMMA BeginCommitCohort ==
  ASSUME CohortInv, BeginCommit
  PROVE  CohortInv'
<1> USE DEF BeginCommit
<1>1. /\ UNCHANGED <<running, in_flight, num_tokens, num_cached_tokens, num_scheduled_tokens,
                     is_prefill, block_table, free_block_ids, scheduled_seqs,
                     num_batched_tokens, active_ids, batch_queue, batch, status, waiting>>
      /\ UNCHANGED <<live, pending, draining>>
  BY DEF vars, queueVars, seqVars, blockVars, callVars, driverVars
<1>2. CohortTypes /\ Shape /\ Len(dispatched) \in Nat /\ Len(dispatched) <= 2
  BY LenProperties DEF CohortInv, CohortTypes, Shape
<1>3. /\ Head(dispatched) = dispatched[1] /\ Tail(dispatched) \in Seq(Views)
      /\ Len(Tail(dispatched)) = Len(dispatched) - 1 /\ Len(dispatched) > 0
      /\ \A i \in 1..Len(Tail(dispatched)) : Tail(dispatched)[i] = dispatched[i + 1]
  <2>1. Len(dispatched) # 0
    BY <1>2, EmptySeq DEF CohortTypes
  <2>2. Head(dispatched) = dispatched[1]
    BY <1>2 DEF CohortTypes
  <2> QED
    BY <1>2, <2>1, <2>2, HeadTailProperties DEF CohortTypes
<1>4. dispatched[1] \in Views /\ dispatched[1] # <<>>
  BY <1>2, <1>3, ElementOfSeq DEF CohortTypes, Shape
<1>5. Tail(dispatched) = <<>> <=> Len(dispatched) = 1
  BY <1>2, <1>3, EmptySeq
<1>6. Older' = Older /\ Newer' = Newer
  <2>1. Older' = Older
    BY DEF Older
  <2>2. /\ Newer' = IF Tail(dispatched) = <<>> THEN <<>> ELSE Tail(dispatched)[1]
        /\ Newer = IF Len(dispatched) < 2 THEN <<>> ELSE dispatched[2]
    BY DEF Newer
  <2>3. CASE Len(dispatched) = 1
    BY <1>5, <2>1, <2>2, <2>3
  <2>4. CASE Len(dispatched) = 2
    <3>1. Tail(dispatched)[1] = dispatched[2] /\ Tail(dispatched) # <<>>
      BY <1>3, <1>5, <2>4
    <3> QED
      BY <2>1, <2>2, <2>4, <3>1
  <2> QED
    BY <1>2, <1>3, <2>1, <2>3, <2>4
<1>7. CohortTypes'
  BY <1>1, <1>2, <1>3, <1>4 DEF CohortTypes
<1>8. Still' /\ Owners'
  BY <1>1 DEF CohortInv, Still, Owners
<1>9. Shape'
  <2>1. \A i \in 1..Len(dispatched') : dispatched'[i] # <<>>
    <3>1. \A i \in 1..Len(Tail(dispatched)) : i + 1 \in 1..Len(dispatched)
      BY <1>2, <1>3
    <3> QED
      BY <1>2, <1>3, <3>1 DEF Shape
  <2>2. Len(dispatched') <= 1
    BY <1>2, <1>3
  <2> QED
    BY <1>2, <1>3, <1>4, <1>6, <2>1, <2>2 DEF Shape
<1>10. AsyncBlocksConserved'
  BY <1>1 DEF CohortInv, AsyncBlocksConserved
<1>11. ASSUME NEW q \in Requests PROVE Account(q)' /\ InEveryBatch(q)' /\ OnItsWay(q)'
  <2>1. Account(q) /\ InEveryBatch(q) /\ OnItsWay(q)
    BY DEF CohortInv
  <2>2. Account(q)'
    BY <1>1, <2>1 DEF Account, cap
  <2>3. InEveryBatch(q)'
    <3>1. HasMore(q)' = HasMore(q)
      BY <1>1 DEF HasMore, num_completion_tokens
    <3>2. ASSUME NEW i \in 1..Len(Tail(dispatched)), q \in ToSet(live), HasMore(q)
          PROVE  RowsOf(q, Tail(dispatched)[i]) # {}
      BY <1>2, <1>3, <2>1, <3>2 DEF InEveryBatch
    <3> QED
      BY <1>1, <3>1, <3>2 DEF InEveryBatch
  <2>4. OnItsWay(q)'
    BY <1>1, <1>6, <2>1 DEF OnItsWay
  <2> QED
    BY <2>2, <2>3, <2>4
<1> QED
  BY <1>7, <1>8, <1>9, <1>10, <1>11 DEF CohortInv

-----------------------------------------------------------------------------
(* postprocess()                                                           *)

(* What the batches are after one row, whatever becomes of its request.    *)
LEMMA CommitBatches ==
  ASSUME CohortInv, CommitRow
  PROVE  /\ committed \in Requests /\ RowsOf(committed, Older) = {view}
         /\ RowsOf(committed, Older') \in {{}, RowsOf(committed, Newer)}
         /\ Shape' /\ Still' /\ Owners' /\ views' \in Views
         /\ \A p, st, table, lim : \A n \in Nat :
              /\ Flight(p, st, n, table, lim, {}, RowsOf(committed, Newer))
                   => Flight(p, st, n, table, lim, RowsOf(committed, Older'),
                             RowsOf(committed, Newer'))
              /\ \A q \in Requests \ {committed} :
                   Flight(p, st, n, table, lim, RowsOf(q, Older), RowsOf(q, Newer))
                     => Flight(p, st, n, table, lim, RowsOf(q, Older'), RowsOf(q, Newer'))
<1> DEFINE c == committed
<1>1. /\ CohortTypes /\ Shape /\ Still /\ Owners /\ phase = "commit" /\ views # <<>>
      /\ Len(dispatched) \in Nat /\ Len(dispatched) <= 1
      /\ Older = views
  BY LenProperties DEF CohortInv, CommitRow, Shape, CohortTypes, Older
<1>2. /\ c \in Requests /\ Tail(views) \in Views
      /\ RowsOf(c, views) = {view} /\ RowsOf(c, Tail(views)) = {}
      /\ \A q \in Requests \ {c} : RowsOf(q, Tail(views)) = RowsOf(q, views)
      /\ OneEach(Tail(views))
  BY <1>1, PopView DEF CohortTypes, Shape, committed, view
<1>3. /\ views' = Tail(views) /\ phase' = IF Tail(views) = <<>> THEN "idle" ELSE "commit"
      /\ UNCHANGED <<waiting, running, live, dispatched, draining, scheduled_seqs,
                     num_batched_tokens, active_ids, batch_queue, batch>>
  BY DEF CommitRow, callVars, driverVars
<1>4. Newer = IF dispatched = <<>> THEN <<>> ELSE dispatched[1]
  BY <1>1 DEF Newer
<1>5. Still' /\ Owners'
  BY <1>1, <1>3 DEF Still, Owners
<1>6. \A i \in 1..Len(dispatched) : dispatched[i] # <<>>
  BY <1>1 DEF Shape
<1> HIDE DEF c
<1>7. CASE Tail(views) # <<>>
  <2>1. Older' = Tail(views) /\ Newer' = Newer
    BY <1>3, <1>4, <1>7 DEF Older, Newer
  <2>2. Shape'
    BY <1>1, <1>2, <1>3, <1>6, <1>7, <2>1 DEF Shape
  <2>3. RowsOf(c, Older') = {}
    BY <1>2, <2>1
  <2>4. /\ RowsOf(c, Newer') = RowsOf(c, Newer)
        /\ \A q \in Requests \ {c} : RowsOf(q, Older') = RowsOf(q, Older)
                                     /\ RowsOf(q, Newer') = RowsOf(q, Newer)
    BY <1>1, <1>2, <2>1
  <2> QED
    BY <1>1, <1>2, <1>3, <1>5, <2>2, <2>3, <2>4 DEF c
<1>8. CASE Tail(views) = <<>>
  <2>1. dispatched = <<>> <=> Len(dispatched) = 0
    BY <1>1, EmptySeq DEF CohortTypes
  <2>2. Older' = Newer /\ Newer' = <<>>
    BY <1>1, <1>3, <1>4, <1>8, <2>1 DEF Older, Newer
  <2>3. Shape'
    BY <1>1, <1>3, <1>6, <1>8, <2>2, NoRows DEF Shape
  <2>4. RowsOf(c, Older') = RowsOf(c, Newer) /\ RowsOf(c, Newer') = {}
    BY <2>2, NoRows
  <2>5. \A q \in Requests \ {c} : /\ RowsOf(q, Older) = {} /\ RowsOf(q, Newer') = {}
                                  /\ RowsOf(q, Older') = RowsOf(q, Newer)
    BY <1>1, <1>2, <1>8, <2>2, NoRows
  <2> QED
    <3>1. \A p, st, table, lim : \A n \in Nat :
            Flight(p, st, n, table, lim, {}, RowsOf(c, Newer))
              => Flight(p, st, n, table, lim, RowsOf(c, Older'), RowsOf(c, Newer'))
      BY <2>4, FlightShift
    <3>2. \A p, st, table, lim : \A n \in Nat : \A q \in Requests \ {c} :
            Flight(p, st, n, table, lim, RowsOf(q, Older), RowsOf(q, Newer))
              => Flight(p, st, n, table, lim, RowsOf(q, Older'), RowsOf(q, Newer'))
      BY <2>5, FlightShift
    <3> QED
      BY <1>1, <1>2, <1>3, <1>5, <2>3, <2>4, <3>1, <3>2 DEF c
<1> QED
  BY <1>7, <1>8

(* The request whose row it is.                                            *)
LEMMA CommitOwner ==
  ASSUME CohortInv, CommitRow
  PROVE  LET c == committed
         IN  /\ c \in Requests /\ c \in ToSet(live) /\ c \notin ToSet(waiting)
             /\ c \in in_flight
             /\ status[c] \in {"WAITING", "RUNNING", "FINISHED"}
             /\ pending[c] \in 1..2
             /\ pending' \in [Requests -> 0..2] /\ pending'[c] = pending[c] - 1
             /\ \A q \in Requests \ {c} : pending'[q] = pending[q]
             /\ num_tokens[c] \in Nat /\ num_cached_tokens[c] \in Nat
             /\ num_scheduled_tokens[c] \in Nat
             /\ Flight(pending[c], status[c], num_tokens[c], block_table[c], Limit(c),
                       {view}, RowsOf(c, Newer))
<1> DEFINE c == committed
<1>1. c \in Requests /\ RowsOf(c, Older) = {view}
  BY CommitBatches
<1>2. CohortTypes /\ Account(c) /\ OnItsWay(c)
  BY <1>1 DEF CohortInv
<1>3. pending' = [pending EXCEPT ![c] = @ - 1]
  BY DEF CommitRow
<1> HIDE DEF c
<1>4. Flight(pending[c], status[c], num_tokens[c], block_table[c], Limit(c), {view}, RowsOf(c, Newer))
  BY <1>1, <1>2 DEF OnItsWay
<1>5. pending[c] \in 1..2
  BY <1>4 DEF Flight, Count
<1>6. c \in ToSet(live) /\ c \notin ToSet(waiting) /\ status[c] # "NEW" /\ c \in in_flight
  BY <1>2, <1>5 DEF Account
<1>7. /\ pending' \in [Requests -> 0..2] /\ pending'[c] = pending[c] - 1
      /\ \A q \in Requests \ {c} : pending'[q] = pending[q]
  BY <1>1, <1>2, <1>3, <1>5 DEF CohortTypes
<1>8. /\ status[c] \in {"WAITING", "RUNNING", "FINISHED"} /\ num_tokens[c] \in Nat
      /\ num_cached_tokens[c] \in Nat /\ num_scheduled_tokens[c] \in Nat
  BY <1>1, <1>2, <1>6 DEF CohortTypes
<1> QED
  BY <1>1, <1>4, <1>5, <1>6, <1>7, <1>8 DEF c

(* The other requests of the cohort.                                       *)
LEMMA CommitOthers ==
  ASSUME CohortInv, CommitRow, NEW q \in Requests \ {committed},
         in_flight' \in {in_flight, in_flight \ {committed}},
         status'[q] = status[q], num_tokens'[q] = num_tokens[q],
         num_cached_tokens'[q] = num_cached_tokens[q],
         num_scheduled_tokens'[q] = num_scheduled_tokens[q],
         block_table'[q] = block_table[q]
  PROVE  Account(q)' /\ InEveryBatch(q)' /\ OnItsWay(q)'
<1>1. Account(q) /\ InEveryBatch(q) /\ OnItsWay(q) /\ num_tokens[q] \in Nat
  BY DEF CohortInv, CohortTypes
<1>2. pending'[q] = pending[q] /\ (q \in in_flight' <=> q \in in_flight)
  BY CommitOwner
<1>3. UNCHANGED <<waiting, live, dispatched>>
  BY DEF CommitRow
<1>4. Account(q)'
  BY <1>1, <1>2, <1>3 DEF Account, cap
<1>5. InEveryBatch(q)'
  BY <1>1, <1>2, <1>3 DEF InEveryBatch, HasMore, num_completion_tokens
<1>6. OnItsWay(q)'
  BY <1>1, <1>2, CommitBatches DEF OnItsWay, Limit
<1> QED
  BY <1>4, <1>5, <1>6

LEMMA RetireBlocks ==
  ASSUME CohortTypes, AsyncBlocksConserved, NEW r \in Requests, deallocate(r),
         \A q \in Requests \ {r} : status'[q] = status[q] /\ pending'[q] = pending[q]
  PROVE  /\ AsyncBlocksConserved'
         /\ block_table' \in [Requests -> Seq(Blocks)] /\ free_block_ids' \in Seq(Blocks)
         /\ block_table'[r] = <<>>
         /\ \A q \in Requests \ {r} : block_table'[q] = block_table[q]
<1>1. /\ block_table[r] \in Seq(Blocks) /\ free_block_ids \in Seq(Blocks)
      /\ block_table' = [block_table EXCEPT ![r] = <<>>] /\ <<>> \in Seq(Blocks)
      /\ free_block_ids' = free_block_ids \o Reverse(block_table[r])
  BY DEF CohortTypes, deallocate
<1>2. /\ Reverse(block_table[r]) \in Seq(Blocks)
      /\ ToSet(Reverse(block_table[r])) = ToSet(block_table[r])
      /\ Distinct(Reverse(block_table[r]))
  BY <1>1, ReverseQueue DEF AsyncBlocksConserved
<1>3. /\ free_block_ids' \in Seq(Blocks)
      /\ ToSet(free_block_ids') = ToSet(free_block_ids) \cup ToSet(block_table[r])
      /\ Distinct(free_block_ids')
  BY <1>1, <1>2, ConcatQueue DEF AsyncBlocksConserved
<1>4. /\ block_table' \in [Requests -> Seq(Blocks)] /\ block_table'[r] = <<>>
      /\ \A q \in Requests \ {r} : block_table'[q] = block_table[q]
  BY <1>1 DEF CohortTypes
<1>5. ToSet(block_table'[r]) = {} /\ Distinct(block_table'[r])
  BY <1>4, EmptyQueue
<1>6. ASSUME NEW q \in Requests
      PROVE  /\ Distinct(block_table'[q])
             /\ ToSet(block_table'[q]) \cap ToSet(free_block_ids') = {}
             /\ \A p \in Requests \ {q} : ToSet(block_table'[q]) \cap ToSet(block_table'[p]) = {}
             /\ status'[q] \in {"NEW", "FINISHED"} /\ pending'[q] = 0 => block_table'[q] = <<>>
  BY <1>3, <1>4, <1>5 DEF AsyncBlocksConserved
<1>7. Blocks = ToSet(free_block_ids') \cup UNION {ToSet(block_table'[q]) : q \in Requests}
  <2>1. Blocks = ToSet(free_block_ids) \cup UNION {ToSet(block_table[q]) : q \in Requests}
    BY DEF AsyncBlocksConserved
  <2>2. UNION {ToSet(block_table[q]) : q \in Requests}
          = ToSet(block_table[r]) \cup UNION {ToSet(block_table'[q]) : q \in Requests}
    BY <1>4, <1>5
  <2> QED
    BY <1>3, <2>1, <2>2
<1> QED
  BY <1>3, <1>4, <1>6, <1>7 DEF AsyncBlocksConserved

(* The blocks stay where they are: no view of an ended request is the last *)
(* one.                                                                    *)
LEMMA KeepAsyncBlocks ==
  ASSUME AsyncBlocksConserved, UNCHANGED blockVars, NEW r \in Requests,
         \A q \in Requests \ {r} : status'[q] = status[q] /\ pending'[q] = pending[q],
         ~(status'[r] \in {"NEW", "FINISHED"} /\ pending'[r] = 0)
  PROVE  AsyncBlocksConserved'
BY DEF AsyncBlocksConserved, blockVars

(* The row's request has ended before: its result is thrown away.          *)
LEMMA DiscardCohort ==
  ASSUME CohortInv, DiscardToken
  PROVE  CohortInv'
<1>0. SUFFICES ASSUME NEW c \in Requests, c = committed PROVE CohortInv'
  BY CommitOwner DEF DiscardToken
<1>1. /\ CommitRow /\ CohortTypes /\ AsyncBlocksConserved /\ status[c] = "FINISHED"
      /\ Account(c) /\ c \notin ToSet(waiting) /\ c \in ToSet(live)
      /\ c \in in_flight /\ pending[c] \in 1..2
      /\ UNCHANGED <<status, num_tokens, num_scheduled_tokens, is_prefill>>
      /\ UNCHANGED <<waiting, live, dispatched, draining>>
  BY <1>0, CommitOwner DEF DiscardToken, CohortInv, CommitRow
<1>2. /\ pending' \in [Requests -> 0..2] /\ pending'[c] = pending[c] - 1
      /\ \A q \in Requests \ {c} : pending'[q] = pending[q]
      /\ num_tokens[c] \in Nat /\ num_cached_tokens[c] \in Nat /\ num_scheduled_tokens[c] \in Nat
      /\ Flight(pending[c], status[c], num_tokens[c], block_table[c], Limit(c),
                {view}, RowsOf(c, Newer))
  BY <1>0, <1>1, CommitOwner
<1>3. IF pending[c] = 1
      THEN /\ deallocate(c) /\ in_flight' = in_flight \ {c}
           /\ num_cached_tokens' = [num_cached_tokens EXCEPT ![c] = 0]
      ELSE UNCHANGED <<blockVars, in_flight, num_cached_tokens>>
  BY <1>0 DEF DiscardToken, Retire
<1>4. Shape' /\ Still' /\ Owners' /\ views' \in Views
  BY <1>0, <1>1, CommitBatches
<1>5. /\ AsyncBlocksConserved'
      /\ block_table' \in [Requests -> Seq(Blocks)] /\ free_block_ids' \in Seq(Blocks)
      /\ pending[c] # 1 => block_table'[c] = block_table[c]
      /\ \A q \in Requests \ {c} : block_table'[q] = block_table[q]
  <2>1. CASE pending[c] = 1
    BY <1>1, <1>2, <1>3, <2>1, RetireBlocks
  <2>2. CASE pending[c] # 1
    <3>1. UNCHANGED blockVars /\ pending'[c] # 0
      BY <1>1, <1>2, <1>3, <2>2
    <3> QED
      BY <1>1, <1>2, <3>1, <2>2, KeepAsyncBlocks DEF blockVars, CohortTypes
  <2> QED
    BY <2>1, <2>2
<1>6. /\ num_cached_tokens' \in [Requests -> Nat]
      /\ num_cached_tokens'[c] = IF pending[c] = 1 THEN 0 ELSE num_cached_tokens[c]
      /\ \A q \in Requests \ {c} : num_cached_tokens'[q] = num_cached_tokens[q]
      /\ in_flight' = IF pending[c] = 1 THEN in_flight \ {c} ELSE in_flight
  <2>1. num_cached_tokens \in [Requests -> Nat] /\ 0 \in Nat
    BY <1>1 DEF CohortTypes
  <2>2. CASE pending[c] = 1
    BY <1>3, <2>1, <2>2
  <2>3. CASE pending[c] # 1
    BY <1>3, <2>1, <2>3
  <2> QED
    BY <2>2, <2>3
<1>7. CohortTypes'
  BY <1>1, <1>2, <1>4, <1>5, <1>6 DEF CohortTypes
<1>8. Account(c)'
  <2>1. /\ num_cached_tokens'[c] < num_tokens[c]
        /\ num_cached_tokens'[c] + num_scheduled_tokens[c] <= num_tokens[c]
    BY <1>1, <1>2, <1>6 DEF Account
  <2>2. pending'[c] = 0 => num_cached_tokens'[c] = 0
    BY <1>1, <1>2, <1>6
  <2>3. c \in in_flight' <=> pending'[c] > 0
    BY <1>1, <1>2, <1>6
  <2> QED
    BY <1>1, <2>1, <2>2, <2>3 DEF Account
<1>9. InEveryBatch(c)'
  BY <1>1 DEF InEveryBatch, HasMore
<1>10. OnItsWay(c)'
  <2>1. Flight(pending'[c], status[c], num_tokens[c], block_table'[c], Limit(c), {}, RowsOf(c, Newer))
    <3>0. /\ num_tokens[c] \in Nat /\ pending'[c] = pending[c] - 1 /\ status[c] = "FINISHED"
          /\ pending[c] # 1 => block_table'[c] = block_table[c]
          /\ pending[c] = 1 => pending'[c] = 0
          /\ Flight(pending[c], status[c], num_tokens[c], block_table[c], Limit(c),
                    {view}, RowsOf(c, Newer))
      BY <1>1, <1>2, <1>5
    <3>1. CASE pending[c] = 1
      BY <3>0, <3>1, FlightEnds
    <3>2. CASE pending[c] # 1
      BY <3>0, <3>2, FlightLands
    <3> QED
      BY <3>1, <3>2
  <2>2. Flight(pending'[c], status[c], num_tokens[c], block_table'[c], Limit(c),
               RowsOf(c, Older'), RowsOf(c, Newer'))
    BY <1>0, <1>1, <1>2, <2>1, CommitBatches
  <2> QED
    BY <1>1, <2>2 DEF OnItsWay, Limit
<1>11. ASSUME NEW q \in Requests \ {c} PROVE Account(q)' /\ InEveryBatch(q)' /\ OnItsWay(q)'
  BY <1>0, <1>1, <1>5, <1>6, CommitOthers
<1> QED
  BY <1>1, <1>4, <1>5, <1>7, <1>8, <1>9, <1>10, <1>11 DEF CohortInv

(* The row's request takes its token and goes on.                          *)
LEMMA CommitTokenCohort ==
  ASSUME CohortInv, NEW eos \in BOOLEAN, CommitToken(eos)
  PROVE  CohortInv'
<1>0. SUFFICES ASSUME NEW c \in Requests, c = committed PROVE CohortInv'
  BY CommitOwner DEF CommitToken
<1>1. /\ CommitRow /\ CohortTypes /\ AsyncBlocksConserved /\ status[c] # "FINISHED"
      /\ Account(c) /\ InEveryBatch(c) /\ c \notin ToSet(waiting) /\ c \in ToSet(live)
      /\ c \in in_flight /\ pending[c] \in 1..2
      /\ status[c] \in {"WAITING", "RUNNING", "FINISHED"}
      /\ UNCHANGED <<status, block_table, free_block_ids, in_flight>>
      /\ UNCHANGED <<waiting, live, dispatched, draining>>
  BY <1>0, CommitOwner DEF CommitToken, CohortInv, CommitRow, blockVars
<1>2. /\ pending' \in [Requests -> 0..2] /\ pending'[c] = pending[c] - 1
      /\ \A q \in Requests \ {c} : pending'[q] = pending[q]
      /\ num_tokens[c] \in Nat /\ num_cached_tokens[c] \in Nat /\ num_scheduled_tokens[c] \in Nat
      /\ Flight(pending[c], status[c], num_tokens[c], block_table[c], Limit(c),
                {view}, RowsOf(c, Newer))
  BY <1>0, <1>1, CommitOwner
<1>3. /\ num_tokens' = [num_tokens EXCEPT ![c] = @ + 1]
      /\ num_scheduled_tokens' = [num_scheduled_tokens EXCEPT ![c] = 0]
      /\ is_prefill' = [is_prefill EXCEPT ![c] = FALSE]
      /\ num_cached_tokens' = [num_cached_tokens EXCEPT ![c] = @ + 1]
  BY <1>0 DEF CommitToken, AppendToken
<1>4. Shape' /\ Still' /\ Owners' /\ views' \in Views
  BY <1>0, <1>1, CommitBatches
<1>5. AsyncBlocksConserved'
  BY <1>1, <1>2, KeepAsyncBlocks DEF blockVars
<1>6. /\ num_cached_tokens' \in [Requests -> Nat] /\ num_tokens' \in [Requests -> Nat]
      /\ num_scheduled_tokens' \in [Requests -> Nat] /\ is_prefill' \in [Requests -> BOOLEAN]
      /\ num_tokens'[c] = num_tokens[c] + 1 /\ num_cached_tokens'[c] = num_cached_tokens[c] + 1
      /\ num_scheduled_tokens'[c] = 0
      /\ \A q \in Requests \ {c} : /\ num_cached_tokens'[q] = num_cached_tokens[q]
                                   /\ num_scheduled_tokens'[q] = num_scheduled_tokens[q]
                                   /\ num_tokens'[q] = num_tokens[q]
  <2>1. /\ num_tokens \in [Requests -> Nat] /\ num_cached_tokens \in [Requests -> Nat]
        /\ num_scheduled_tokens \in [Requests -> Nat] /\ is_prefill \in [Requests -> BOOLEAN]
    BY <1>1 DEF CohortTypes
  <2> QED
    BY <1>3, <2>1
<1>7. CohortTypes'
  BY <1>1, <1>2, <1>4, <1>6 DEF CohortTypes
<1>8. Account(c)'
  <2>1. /\ num_cached_tokens[c] = num_tokens[c] - 1
        /\ num_tokens[c] + pending[c] <= cap(c) + 1
    BY <1>1 DEF Account
  <2>2. cap(c)' = cap(c)
    BY <1>1 DEF cap
  <2>3. num_tokens'[c] + pending'[c] = num_tokens[c] + pending[c]
    BY <1>1, <1>2, <1>6
  <2> HIDE DEF cap
  <2>4. num_tokens'[c] + pending'[c] <= cap(c)' + 1
    BY <2>1, <2>2, <2>3
  <2>5. /\ num_cached_tokens'[c] = num_tokens'[c] - 1
        /\ num_cached_tokens'[c] < num_tokens'[c]
        /\ num_cached_tokens'[c] + num_scheduled_tokens'[c] <= num_tokens'[c]
    BY <1>2, <1>6, <2>1
  <2> QED
    BY <1>1, <2>4, <2>5 DEF Account
<1>9. InEveryBatch(c)'
  <2>1. num_tokens'[c] - PromptLen[c] + pending'[c] = num_tokens[c] - PromptLen[c] + pending[c]
    <3>1. PromptLen[c] \in Nat
      BY ConfigAssumption
    <3> QED
      BY <1>1, <1>2, <1>6, <3>1
  <2> QED
    BY <1>1, <2>1 DEF InEveryBatch, HasMore, num_completion_tokens
<1>10. OnItsWay(c)'
  <2>1. Flight(pending'[c], status[c], num_tokens'[c], block_table[c], Limit(c), {}, RowsOf(c, Newer))
    <3>1. /\ num_tokens[c] \in Nat /\ num_tokens'[c] = num_tokens[c] + 1
          /\ pending'[c] = pending[c] - 1 /\ status[c] # "FINISHED"
      BY <1>1, <1>2, <1>6
    <3>2. Flight(pending[c], status[c], num_tokens[c], block_table[c], Limit(c),
                 {view}, RowsOf(c, Newer))
      BY <1>2
    <3> QED
      BY <3>1, <3>2, FlightLands
  <2>2. num_tokens'[c] \in Nat
    BY <1>6
  <2>3. Flight(pending'[c], status[c], num_tokens'[c], block_table[c], Limit(c),
               RowsOf(c, Older'), RowsOf(c, Newer'))
    BY <1>0, <1>1, <2>1, <2>2, CommitBatches
  <2> QED
    BY <1>1, <2>3 DEF OnItsWay, Limit
<1>11. ASSUME NEW q \in Requests \ {c} PROVE Account(q)' /\ InEveryBatch(q)' /\ OnItsWay(q)'
  BY <1>0, <1>1, <1>6, CommitOthers
<1> QED
  BY <1>1, <1>4, <1>5, <1>7, <1>8, <1>9, <1>10, <1>11 DEF CohortInv

(* The row's request takes its last token.                                 *)
LEMMA CommitLastCohort ==
  ASSUME CohortInv, NEW eos \in BOOLEAN, CommitLast(eos)
  PROVE  CohortInv'
<1>0. SUFFICES ASSUME NEW c \in Requests, c = committed PROVE CohortInv'
  BY CommitOwner DEF CommitLast
<1>1. /\ CommitRow /\ CohortTypes /\ AsyncBlocksConserved /\ status[c] # "FINISHED"
      /\ Account(c) /\ InEveryBatch(c) /\ c \notin ToSet(waiting) /\ c \in ToSet(live)
      /\ c \in in_flight /\ pending[c] \in 1..2
      /\ UNCHANGED <<waiting, live, dispatched, draining>>
  BY <1>0, CommitOwner DEF CommitLast, CohortInv, CommitRow
<1>2. /\ pending' \in [Requests -> 0..2] /\ pending'[c] = pending[c] - 1
      /\ \A q \in Requests \ {c} : pending'[q] = pending[q]
      /\ num_tokens[c] \in Nat /\ num_cached_tokens[c] \in Nat /\ num_scheduled_tokens[c] \in Nat
      /\ Flight(pending[c], status[c], num_tokens[c], block_table[c], Limit(c),
                {view}, RowsOf(c, Newer))
  BY <1>0, <1>1, CommitOwner
<1>3. /\ num_tokens' = [num_tokens EXCEPT ![c] = @ + 1]
      /\ num_scheduled_tokens' = [num_scheduled_tokens EXCEPT ![c] = 0]
      /\ is_prefill' = [is_prefill EXCEPT ![c] = FALSE]
      /\ status' = [status EXCEPT ![c] = "FINISHED"]
      /\ IF pending[c] = 1
         THEN /\ deallocate(c) /\ in_flight' = in_flight \ {c}
              /\ num_cached_tokens' = [num_cached_tokens EXCEPT ![c] = 0]
         ELSE /\ num_cached_tokens' = [num_cached_tokens EXCEPT ![c] = @ + 1]
              /\ UNCHANGED <<blockVars, in_flight>>
  BY <1>0 DEF CommitLast, AppendToken, Retire
<1>4. Shape' /\ Still' /\ Owners' /\ views' \in Views
  BY <1>0, <1>1, CommitBatches
<1>5. /\ num_tokens' \in [Requests -> Nat] /\ num_scheduled_tokens' \in [Requests -> Nat]
      /\ is_prefill' \in [Requests -> BOOLEAN]
      /\ status' \in [Requests -> {"NEW", "WAITING", "RUNNING", "FINISHED"}]
      /\ num_tokens'[c] = num_tokens[c] + 1 /\ num_scheduled_tokens'[c] = 0
      /\ status'[c] = "FINISHED"
      /\ \A q \in Requests \ {c} : /\ num_scheduled_tokens'[q] = num_scheduled_tokens[q]
                                   /\ num_tokens'[q] = num_tokens[q] /\ status'[q] = status[q]
  <2>1. /\ num_tokens \in [Requests -> Nat] /\ num_scheduled_tokens \in [Requests -> Nat]
        /\ is_prefill \in [Requests -> BOOLEAN]
        /\ status \in [Requests -> {"NEW", "WAITING", "RUNNING", "FINISHED"}]
    BY <1>1 DEF CohortTypes
  <2> QED
    BY <1>3, <2>1
<1>6. /\ num_cached_tokens' \in [Requests -> Nat]
      /\ num_cached_tokens'[c] = IF pending[c] = 1 THEN 0 ELSE num_cached_tokens[c] + 1
      /\ \A q \in Requests \ {c} : num_cached_tokens'[q] = num_cached_tokens[q]
      /\ in_flight' = IF pending[c] = 1 THEN in_flight \ {c} ELSE in_flight
  <2>1. num_cached_tokens \in [Requests -> Nat] /\ 0 \in Nat
    BY <1>1 DEF CohortTypes
  <2>2. CASE pending[c] = 1
    BY <1>3, <2>1, <2>2
  <2>3. CASE pending[c] # 1
    BY <1>3, <2>1, <2>3
  <2> QED
    BY <2>2, <2>3
<1>7. /\ AsyncBlocksConserved'
      /\ block_table' \in [Requests -> Seq(Blocks)] /\ free_block_ids' \in Seq(Blocks)
      /\ pending[c] # 1 => block_table'[c] = block_table[c]
      /\ \A q \in Requests \ {c} : block_table'[q] = block_table[q]
  <2>1. CASE pending[c] = 1
    BY <1>1, <1>2, <1>3, <1>5, <2>1, RetireBlocks
  <2>2. CASE pending[c] # 1
    <3>1. UNCHANGED blockVars /\ pending'[c] # 0
      BY <1>1, <1>2, <1>3, <2>2
    <3> QED
      BY <1>1, <1>2, <1>5, <3>1, <2>2, KeepAsyncBlocks DEF blockVars, CohortTypes
  <2> QED
    BY <2>1, <2>2
<1>8. CohortTypes'
  <2>1. in_flight' \in SUBSET Requests
    BY <1>1, <1>6 DEF CohortTypes
  <2> QED
    BY <1>1, <1>2, <1>4, <1>5, <1>6, <1>7, <2>1 DEF CohortTypes
<1>9. Account(c)'
  <2>1. num_cached_tokens[c] = num_tokens[c] - 1
    BY <1>1 DEF Account
  <2>2. /\ num_cached_tokens'[c] < num_tokens'[c]
        /\ num_cached_tokens'[c] + num_scheduled_tokens'[c] <= num_tokens'[c]
    BY <1>2, <1>5, <1>6, <2>1
  <2>3. pending'[c] = 0 => num_cached_tokens'[c] = 0
    BY <1>1, <1>2, <1>6
  <2>4. c \in in_flight' <=> pending'[c] > 0
    BY <1>1, <1>2, <1>6
  <2> QED
    BY <1>1, <1>5, <2>2, <2>3, <2>4 DEF Account
<1>10. InEveryBatch(c)'
  BY <1>5 DEF InEveryBatch, HasMore
<1>11. OnItsWay(c)'
  <2>1. num_tokens'[c] \in Nat
    BY <1>5
  <2>2. Flight(pending'[c], status'[c], num_tokens'[c], block_table'[c], Limit(c), {}, RowsOf(c, Newer))
    <3>1. CASE pending[c] = 1
      <4>1. pending'[c] = 0
        BY <1>2, <3>1
      <4> QED
        BY <1>2, <1>5, <3>1, <4>1, FlightEnds
    <3>2. CASE pending[c] # 1
      <4>1. /\ num_tokens[c] \in Nat /\ pending'[c] = pending[c] - 1 /\ status'[c] = "FINISHED"
            /\ block_table'[c] = block_table[c]
        BY <1>2, <1>5, <1>7, <3>2
      <4>2. Flight(pending[c], status[c], num_tokens[c], block_table[c], Limit(c),
                   {view}, RowsOf(c, Newer))
        BY <1>2
      <4> QED
        BY <4>1, <4>2, FlightLands
    <3> QED
      BY <3>1, <3>2
  <2>3. Flight(pending'[c], status'[c], num_tokens'[c], block_table'[c], Limit(c),
               RowsOf(c, Older'), RowsOf(c, Newer'))
    BY <1>0, <1>1, <2>1, <2>2, CommitBatches
  <2> QED
    BY <2>3 DEF OnItsWay, Limit
<1>12. ASSUME NEW q \in Requests \ {c} PROVE Account(q)' /\ InEveryBatch(q)' /\ OnItsWay(q)'
  BY <1>0, <1>1, <1>5, <1>6, <1>7, CommitOthers
<1> QED
  BY <1>1, <1>4, <1>7, <1>8, <1>9, <1>10, <1>11, <1>12 DEF CohortInv

-----------------------------------------------------------------------------
(* schedule(): the blocks                                                  *)

(* Every block is free or in one table, once.                              *)
Conserved(free, table) ==
  /\ Distinct(free)
  /\ \A r \in Requests :
       /\ Distinct(table[r])
       /\ ToSet(table[r]) \cap ToSet(free) = {}
       /\ \A q \in Requests \ {r} : ToSet(table[r]) \cap ToSet(table[q]) = {}
  /\ Blocks = ToSet(free) \cup UNION {ToSet(table[r]) : r \in Requests}

Grown(free, table, s) ==
  [r \in Requests |->
     IF r \in ToSet(s) THEN Append(table[r], free[CHOOSE k \in 1..Len(s) : s[k] = r])
     ELSE table[r]]

LEMMA GrowTables ==
  ASSUME NEW free \in Seq(Blocks), NEW table \in [Requests -> Seq(Blocks)],
         NEW s \in Seq(Requests), Distinct(s), Len(s) <= Len(free), Conserved(free, table)
  PROVE  LET free2 == SubSeq(free, Len(s) + 1, Len(free))
             table2 == Grown(free, table, s)
         IN  /\ free2 \in Seq(Blocks) /\ table2 \in [Requests -> Seq(Blocks)]
             /\ Conserved(free2, table2)
             /\ \A r \in Requests : IF r \in ToSet(s)
                                    THEN \E e \in Blocks : table2[r] = Append(table[r], e)
                                    ELSE table2[r] = table[r]
<1> DEFINE n == Len(s)
           p == SubSeq(free, 1, n)
           free2 == SubSeq(free, n + 1, Len(free))
           table2 == Grown(free, table, s)
           at(r) == CHOOSE k \in 1..Len(s) : s[k] = r
<1>1. /\ n \in Nat /\ ToSet(s) = {s[i] : i \in 1..n} /\ ToSet(s) \subseteq Requests
      /\ Len(free) \in Nat /\ ToSet(free) = {free[i] : i \in 1..Len(free)}
      /\ ToSet(free) \subseteq Blocks
  BY ToSetDef
<1> HIDE DEF n, p, free2
<1>2. /\ p \in Seq(Blocks) /\ free2 \in Seq(Blocks) /\ Len(p) = n
      /\ ToSet(free) = ToSet(p) \cup ToSet(free2)
      /\ Distinct(p) /\ Distinct(free2) /\ ToSet(p) \cap ToSet(free2) = {}
  <2>1. n <= Len(free) /\ Distinct(free)
    BY DEF Conserved, n
  <2> QED
    BY <1>1, <2>1, SplitQueue DEF p, free2
<1>3. \A k \in 1..n : p[k] = free[k]
  <2>1. n <= Len(free)
    BY DEF n
  <2> QED
    BY <1>1, <2>1, SubSeqProperties DEF p
<1>4. ToSet(p) = {free[k] : k \in 1..n}
  <2>1. ToSet(p) = {p[k] : k \in 1..n}
    BY <1>2, ToSetDef
  <2> QED
    BY <1>3, <2>1
<1>5. \A r \in ToSet(s) : at(r) \in 1..n /\ s[at(r)] = r
  BY <1>1 DEF n
<1>6. \A k \in 1..n : k \in 1..Len(free)
  BY <1>1 DEF n
<1>7. \A i, j \in 1..Len(free) : free[i] = free[j] => i = j
  BY DEF Conserved, Distinct
<1>8. \A r \in Requests : table2[r] = IF r \in ToSet(s) THEN Append(table[r], free[at(r)]) ELSE table[r]
  BY DEF Grown
<1>9. DOMAIN table2 = Requests /\ table2 = [r \in Requests |-> table2[r]]
  BY DEF Grown
<1> HIDE DEF table2, at
<1>10. ASSUME NEW r \in ToSet(s)
       PROVE  /\ free[at(r)] \in ToSet(p) /\ free[at(r)] \in Blocks
              /\ \A q \in ToSet(s) : free[at(q)] = free[at(r)] => q = r
  BY <1>1, <1>4, <1>5, <1>6, <1>7
<1>11. \A r \in Requests : table[r] \in Seq(Blocks) /\ ToSet(table[r]) \cap ToSet(free) = {}
                           /\ Distinct(table[r])
  BY DEF Conserved
<1>12. ASSUME NEW r \in Requests
       PROVE  /\ table2[r] \in Seq(Blocks) /\ Distinct(table2[r])
              /\ ToSet(table2[r]) = IF r \in ToSet(s) THEN ToSet(table[r]) \cup {free[at(r)]}
                                    ELSE ToSet(table[r])
  <2>1. CASE r \in ToSet(s)
    <3>1. free[at(r)] \in Blocks /\ free[at(r)] \notin ToSet(table[r])
      BY <1>2, <1>10, <1>11, <2>1
    <3>2. table2[r] = Append(table[r], free[at(r)])
      BY <1>8, <2>1
    <3> QED
      BY <1>11, <2>1, <3>1, <3>2, AppendQueue
  <2>2. CASE r \notin ToSet(s)
    BY <1>8, <1>11, <2>2
  <2> QED
    BY <2>1, <2>2
<1>13. ASSUME NEW r \in Requests PROVE ToSet(table2[r]) \cap ToSet(free2) = {}
  <2>1. ToSet(table[r]) \cap ToSet(free2) = {}
    BY <1>2, <1>11
  <2>2. r \in ToSet(s) => free[at(r)] \notin ToSet(free2)
    BY <1>2, <1>10
  <2> QED
    BY <1>12, <2>1, <2>2
<1>14. ASSUME NEW r \in Requests, NEW q \in Requests \ {r}
       PROVE  ToSet(table2[r]) \cap ToSet(table2[q]) = {}
  <2>1. ToSet(table[r]) \cap ToSet(table[q]) = {}
    BY DEF Conserved
  <2>2. r \in ToSet(s) => free[at(r)] \in ToSet(free)
    BY <1>2, <1>10
  <2>3. q \in ToSet(s) => free[at(q)] \in ToSet(free)
    BY <1>2, <1>10
  <2>4. r \in ToSet(s) /\ q \in ToSet(s) => free[at(r)] # free[at(q)]
    BY <1>10
  <2> QED
    BY <1>11, <1>12, <2>1, <2>2, <2>3, <2>4
<1>15. Blocks = ToSet(free2) \cup UNION {ToSet(table2[r]) : r \in Requests}
  <2>1. ASSUME NEW x \in ToSet(p) PROVE \E r \in Requests : x \in ToSet(table2[r])
    <3>1. PICK k \in 1..n : x = free[k]
      BY <1>4
    <3>2. s[k] \in ToSet(s) /\ s[k] \in Requests
      BY <1>1
    <3>3. at(s[k]) = k
      BY <1>5, <3>2 DEF Distinct, n
    <3> QED
      BY <1>12, <3>1, <3>2, <3>3
  <2>2. Blocks = ToSet(free) \cup UNION {ToSet(table[r]) : r \in Requests}
    BY DEF Conserved
  <2>3. ASSUME NEW r \in Requests PROVE ToSet(table[r]) \subseteq ToSet(table2[r])
    BY <1>12
  <2>4. ASSUME NEW x \in Blocks PROVE x \in ToSet(free2) \/ \E r \in Requests : x \in ToSet(table2[r])
    BY <1>2, <2>1, <2>2, <2>3
  <2>5. ToSet(free2) \subseteq Blocks /\ \A r \in Requests : ToSet(table2[r]) \subseteq Blocks
    BY <1>2, <1>12, ToSetDef
  <2> QED
    BY <2>4, <2>5
<1>16. table2 \in [Requests -> Seq(Blocks)]
  BY <1>9, <1>12
<1>17. Conserved(free2, table2)
  BY <1>2, <1>12, <1>13, <1>14, <1>15 DEF Conserved
<1>18. ASSUME NEW r \in Requests
       PROVE  IF r \in ToSet(s) THEN \E e \in Blocks : table2[r] = Append(table[r], e)
              ELSE table2[r] = table[r]
  BY <1>8, <1>10
<1> QED
  BY <1>2, <1>16, <1>17, <1>18 DEF free2, table2, n

-----------------------------------------------------------------------------
(* schedule(): the batch                                                   *)

LEMMA BatchOf ==
  ASSUME NEW s \in Seq(Requests), Distinct(s), NEW f \in [Requests -> ViewType],
         \A r \in Requests : f[r].seq = r
  PROVE  LET b == [k \in 1..Len(s) |-> f[s[k]]]
         IN  /\ b \in Views /\ Len(b) = Len(s) /\ OneEach(b)
             /\ s # <<>> => b # <<>>
             /\ \A r \in Requests : RowsOf(r, b) = IF r \in ToSet(s) THEN {f[r]} ELSE {}
<1> DEFINE n == Len(s)
           b == [k \in 1..n |-> f[s[k]]]
<1>1. /\ n \in Nat /\ \A k \in 1..n : s[k] \in Requests
      /\ ToSet(s) = {s[k] : k \in 1..n} /\ (s # <<>> => n # 0)
  BY ToSetDef, ElementOfSeq
<1>2. b \in [1..n -> ViewType] /\ \A k \in 1..n : b[k] = f[s[k]] /\ b[k].seq = s[k]
  BY <1>1
<1> HIDE DEF n, b
<1>3. b \in Seq(ViewType) /\ Len(b) = n
  BY <1>1, <1>2, FunctionIsQueue
<1>4. OneEach(b)
  BY <1>2, <1>3 DEF OneEach, Distinct, n
<1>5. ASSUME NEW r \in Requests
      PROVE  RowsOf(r, b) = IF r \in ToSet(s) THEN {f[r]} ELSE {}
  <2>1. RowsOf(r, b) = {b[k] : k \in {i \in 1..n : s[i] = r}}
    BY <1>2, <1>3 DEF RowsOf
  <2>2. CASE r \in ToSet(s)
    <3>1. PICK k \in 1..n : s[k] = r
      BY <1>1, <2>2
    <3>2. \A i \in 1..n : s[i] = r => b[i] = f[r]
      BY <1>2
    <3> QED
      BY <2>1, <2>2, <3>1, <3>2
  <2>3. CASE r \notin ToSet(s)
    BY <1>1, <2>1, <2>3
  <2> QED
    BY <2>2, <2>3
<1>6. s # <<>> => b # <<>>
  BY <1>1, <1>3, EmptySeq
<1> QED
  BY <1>3, <1>4, <1>5, <1>6 DEF n, b, Views, ViewType

LEMMA ReadyOnes ==
  ASSUME CohortInv
  PROVE  /\ Ready \in Seq(Requests) /\ Distinct(Ready)
         /\ ToSet(Ready) = {r \in ToSet(live) : HasMore(r)} /\ ToSet(Ready) \subseteq Requests
         /\ Growing \in Seq(Requests) /\ Distinct(Growing) /\ Len(Growing) \in Nat
         /\ ToSet(Growing) = {r \in ToSet(Ready) : Len(block_table[r]) < view_blocks(r)}
<1>1. live \in Seq(Requests) /\ Distinct(live) /\ ToSet(live) \subseteq Requests
  BY ToSetDef DEF CohortInv, CohortTypes, Owners
<1>2. /\ Ready \in Seq(Requests) /\ Distinct(Ready)
      /\ ToSet(Ready) = ToSet(live) \cap {r \in Requests : HasMore(r)}
  BY <1>1, OnlyQueue DEF Ready
<1>3. /\ Growing \in Seq(Requests) /\ Distinct(Growing)
      /\ ToSet(Growing)
           = ToSet(Ready) \cap {r \in Requests : Len(block_table[r]) < view_blocks(r)}
  BY <1>2, OnlyQueue DEF Growing
<1>4. Len(Growing) \in Nat
  BY <1>3, LenProperties
<1> QED
  BY <1>1, <1>2, <1>3, <1>4

(* When schedule() may dispatch, at most one batch is on its way, and it   *)
(* has a view of every request that is about to have another.              *)
LEMMA RoomForABatch ==
  ASSUME CohortInv, InSchedulableCohort, Ready # <<>>
  PROVE  /\ Len(dispatched) \in {0, 1} /\ (dispatched = <<>> <=> Len(dispatched) = 0)
         /\ Older = (IF Len(dispatched) = 0 THEN <<>> ELSE dispatched[1]) /\ Newer = <<>>
         /\ \A r \in ToSet(Ready) : pending[r] < 2
<1>1. /\ phase = "idle" /\ \A r \in ToSet(Ready) : pending[r] < 2
  BY DEF InSchedulableCohort
<1>2. /\ Len(dispatched) \in Nat /\ Len(dispatched) <= 2
      /\ (dispatched = <<>> <=> Len(dispatched) = 0)
  BY <1>1, LenProperties, EmptySeq DEF CohortInv, CohortTypes, Shape
<1>3. PICK r \in ToSet(Ready) : r \in Requests
  BY ReadyOnes, ToSetDef
<1>4. r \in ToSet(live) /\ HasMore(r) /\ pending[r] < 2
  BY <1>1, <1>3, ReadyOnes
<1>5. Len(dispatched) # 2
  <2>1. SUFFICES ASSUME Len(dispatched) = 2 PROVE FALSE
    OBVIOUS
  <2>2. Older = dispatched[1] /\ Newer = dispatched[2]
    BY <1>1, <1>2, <2>1 DEF Older, Newer
  <2>3. RowsOf(r, Older) # {} /\ RowsOf(r, Newer) # {}
    <3>1. InEveryBatch(r) /\ 1 \in 1..2 /\ 2 \in 1..2
      BY <1>3 DEF CohortInv
    <3> QED
      BY <1>4, <2>1, <2>2, <3>1 DEF InEveryBatch
  <2>4. pending[r] = 2
    BY <1>3, <2>3 DEF CohortInv, OnItsWay, Flight, Count
  <2> QED
    BY <1>4, <2>4
<1>6. Len(dispatched) \in {0, 1}
  BY <1>2, <1>5
<1>7. /\ Older = (IF Len(dispatched) = 0 THEN <<>> ELSE dispatched[1])
      /\ Newer = <<>>
  BY <1>1, <1>2, <1>6 DEF Older, Newer
<1> QED
  BY <1>1, <1>2, <1>6, <1>7

(* Every view finds a block for its last position.                         *)
LEMMA ViewFits ==
  ASSUME CohortInv, NEW r \in Requests, r \in ToSet(live), HasMore(r), NEW t \in Seq(Blocks),
         IF Len(block_table[r]) < view_blocks(r) THEN \E e \in Blocks : t = Append(block_table[r], e)
         ELSE t = block_table[r]
  PROVE  /\ view_tokens(r) \in Nat /\ view_tokens(r) <= Len(t) * BlockSize
         /\ view_tokens(r) < Limit(r) /\ ViewOK(View(r, t), t, Limit(r))
         /\ View(r, t) \in ViewType
<1>1. /\ num_tokens[r] \in Nat /\ pending[r] \in 0..2 /\ block_table[r] \in Seq(Blocks)
      /\ status[r] # "FINISHED" /\ Account(r)
  BY DEF CohortInv, CohortTypes, HasMore
<1>2. num_tokens[r] + pending[r] <= cap(r) + 1
  BY <1>1 DEF Account
<1>3. /\ BlockSize \in Nat /\ BlockSize > 1 /\ PromptLen[r] \in Nat /\ MaxTokens[r] \in Nat
  BY ConfigAssumption
<1>4. view_tokens(r) \in Nat /\ Len(block_table[r]) \in Nat /\ Len(t) \in Nat
  BY <1>1, LenProperties DEF view_tokens
<1>5. view_tokens(r) <= view_blocks(r) * BlockSize /\ view_blocks(r) \in Nat
  <2>1. view_tokens(r) <= ((view_tokens(r) + BlockSize - 1) \div BlockSize) * BlockSize
    BY <1>3, <1>4, EnoughBlocks
  <2>2. (view_tokens(r) + BlockSize - 1) \div BlockSize \in Nat
    <3>1. \A n \in Nat, k \in Nat : k > 1 => n \div k \in Nat
      OBVIOUS
    <3>2. view_tokens(r) + BlockSize - 1 \in Nat
      BY <1>3, <1>4
    <3> QED
      BY <1>3, <3>1, <3>2
  <2> QED
    BY <2>1, <2>2 DEF view_blocks
<1> HIDE DEF view_blocks
<1>6. view_tokens(r) <= Len(t) * BlockSize
  <2>1. CASE Len(block_table[r]) < view_blocks(r)
    <3>1. PICK e \in Blocks : t = Append(block_table[r], e)
      BY <2>1
    <3>2. Len(t) = Len(block_table[r]) + 1
      BY <1>1, <3>1, AppendProperties
    <3>3. Len(t) * BlockSize = Len(block_table[r]) * BlockSize + BlockSize
      BY <1>3, <1>4, <3>2
    <3>4. view_tokens(r) <= Len(block_table[r]) * BlockSize + 1
      BY <1>2 DEF view_tokens, cap
    <3>5. Len(block_table[r]) * BlockSize \in Nat
      BY <1>3, <1>4
    <3> QED
      BY <1>3, <1>4, <3>3, <3>4, <3>5
  <2>2. CASE ~(Len(block_table[r]) < view_blocks(r))
    <3>1. t = block_table[r] /\ view_blocks(r) <= Len(t)
      BY <1>4, <1>5, <2>2
    <3>2. view_blocks(r) * BlockSize <= Len(t) * BlockSize
      BY <1>3, <1>4, <1>5, <3>1
    <3>3. view_blocks(r) * BlockSize \in Nat /\ Len(t) * BlockSize \in Nat
      BY <1>3, <1>4, <1>5
    <3> QED
      BY <1>4, <1>5, <3>2, <3>3
  <2> QED
    BY <2>1, <2>2
<1>7. view_tokens(r) < Limit(r)
  <2>1. num_tokens[r] - PromptLen[r] + pending[r] < MaxTokens[r]
    BY DEF HasMore, num_completion_tokens
  <2> QED
    BY <1>1, <1>3, <2>1 DEF view_tokens, Limit
<1>8. View(r, t) \in ViewType
  BY <1>4 DEF View, ViewType
<1>9. IsPrefix(t, t)
  BY PrefixIs, LenProperties
<1>10. View(r, t).num_tokens = view_tokens(r) /\ View(r, t).block_table = t
  BY DEF View
<1> HIDE DEF view_tokens, Limit
<1> QED
  BY <1>4, <1>6, <1>7, <1>8, <1>9, <1>10 DEF ViewOK

LEMMA ScheduleCohort ==
  ASSUME CohortInv, async_schedule
  PROVE  CohortInv'
<1> DEFINE N == ToSet(Ready)
           b == [k \in 1..Len(Ready) |-> View(Ready[k], block_table'[Ready[k]])]
<1>1. /\ InSchedulableCohort /\ Ready # <<>> /\ Len(Growing) <= Len(free_block_ids)
      /\ block_table' = Grown(free_block_ids, block_table, Growing)
      /\ free_block_ids' = SubSeq(free_block_ids, Len(Growing) + 1, Len(free_block_ids))
      /\ pending' = [r \in Requests |-> IF r \in N THEN pending[r] + 1 ELSE pending[r]]
      /\ dispatched' = Append(dispatched, b)
      /\ phase = "idle" /\ phase' = "idle"
      /\ UNCHANGED <<waiting, running, in_flight, status, num_tokens, num_cached_tokens,
                     num_scheduled_tokens, is_prefill, scheduled_seqs, num_batched_tokens,
                     active_ids, batch_queue, batch, live, draining, views>>
  BY DEF async_schedule, CohortFits, InSchedulableCohort, queueVars, seqVars, callVars,
         driverVars, Grown
<1>2. /\ CohortTypes /\ Still /\ Shape /\ AsyncBlocksConserved /\ Owners /\ views = <<>>
      /\ \A r \in Requests : Account(r) /\ InEveryBatch(r) /\ OnItsWay(r)
  BY <1>1 DEF CohortInv, Shape
<1>3. /\ N \subseteq Requests /\ \A r \in Requests : r \in N <=> r \in ToSet(live) /\ HasMore(r)
      /\ \A r \in Requests : r \in ToSet(Growing) <=> r \in N /\ Len(block_table[r]) < view_blocks(r)
      /\ Ready \in Seq(Requests) /\ Distinct(Ready)
      /\ Growing \in Seq(Requests) /\ Distinct(Growing)
  BY ReadyOnes
<1>4. /\ Len(dispatched) \in {0, 1} /\ (dispatched = <<>> <=> Len(dispatched) = 0)
      /\ Older = (IF Len(dispatched) = 0 THEN <<>> ELSE dispatched[1]) /\ Newer = <<>>
      /\ \A r \in N : pending[r] < 2
  BY <1>1, RoomForABatch
<1> HIDE DEF N
<1>5. /\ free_block_ids' \in Seq(Blocks) /\ block_table' \in [Requests -> Seq(Blocks)]
      /\ Conserved(free_block_ids', block_table')
      /\ \A r \in Requests : IF r \in ToSet(Growing)
                             THEN \E e \in Blocks : block_table'[r] = Append(block_table[r], e)
                             ELSE block_table'[r] = block_table[r]
  <2>1. /\ free_block_ids \in Seq(Blocks) /\ block_table \in [Requests -> Seq(Blocks)]
        /\ Conserved(free_block_ids, block_table)
    BY <1>2 DEF CohortTypes, AsyncBlocksConserved, Conserved
  <2>2. Len(Growing) <= Len(free_block_ids) /\ Growing \in Seq(Requests) /\ Distinct(Growing)
    BY <1>1, <1>3
  <2> DEFINE F == SubSeq(free_block_ids, Len(Growing) + 1, Len(free_block_ids))
             T == Grown(free_block_ids, block_table, Growing)
  <2>3. /\ F \in Seq(Blocks) /\ T \in [Requests -> Seq(Blocks)] /\ Conserved(F, T)
        /\ \A r \in Requests : IF r \in ToSet(Growing)
                               THEN \E e \in Blocks : T[r] = Append(block_table[r], e)
                               ELSE T[r] = block_table[r]
    BY <2>1, <2>2, GrowTables
  <2>4. free_block_ids' = F /\ block_table' = T
    BY <1>1
  <2> HIDE DEF F, T
  <2> QED
    BY <2>3, <2>4
<1>6. /\ pending' \in [Requests -> 0..2]
      /\ \A r \in Requests : pending'[r] = IF r \in N THEN pending[r] + 1 ELSE pending[r]
  <2>1. \A r \in Requests : pending[r] \in 0..2 /\ (r \in N => pending[r] + 1 \in 0..2)
    BY <1>2, <1>4 DEF CohortTypes
  <2> QED
    BY <1>1, <2>1
<1>7. AsyncBlocksConserved'
  <2>1. ASSUME NEW r \in Requests, status[r] \in {"NEW", "FINISHED"}, pending'[r] = 0
        PROVE  block_table'[r] = <<>>
    <3>1. r \notin N
      BY <1>2, <1>3, <2>1 DEF HasMore, Account
    <3>2. pending[r] = 0 /\ block_table'[r] = block_table[r]
      BY <1>3, <1>5, <1>6, <2>1, <3>1
    <3> QED
      BY <1>2, <2>1, <3>2 DEF AsyncBlocksConserved
  <2> QED
    BY <1>1, <1>5, <2>1 DEF AsyncBlocksConserved, Conserved
(* The views of the batch.                                                 *)
<1>8. ASSUME NEW r \in N
      PROVE  /\ view_tokens(r) \in Nat /\ view_tokens(r) <= Len(block_table'[r]) * BlockSize
             /\ ViewOK(View(r, block_table'[r]), block_table'[r], Limit(r))
             /\ View(r, block_table'[r]) \in ViewType
  <2>1. r \in Requests /\ r \in ToSet(live) /\ HasMore(r) /\ block_table'[r] \in Seq(Blocks)
    BY <1>3, <1>5
  <2>2. IF Len(block_table[r]) < view_blocks(r)
        THEN \E e \in Blocks : block_table'[r] = Append(block_table[r], e)
        ELSE block_table'[r] = block_table[r]
    BY <1>3, <1>5, <2>1
  <2> QED
    BY <2>1, <2>2, ViewFits
<1>9. /\ b \in Views /\ OneEach(b) /\ b # <<>>
      /\ \A r \in Requests : RowsOf(r, b) = IF r \in N THEN {View(r, block_table'[r])} ELSE {}
  <2> DEFINE f == [r \in Requests |-> IF r \in N THEN View(r, block_table'[r])
                                      ELSE [seq |-> r, num_tokens |-> 0, block_table |-> <<>>]]
             g == [k \in 1..Len(Ready) |-> f[Ready[k]]]
  <2>1. f \in [Requests -> ViewType] /\ \A r \in Requests : f[r].seq = r
    <3>1. \A r \in Requests : [seq |-> r, num_tokens |-> 0, block_table |-> <<>>] \in ViewType
      BY DEF ViewType
    <3> QED
      BY <1>8, <3>1 DEF View
  <2>2. \A k \in 1..Len(Ready) : Ready[k] \in N
    BY <1>3, ToSetDef DEF N
  <2>3. g = b
    BY <1>3, <2>2
  <2>4. \A r \in N : f[r] = View(r, block_table'[r])
    BY <1>3
  <2> HIDE DEF f, b
  <2>5. /\ g \in Views /\ OneEach(g) /\ g # <<>>
        /\ \A r \in Requests : RowsOf(r, g) = IF r \in N THEN {f[r]} ELSE {}
    BY <1>1, <1>3, <2>1, BatchOf DEF N
  <2> QED
    BY <2>3, <2>4, <2>5
<1> HIDE DEF b
<1>10. /\ dispatched' \in Seq(Views) /\ Len(dispatched') = Len(dispatched) + 1
       /\ dispatched'[Len(dispatched) + 1] = b
       /\ \A i \in 1..Len(dispatched) : dispatched'[i] = dispatched[i]
  BY <1>1, <1>2, <1>9, AppendProperties DEF CohortTypes
<1>11. /\ Older' = (IF Len(dispatched) = 0 THEN b ELSE Older)
       /\ Newer' = (IF Len(dispatched) = 0 THEN <<>> ELSE b)
  <2>1. dispatched' # <<>>
    BY <1>1, <1>2, <1>9, AppendQueue DEF CohortTypes
  <2>2. CASE Len(dispatched) = 0
    BY <1>1, <1>10, <2>1, <2>2 DEF Older, Newer
  <2>3. CASE Len(dispatched) = 1
    BY <1>1, <1>4, <1>10, <2>1, <2>3 DEF Older, Newer
  <2> QED
    BY <1>4, <2>2, <2>3
<1>12. Shape'
  <2>1. OneEach(Older) /\ OneEach(<<>>) /\ \A i \in 1..Len(dispatched) : dispatched[i] # <<>>
    BY <1>2, NoRows DEF Shape
  <2>2. OneEach(Older') /\ OneEach(Newer')
    BY <1>4, <1>9, <1>11, <2>1
  <2>3. Len(dispatched') <= 2 /\ \A i \in 1..Len(dispatched') : dispatched'[i] # <<>>
    BY <1>4, <1>9, <1>10, <2>1
  <2> QED
    BY <1>1, <1>2, <2>2, <2>3 DEF Shape
<1>13. CohortTypes' /\ Still' /\ Owners'
  <2>1. CohortTypes'
    BY <1>1, <1>2, <1>5, <1>6, <1>10 DEF CohortTypes
  <2>2. Still' /\ Owners'
    BY <1>1, <1>2 DEF Still, Owners
  <2> QED
    BY <2>1, <2>2
<1>14. ASSUME NEW r \in Requests PROVE Account(r)' /\ InEveryBatch(r)' /\ OnItsWay(r)'
  <2>1. /\ Account(r) /\ InEveryBatch(r) /\ OnItsWay(r) /\ num_tokens[r] \in Nat
        /\ pending[r] \in 0..2 /\ block_table[r] \in Seq(Blocks)
        /\ PromptLen[r] \in Nat /\ MaxTokens[r] \in Nat /\ Limit(r)' = Limit(r)
    BY <1>2, ConfigAssumption DEF CohortTypes, Limit
  <2>2. HasMore(r)' => HasMore(r)
    BY <1>1, <1>6, <2>1 DEF HasMore, num_completion_tokens
  <2>3. InEveryBatch(r)'
    <3>1. SUFFICES ASSUME r \in ToSet(live), HasMore(r)', NEW i \in 1..Len(dispatched')
                   PROVE  RowsOf(r, dispatched'[i]) # {}
      BY <1>1 DEF InEveryBatch
    <3>2. r \in N
      BY <1>3, <2>2, <3>1
    <3>3. CASE i \in 1..Len(dispatched)
      BY <1>10, <2>1, <2>2, <3>1, <3>3 DEF InEveryBatch
    <3>4. CASE i = Len(dispatched) + 1
      BY <1>9, <1>10, <3>2, <3>4
    <3> QED
      BY <1>4, <1>10, <3>1, <3>3, <3>4
  <2>4. CASE r \notin N
    <3>1. block_table'[r] = block_table[r] /\ pending'[r] = pending[r] /\ RowsOf(r, b) = {}
      BY <1>3, <1>5, <1>6, <1>9, <2>4
    <3>2. Account(r)'
      BY <1>1, <2>1, <3>1 DEF Account, cap
    <3>3. RowsOf(r, Older') = RowsOf(r, Older) /\ RowsOf(r, Newer') = RowsOf(r, Newer)
      BY <1>4, <1>11, <3>1, NoRows
    <3>4. OnItsWay(r)'
      BY <1>1, <2>1, <3>1, <3>3 DEF OnItsWay
    <3> QED
      BY <2>3, <3>2, <3>4
  <2>5. CASE r \in N
    <3> DEFINE v == View(r, block_table'[r])
    <3>1. /\ view_tokens(r) <= Len(block_table'[r]) * BlockSize /\ ViewOK(v, block_table'[r], Limit(r))
          /\ v.num_tokens = num_tokens[r] + pending[r] /\ RowsOf(r, b) = {v}
          /\ pending'[r] = pending[r] + 1 /\ r \in ToSet(live) /\ status[r] # "FINISHED"
      BY <1>3, <1>6, <1>8, <1>9, <2>5 DEF View, HasMore, view_tokens
    <3> HIDE DEF v
    <3>2. Account(r)'
      <4>1. num_tokens[r] + pending'[r] <= cap(r)' + 1
        <5>1. cap(r)' = Len(block_table'[r]) * BlockSize
          BY DEF cap
        <5>2. num_tokens[r] + pending[r] <= cap(r)'
          BY <3>1, <5>1 DEF view_tokens
        <5>3. cap(r)' \in Nat
          BY <1>5, <5>1, LenProperties, ConfigAssumption
        <5> HIDE DEF cap
        <5> QED
          BY <2>1, <3>1, <5>2, <5>3
      <4>2. r \notin ToSet(waiting) /\ r \in in_flight
        BY <2>1, <3>1 DEF Account
      <4> QED
        BY <1>1, <2>1, <3>1, <4>1, <4>2 DEF Account
    <3>3. Flight(pending[r], status[r], num_tokens[r], block_table'[r], Limit(r),
                 RowsOf(r, Older), RowsOf(r, Newer))
      <4>1. Flight(pending[r], status[r], num_tokens[r], block_table[r], Limit(r),
                   RowsOf(r, Older), RowsOf(r, Newer))
        BY <2>1 DEF OnItsWay
      <4>2. CASE r \in ToSet(Growing)
        <5>1. PICK e \in Blocks : block_table'[r] = Append(block_table[r], e)
          BY <1>5, <4>2
        <5> QED
          BY <2>1, <4>1, <5>1, FlightGrows
      <4>3. CASE r \notin ToSet(Growing)
        BY <1>5, <4>1, <4>3
      <4> QED
        BY <4>2, <4>3
    <3>4. RowsOf(r, Newer) = {} /\ RowsOf(r, <<>>) = {}
      BY <1>4, NoRows
    <3>5. Flight(pending'[r], status[r], num_tokens[r], block_table'[r], Limit(r),
                 RowsOf(r, Older'), RowsOf(r, Newer'))
      <4>1. CASE Len(dispatched) = 0
        <5>1. RowsOf(r, Older) = {} /\ RowsOf(r, Older') = {v} /\ RowsOf(r, Newer') = {}
          BY <1>4, <1>11, <3>1, <3>4, <4>1
        <5> QED
          BY <2>1, <3>1, <3>3, <3>4, <5>1, FlightFirst
      <4>2. CASE Len(dispatched) = 1
        <5>1. RowsOf(r, Older') = RowsOf(r, Older) /\ RowsOf(r, Newer') = {v}
          BY <1>4, <1>11, <3>1, <4>2
        <5> QED
          BY <2>1, <3>1, <3>3, <3>4, <5>1, FlightSecond
      <4> QED
        BY <1>4, <4>1, <4>2
    <3>6. OnItsWay(r)'
      BY <1>1, <2>1, <3>5 DEF OnItsWay
    <3> QED
      BY <2>3, <3>2, <3>6
  <2> QED
    BY <2>4, <2>5
<1> QED
  BY <1>7, <1>12, <1>13, <1>14 DEF CohortInv

-----------------------------------------------------------------------------
(* end_async_decode()                                                      *)

LEMMA EndCohort ==
  ASSUME CohortInv, end_async_decode
  PROVE  NoCohort' /\ live' = <<>>
<1> DEFINE left == Only(live, {r \in Requests : status[r] # "FINISHED"})
<1>1. /\ phase = "idle" /\ dispatched = <<>> /\ live' = <<>>
      /\ \A r \in ToSet(live) : pending[r] = 0
      /\ in_flight' = in_flight \ ToSet(live) /\ running' = running \o left
      /\ status' = [r \in Requests |-> IF r \in ToSet(left) THEN "RUNNING" ELSE status[r]]
      /\ is_prefill' = [r \in Requests |-> is_prefill[r] /\ r \notin ToSet(left)]
      /\ num_scheduled_tokens' = [r \in Requests |->
                                    IF r \in ToSet(left) THEN 0 ELSE num_scheduled_tokens[r]]
      /\ UNCHANGED <<waiting, num_tokens, num_cached_tokens, block_table, free_block_ids, phase,
                     scheduled_seqs, num_batched_tokens, active_ids, batch_queue, batch,
                     pending, dispatched, draining, views>>
  BY DEF end_async_decode, blockVars, callVars, driverVars
<1>2. /\ CohortTypes /\ Still /\ Shape /\ AsyncBlocksConserved /\ Owners
      /\ \A r \in Requests : Account(r)
  BY DEF CohortInv
<1>3. /\ left \in Seq(Requests) /\ Distinct(left) /\ Len(left) <= Len(live)
      /\ ToSet(left) = ToSet(live) \cap {r \in Requests : status[r] # "FINISHED"}
      /\ ToSet(live) \subseteq Requests
  BY <1>2, OnlyQueue, ToSetDef DEF CohortTypes, Owners
<1> HIDE DEF left
<1>4. running' = left
  <2>1. <<>> \o left = left
    BY <1>3
  <2> QED
    BY <1>1, <1>2, <2>1 DEF Still
<1>5. \A r \in Requests : pending[r] = 0
  BY <1>1, <1>2 DEF Account
<1>6. in_flight' = {}
  BY <1>1, <1>2 DEF CohortTypes, Account
<1>7. ASSUME NEW r \in Requests
      PROVE  /\ r \in ToSet(left) => r \in ToSet(live) /\ status[r] # "FINISHED" /\ status'[r] = "RUNNING"
             /\ r \in ToSet(left) => num_scheduled_tokens'[r] = 0
             /\ r \notin ToSet(left) => /\ status'[r] = status[r]
                                        /\ num_scheduled_tokens'[r] = num_scheduled_tokens[r]
             /\ r \in ToSet(live) /\ r \notin ToSet(left) => status[r] = "FINISHED"
             /\ Account(r) /\ num_tokens[r] \in Nat /\ num_cached_tokens[r] \in Nat
             /\ num_scheduled_tokens[r] \in Nat
             /\ status[r] \in {"NEW", "WAITING", "RUNNING", "FINISHED"}
  BY <1>1, <1>2, <1>3 DEF CohortTypes
<1>8. TypeOK'
  <2>1. /\ status' \in [Requests -> {"NEW", "WAITING", "RUNNING", "FINISHED"}]
        /\ num_scheduled_tokens' \in [Requests -> Nat] /\ is_prefill' \in [Requests -> BOOLEAN]
    <3>1. /\ status \in [Requests -> {"NEW", "WAITING", "RUNNING", "FINISHED"}]
          /\ num_scheduled_tokens \in [Requests -> Nat] /\ is_prefill \in [Requests -> BOOLEAN]
      BY <1>2 DEF CohortTypes
    <3>2. status' \in [Requests -> {"NEW", "WAITING", "RUNNING", "FINISHED"}]
      BY <1>1, <3>1
    <3>3. num_scheduled_tokens' \in [Requests -> Nat]
      BY <1>1, <3>1
    <3>4. is_prefill' \in [Requests -> BOOLEAN]
      BY <1>1, <3>1
    <3> QED
      BY <3>2, <3>3, <3>4
  <2>2. /\ waiting' \in Seq(Requests) /\ running' \in Seq(Requests) /\ in_flight' \in SUBSET Requests
        /\ num_tokens' \in [Requests -> Nat] /\ num_cached_tokens' \in [Requests -> Nat]
        /\ block_table' \in [Requests -> Seq(Blocks)] /\ free_block_ids' \in Seq(Blocks)
    BY <1>1, <1>2, <1>3, <1>4, <1>6 DEF CohortTypes
  <2>3. /\ phase' \in {"idle", "decode", "prefill", "post"} /\ scheduled_seqs' \in Seq(Requests)
        /\ num_batched_tokens' \in 0..MaxNumBatchedTokens /\ active_ids' \in SUBSET Requests
        /\ batch_queue' \in Seq(Batch) /\ batch' \in Batch
    BY <1>1, <1>2, ConfigAssumption DEF Still, NoBatch, Batch
  <2> QED
    BY <2>1, <2>2, <2>3 DEF TypeOK
<1>9. PhaseOK'
  BY <1>1, <1>2 DEF Still, PhaseOK, NoBatch
<1>10. Progress'
  BY <1>1, <1>7 DEF Progress, Account
<1>11. OneOwner'
  <2>1. Distinct(waiting') /\ Distinct(running') /\ in_flight' = {}
    BY <1>1, <1>2, <1>3, <1>4, <1>6 DEF Owners
  <2>2. ASSUME NEW r \in Requests
        PROVE  /\ ~(r \in ToSet(waiting) /\ r \in ToSet(left))
               /\ status'[r] \in {"WAITING", "RUNNING"} <=> r \in ToSet(waiting) \/ r \in ToSet(left)
    BY <1>7 DEF Account
  <2>3. ToSet(waiting) \subseteq Requests
    BY <1>2, ToSetDef DEF CohortTypes
  <2> QED
    BY <1>1, <1>4, <2>1, <2>2, <2>3 DEF OneOwner
<1>12. OneRowPerFlight'
  <2>1. Distinct(<<>>) /\ ToSet(<<>>) = {} /\ 1..0 = {} /\ Len(<<>>) = 0
    BY EmptyQueue
  <2>2. scheduled_seqs' = <<>> /\ batch_queue' = <<>> /\ batch'.seqs = <<>>
    BY <1>1, <1>2 DEF Still, NoBatch
  <2> QED
    BY <1>6, <2>1, <2>2 DEF OneRowPerFlight
<1>13. BlocksConserved'
  <2>1. \A r \in Requests : status'[r] \in {"NEW", "FINISHED"} => status[r] \in {"NEW", "FINISHED"}
    BY <1>7
  <2> QED
    BY <1>1, <1>2, <1>5, <2>1 DEF BlocksConserved, AsyncBlocksConserved
<1>14. Untouched'
  BY <1>1, <1>7 DEF Untouched, Account
<1>15. SlotsBounded'
  <2>1. \A r \in ToSet(waiting) : /\ r \in Requests /\ num_cached_tokens[r] = 0
                                  /\ num_tokens[r] - PromptLen[r] = 0
    <3>1. ToSet(waiting) \subseteq Requests
      BY <1>2, ToSetDef DEF CohortTypes
    <3> QED
      BY <1>7, <3>1, ConfigAssumption DEF Account
  <2>2. SlotOwners' = ToSet(left)
    BY <1>1, <1>4, <1>6, <2>1 DEF SlotOwners, num_completion_tokens
  <2>3. Cardinality(ToSet(left)) = Len(left)
    BY <1>3, DistinctCardinality
  <2>4. Len(left) \in Nat /\ Len(live) \in Nat /\ Len(live) <= MaxNumSeqs /\ MaxNumSeqs \in Nat
    BY <1>2, <1>3, LenProperties, ConfigAssumption DEF CohortTypes, Owners
  <2> QED
    BY <1>3, <2>2, <2>3, <2>4 DEF SlotsBounded
<1>16. ActiveOK' /\ DecodeLoopLeft'
  BY <1>1 DEF ActiveOK, Scheduling, DecodeLoopLeft
<1>17. Inv'
  BY <1>8, <1>9, <1>10, <1>11, <1>12, <1>13, <1>14, <1>15, <1>16
     DEF Inv, TypeInv, Ownership, PolicyInv
<1>18. Coverage'
  <2>1. ASSUME NEW r \in Requests PROVE Covered(r)'
    <3>1. cap(r)' = cap(r) /\ pending[r] = 0
      BY <1>1, <1>5 DEF cap
    <3>2. r \in ToSet(waiting') => block_table'[r] = <<>> /\ num_cached_tokens'[r] = 0
      BY <1>1, <1>7 DEF Account
    <3>3. r \in ToSet(running') => /\ num_tokens'[r] <= cap(r)' + 1
                                   /\ num_cached_tokens'[r] = num_tokens'[r] - 1
      BY <1>1, <1>4, <1>7, <3>1 DEF Account
    <3>4. status'[r] \in {"NEW", "FINISHED"} => num_cached_tokens'[r] = 0
      BY <1>1, <1>7, <3>1 DEF Account
    <3> QED
      BY <1>6, <3>2, <3>3, <3>4 DEF Covered
  <2>2. PureDecode(batch)'
    BY <1>1, <1>2, EmptyQueue DEF Still, NoBatch, PureDecode
  <2>3. batch_queue' = <<>>
    BY <1>1, <1>2 DEF Still
  <2> QED
    BY <2>1, <2>2, <2>3 DEF Coverage
<1>19. /\ pending' = [r \in Requests |-> 0] /\ dispatched' = <<>> /\ views' = <<>>
       /\ draining' \in BOOLEAN
  <2>1. pending \in [Requests -> 0..2]
    BY <1>2 DEF CohortTypes
  <2>2. pending = [r \in Requests |-> 0]
    BY <1>5, <2>1
  <2> QED
    BY <1>1, <1>2, <2>2 DEF Shape, CohortTypes
<1> QED
  BY <1>1, <1>17, <1>18, <1>19 DEF NoCohort

-----------------------------------------------------------------------------
(* Every step                                                              *)

LEMMA AsyncStep == AsyncInv /\ [AsyncNext]_asyncVars => AsyncInv'
<1> SUFFICES ASSUME AsyncInv, [AsyncNext]_asyncVars PROVE AsyncInv'
  OBVIOUS
<1>1. /\ Serial => NoCohort
      /\ ~Serial => CohortInv
  BY DEF AsyncInv
<1>2. CASE UNCHANGED asyncVars \/ (SerialNext /\ UNCHANGED cohortVars)
  <2>1. UNCHANGED cohortVars /\ (UNCHANGED vars \/ SerialNext)
    BY <1>2 DEF asyncVars
  <2>2. CASE Serial
    <3>1. NoCohort' /\ Serial'
      BY <1>1, <2>1, <2>2, SerialStep DEF Serial, cohortVars
    <3> QED
      BY <3>1 DEF AsyncInv
  <2>3. CASE ~Serial
    <3>1. CohortInv /\ ~Serial'
      BY <1>1, <2>1, <2>3 DEF Serial, cohortVars
    <3>2. CASE UNCHANGED vars
      <4>1. draining' \in BOOLEAN
        BY <2>1, <3>1 DEF cohortVars, CohortInv, CohortTypes
      <4>2. UNCHANGED <<vars, live, pending, dispatched, views>>
        BY <2>1, <3>2 DEF cohortVars
      <4> QED
        BY <3>1, <4>1, <4>2, QuietCohort DEF AsyncInv
    <3>3. CASE SerialNext
      <4>1. \E r \in Requests : add(r)
        BY <2>3, <3>1, <3>3, CohortAlone DEF CohortInv
      <4> QED
        BY <2>1, <3>1, <4>1, AddCohort DEF AsyncInv
    <3> QED
      BY <2>1, <3>2, <3>3
  <2> QED
    BY <2>2, <2>3
<1>3. CASE begin_async_decode
  <2>1. CohortInv' /\ live' # <<>>
    BY <1>1, <1>3, BeginCohort DEF begin_async_decode, CanBegin
  <2> QED
    BY <2>1 DEF AsyncInv, Serial
<1>4. CASE async_schedule
  <2>1. ~Serial /\ live' = live
    BY <1>4 DEF async_schedule, InSchedulableCohort
  <2> QED
    BY <1>1, <1>4, <2>1, ScheduleCohort DEF AsyncInv, Serial
<1>5. CASE async_schedule_empty \/ drain_for_arrival
  <2>1. ~Serial /\ StartDraining
    BY <1>5 DEF async_schedule_empty, drain_for_arrival, InSchedulableCohort
  <2>2. UNCHANGED <<vars, live, pending, dispatched, views>> /\ draining' \in BOOLEAN
    BY <2>1 DEF StartDraining
  <2> QED
    BY <1>1, <2>1, <2>2, QuietCohort DEF AsyncInv, Serial
<1>6. CASE BeginCommit
  <2>1. ~Serial /\ live' = live
    BY <1>6 DEF BeginCommit
  <2> QED
    BY <1>1, <1>6, <2>1, BeginCommitCohort DEF AsyncInv, Serial
<1>7. ASSUME DiscardToken \/ \E eos \in BOOLEAN : CommitLast(eos) \/ CommitToken(eos)
      PROVE  AsyncInv'
  <2>1. live' = live /\ phase = "commit"
    BY <1>7 DEF DiscardToken, CommitLast, CommitToken, CommitRow
  <2>2. ~Serial
    <3>1. NoCohort => phase # "commit"
      BY DEF NoCohort, Inv, TypeInv, TypeOK
    <3> QED
      BY <1>1, <2>1, <3>1
  <2>3. CohortInv'
    BY <1>1, <1>7, <2>2, DiscardCohort, CommitLastCohort, CommitTokenCohort
  <2> QED
    BY <2>1, <2>2, <2>3 DEF AsyncInv, Serial
<1>8. CASE end_async_decode
  <2>1. ~Serial
    BY <1>8 DEF end_async_decode
  <2> QED
    BY <1>1, <1>8, <2>1, EndCohort DEF AsyncInv, Serial
<1> QED
  BY <1>2, <1>3, <1>4, <1>5, <1>6, <1>7, <1>8 DEF AsyncNext, CohortNext

LEMMA AsyncInvCorrect == AsyncSpec => []AsyncInv
BY InitAsyncInv, AsyncStep, PTL DEF AsyncSpec

-----------------------------------------------------------------------------
(* The views of a request, in order                                        *)

(* A batch's only view of r, as a queue.                                   *)
LEMMA OnlyView ==
  ASSUME NEW b \in Views, OneEach(b), NEW r, NEW S, S \cap ToSet(b) = {v \in ToSet(b) : v.seq = r}
  PROVE  LET o == Only(b, S)
         IN  /\ o \in Seq(ViewType) /\ Len(o) = Count(RowsOf(r, b))
             /\ ToSet(o) = RowsOf(r, b)
             /\ Len(o) = 1 => o[1] \in RowsOf(r, b)
<1> DEFINE o == Only(b, S)
<1>1. b \in Seq(ViewType) /\ ToSet(b) = {b[i] : i \in 1..Len(b)} /\ Len(b) \in Nat
  BY RowsOfTypes, ToSetDef
<1>2. Distinct(b)
  BY <1>1 DEF OneEach, Distinct
<1>3. o \in Seq(ViewType) /\ ToSet(o) = ToSet(b) \cap S /\ Distinct(o)
  BY <1>1, <1>2, OnlyQueue
<1> HIDE DEF o
<1>4. ToSet(o) = RowsOf(r, b)
  <2>1. RowsOf(r, b) = {v \in ToSet(b) : v.seq = r}
    BY <1>1 DEF RowsOf
  <2> QED
    BY <1>3, <2>1
<1>5. \A v, w \in RowsOf(r, b) : v = w
  BY RowsOfTypes
<1>6. Len(o) \in Nat /\ ToSet(o) = {o[i] : i \in 1..Len(o)} /\ (ToSet(o) = {} <=> Len(o) = 0)
  BY <1>3, ToSetDef
<1>7. Len(o) <= 1
  <2>1. SUFFICES ASSUME Len(o) > 1 PROVE FALSE
    BY <1>6
  <2>2. 1 \in 1..Len(o) /\ 2 \in 1..Len(o)
    BY <1>6, <2>1
  <2>3. o[1] = o[2]
    BY <1>4, <1>5, <1>6, <2>2
  <2> QED
    BY <1>3, <2>2, <2>3 DEF Distinct
<1>8. Len(o) = Count(RowsOf(r, b))
  <2>1. CASE Len(o) = 0
    BY <1>4, <1>6, <2>1 DEF Count
  <2>2. CASE Len(o) = 1
    BY <1>4, <1>6, <2>2 DEF Count
  <2>3. Len(o) = 0 \/ Len(o) = 1
    <3>1. Len(o) \in Nat
      BY <1>6
    <3>2. \A n \in Nat : n <= 1 => n = 0 \/ n = 1
      OBVIOUS
    <3> QED
      BY <1>7, <3>1, <3>2
  <2> QED
    BY <2>1, <2>2, <2>3
<1>9. Len(o) = 1 => o[1] \in RowsOf(r, b)
  BY <1>4, <1>6
<1> QED
  BY <1>3, <1>4, <1>8, <1>9 DEF o

(* What the properties say of the outstanding views of r, in terms of the  *)
(* two batches.                                                            *)
InLine(r, o) ==
  /\ o \in Seq(ViewType) /\ Len(o) = pending[r]
  /\ \A k \in 1..Len(o) : ViewOK(o[k], block_table[r], Limit(r))
  /\ status[r] # "FINISHED" => \A k \in 1..Len(o) : o[k].num_tokens = num_tokens[r] + k - 1

LEMMA ViewsInLine ==
  ASSUME AsyncInv, NEW r \in Requests
  PROVE  InLine(r, Outstanding(r))
<1> DEFINE all == views \o FlattenSeq(dispatched)
           S == {v \in ToSet(all) : v.seq = r}
<1>0. Outstanding(r) = Only(all, S)
  BY DEF Outstanding
<1>1. CASE Serial
  <2>1. views = <<>> /\ dispatched = <<>> /\ pending[r] = 0
    BY <1>1 DEF AsyncInv, NoCohort
  <2>2. Len(<<>>) = 0 /\ <<>> \in Seq(ViewType) /\ dispatched \in Seq(Seq(ViewType)) /\ 0 <= 2
    BY <2>1
  <2>3. FlattenSeq(dispatched) = <<>>
    BY <2>1, <2>2, FlattenTwo
  <2>4. all = <<>>
    BY <2>1, <2>3
  <2> HIDE DEF all, S
  <2>5. Only(all, S) \in Seq(ViewType) /\ Len(Only(all, S)) <= 0
    BY <2>2, <2>4, OnlyQueue
  <2>6. Len(Only(all, S)) = 0
    BY <2>5, LenProperties
  <2> QED
    BY <1>0, <2>1, <2>5, <2>6 DEF InLine
<1>2. CASE ~Serial
  <2>1. /\ CohortTypes /\ Shape /\ OnItsWay(r) /\ num_tokens[r] \in Nat
        /\ phase \in {"idle", "commit"}
    BY <1>2 DEF AsyncInv, CohortInv, CohortTypes, Still
  <2>2. /\ dispatched \in Seq(Seq(ViewType)) /\ views \in Seq(ViewType) /\ Len(dispatched) \in Nat
        /\ Len(dispatched) <= 2 /\ (dispatched = <<>> <=> Len(dispatched) = 0)
        /\ \A i \in 1..Len(dispatched) : dispatched[i] \in Seq(ViewType)
    <3>1. dispatched \in Seq(Views) /\ Views = Seq(ViewType)
      BY <2>1 DEF CohortTypes, Views, ViewType
    <3> QED
      BY <2>1, <3>1, LenProperties, EmptySeq, ElementOfSeq DEF CohortTypes, Shape
  <2>3. Older \in Seq(ViewType) /\ Newer \in Seq(ViewType)
    BY <2>1, <2>2 DEF Older, Newer
  <2>4. all = Older \o Newer
    <3> DEFINE flat == FlattenSeq(dispatched)
               n == Len(dispatched)
               d(i) == dispatched[i]
    <3>1. /\ n = 0 => flat = <<>>
          /\ n = 1 => flat = d(1)
          /\ n = 2 => flat = d(1) \o d(2)
      BY <2>2, FlattenTwo
    <3>2. /\ n = 1 => d(1) \in Seq(ViewType)
          /\ n = 2 => d(1) \in Seq(ViewType) /\ d(2) \in Seq(ViewType)
          /\ n \in 0..2 /\ (dispatched = <<>> <=> n = 0)
      <4>1. n \in 0..2 /\ 1 \in 1..2 /\ 2 \in 1..2 /\ 1 \in 1..1
        <5>1. n \in Nat /\ n <= 2
          BY <2>2
        <5> HIDE DEF n
        <5> QED
          BY <5>1
      <4> QED
        BY <2>2, <4>1
    <3>3. /\ phase = "idle" => views = <<>>
          /\ phase = "commit" => n <= 1
      BY <2>1 DEF Shape
    <3>4. \A s \in Seq(ViewType) : s \o <<>> = s /\ <<>> \o s = s
      OBVIOUS
    <3>5. \A s, t \in Seq(ViewType) : s \o t \in Seq(ViewType)
      BY ConcatProperties
    <3>6. /\ phase = "commit" => /\ Older = views
                                 /\ Newer = IF dispatched = <<>> THEN <<>> ELSE d(1)
          /\ phase = "idle" => /\ Older = IF dispatched = <<>> THEN <<>> ELSE d(1)
                               /\ Newer = IF n < 2 THEN <<>> ELSE d(2)
      BY DEF Older, Newer
    <3> HIDE DEF flat, n, d
    <3>7. CASE phase = "commit"
      <4>1. CASE n = 0
        BY <2>2, <3>1, <3>2, <3>6, <3>7, <4>1 DEF flat
      <4>2. CASE n = 1
        BY <2>2, <3>1, <3>2, <3>6, <3>7, <4>2 DEF flat
      <4> QED
        BY <3>2, <3>3, <3>7, <4>1, <4>2
    <3>8. CASE phase = "idle"
      <4>1. CASE n = 0
        BY <3>1, <3>2, <3>3, <3>6, <3>8, <4>1 DEF flat
      <4>2. CASE n = 1
        <5>1. Older = d(1) /\ Newer = <<>> /\ views = <<>> /\ flat = d(1) /\ d(1) \in Seq(ViewType)
          BY <3>1, <3>2, <3>3, <3>6, <3>8, <4>2
        <5> QED
          BY <3>4, <5>1 DEF flat
      <4>3. CASE n = 2
        <5>1. /\ Older = d(1) /\ Newer = d(2) /\ views = <<>> /\ flat = d(1) \o d(2)
              /\ d(1) \in Seq(ViewType) /\ d(2) \in Seq(ViewType)
          BY <3>1, <3>2, <3>3, <3>6, <3>8, <4>3
        <5> QED
          BY <3>4, <3>5, <5>1 DEF flat
      <4> QED
        BY <3>2, <4>1, <4>2, <4>3
    <3> QED
      BY <2>1, <3>7, <3>8
  <2> HIDE DEF all
  <2>5. ToSet(all) = ToSet(Older) \cup ToSet(Newer)
    BY <2>3, <2>4, ConcatQueue
  <2>6. /\ S \cap ToSet(Older) = {v \in ToSet(Older) : v.seq = r}
        /\ S \cap ToSet(Newer) = {v \in ToSet(Newer) : v.seq = r}
    BY <2>5
  <2> HIDE DEF S
  <2> DEFINE o == Only(Older, S)
             w == Only(Newer, S)
  <2>7. Only(all, S) = o \o w
    BY <2>3, <2>4, OnlyConcat
  <2>8. /\ o \in Seq(ViewType) /\ Len(o) = Count(RowsOf(r, Older))
        /\ Len(o) = 1 => o[1] \in RowsOf(r, Older)
        /\ w \in Seq(ViewType) /\ Len(w) = Count(RowsOf(r, Newer))
        /\ Len(w) = 1 => w[1] \in RowsOf(r, Newer)
    <3>1. OneEach(Older) /\ OneEach(Newer) /\ Older \in Views /\ Newer \in Views
      BY <2>1, <2>3 DEF Shape, Views, ViewType
    <3> QED
      BY <2>6, <3>1, OnlyView
  <2> HIDE DEF o, w
  <2>9. /\ Len(o) \in 0..1 /\ Len(w) \in 0..1 /\ o \o w \in Seq(ViewType)
        /\ Len(o \o w) = Len(o) + Len(w)
        /\ \A k \in 1..Len(o) + Len(w) : (o \o w)[k] = IF k <= Len(o) THEN o[k] ELSE w[k - Len(o)]
    BY <2>8, ConcatProperties DEF Count
  <2>10. /\ pending[r] = Len(o) + Len(w)
         /\ \A v \in RowsOf(r, Older) \cup RowsOf(r, Newer) : ViewOK(v, block_table[r], Limit(r))
         /\ status[r] # "FINISHED" =>
               /\ \A v \in RowsOf(r, Older) : v.num_tokens = num_tokens[r]
               /\ \A v \in RowsOf(r, Newer) : v.num_tokens = num_tokens[r] + Len(o)
    BY <2>1, <2>8 DEF OnItsWay, Flight
  <2>11. ASSUME NEW k \in 1..Len(o \o w)
         PROVE  /\ (o \o w)[k] \in RowsOf(r, Older) \cup RowsOf(r, Newer)
                /\ status[r] # "FINISHED" => (o \o w)[k].num_tokens = num_tokens[r] + k - 1
    <3>1. CASE k <= Len(o)
      <4>0. k \in 1..Len(o) + Len(w) /\ k \in Nat /\ k >= 1
        BY <2>9
      <4>1. k = 1 /\ Len(o) = 1 /\ (o \o w)[k] = o[1]
        <5>1. Len(o) \in 0..1
          BY <2>9
        <5>2. k = 1 /\ Len(o) = 1
          <6>1. \A n \in 0..1 : \A i \in Nat : i >= 1 /\ i <= n => i = 1 /\ n = 1
            OBVIOUS
          <6> QED
            BY <3>1, <4>0, <5>1, <6>1
        <5> QED
          BY <2>9, <4>0, <5>2
      <4> QED
        BY <2>1, <2>8, <2>10, <4>1
    <3>2. CASE ~(k <= Len(o))
      <4>1. k = Len(o) + 1 /\ Len(w) = 1 /\ (o \o w)[k] = w[1]
        BY <2>9, <3>2
      <4>2. (o \o w)[k] \in RowsOf(r, Newer)
        BY <2>8, <4>1
      <4>3. num_tokens[r] + Len(o) = num_tokens[r] + k - 1
        BY <2>1, <2>9, <4>1
      <4> QED
        BY <2>10, <4>2, <4>3
    <3> QED
      BY <3>1, <3>2
  <2> QED
    BY <1>0, <2>7, <2>9, <2>10, <2>11 DEF InLine
<1> QED
  BY <1>1, <1>2

-----------------------------------------------------------------------------
(* The theorems                                                            *)

(* Every variable of the cohort keeps its type.                            *)
THEOREM AsyncTypeCorrect == AsyncSpec => []AsyncTypeOK
<1>1. ASSUME AsyncInv PROVE AsyncTypeOK
  <2>1. CASE Serial
    <3>1. TypeOK /\ pending \in [Requests -> 0..2] /\ live = <<>> /\ dispatched = <<>>
          /\ views = <<>> /\ draining \in BOOLEAN
      BY <1>1, <2>1 DEF AsyncInv, NoCohort, Inv, TypeInv, Serial
    <3>2. <<>> \in Seq(Requests) /\ <<>> \in Seq(Views) /\ <<>> \in Views
      BY DEF Views
    <3> QED
      BY <3>1, <3>2 DEF TypeOK, AsyncTypeOK
  <2>2. CASE ~Serial
    BY <1>1, <2>2 DEF AsyncInv, CohortInv, CohortTypes, Still, AsyncTypeOK
  <2> QED
    BY <2>1, <2>2
<1> QED
  BY <1>1, AsyncInvCorrect, PTL

(* Every result is the next token of the history it is appended to: the    *)
(* outstanding views of a request have consecutive lengths, however many   *)
(* batches and requests there are.                                         *)
THEOREM ViewsAreInOrder == AsyncSpec => []InOrder
<1>1. ASSUME AsyncInv PROVE InOrder
  BY <1>1, ViewsInLine DEF InLine, InOrder
<1> QED
  BY <1>1, AsyncInvCorrect, PTL

(* No dispatched view reads or writes a KV position outside its request's  *)
(* own blocks, even when the request has ended since.                      *)
THEOREM ViewsKeepTheirBlocks == AsyncSpec => []ViewsOwnTheirBlocks
<1>1. ASSUME AsyncInv PROVE ViewsOwnTheirBlocks
  BY <1>1, ViewsInLine DEF InLine, ViewOK, ViewsOwnTheirBlocks
<1> QED
  BY <1>1, AsyncInvCorrect, PTL

(* The lookahead computes no token past max_tokens.                        *)
THEOREM ViewsWithinMaxTokens == AsyncSpec => []WithinMaxTokens
<1>1. ASSUME AsyncInv, NEW r \in Requests, NEW k \in 1..Len(Outstanding(r))
      PROVE  Outstanding(r)[k].num_tokens - PromptLen[r] < MaxTokens[r]
  <2>1. /\ Outstanding(r)[k].num_tokens \in Nat
        /\ Outstanding(r)[k].num_tokens < PromptLen[r] + MaxTokens[r]
    BY <1>1, ViewsInLine DEF InLine, ViewOK, ViewType, Limit
  <2>2. PromptLen[r] \in Nat /\ MaxTokens[r] \in Nat
    BY ConfigAssumption
  <2> QED
    BY <2>1, <2>2
<1>2. AsyncInv => WithinMaxTokens
  BY <1>1 DEF WithinMaxTokens
<1> QED
  BY <1>2, AsyncInvCorrect, PTL

(* Lookahead dispatch and the discarding of late results neither leak nor  *)
(* share a block.                                                          *)
THEOREM AsyncBlocksAlways == AsyncSpec => []AsyncBlocksConserved
<1>1. ASSUME AsyncInv PROVE AsyncBlocksConserved
  <2>1. CASE Serial
    BY <1>1, <2>1, AsyncBlocks DEF AsyncInv, NoCohort, Inv
  <2>2. CASE ~Serial
    BY <1>1, <2>2 DEF AsyncInv, CohortInv
  <2> QED
    BY <2>1, <2>2
<1> QED
  BY <1>1, AsyncInvCorrect, PTL

(* A request has one owner, and an ended one stays in flight until its     *)
(* last view is done; the serial scheduler gets back what it lent.         *)
THEOREM CohortOwnersAlways == AsyncSpec => []CohortOwners
<1>1. ASSUME AsyncInv PROVE CohortOwners
  <2>1. CASE Serial
    BY <1>1, <2>1 DEF AsyncInv, NoCohort, Inv, Ownership, CohortOwners
  <2>2. CASE ~Serial
    <3>1. CohortInv
      BY <1>1, <2>2 DEF AsyncInv
    <3>2. running = <<>> /\ batch_queue = <<>> /\ Distinct(live)
      BY <3>1 DEF CohortInv, Still, Owners
    <3>3. \A r \in Requests : /\ r \in in_flight <=> r \in ToSet(live) /\ (status[r] # "FINISHED" \/ pending[r] > 0)
                              /\ r \in ToSet(waiting) => r \notin ToSet(live)
      BY <3>1 DEF CohortInv, Account
    <3>4. ToSet(live) \subseteq Requests /\ in_flight \subseteq Requests
      BY <3>1, ToSetDef DEF CohortInv, CohortTypes
    <3>5. in_flight = {r \in ToSet(live) : status[r] # "FINISHED" \/ pending[r] > 0}
      <4>1. ASSUME NEW r \in in_flight PROVE r \in ToSet(live) /\ (status[r] # "FINISHED" \/ pending[r] > 0)
        BY <3>3, <3>4, <4>1
      <4>2. ASSUME NEW r \in ToSet(live), status[r] # "FINISHED" \/ pending[r] > 0 PROVE r \in in_flight
        BY <3>3, <3>4, <4>2
      <4> QED
        BY <4>1, <4>2
    <3>6. in_flight \cap ToSet(waiting) = {}
      <4>1. ASSUME NEW r \in in_flight, r \in ToSet(waiting) PROVE FALSE
        BY <3>3, <3>4, <4>1
      <4> QED
        BY <4>1
    <3> QED
      BY <2>2, <3>2, <3>5, <3>6 DEF CohortOwners
  <2> QED
    BY <2>1, <2>2
<1> QED
  BY <1>1, AsyncInvCorrect, PTL

-----------------------------------------------------------------------------
(* The cohort implements Generation                                        *)

LEMMA AsyncHistory == AsyncInv => HistoryTypes
BY DEF AsyncInv, NoCohort, CohortInv, CohortTypes, Inv, TypeInv, TypeOK, HistoryTypes

(* The row postprocess() is about to commit.                               *)
LEMMA CommitIsVisible ==
  ASSUME CohortInv, TokensLeft, NEW eos \in BOOLEAN, CommitLast(eos) \/ CommitToken(eos)
  PROVE  Extended(committed) \/ Ended(committed)
<1> DEFINE c == committed
<1>1. /\ CommitRow /\ status[c] # "FINISHED" /\ num_tokens' = [num_tokens EXCEPT ![c] = @ + 1]
  BY DEF CommitLast, CommitToken, AppendToken
<1>2. /\ c \in Requests /\ Ongoing(c) /\ num_tokens[c] \in Nat
      /\ PromptLen[c] \in Nat /\ MaxTokens[c] \in Nat
  BY <1>1, CommitOwner, ConfigAssumption DEF Ongoing
<1>3. num_completion_tokens(c) < MaxTokens[c]
  BY <1>1, <1>2 DEF TokensLeft
<1>4. num_completion_tokens(c) \in Int
  BY <1>2 DEF num_completion_tokens
<1> HIDE DEF c
<1>5. ASSUME CommitLast(eos) PROVE Ended(c)
  <2>1. status' = [status EXCEPT ![c] = "FINISHED"] /\ CommitStops(c, eos)
    BY <1>5 DEF CommitLast, c
  <2>2. c \in IgnoreEos => num_completion_tokens(c) + 1 >= MaxTokens[c]
    BY <2>1 DEF CommitStops
  <2>3. c \in IgnoreEos => num_completion_tokens(c) + 1 = MaxTokens[c]
    BY <1>2, <1>3, <1>4, <2>2
  <2> QED
    BY <1>1, <1>2, <2>1, <2>3 DEF Ended
<1>6. ASSUME CommitToken(eos) PROVE Extended(c)
  <2>1. status' = status /\ ~CommitStops(c, eos)
    BY <1>6 DEF CommitToken, c
  <2>2. num_completion_tokens(c) + 1 # MaxTokens[c]
    BY <1>2, <1>4, <2>1 DEF CommitStops
  <2> QED
    BY <1>1, <1>2, <2>1, <2>2 DEF Extended
<1> QED
  BY <1>5, <1>6 DEF c

LEMMA AsyncStepKinds ==
  ASSUME AsyncInv, TokensLeft, [AsyncNext]_asyncVars
  PROVE  HistoryTypes /\ HistoryTypes' /\ Visible
<1>t. HistoryTypes /\ HistoryTypes'
  <2>1. AsyncInv'
    BY AsyncStep
  <2>2. (AsyncInv => HistoryTypes)'
    BY AsyncHistory, PTL
  <2> QED
    BY <2>1, <2>2, AsyncHistory
<1>1. ASSUME UNCHANGED asyncVars \/ (Serial /\ SerialNext) PROVE Visible
  <2>1. CASE UNCHANGED asyncVars
    BY <2>1, SilentStep DEF asyncVars, vars, seqVars, Visible
  <2>2. CASE Serial /\ SerialNext
    <3>1. TypeInv /\ Ownership
      BY <2>2 DEF AsyncInv, NoCohort, Inv
    <3>2. [Next]_vars
      BY <2>2 DEF SerialNext, Next
    <3> QED
      BY <3>1, <3>2, StepKinds
  <2> QED
    BY <1>1, <2>1, <2>2
<1>2. ASSUME ~Serial, SerialNext PROVE Visible
  <2>1. PICK r \in Requests : add(r)
    BY <1>2, CohortAlone DEF AsyncInv, CohortInv
  <2>2. Added(r)
    BY <2>1 DEF add, Added
  <2> QED
    BY <2>2 DEF Visible
<1>3. ASSUME \/ begin_async_decode \/ async_schedule \/ async_schedule_empty
             \/ drain_for_arrival \/ BeginCommit \/ DiscardToken
      PROVE  Visible
  <2>1. UNCHANGED <<status, num_tokens>>
    BY <1>3 DEF begin_async_decode, async_schedule, async_schedule_empty, drain_for_arrival,
         StartDraining, BeginCommit, DiscardToken, vars, seqVars
  <2> QED
    BY <2>1, SilentStep DEF Visible
<1>4. ASSUME NEW eos \in BOOLEAN, CommitLast(eos) \/ CommitToken(eos) PROVE Visible
  <2>1. CommitRow /\ phase = "commit"
    BY <1>4 DEF CommitLast, CommitToken, CommitRow
  <2>2. CohortInv
    BY <2>1 DEF AsyncInv, NoCohort, Inv, TypeInv, TypeOK
  <2> QED
    BY <1>4, <2>1, <2>2, CommitIsVisible, CommitOwner DEF Visible
<1>5. ASSUME end_async_decode PROVE Visible
  <2> DEFINE left == Only(live, {r \in Requests : status[r] # "FINISHED"})
  <2>1. CohortInv /\ live \in Seq(Requests)
    BY <1>5 DEF AsyncInv, end_async_decode, CohortInv, CohortTypes
  <2>2. ToSet(left) = ToSet(live) \cap {r \in Requests : status[r] # "FINISHED"}
    BY <2>1, OnlyQueue
  <2>3. /\ status' = [r \in Requests |-> IF r \in ToSet(left) THEN "RUNNING" ELSE status[r]]
        /\ UNCHANGED num_tokens
    BY <1>5 DEF end_async_decode
  <2> HIDE DEF left
  <2>4. ASSUME NEW r \in ToSet(left), r \in Requests PROVE Ongoing(r)
    BY <1>t, <2>1, <2>2, <2>4 DEF CohortInv, Account, HistoryTypes, Ongoing
  <2>5. Silent
    BY <2>3, <2>4 DEF Silent, Ongoing
  <2> QED
    BY <2>5 DEF Visible
<1> QED
  BY <1>t, <1>1, <1>2, <1>3, <1>4, <1>5 DEF AsyncNext, CohortNext

(* With batches dispatched ahead of the tokens they continue from, and the *)
(* results past a request's end thrown away, its caller still sees its     *)
(* tokens one at a time, never more than max_tokens, and one end.          *)
THEOREM CohortRefinesGeneration == AsyncSpec => ImplementsGeneration
<1>1. AsyncInit => AsyncInv /\ TokensLeft /\ G!Init
  BY InitAsyncInv, InitTokensLeft, InitRefines DEF AsyncInit
<1>2. AsyncInv /\ TokensLeft /\ [AsyncNext]_asyncVars => AsyncInv' /\ TokensLeft'
  BY AsyncStep, AsyncStepKinds, TokensLeftStep
<1>3. AsyncInv /\ TokensLeft /\ [AsyncNext]_asyncVars
        => [G!Next]_<<[r \in Requests |-> Outcome(r)], num_tokens>>
  BY AsyncStepKinds, StepRefines DEF outcomes
<1> QED
  BY <1>1, <1>2, <1>3, PTL DEF AsyncSpec, ImplementsGeneration, G!Spec
=============================================================================
