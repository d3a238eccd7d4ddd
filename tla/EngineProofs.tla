---------------------------- MODULE EngineProofs ----------------------------
(***************************************************************************)
(* The engine's two results.  The runner's slots and the scheduler's count *)
(* of slot owners agree: the slot search never fails, and nobody keeps a   *)
(* slot that it does not own (EngineInv).  And every token appended to a   *)
(* history is the one computed from exactly that history, however the      *)
(* device's steps fall between the host's (PipeInv).                       *)
(***************************************************************************)
EXTENDS Engine, AsyncProofs

-----------------------------------------------------------------------------
(* The input batch                                                         *)

Held == [seq : Requests, view : BOOLEAN]
Users(ib) == {r \in Requests : \E s \in Slots : ib[s].seq = r}

(* A request is in one slot at most.                                       *)
OneSlot(ib) ==
  /\ ib \in [Slots -> {Vacant} \cup Held]
  /\ \A s, t \in Slots : ib[s].seq = ib[t].seq /\ ib[s].seq \in Requests => s = t

LEMMA SlotContent ==
  ASSUME NEW ib, OneSlot(ib)
  PROVE  /\ \A s \in Slots : \/ ib[s] = Vacant /\ ib[s].seq \notin Requests /\ ib[s].view = FALSE
                             \/ ib[s] # Vacant /\ ib[s].seq \in Requests /\ ib[s] \in Held
         /\ FreeSlots(ib) = {s \in Slots : ib[s].seq \notin Requests}
         /\ Users(ib) = {ib[s].seq : s \in Slots \ FreeSlots(ib)}
<1>1. Vacant.seq = "none" /\ Vacant.view = FALSE /\ Vacant.seq \notin Requests
  BY NoneAssumption DEF Vacant
<1>2. \A h \in Held : h.seq \in Requests
  BY DEF Held
<1>3. ASSUME NEW s \in Slots
      PROVE  \/ ib[s] = Vacant /\ ib[s].seq \notin Requests /\ ib[s].view = FALSE
             \/ ib[s] # Vacant /\ ib[s].seq \in Requests /\ ib[s] \in Held
  <2>1. ib[s] = Vacant \/ ib[s] \in Held
    BY DEF OneSlot
  <2> QED
    BY <1>1, <1>2, <2>1
<1>4. FreeSlots(ib) = {s \in Slots : ib[s].seq \notin Requests}
  BY <1>3 DEF FreeSlots
<1> QED
  BY <1>3, <1>4 DEF Users

(* Every slot is free or has one user.                                     *)
LEMMA SlotCount ==
  ASSUME NEW ib, OneSlot(ib)
  PROVE  /\ IsFiniteSet(Users(ib)) /\ IsFiniteSet(FreeSlots(ib))
         /\ Cardinality(Users(ib)) \in Nat /\ Cardinality(FreeSlots(ib)) \in Nat
         /\ Cardinality(Users(ib)) + Cardinality(FreeSlots(ib)) = MaxNumSeqs
<1> DEFINE taken == Slots \ FreeSlots(ib)
           f == [s \in taken |-> ib[s].seq]
<1>1. IsFiniteSet(Slots) /\ Cardinality(Slots) = MaxNumSeqs
  BY ConfigAssumption, FS_Interval DEF Slots
<1>2. /\ IsFiniteSet(taken) /\ Slots \cap FreeSlots(ib) = FreeSlots(ib)
      /\ Cardinality(taken) = MaxNumSeqs - Cardinality(FreeSlots(ib))
  <2>1. Slots \cap FreeSlots(ib) = FreeSlots(ib)
    BY DEF FreeSlots
  <2> QED
    BY <1>1, <2>1, FS_Difference
<1>3. /\ f \in [taken -> Users(ib)]
      /\ \A s, t \in taken : f[s] = f[t] => s = t
      /\ \A r \in Users(ib) : \E s \in taken : f[s] = r
  <2>1. /\ Users(ib) = {ib[s].seq : s \in taken} /\ taken \subseteq Slots
        /\ \A s \in taken : ib[s].seq \in Requests
    BY SlotContent
  <2>2. \A s, t \in taken : ib[s].seq = ib[t].seq => s = t
    BY <2>1 DEF OneSlot
  <2> QED
    BY <2>1, <2>2
<1>4. f \in Bijection(taken, Users(ib))
  BY <1>3 DEF Bijection, Injection, IsInjective, Surjection
<1>5. ExistsBijection(taken, Users(ib))
  BY <1>4 DEF ExistsBijection
<1>6. IsFiniteSet(Users(ib)) /\ Cardinality(Users(ib)) = Cardinality(taken)
  BY <1>2, <1>5, FS_Bijection
<1>7. IsFiniteSet(FreeSlots(ib))
  BY <1>1, FS_Subset DEF FreeSlots
<1> QED
  BY <1>2, <1>6, <1>7, FS_CardinalityType, ConfigAssumption

LEMMA LeastSlot ==
  ASSUME NEW S, S \subseteq Slots, S # {}
  PROVE  Min(S) \in S
<1>1. \A s \in Slots : s \in Nat
  BY DEF Slots
<1> DEFINE R == {ss \in Nat \X Nat : ss[1] < ss[2]}
<1>2. IsWellFoundedOn(R, Nat)
  BY NatLessThanWellFounded DEF OpToRel
<1>3. S \subseteq Nat
  BY <1>1
<1>4. PICK x \in S : \A y \in S : ~(<<y, x>> \in R)
  BY <1>2, <1>3, WFMin, Zenon
<1>5. ASSUME NEW y \in S PROVE x =< y
  <2>1. x \in Nat /\ y \in Nat /\ ~(<<y, x>> \in R)
    BY <1>3, <1>4
  <2>2. ~(y < x)
    BY <2>1
  <2> QED
    BY <2>1, <2>2
<1> QED
  BY <1>5 DEF Min

(* remove_request().                                                       *)
LEMMA Vacated ==
  ASSUME NEW ib, OneSlot(ib), NEW r \in Requests, NEW jb,
         jb = [s \in Slots |-> IF ib[s].seq = r THEN Vacant ELSE ib[s]]
  PROVE  /\ OneSlot(jb) /\ Users(jb) = Users(ib) \ {r}
         /\ \A s \in Slots : jb[s].seq \in Requests => jb[s] = ib[s] /\ jb[s].seq # r
<1>1. \A s \in Slots : ib[s] \in {Vacant} \cup Held
  BY DEF OneSlot
<1>2. jb \in [Slots -> {Vacant} \cup Held]
  BY <1>1
<1>3. Vacant.seq \notin Requests
  BY NoneAssumption DEF Vacant
<1>4. \A s \in Slots : jb[s].seq \in Requests => jb[s] = ib[s] /\ jb[s].seq # r
  BY <1>3
<1>5. OneSlot(jb)
  BY <1>2, <1>4 DEF OneSlot
<1>6. \A s \in Slots : ib[s].seq # r => jb[s] = ib[s]
  OBVIOUS
<1> QED
  BY <1>4, <1>5, <1>6 DEF Users
-----------------------------------------------------------------------------
(* update()                                                                *)

(* One row takes its request's slot, or the first free one.                *)
LEMMA Placed ==
  ASSUME NEW ib, OneSlot(ib), NEW x, x.seq \in Requests, x.view \in BOOLEAN,
         x.seq \in Users(ib) \/ FreeSlots(ib) # {}
  PROVE  /\ OneSlot(place(ib, x)) /\ Users(place(ib, x)) = Users(ib) \cup {x.seq}
         /\ \A s \in Slots : IF place(ib, x)[s].seq = x.seq
                             THEN place(ib, x)[s].view = x.view
                             ELSE place(ib, x)[s] = ib[s]
         /\ \A s \in Slots : ib[s].seq \in Requests => place(ib, x)[s].seq = ib[s].seq
<1> DEFINE e == [seq |-> x.seq, view |-> x.view]
           s0 == IF \E t \in Slots : ib[t].seq = x.seq
                 THEN CHOOSE t \in Slots : ib[t].seq = x.seq
                 ELSE Min(FreeSlots(ib))
<1>1. place(ib, x) = [ib EXCEPT ![s0] = e]
  BY DEF place
<1>2. s0 \in Slots /\ (ib[s0].seq = x.seq \/ (ib[s0] = Vacant /\ x.seq \notin Users(ib)))
  <2>1. CASE \E t \in Slots : ib[t].seq = x.seq
    BY <2>1
  <2>2. CASE ~ \E t \in Slots : ib[t].seq = x.seq
    <3>1. x.seq \notin Users(ib) /\ FreeSlots(ib) \subseteq Slots
      BY <2>2 DEF Users, FreeSlots
    <3>2. Min(FreeSlots(ib)) \in FreeSlots(ib)
      BY <3>1, LeastSlot
    <3> QED
      BY <2>2, <3>1, <3>2 DEF FreeSlots
  <2> QED
    BY <2>1, <2>2
<1>3. e \in Held /\ e.seq = x.seq /\ e.view = x.view
  BY DEF Held
<1> HIDE DEF s0, e
<1> DEFINE jb == [ib EXCEPT ![s0] = e]
<1>4. ib \in [Slots -> {Vacant} \cup Held]
  BY DEF OneSlot
<1>5. jb[s0] = e /\ \A s \in Slots \ {s0} : jb[s] = ib[s]
  BY <1>2, <1>4
<1>6. jb \in [Slots -> {Vacant} \cup Held]
  BY <1>2, <1>3, <1>4
<1> HIDE DEF jb
<1>7. ASSUME NEW s \in Slots \ {s0} PROVE ib[s].seq # x.seq
  <2>1. CASE ib[s0].seq = x.seq
    BY <1>2, <2>1 DEF OneSlot
  <2>2. CASE x.seq \notin Users(ib)
    BY <2>2 DEF Users
  <2> QED
    BY <1>2, <2>1, <2>2
<1>8. OneSlot(jb)
  <2>1. ASSUME NEW s \in Slots, NEW t \in Slots, jb[s].seq = jb[t].seq, jb[s].seq \in Requests
        PROVE  s = t
    <3>1. CASE s = s0
      BY <1>3, <1>5, <1>7, <2>1, <3>1
    <3>2. CASE t = s0
      BY <1>3, <1>5, <1>7, <2>1, <3>2
    <3>3. CASE s # s0 /\ t # s0
      BY <1>5, <2>1, <3>3 DEF OneSlot
    <3> QED
      BY <3>1, <3>2, <3>3
  <2> QED
    BY <1>6, <2>1 DEF OneSlot
<1>9. Users(jb) = Users(ib) \cup {x.seq}
  <2>1. x.seq \in Users(jb)
    BY <1>2, <1>3, <1>5 DEF Users
  <2>2. ASSUME NEW r \in Users(ib) PROVE r \in Users(jb)
    <3>1. PICK s \in Slots : ib[s].seq = r
      BY DEF Users
    <3>2. CASE s = s0
      <4>1. r = x.seq
        <5>1. Vacant.seq \notin Requests /\ r \in Requests
          BY NoneAssumption DEF Vacant, Users
        <5> QED
          BY <1>2, <3>1, <3>2, <5>1
      <4> QED
        BY <2>1, <4>1
    <3>3. CASE s # s0
      BY <1>5, <3>1, <3>3 DEF Users
    <3> QED
      BY <3>2, <3>3
  <2>3. ASSUME NEW r \in Users(jb), r # x.seq PROVE r \in Users(ib)
    <3>1. PICK s \in Slots : jb[s].seq = r
      BY DEF Users
    <3>2. s # s0
      BY <1>3, <1>5, <2>3, <3>1
    <3> QED
      BY <1>5, <3>1, <3>2 DEF Users
  <2> QED
    BY <2>1, <2>2, <2>3
<1>10. ASSUME NEW s \in Slots
       PROVE  IF jb[s].seq = x.seq THEN jb[s].view = x.view ELSE jb[s] = ib[s]
  BY <1>3, <1>5, <1>7
<1>11. ASSUME NEW s \in Slots, ib[s].seq \in Requests PROVE jb[s].seq = ib[s].seq
  <2>1. Vacant.seq \notin Requests
    BY NoneAssumption DEF Vacant
  <2> QED
    BY <1>2, <1>3, <1>5, <1>11, <2>1
<1> QED
  BY <1>1, <1>8, <1>9, <1>10, <1>11 DEF jb
(* The recursion behind update() has a solution: one row after the other.  *)
LEMMA UpdateSteps ==
  ASSUME NEW ib, NEW rows, Len(rows) \in Nat
  PROVE  \E f : /\ f[0] = ib /\ update(ib, rows) = f[Len(rows)]
                /\ \A k \in 1..Len(rows) : f[k] = place(f[k - 1], rows[k])
<1> DEFINE N == Len(rows)
           Solves(g, n) == /\ g = [i \in 0..n |-> g[i]] /\ g[0] = ib
                           /\ \A k \in 1..n : g[k] = place(g[k - 1], rows[k])
           P == {n \in 0..N : \E g : Solves(g, n)}
<1>1. N \in Nat
  OBVIOUS
<1>2. 0 \in P
  <2>1. Solves([i \in 0..0 |-> ib], 0)
    OBVIOUS
  <2> HIDE DEF Solves
  <2>2. 0 \in 0..N
    BY <1>1
  <2> QED
    BY <2>1, <2>2
<1>3. ASSUME NEW n \in 0..N - 1, n \in P PROVE n + 1 \in P
  <2>1. PICK g : Solves(g, n)
    BY <1>3
  <2> DEFINE h == [i \in 0..n + 1 |-> IF i = n + 1 THEN place(g[n], rows[n + 1]) ELSE g[i]]
  <2>2. n \in Nat /\ n + 1 \in 1..N /\ n + 1 \in 0..N
    BY <1>1
  <2>3. h[0] = ib /\ h = [i \in 0..n + 1 |-> h[i]]
    BY <2>1, <2>2
  <2>4. ASSUME NEW k \in 1..n + 1 PROVE h[k] = place(h[k - 1], rows[k])
    <3>1. k - 1 \in 0..n + 1 /\ k - 1 # n + 1 /\ k \in 0..n + 1
      BY <2>2
    <3>2. h[k - 1] = g[k - 1]
      BY <3>1
    <3>3. CASE k = n + 1
      BY <3>2, <3>3, <2>2
    <3>4. CASE k # n + 1
      <4>1. k \in 1..n
        BY <3>4, <2>2
      <4>2. g[k] = place(g[k - 1], rows[k])
        BY <4>1, <2>1
      <4> QED
        BY <3>1, <3>2, <3>4, <4>2
    <3> QED
      BY <3>3, <3>4
  <2>5. Solves(h, n + 1)
    BY <2>3, <2>4
  <2> QED
    BY <2>2, <2>5
<1>4. N \in P
  <2> HIDE DEF P, N
  <2>1. \A n \in 0..N : n \in P
    BY <1>1, <1>2, <1>3, CountUp
  <2>2. N \in 0..N
    BY <1>1
  <2> QED
    BY <2>1, <2>2
<1>5. PICK g : Solves(g, N)
  BY <1>4
<1> DEFINE Rec(f) == f = [n \in 0..Len(rows) |->
                            IF n = 0 THEN ib ELSE place(f[n - 1], rows[n])]
<1>6. Rec(g)
  <2>1. ASSUME NEW n \in 0..N PROVE g[n] = IF n = 0 THEN ib ELSE place(g[n - 1], rows[n])
    <3>1. n = 0 \/ n \in 1..N
      BY <1>1
    <3> QED
      BY <1>5, <3>1
  <2> QED
    BY <1>5, <2>1
<1>7. update(ib, rows) = (CHOOSE f : Rec(f))[Len(rows)]
  BY DEF update
<1> DEFINE f == CHOOSE f : Rec(f)
<1>8. Rec(f)
  <2> HIDE DEF Rec
  <2> QED
    BY <1>6, Zenon
<1>9. f[0] = ib /\ \A k \in 1..N : f[k] = place(f[k - 1], rows[k])
  <2> HIDE DEF f, Solves
  <2>1. f[0] = ib
    BY <1>1, <1>8
  <2>2. ASSUME NEW k \in 1..N PROVE f[k] = place(f[k - 1], rows[k])
    <3>1. k \in 0..N /\ k # 0
      BY <1>1
    <3> QED
      BY <1>8, <3>1
  <2> QED
    BY <2>1, <2>2
<1>10. update(ib, rows) = f[N]
  BY <1>7
<1> HIDE DEF f, Rec
<1> QED
  BY <1>9, <1>10

(* When the slots suffice, every row finds one, and nobody loses his.      *)
LEMMA Updated ==
  ASSUME NEW ib, OneSlot(ib), NEW w \in BOOLEAN, NEW rows, Len(rows) \in Nat,
         \A i \in 1..Len(rows) : rows[i].seq \in Requests /\ rows[i].view = w,
         NEW all, all \subseteq Requests, Cardinality(all) <= MaxNumSeqs,
         Users(ib) \subseteq all, \A i \in 1..Len(rows) : rows[i].seq \in all
  PROVE  LET jb == update(ib, rows)
             new == {rows[i].seq : i \in 1..Len(rows)}
         IN  /\ OneSlot(jb) /\ Users(jb) = Users(ib) \cup new
             /\ \A s \in Slots : IF jb[s].seq \in new THEN jb[s].view = w ELSE jb[s] = ib[s]
             /\ \A s \in Slots : ib[s].seq \in Requests => jb[s].seq = ib[s].seq
<1> DEFINE N == Len(rows)
           new(n) == {rows[i].seq : i \in 1..n}
           Good(jb, n) == /\ OneSlot(jb) /\ Users(jb) = Users(ib) \cup new(n)
                          /\ \A s \in Slots : IF jb[s].seq \in new(n) THEN jb[s].view = w
                                                                      ELSE jb[s] = ib[s]
                          /\ \A s \in Slots : ib[s].seq \in Requests => jb[s].seq = ib[s].seq
<1>1. PICK f : /\ f[0] = ib /\ update(ib, rows) = f[N]
               /\ \A k \in 1..N : f[k] = place(f[k - 1], rows[k])
  BY UpdateSteps
<1> DEFINE P == {n \in 0..N : Good(f[n], n)}
<1>2. N \in Nat /\ 0 \in 0..N /\ N \in 0..N
  OBVIOUS
<1>3. 0 \in P
  <2>1. new(0) = {}
    OBVIOUS
  <2> HIDE DEF new
  <2>2. Good(ib, 0)
    BY <2>1
  <2> QED
    BY <1>1, <1>2, <2>2
<1>4. ASSUME NEW n \in 0..N - 1, n \in P PROVE n + 1 \in P
  <2> DEFINE x == rows[n + 1]
             jb == f[n]
             kb == place(jb, x)
  <2>1. n \in Nat /\ n + 1 \in 1..N /\ n + 1 \in 0..N /\ n \in 0..N /\ (n + 1) - 1 = n
    BY <1>2
  <2>2. Good(jb, n) /\ f[n + 1] = kb
    BY <1>1, <1>4, <2>1
  <2>3. x.seq \in Requests /\ x.view = w /\ x.seq \in all
    BY <2>1
  <2>4. new(n + 1) = new(n) \cup {x.seq}
    <3>1. 1..n + 1 = (1..n) \cup {n + 1}
      BY <2>1
    <3> QED
      BY <3>1
  <2>5. new(n) \subseteq all
    <3>1. \A i \in 1..n : i \in 1..N
      BY <2>1
    <3> QED
      BY <3>1
  <2> HIDE DEF new, kb, jb, x
  <2>6. OneSlot(jb) /\ Users(jb) \subseteq all
    BY <2>2, <2>5
  <2>7. x.seq \in Users(jb) \/ FreeSlots(jb) # {}
    <3>1. SUFFICES ASSUME x.seq \notin Users(jb), FreeSlots(jb) = {} PROVE FALSE
      OBVIOUS
    <3>2. /\ IsFiniteSet(Users(jb)) /\ Cardinality(Users(jb)) \in Nat
          /\ Cardinality(Users(jb)) = MaxNumSeqs
      BY <2>6, <3>1, SlotCount, FS_EmptySet, ConfigAssumption
    <3>3. Cardinality(Users(jb) \cup {x.seq}) = MaxNumSeqs + 1
      BY <3>1, <3>2, FS_AddElement
    <3>4. IsFiniteSet(all) /\ Cardinality(all) \in Nat
      BY ConfigAssumption, FS_Subset, FS_CardinalityType
    <3>5. Users(jb) \cup {x.seq} \in SUBSET all
      BY <2>3, <2>6
    <3>6. Cardinality(Users(jb) \cup {x.seq}) <= Cardinality(all)
      BY <3>4, <3>5, FS_Subset
    <3> QED
      BY <3>3, <3>4, <3>6, ConfigAssumption
  <2>8. /\ OneSlot(kb) /\ Users(kb) = Users(jb) \cup {x.seq}
        /\ \A s \in Slots : IF kb[s].seq = x.seq THEN kb[s].view = x.view ELSE kb[s] = jb[s]
        /\ \A s \in Slots : jb[s].seq \in Requests => kb[s].seq = jb[s].seq
    BY <2>3, <2>6, <2>7, Placed DEF kb
  <2>9. Good(kb, n + 1)
    <3>1. Users(kb) = Users(ib) \cup new(n + 1)
      BY <2>2, <2>4, <2>8
    <3>2. ASSUME NEW s \in Slots
          PROVE  IF kb[s].seq \in new(n + 1) THEN kb[s].view = w ELSE kb[s] = ib[s]
      BY <2>2, <2>3, <2>4, <2>8
    <3>3. \A s \in Slots : ib[s].seq \in Requests => kb[s].seq = ib[s].seq
      BY <2>2, <2>8
    <3> QED
      BY <2>8, <3>1, <3>2, <3>3
  <2> HIDE DEF Good
  <2> QED
    BY <2>1, <2>2, <2>9
<1>5. N \in P
  <2> HIDE DEF P, N
  <2>1. \A n \in 0..N : n \in P
    BY <1>2, <1>3, <1>4, CountUp
  <2> QED
    BY <1>2, <2>1
<1> QED
  BY <1>1, <1>5

-----------------------------------------------------------------------------
(* Where step() stands, and what the schedulers are doing then             *)

LoopOK ==
  /\ loop \in {"top", "fill", "consume", "lookahead", "execute", "retire"}
  /\ loop \in {"top", "lookahead", "execute"} => phase = "idle"
  /\ loop = "fill" => Serial /\ phase \in {"idle", "decode", "prefill"}
  /\ loop = "consume" => Serial /\ phase \in {"idle", "post"}
  /\ loop = "retire" => ~Serial /\ phase \in {"idle", "commit"}
  /\ loop = "lookahead" => ~Serial
  /\ loop = "execute" => IF Serial THEN batch_queue # <<>> ELSE dispatched # <<>>

(* The engine takes no step that the schedulers on their own could not.    *)
LEMMA EngineIsAsync ==
  ASSUME LoopOK, EngineNext \/ UNCHANGED engineVars
  PROVE  [AsyncNext]_asyncVars
<1>1. CASE UNCHANGED engineVars
  BY <1>1 DEF engineVars
<1>2. ASSUME NEW r \in Requests, add_request(r) PROVE [AsyncNext]_asyncVars
  BY <1>2 DEF add_request, AsyncNext, SerialNext
<1>3. CASE Compute \/ Copy
  BY <1>3 DEF Compute, Copy
<1>4. CASE StepSerial \/ StepBegin \/ StepAsync
  BY <1>4 DEF StepSerial, StepBegin, StepAsync, AsyncNext, CohortNext
<1>5. CASE FillSchedule \/ InSchedule \/ Scheduled \/ ScheduleRaises \/ FillDone
  <2>1. CASE FillSchedule
    BY <2>1 DEF LoopOK, FillSchedule, AsyncNext, SerialNext
  <2>2. CASE InSchedule
    BY <2>2 DEF InSchedule, AsyncNext, SerialNext, Schedule
  <2>3. CASE Scheduled \/ ScheduleRaises
    BY <2>3 DEF Scheduled, ScheduleRaises, AsyncNext, SerialNext, Schedule
  <2>4. CASE FillDone
    BY <2>4 DEF FillDone
  <2> QED
    BY <1>5, <2>1, <2>2, <2>3, <2>4
<1>6. CASE ExecuteOwners \/ ExecuteViews \/ ConsumeNothing
  BY <1>6 DEF ExecuteOwners, ExecuteViews, ConsumeNothing
<1>7. CASE Consume
  <2>1. Serial /\ BeginPostprocess(1) /\ 1 \in 1..Len(batch_queue) /\ UNCHANGED cohortVars
    BY <1>7 DEF LoopOK, Consume, BeginPostprocess
  <2> QED
    BY <2>1 DEF AsyncNext, SerialNext
<1>8. ASSUME NEW eos \in BOOLEAN, PostprocessRow(eos) PROVE [AsyncNext]_asyncVars
  BY <1>8 DEF PostprocessRow, AsyncNext, SerialNext
<1>9. CASE Look \/ LookNothing \/ LookConsume \/ CommitResult \/ LookDone
  BY <1>9 DEF Look, LookNothing, LookConsume, CommitResult, LookDone, AsyncNext, CohortNext
<1>10. ASSUME Step PROVE [AsyncNext]_asyncVars
  BY <1>3, <1>4, <1>5, <1>6, <1>7, <1>8, <1>9, <1>10 DEF Step
<1> QED
  BY <1>1, <1>2, <1>3, <1>10 DEF EngineNext

LEMMA LoopStep ==
  ASSUME AsyncInv, LoopOK, EngineNext \/ UNCHANGED engineVars
  PROVE  LoopOK'
<1> USE DEF LoopOK, Serial
<1>1. CASE UNCHANGED engineVars \/ Compute \/ Copy
  <2>1. UNCHANGED <<loop, phase, live, batch_queue, dispatched>>
    BY <1>1 DEF engineVars, Compute, Copy, asyncVars, vars, cohortVars, driverVars
  <2> QED
    BY <2>1
<1>2. ASSUME NEW r \in Requests, add_request(r) PROVE LoopOK'
  BY <1>2 DEF add_request, add, cohortVars
<1>3. CASE StepSerial \/ StepBegin \/ StepAsync
  <2>1. CASE StepSerial
    BY <2>1 DEF StepSerial, asyncVars, vars, cohortVars
  <2>2. CASE StepBegin
    BY <2>2 DEF StepBegin, begin_async_decode, CanBegin
  <2>3. CASE StepAsync
    BY <2>3 DEF StepAsync, drain_for_arrival, StartDraining, asyncVars, vars, cohortVars
  <2> QED
    BY <1>3, <2>1, <2>2, <2>3
<1>4. CASE FillSchedule \/ ScheduleRaises \/ FillDone
  BY <1>4 DEF FillSchedule, BeginSchedule, ScheduleRaises, RaiseExhausted, ResetCall, FillDone,
              asyncVars, vars, cohortVars
<1>5. CASE InSchedule
  <2>1. loop = "fill" /\ loop' = loop /\ live' = live
    BY <1>5 DEF InSchedule, cohortVars
  <2>2. phase' \in {phase, "prefill"}
    BY <1>5 DEF InSchedule, DecodeRow, DecodePreempt, DecodeDone, PrefillPromote,
                PrefillContinuation, PrefillRow
  <2> QED
    BY <2>1, <2>2
<1>6. CASE Scheduled
  <2>1. phase' = "idle" /\ live' = live /\ live = <<>>
    BY <1>6 DEF Scheduled, Return, ResetCall, cohortVars
  <2>2. ASSUME scheduled_seqs # <<>> PROVE batch_queue' # <<>>
    <3>1. batch_queue \in Seq(Batch) /\ scheduled_seqs \in Seq(Requests)
      BY <2>1, OwnerTypes DEF AsyncInv, NoCohort, Inv
    <3> DEFINE e == [seqs |-> scheduled_seqs,
                     is_prefill |-> \E r \in ToSet(scheduled_seqs) : is_prefill[r]]
    <3>2. batch_queue' = Append(batch_queue, e) /\ e \in Batch
      BY <1>6, <2>2, <3>1 DEF Scheduled, Return, Batch
    <3> HIDE DEF e
    <3> QED
      BY <3>1, <3>2, AppendQueue
  <2> QED
    BY <1>6, <2>1, <2>2 DEF Scheduled
<1>7. CASE ExecuteOwners \/ ExecuteViews \/ ConsumeNothing
  BY <1>7 DEF ExecuteOwners, ExecuteViews, ConsumeNothing, asyncVars, vars, cohortVars
<1>8. CASE Consume
  BY <1>8 DEF Consume, BeginPostprocess, cohortVars
<1>9. ASSUME NEW eos \in BOOLEAN, PostprocessRow(eos) PROVE LoopOK'
  <2>1. PostRow /\ UNCHANGED cohortVars
    BY <1>9 DEF PostprocessRow, Postprocess, PostPartial, PostFinish, PostContinue
  <2>2. phase' \in {"idle", "post"} /\ live' = live
    BY <2>1 DEF PostRow, cohortVars
  <2> QED
    BY <1>9, <2>2 DEF PostprocessRow
<1>10. CASE Look
  <2>1. CASE async_schedule
    <3>1. CohortInv
      BY <1>10, <2>1 DEF AsyncInv, async_schedule, InSchedulableCohort
    <3>2. CohortInv'
      BY <2>1, <3>1, ScheduleCohort
    <3>3. dispatched \in Seq(Views)
      BY <3>1 DEF CohortInv, CohortTypes
    <3>4. Len(dispatched') = Len(dispatched) + 1 /\ Len(dispatched) \in Nat
          /\ dispatched' \in Seq(Views)
      BY <2>1, <3>2, <3>3, LenProperties DEF async_schedule, CohortInv, CohortTypes
    <3>5. dispatched' # <<>>
      BY <3>4, ToSetDef
    <3> QED
      BY <1>10, <2>1, <3>5 DEF Look, async_schedule, LookFurther, InSchedulableCohort
  <2>2. CASE async_schedule_empty
    <3>1. loop = "lookahead" /\ loop' = "lookahead" /\ phase' = phase /\ live' = live
      BY <1>10, <2>2 DEF Look, async_schedule, async_schedule_empty, StartDraining, vars
    <3> QED
      BY <3>1
  <2> QED
    BY <1>10, <2>1, <2>2 DEF Look
<1>11. CASE LookNothing \/ LookConsume
  BY <1>11 DEF LookNothing, LookConsume, end_async_decode, BeginCommit
<1>12. CASE CommitResult
  BY <1>12 DEF CommitResult, DiscardToken, CommitLast, CommitToken, CommitRow
<1>13. CASE LookDone
  BY <1>13 DEF LookDone, end_async_decode, asyncVars, vars, cohortVars
<1> HIDE DEF LoopOK
<1>14. ASSUME Step PROVE LoopOK'
  BY <1>3, <1>4, <1>5, <1>6, <1>7, <1>8, <1>9, <1>10, <1>11, <1>12, <1>13, <1>14 DEF Step
<1> QED
  BY <1>1, <1>2, <1>14 DEF EngineNext

-----------------------------------------------------------------------------
(* What a slot owner has behind it                                         *)

(* A request that decodes has generated a token, and a row in flight       *)
(* computes at least one: a request that starts waiting again still counts *)
(* as a slot owner.                                                        *)
Worked ==
  \A r \in Requests :
    /\ num_tokens[r] >= PromptLen[r]
    /\ r \in ToSet(running) \cup ToSet(live) => num_tokens[r] > PromptLen[r]
    /\ Serial /\ r \in in_flight => num_scheduled_tokens[r] >= 1

LEMMA WorkTypes ==
  ASSUME AsyncInv
  PROVE  /\ waiting \in Seq(Requests) /\ running \in Seq(Requests) /\ live \in Seq(Requests)
         /\ in_flight \subseteq Requests
         /\ num_tokens \in [Requests -> Nat] /\ num_cached_tokens \in [Requests -> Nat]
         /\ num_scheduled_tokens \in [Requests -> Nat]
         /\ status \in [Requests -> {"NEW", "WAITING", "RUNNING", "FINISHED"}]
         /\ \A r \in Requests : PromptLen[r] \in Nat
<1>1. <<>> \in Seq(Requests)
  OBVIOUS
<1> QED
  BY <1>1, ConfigAssumption
     DEF AsyncInv, NoCohort, CohortInv, CohortTypes, Still, Inv, TypeInv, TypeOK, Serial

LEMMA InitWorked == EngineInit => Worked
<1> SUFFICES ASSUME EngineInit PROVE Worked
  OBVIOUS
<1>1. /\ num_tokens = PromptLen /\ running = <<>> /\ live = <<>> /\ in_flight = {}
  BY DEF EngineInit, AsyncInit, Init
<1> QED
  BY <1>1, EmptyQueue, ConfigAssumption DEF Worked

(* The cohort gives its unfinished requests back, all that is in flight.   *)
LEMMA EndOwners ==
  ASSUME CohortInv, end_async_decode
  PROVE  /\ live' = <<>> /\ in_flight' = {} /\ ToSet(running') = in_flight
         /\ in_flight \subseteq ToSet(live) /\ ToSet(running) = {}
         /\ UNCHANGED <<waiting, num_tokens, num_cached_tokens, phase, scheduled_seqs, batch_queue>>
         /\ \A r \in Requests : status'[r] # "FINISHED" => status[r] # "FINISHED"
<1> DEFINE left == Only(live, {r \in Requests : status[r] # "FINISHED"})
<1>1. /\ dispatched = <<>> /\ live' = <<>>
      /\ \A r \in ToSet(live) : pending[r] = 0
      /\ in_flight' = in_flight \ ToSet(live) /\ running' = running \o left
      /\ status' = [r \in Requests |-> IF r \in ToSet(left) THEN "RUNNING" ELSE status[r]]
      /\ UNCHANGED <<waiting, num_tokens, num_cached_tokens, phase, scheduled_seqs, batch_queue>>
  BY DEF end_async_decode, callVars, driverVars
<1>2. CohortTypes /\ Still /\ \A r \in Requests : Account(r)
  BY DEF CohortInv
<1>3. /\ left \in Seq(Requests)
      /\ ToSet(left) = ToSet(live) \cap {r \in Requests : status[r] # "FINISHED"}
      /\ ToSet(live) \subseteq Requests
  BY <1>2, OnlyQueue, ToSetDef DEF CohortTypes
<1> HIDE DEF left
<1>4. running' = left
  <2>1. <<>> \o left = left
    BY <1>3
  <2> QED
    BY <1>1, <1>2, <2>1 DEF Still
<1>5. \A r \in Requests : r \in in_flight <=> r \in ToSet(live) /\ status[r] # "FINISHED"
  BY <1>1, <1>2 DEF Account
<1>6. in_flight \subseteq Requests
  BY <1>2 DEF CohortTypes
<1>7. \A r \in Requests : status'[r] # "FINISHED" => status[r] # "FINISHED"
  BY <1>1, <1>3
<1> QED
  BY <1>1, <1>2, <1>3, <1>4, <1>5, <1>6, <1>7, EmptyQueue DEF Still

(* A prompt's chunk is not empty.                                          *)
LEMMA ChunkPositive ==
  ASSUME NoCohort, phase = "prefill", InPrefillLoop, remaining # 0
  PROVE  chunk(Head(waiting)) \in Nat /\ chunk(Head(waiting)) >= 1
<1>0. PICK r \in Requests : r = Head(waiting)
  BY OwnerTypes, PopLeftQueue DEF InPrefillLoop, NoCohort, Inv
<1>1. /\ num_tokens[r] \in Nat /\ num_cached_tokens[r] \in Nat
      /\ num_cached_tokens[r] < num_tokens[r]
  BY CounterTypes DEF NoCohort, Inv
<1>2. remaining \in Nat /\ remaining >= 1
  <2>1. num_batched_tokens \in 0..MaxNumBatchedTokens /\ MaxNumBatchedTokens \in Nat
    BY ConfigAssumption DEF NoCohort, Inv, TypeInv, TypeOK
  <2> QED
    BY <2>1 DEF remaining
<1>3. num_tokens_left(r) \in Nat /\ num_tokens_left(r) >= 1
  BY <1>1 DEF num_tokens_left
<1> QED
  BY <1>0, <1>2, <1>3 DEF chunk

LEMMA WorkedSerial ==
  ASSUME AsyncInv, NoCohort, Serial, Worked, SerialNext, UNCHANGED cohortVars
  PROVE  Worked'
<1>t. /\ TypeInv /\ live = <<>> /\ live' = <<>> /\ Ownership
  BY DEF NoCohort, Inv, Serial, cohortVars
<1>1. /\ \A r \in Requests : /\ num_tokens[r] >= PromptLen[r]
                             /\ r \in ToSet(running) => num_tokens[r] > PromptLen[r]
                             /\ r \in in_flight => num_scheduled_tokens[r] >= 1
  BY <1>t, EmptyQueue DEF Worked, Serial
<1>2. SUFFICES \A r \in Requests :
        /\ num_tokens'[r] >= PromptLen[r]
        /\ r \in ToSet(running') => num_tokens'[r] > PromptLen[r]
        /\ r \in in_flight' => num_scheduled_tokens'[r] >= 1
  BY <1>t, EmptyQueue DEF Worked
<1>3. CASE UNCHANGED <<num_tokens, num_scheduled_tokens, running, in_flight>>
  BY <1>1, <1>3
<1>4. ASSUME NEW r \in Requests, add(r)
      PROVE  UNCHANGED <<num_tokens, num_scheduled_tokens, running, in_flight>>
  BY <1>4 DEF add
<1>5. ASSUME BeginSchedule \/ DecodeDone \/ PrefillPromote \/ PrefillContinuation \/ RaiseExhausted
               \/ Return \/ \E i \in 1..Len(batch_queue) : BeginPostprocess(i)
      PROVE  UNCHANGED <<num_tokens, num_scheduled_tokens, running, in_flight>>
  BY <1>5 DEF BeginSchedule, DecodeDone, PrefillPromote, PrefillContinuation, RaiseExhausted,
              Return, BeginPostprocess, queueVars, seqVars
<1>6. CASE DecodeRow
  <2>0. PICK r \in Requests : r = Head(running)
    BY <1>t, <1>6, OwnerTypes, PopLeftQueue DEF DecodeRow, InDecodeLoop
  <2>1. ToSet(running) = {r} \cup ToSet(running')
    BY <1>t, <1>6, <2>0, OwnerTypes, PopLeftQueue DEF DecodeRow, InDecodeLoop
  <2>2. /\ in_flight' = in_flight \cup {r} /\ num_tokens' = num_tokens
        /\ num_scheduled_tokens' = [num_scheduled_tokens EXCEPT ![r] = 1]
    BY <1>6, <2>0 DEF DecodeRow
  <2> QED
    BY <1>1, <2>1, <2>2, WorkTypes
<1>7. CASE DecodePreempt
  <2>1. running # <<>> /\ running' = Front(running) /\ in_flight' \subseteq in_flight
        /\ UNCHANGED <<num_tokens, num_scheduled_tokens>>
    BY <1>7 DEF DecodePreempt, InDecodeLoop
  <2>2. ToSet(running') \subseteq ToSet(running)
    BY <1>t, <2>1, OwnerTypes, PopQueue
  <2> QED
    BY <1>1, <2>1, <2>2
<1>8. CASE PrefillRow
  <2>0. PICK r \in Requests : r = Head(waiting)
    BY <1>t, <1>8, OwnerTypes, PopLeftQueue DEF PrefillRow, InPrefillLoop
  <2>1. chunk(r) \in Nat /\ chunk(r) >= 1
    BY <1>8, <2>0, ChunkPositive DEF PrefillRow
  <2>2. /\ in_flight' = in_flight \cup {r} /\ UNCHANGED <<num_tokens, running>>
        /\ num_scheduled_tokens' = [num_scheduled_tokens EXCEPT ![r] = chunk(r)]
    BY <1>8, <2>0 DEF PrefillRow
  <2> QED
    BY <1>1, <2>1, <2>2, WorkTypes
<1>9. ASSUME NEW eos \in BOOLEAN, Postprocess(eos)
      PROVE  \A r \in Requests :
               /\ num_tokens'[r] >= PromptLen[r]
               /\ r \in ToSet(running') => num_tokens'[r] > PromptLen[r]
               /\ r \in in_flight' => num_scheduled_tokens'[r] >= 1
  <2>0. PostRow
    BY <1>9 DEF Postprocess, PostPartial, PostFinish, PostContinue
  <2>1. row \in Requests
    BY <1>t, <2>0, PostRowFacts
  <2>2. /\ in_flight' = in_flight \ {row}
        /\ num_scheduled_tokens' = [num_scheduled_tokens EXCEPT ![row] = 0]
    BY <2>0 DEF PostRow
  <2>3. \/ UNCHANGED <<num_tokens, running>>
        \/ running' = running /\ num_tokens' = [num_tokens EXCEPT ![row] = @ + 1]
        \/ running' = Append(running, row) /\ num_tokens' = [num_tokens EXCEPT ![row] = @ + 1]
    BY <1>9 DEF Postprocess, PostPartial, PostFinish, PostContinue
  <2>4. ToSet(running') \subseteq ToSet(running) \cup {row}
    BY <1>t, <2>1, <2>3, OwnerTypes, AppendQueue
  <2>5. row \in ToSet(running') => row \in ToSet(running) \/ num_tokens'[row] = num_tokens[row] + 1
    BY <2>1, <2>3, WorkTypes
  <2>6. \A r \in Requests : num_tokens'[r] >= num_tokens[r]
    BY <2>1, <2>3, WorkTypes
  <2>7. \A r \in Requests \ {row} : num_scheduled_tokens'[r] = num_scheduled_tokens[r]
    BY <2>1, <2>2, WorkTypes
  <2>8. \A r \in Requests : num_tokens'[r] \in Nat /\ num_tokens[r] \in Nat /\ PromptLen[r] \in Nat
    BY <2>1, <2>3, WorkTypes
  <2> QED
    <3>1. ASSUME NEW r \in Requests, r \in ToSet(running') PROVE num_tokens'[r] > PromptLen[r]
      <4>1. CASE r \in ToSet(running)
        BY <1>1, <2>6, <2>8, <4>1
      <4>2. CASE r \notin ToSet(running)
        <5>1. r = row /\ num_tokens'[r] = num_tokens[r] + 1
          BY <2>4, <2>5, <3>1, <4>2
        <5> QED
          BY <1>1, <2>8, <5>1
      <4> QED
        BY <4>1, <4>2
    <3>2. ASSUME NEW r \in Requests, r \in in_flight' PROVE num_scheduled_tokens'[r] >= 1
      BY <1>1, <2>2, <2>7, <3>2
    <3>3. \A r \in Requests : num_tokens'[r] >= PromptLen[r]
      BY <1>1, <2>6, <2>8
    <3> QED
      BY <3>1, <3>2, <3>3
<1>10. CASE Schedule
  BY <1>3, <1>5, <1>6, <1>7, <1>8, <1>10 DEF Schedule
<1> QED
  BY <1>3, <1>4, <1>5, <1>9, <1>10 DEF SerialNext

LEMMA WorkedStep ==
  ASSUME AsyncInv, Worked, [AsyncNext]_asyncVars
  PROVE  Worked'
<1>q. ASSUME UNCHANGED <<num_tokens, num_scheduled_tokens, running, in_flight, live>>
      PROVE  Worked'
  BY <1>q DEF Worked, Serial
<1>1. CASE UNCHANGED asyncVars
  BY <1>1, <1>q DEF asyncVars, vars, queueVars, seqVars, cohortVars
<1>2. CASE SerialNext /\ UNCHANGED cohortVars
  <2>1. CASE Serial
    BY <1>2, <2>1, WorkedSerial DEF AsyncInv
  <2>2. CASE ~Serial
    <3>1. \E r \in Requests : add(r)
      BY <1>2, <2>2, CohortAlone DEF AsyncInv, CohortInv
    <3> QED
      BY <1>2, <1>q, <3>1 DEF add, cohortVars
  <2> QED
    BY <2>1, <2>2
<1>3. CASE begin_async_decode
  <2>1. /\ live' = running /\ running' = <<>> /\ ~Serial' /\ UNCHANGED num_tokens
    BY <1>3 DEF begin_async_decode, CanBegin, Serial, seqVars
  <2> QED
    BY <2>1, EmptyQueue DEF Worked
<1>4. CASE async_schedule \/ async_schedule_empty \/ drain_for_arrival \/ BeginCommit
  BY <1>4, <1>q DEF async_schedule, async_schedule_empty, drain_for_arrival, StartDraining,
                    BeginCommit, vars, queueVars, seqVars
<1>5. ASSUME DiscardToken \/ \E eos \in BOOLEAN : CommitLast(eos) \/ CommitToken(eos)
      PROVE  Worked'
  <2>1. phase = "commit" /\ CommitRow /\ UNCHANGED <<running, live>>
    BY <1>5 DEF DiscardToken, CommitLast, CommitToken, CommitRow
  <2>2. ~Serial /\ ~Serial'
    <3>1. NoCohort => phase # "commit"
      BY DEF NoCohort, Inv, TypeInv, TypeOK
    <3> QED
      BY <2>1, <3>1 DEF AsyncInv, Serial
  <2>3. committed \in Requests
    BY <2>1, <2>2, CommitOwner DEF AsyncInv
  <2>4. num_tokens' = num_tokens \/ num_tokens' = [num_tokens EXCEPT ![committed] = @ + 1]
    BY <1>5 DEF DiscardToken, CommitLast, CommitToken, AppendToken
  <2>5. \A r \in Requests : /\ num_tokens'[r] >= num_tokens[r]
                            /\ num_tokens'[r] \in Nat /\ num_tokens[r] \in Nat /\ PromptLen[r] \in Nat
    <3> SUFFICES ASSUME NEW r \in Requests
                 PROVE  /\ num_tokens'[r] >= num_tokens[r] /\ num_tokens'[r] \in Nat
                        /\ num_tokens[r] \in Nat /\ PromptLen[r] \in Nat
      OBVIOUS
    <3>1. num_tokens'[r] \in {num_tokens[r], num_tokens[r] + 1}
      BY <2>3, <2>4, WorkTypes
    <3> QED
      BY <3>1, WorkTypes
  <2> QED
    BY <2>1, <2>2, <2>5 DEF Worked
<1>6. CASE end_async_decode
  <2>1. CohortInv
    BY <1>6 DEF AsyncInv, end_async_decode
  <2> QED
    BY <1>6, <2>1, EndOwners, EmptyQueue DEF Worked
<1> QED
  BY <1>1, <1>2, <1>3, <1>4, <1>5, <1>6 DEF AsyncNext, CohortNext

-----------------------------------------------------------------------------
(* Who owns a slot, after each step of the schedulers                      *)

Started(r) == num_cached_tokens[r] > 0 \/ num_completion_tokens(r) > 0

LEMMA OwnersAre ==
  /\ SlotOwners = in_flight \cup ToSet(running) \cup {r \in ToSet(waiting) : Started(r)}
  /\ SlotOwners' = in_flight' \cup ToSet(running') \cup {r \in ToSet(waiting') : Started(r)'}
BY DEF SlotOwners, Started

LEMMA OwnerSets ==
  ASSUME AsyncInv
  PROVE  /\ SlotOwners \subseteq Requests /\ ToSet(waiting) \subseteq Requests
         /\ ToSet(running) \subseteq Requests /\ in_flight \subseteq Requests
BY WorkTypes, ToSetDef, OwnersAre

LEMMA AddOwners ==
  ASSUME AsyncInv, NEW r \in Requests, add(r)
  PROVE  SlotOwners' = SlotOwners
<1>1. num_cached_tokens[r] = 0 /\ num_tokens[r] = PromptLen[r]
  BY DEF add, AsyncInv, NoCohort, CohortInv, Account, Inv, PolicyInv, Untouched
<1>2. ~Started(r) /\ r \in Requests
  BY <1>1, WorkTypes DEF Started, num_completion_tokens
<1>3. ToSet(waiting') = ToSet(waiting) \cup {r}
  BY WorkTypes, AppendQueue DEF add
<1>4. UNCHANGED <<in_flight, running, num_cached_tokens, num_tokens>>
  BY DEF add
<1>5. \A q : Started(q)' <=> Started(q)
  BY <1>4 DEF Started, num_completion_tokens
<1> HIDE DEF Started
<1> QED
  BY <1>2, <1>3, <1>4, <1>5, OwnersAre

(* The steps of schedule() that dispatch no prompt, and its end.           *)
LEMMA SameOwners ==
  ASSUME AsyncInv, UNCHANGED <<in_flight, running, num_cached_tokens, num_tokens>>,
         ToSet(waiting') = ToSet(waiting)
  PROVE  SlotOwners' = SlotOwners
<1>1. \A q : Started(q)' <=> Started(q)
  BY DEF Started, num_completion_tokens
<1> HIDE DEF Started
<1> QED
  BY <1>1, OwnersAre

LEMMA BeginOwners ==
  ASSUME AsyncInv, begin_async_decode
  PROVE  SlotOwners' = SlotOwners
<1>1. /\ in_flight = {} /\ in_flight' = ToSet(running) /\ running' = <<>> /\ waiting' = waiting
      /\ UNCHANGED <<num_cached_tokens, num_tokens>>
  BY DEF begin_async_decode, CanBegin, seqVars
<1>2. \A q : Started(q)' <=> Started(q)
  BY <1>1 DEF Started, num_completion_tokens
<1> HIDE DEF Started
<1> QED
  BY <1>1, <1>2, EmptyQueue, OwnersAre

LEMMA QuietOwners ==
  ASSUME AsyncInv,
         BeginSchedule \/ DecodeDone \/ PrefillPromote \/ PrefillContinuation \/ RaiseExhausted
           \/ Return \/ \E i \in 1..Len(batch_queue) : BeginPostprocess(i)
  PROVE  SlotOwners' = SlotOwners
<1>1. UNCHANGED <<in_flight, running, num_cached_tokens, num_tokens>>
  BY DEF BeginSchedule, DecodeDone, PrefillPromote, PrefillContinuation, RaiseExhausted, Return,
         BeginPostprocess, queueVars, seqVars
<1>2. waiting' = waiting \/ \E i \in 1..Len(waiting) : waiting' = MoveToFront(waiting, i)
  BY DEF BeginSchedule, DecodeDone, PrefillPromote, PrefillContinuation, RaiseExhausted, Return,
         BeginPostprocess, queueVars
<1>3. ToSet(waiting') = ToSet(waiting)
  BY <1>2, WorkTypes, MoveToFrontQueue
<1> QED
  BY <1>1, <1>3, SameOwners

LEMMA DecodeRowOwners ==
  ASSUME NoCohort, DecodeRow
  PROVE  SlotOwners' = SlotOwners
<1>1. TypeInv /\ running # <<>>
  BY DEF NoCohort, Inv, DecodeRow, InDecodeLoop
<1>2. /\ ToSet(running) = {Head(running)} \cup ToSet(running')
      /\ in_flight' = in_flight \cup {Head(running)}
      /\ UNCHANGED <<waiting, num_cached_tokens, num_tokens>>
  BY <1>1, OwnerTypes, PopLeftQueue DEF DecodeRow
<1>3. \A q : Started(q)' <=> Started(q)
  BY <1>2 DEF Started, num_completion_tokens
<1> HIDE DEF Started
<1> QED
  BY <1>2, <1>3, OwnersAre

(* A preempted request has tokens of its own: it keeps its slot.           *)
LEMMA PreemptOwners ==
  ASSUME NoCohort, Serial, Worked, DecodePreempt
  PROVE  SlotOwners' = SlotOwners
<1>1. TypeInv /\ Ownership /\ running # <<>>
  BY DEF NoCohort, Inv, DecodePreempt, InDecodeLoop
<1>2. PICK v \in Requests : v = Last(running)
  BY <1>1, OwnerTypes, PopQueue
<1>3. /\ ToSet(running) = {v} \cup ToSet(running') /\ v \in ToSet(running)
      /\ in_flight' = in_flight \ {v}
      /\ num_cached_tokens' = [num_cached_tokens EXCEPT ![v] = 0]
      /\ UNCHANGED num_tokens
  BY <1>1, <1>2, OwnerTypes, PopQueue DEF DecodePreempt
<1>4. ToSet(waiting') = ToSet(waiting) \cup {v}
  BY <1>1, <1>2, OwnerTypes, AppendLeftQueue DEF DecodePreempt
<1>5. v \notin in_flight /\ v \notin ToSet(waiting)
  BY <1>1, <1>3 DEF Ownership, OneOwner
<1>6. \A q \in Requests \ {v} : Started(q)' <=> Started(q)
  <2>1. num_cached_tokens \in [Requests -> Nat]
    BY <1>1 DEF TypeInv, TypeOK
  <2> QED
    BY <1>3, <2>1 DEF Started, num_completion_tokens
<1>7. Started(v)'
  <2>1. num_tokens[v] > PromptLen[v] /\ num_tokens[v] \in Nat /\ PromptLen[v] \in Nat
    BY <1>1, <1>3, ConfigAssumption DEF Worked, TypeInv, TypeOK
  <2> QED
    BY <1>3, <2>1 DEF Started, num_completion_tokens
<1>8. ToSet(waiting) \subseteq Requests
  BY <1>1, OwnerTypes
<1> HIDE DEF Started
<1> QED
  BY <1>3, <1>4, <1>5, <1>6, <1>7, <1>8, OwnersAre

LEMMA PrefillOwners ==
  ASSUME NoCohort, PrefillRow
  PROVE  /\ Head(waiting) \in Requests /\ SlotOwners' = SlotOwners \cup {Head(waiting)}
         /\ scheduled_seqs' = Append(scheduled_seqs, Head(waiting))
<1>1. TypeInv /\ Ownership /\ waiting # <<>>
  BY DEF NoCohort, Inv, PrefillRow, InPrefillLoop
<1>2. PICK r \in Requests : r = Head(waiting)
  BY <1>1, OwnerTypes, PopLeftQueue
<1>3. /\ ToSet(waiting) = {r} \cup ToSet(waiting') /\ r \notin ToSet(waiting')
      /\ in_flight' = in_flight \cup {r} /\ UNCHANGED <<running, num_tokens>>
      /\ \/ UNCHANGED num_cached_tokens
         \/ num_cached_tokens' = [num_cached_tokens EXCEPT ![r] = 0]
      /\ scheduled_seqs' = Append(scheduled_seqs, r)
  BY <1>1, <1>2, OwnerTypes, PopLeftQueue DEF PrefillRow, Ownership, OneOwner
<1>4. \A q \in Requests \ {r} : Started(q)' <=> Started(q)
  <2>1. num_cached_tokens \in [Requests -> Nat]
    BY <1>1 DEF TypeInv, TypeOK
  <2> QED
    BY <1>3, <2>1 DEF Started, num_completion_tokens
<1>5. ToSet(waiting) \subseteq Requests
  BY <1>1, OwnerTypes
<1> HIDE DEF Started
<1> QED
  BY <1>2, <1>3, <1>4, <1>5, OwnersAre

(* A row's result: only its end takes the slot away.                       *)
LEMMA PostOwners ==
  ASSUME NoCohort, Serial, Worked, NEW eos \in BOOLEAN, Postprocess(eos)
  PROVE  /\ row \in Requests
         /\ PostFinish(eos) => SlotOwners' = SlotOwners \ {row}
         /\ PostPartial \/ PostContinue(eos) => SlotOwners' = SlotOwners
         /\ row \in SlotOwners
<1>1. TypeInv /\ Ownership /\ PostRow
  BY DEF NoCohort, Inv, Postprocess, PostPartial, PostFinish, PostContinue
<1>2. PICK r \in Requests : r = row
  BY <1>1, PostRowFacts
<1>3. r \in ToSet(batch.seqs) /\ in_flight' = in_flight \ {r} /\ consumed(r) \in Nat
  BY <1>1, <1>2, PostRowFacts DEF PostRow
<1>4. r \in in_flight /\ r \notin ToSet(waiting) /\ r \notin ToSet(running)
  BY <1>1, <1>3 DEF Ownership, OneOwner, OneRowPerFlight
<1>5. /\ \/ PostPartial /\ UNCHANGED <<running, num_tokens>>
              /\ num_cached_tokens' = [num_cached_tokens EXCEPT ![r] = consumed(r)]
              /\ waiting' = Append(waiting, r)
         \/ PostFinish(eos) /\ UNCHANGED <<waiting, running>>
              /\ num_cached_tokens' = [num_cached_tokens EXCEPT ![r] = 0]
              /\ num_tokens' = [num_tokens EXCEPT ![r] = @ + 1]
         \/ PostContinue(eos) /\ UNCHANGED waiting /\ running' = Append(running, r)
              /\ num_cached_tokens' = [num_cached_tokens EXCEPT ![r] = consumed(r)]
              /\ num_tokens' = [num_tokens EXCEPT ![r] = @ + 1]
  BY <1>2 DEF Postprocess, PostPartial, PostFinish, PostContinue
<1>6. \A q \in Requests \ {r} : Started(q)' <=> Started(q)
  <2>1. num_cached_tokens \in [Requests -> Nat] /\ num_tokens \in [Requests -> Nat]
    BY <1>1 DEF TypeInv, TypeOK
  <2> QED
    BY <1>5, <2>1 DEF Started, num_completion_tokens
<1>7. /\ ToSet(Append(waiting, r)) = ToSet(waiting) \cup {r}
      /\ ToSet(Append(running, r)) = ToSet(running) \cup {r}
      /\ ToSet(waiting) \subseteq Requests
  BY <1>1, OwnerTypes, AppendQueue
<1>8. ASSUME PostPartial PROVE Started(r)'
  <2>1. num_cached_tokens' = [num_cached_tokens EXCEPT ![r] = consumed(r)]
    BY <1>2, <1>8 DEF PostPartial
  <2>2. /\ num_cached_tokens \in [Requests -> Nat] /\ num_scheduled_tokens \in [Requests -> Nat]
        /\ num_scheduled_tokens[r] >= 1
    BY <1>1, <1>4 DEF TypeInv, TypeOK, Worked
  <2>3. num_cached_tokens'[r] > 0
    BY <2>1, <2>2 DEF consumed
  <2> QED
    BY <2>3 DEF Started
<1>9. ~(PostFinish(eos) /\ PostPartial) /\ ~(PostFinish(eos) /\ PostContinue(eos))
  BY DEF PostFinish, PostPartial, PostContinue
<1>10. ASSUME PostFinish(eos) PROVE SlotOwners' = SlotOwners \ {r}
  <2>1. UNCHANGED <<waiting, running>>
    BY <1>10 DEF PostFinish
  <2> HIDE DEF Started
  <2> QED
    BY <1>3, <1>4, <1>6, <1>7, <2>1, OwnersAre
<1>11. ASSUME PostPartial PROVE SlotOwners' = SlotOwners
  <2>1. waiting' = Append(waiting, r) /\ UNCHANGED running
    BY <1>2, <1>11 DEF PostPartial
  <2> HIDE DEF Started
  <2> QED
    BY <1>3, <1>4, <1>6, <1>7, <1>8, <1>11, <2>1, OwnersAre
<1>12. ASSUME PostContinue(eos) PROVE SlotOwners' = SlotOwners
  <2>1. running' = Append(running, r) /\ UNCHANGED waiting
    BY <1>2, <1>12 DEF PostContinue
  <2> HIDE DEF Started
  <2> QED
    BY <1>3, <1>4, <1>6, <1>7, <2>1, OwnersAre
<1> QED
  BY <1>2, <1>4, <1>10, <1>11, <1>12, OwnersAre

(* A view's result: the last view of a request that has ended.             *)
LEMMA CommitOwners ==
  ASSUME CohortInv, DiscardToken \/ \E eos \in BOOLEAN : CommitLast(eos) \/ CommitToken(eos)
  PROVE  /\ committed \in Requests
         /\ SlotOwners' = IF committed \in in_flight' THEN SlotOwners ELSE SlotOwners \ {committed}
         /\ \A q \in Requests \ {committed} : status'[q] = status[q]
<1>1. CommitRow /\ CohortTypes
  BY DEF DiscardToken, CommitLast, CommitToken, CohortInv
<1>2. PICK c \in Requests : c = committed
  BY <1>1, CommitOwner
<1>3. c \in in_flight /\ c \notin ToSet(waiting) /\ ToSet(running) = {} /\ UNCHANGED <<waiting, running>>
  BY <1>1, <1>2, CommitOwner, EmptyQueue DEF CommitRow, CohortInv, Still
<1>4. /\ in_flight' = in_flight \/ in_flight' = in_flight \ {c}
      /\ num_tokens' = num_tokens \/ num_tokens' = [num_tokens EXCEPT ![c] = @ + 1]
      /\ \/ num_cached_tokens' = num_cached_tokens
         \/ num_cached_tokens' = [num_cached_tokens EXCEPT ![c] = 0]
         \/ num_cached_tokens' = [num_cached_tokens EXCEPT ![c] = @ + 1]
      /\ status' = status \/ status' = [status EXCEPT ![c] = "FINISHED"]
  BY <1>2 DEF DiscardToken, CommitLast, CommitToken, AppendToken, Retire
<1>5. /\ num_tokens \in [Requests -> Nat] /\ num_cached_tokens \in [Requests -> Nat]
      /\ status \in [Requests -> {"NEW", "WAITING", "RUNNING", "FINISHED"}]
      /\ waiting \in Seq(Requests)
  BY <1>1 DEF CohortTypes
<1>6. \A q \in Requests \ {c} : /\ num_tokens'[q] = num_tokens[q]
                                /\ num_cached_tokens'[q] = num_cached_tokens[q]
                                /\ status'[q] = status[q]
  BY <1>4, <1>5
<1>7. \A q \in Requests \ {c} : Started(q)' <=> Started(q)
  BY <1>6 DEF Started, num_completion_tokens
<1>8. ToSet(waiting) \subseteq Requests
  BY <1>5, ToSetDef
<1> HIDE DEF Started
<1>9. CASE in_flight' = in_flight
  BY <1>2, <1>3, <1>6, <1>7, <1>8, <1>9, OwnersAre
<1>10. CASE in_flight' = in_flight \ {c}
  BY <1>2, <1>3, <1>6, <1>7, <1>8, <1>10, OwnersAre
<1> QED
  BY <1>4, <1>9, <1>10

LEMMA ReleasedOwners ==
  ASSUME CohortInv, end_async_decode
  PROVE  SlotOwners' = SlotOwners
<1>1. /\ in_flight' = {} /\ ToSet(running') = in_flight /\ ToSet(running) = {}
      /\ UNCHANGED <<waiting, num_tokens, num_cached_tokens>>
  BY EndOwners
<1>2. \A q : Started(q)' <=> Started(q)
  BY <1>1 DEF Started, num_completion_tokens
<1> HIDE DEF Started
<1> QED
  BY <1>1, <1>2, OwnersAre

-----------------------------------------------------------------------------
(* The slots                                                               *)

(* Rows that own a slot and have not been given one yet: they are in the   *)
(* batch being scheduled, or in the one about to be executed.              *)
Unslotted ==
  IF loop = "fill" THEN ToSet(scheduled_seqs)
  ELSE IF loop = "execute" /\ Serial THEN ToSet(Last(batch_queue).seqs)
  ELSE {}

SlotsHeld ==
  /\ Users(input_batch) \subseteq SlotOwners
  /\ SlotOwners \subseteq Users(input_batch) \cup Unslotted

(* The batches of views the runner has been given.                         *)
Executed == IF loop = "execute" THEN Len(dispatched) - 1 ELSE Len(dispatched)

Seen(r) ==
  \/ RowsOf(r, views) # {}
  \/ \E i \in 1..Executed : RowsOf(r, dispatched[i]) # {}

(* While a request that has ended waits for its last views, what its slot  *)
(* holds is a view: remove_finished() leaves it alone.                     *)
ViewSlots ==
  ~Serial =>
    \A s \in Slots : \A r \in Requests :
      input_batch[s].seq = r /\ (Seen(r) \/ status[r] = "FINISHED") => input_batch[s].view

SlotInv == OneSlot(input_batch) /\ SlotsHeld /\ ViewSlots

EngineInv == AsyncInv /\ LoopOK /\ Worked /\ SlotInv

LEMMA InitEngineInv == EngineInit => EngineInv
<1> SUFFICES ASSUME EngineInit PROVE EngineInv
  OBVIOUS
<1>1. AsyncInv /\ Worked
  BY InitAsyncInv, InitWorked DEF EngineInit
<1>2. LoopOK
  BY DEF EngineInit, AsyncInit, Init, LoopOK
<1>3. /\ input_batch = [s \in Slots |-> Vacant] /\ loop = "top" /\ Serial
      /\ waiting = <<>> /\ running = <<>> /\ in_flight = {}
  BY DEF EngineInit, AsyncInit, Init, RunnerInit, Serial
<1>4. Vacant.seq \notin Requests
  BY NoneAssumption DEF Vacant
<1>5. OneSlot(input_batch) /\ Users(input_batch) = {}
  BY <1>3, <1>4 DEF OneSlot, Users
<1>6. SlotOwners = {}
  BY <1>3, EmptyQueue DEF SlotOwners
<1> QED
  BY <1>1, <1>2, <1>3, <1>5, <1>6 DEF EngineInv, SlotInv, SlotsHeld, ViewSlots

(* remove_finished() removes nothing: every request leaves by name.        *)
LEMMA NoneToRemove ==
  ASSUME EngineInv, loop = "execute"
  PROVE  remove_finished(Finished) = input_batch
<1>1. OneSlot(input_batch) /\ SlotsHeld /\ ViewSlots
  BY DEF EngineInv, SlotInv
<1>2. ASSUME NEW s \in Slots, input_batch[s].seq \in Finished, ~input_batch[s].view
      PROVE  FALSE
  <2> DEFINE r == input_batch[s].seq
  <2>1. r \in Requests /\ status[r] = "FINISHED" /\ r \in Users(input_batch)
    BY <1>2 DEF Finished, Users
  <2>2. CASE ~Serial
    BY <1>1, <1>2, <2>1, <2>2 DEF ViewSlots
  <2>3. CASE Serial
    <3>1. OneOwner /\ r \in SlotOwners
      BY <1>1, <2>1, <2>3 DEF SlotsHeld, EngineInv, AsyncInv, NoCohort, Inv, Ownership
    <3>2. r \in in_flight \cup ToSet(waiting) \cup ToSet(running)
      BY <3>1 DEF SlotOwners
    <3> QED
      BY <2>1, <3>1, <3>2 DEF OneOwner
  <2> QED
    BY <2>2, <2>3
<1>3. input_batch = [s \in Slots |-> input_batch[s]]
  BY <1>1 DEF OneSlot
<1> QED
  BY <1>2, <1>3 DEF remove_finished

(* A view on its way belongs to a slot owner of the cohort.                *)
LEMMA OutstandingOwner ==
  ASSUME CohortInv, phase = "idle", NEW i \in 1..Len(dispatched), NEW k \in 1..Len(dispatched[i])
  PROVE  LET r == dispatched[i][k].seq IN
           r \in Requests /\ r \in ToSet(live) /\ r \in in_flight /\ RowsOf(r, dispatched[i]) # {}
<1> DEFINE b == dispatched[i]
<1>1. /\ CohortTypes /\ Shape /\ Len(dispatched) \in Nat /\ Len(dispatched) <= 2
  BY LenProperties DEF CohortInv, CohortTypes, Shape
<1>2. b \in Views
  BY <1>1, ElementOfSeq DEF CohortTypes
<1>3. PICK r \in Requests : r = b[k].seq /\ b[k] \in RowsOf(r, b)
  BY <1>2, RowsOfTypes
<1>4. b = Older \/ b = Newer
  <2>1. i = 1 \/ i = 2
    BY <1>1
  <2>2. dispatched # <<>>
    BY <1>1, ToSetDef DEF CohortTypes
  <2>3. Older = dispatched[1]
    BY <2>2 DEF Older
  <2>4. i = 2 => Newer = dispatched[2]
    BY <1>1 DEF Newer
  <2> QED
    BY <2>1, <2>3, <2>4
<1>5. Account(r) /\ OnItsWay(r) /\ pending[r] \in 0..2
  BY <1>1 DEF CohortInv, CohortTypes
<1>6. pending[r] # 0
  <2>1. Count(RowsOf(r, Older)) \in {0, 1} /\ Count(RowsOf(r, Newer)) \in {0, 1}
        /\ (Count(RowsOf(r, Older)) = 1 \/ Count(RowsOf(r, Newer)) = 1)
    BY <1>3, <1>4 DEF Count
  <2> QED
    BY <1>5, <2>1 DEF OnItsWay, Flight
<1>7. r \in ToSet(live) /\ r \in in_flight
  BY <1>5, <1>6 DEF Account
<1> QED
  BY <1>3, <1>7

(* So its request has a slot.                                              *)
LEMMA ViewsHaveSlots ==
  ASSUME EngineInv, ~Serial, phase = "idle", loop # "fill",
         NEW i \in 1..Len(dispatched), NEW k \in 1..Len(dispatched[i])
  PROVE  dispatched[i][k].seq \in Users(input_batch)
<1>1. dispatched[i][k].seq \in SlotOwners
  BY OutstandingOwner DEF EngineInv, AsyncInv, SlotOwners
<1>2. Unslotted = {}
  BY DEF Unslotted
<1> QED
  BY <1>1, <1>2 DEF EngineInv, SlotInv, SlotsHeld

(* The batch about to be executed, of requests or of views.                *)
LEMMA OwnersToRun ==
  ASSUME EngineInv, Serial, loop = "execute"
  PROVE  LET q == Last(batch_queue).seqs
         IN  /\ q \in Seq(Requests) /\ ToSet(q) \subseteq SlotOwners /\ Unslotted = ToSet(q)
             /\ Cardinality(SlotOwners) <= MaxNumSeqs /\ SlotOwners \subseteq Requests
             /\ scheduled_seqs = <<>>
<1>1. /\ TypeInv /\ Ownership /\ SlotsBounded /\ batch_queue # <<>> /\ phase = "idle"
  BY DEF EngineInv, AsyncInv, NoCohort, Inv, LoopOK, PolicyInv
<1>2. Last(batch_queue) = batch_queue[Len(batch_queue)] /\ Len(batch_queue) \in 1..Len(batch_queue)
  BY <1>1, OwnerTypes, ToSetDef DEF Last
<1>3. /\ Last(batch_queue).seqs \in Seq(Requests)
      /\ ToSet(Last(batch_queue).seqs) \subseteq in_flight
  BY <1>1, <1>2, OwnerTypes DEF Ownership, OneRowPerFlight
<1>4. SlotOwners \subseteq Requests
  BY <1>1, SlotTypes
<1>5. scheduled_seqs = <<>>
  BY <1>1 DEF TypeInv, PhaseOK
<1> QED
  BY <1>1, <1>3, <1>4, <1>5 DEF Unslotted, SlotOwners, SlotsBounded

LEMMA ViewsToRun ==
  ASSUME EngineInv, ~Serial, loop = "execute"
  PROVE  LET b == Last(dispatched)
         IN  /\ b = dispatched[Len(dispatched)] /\ Len(dispatched) \in 1..Len(dispatched)
             /\ Len(dispatched) \in Nat
             /\ b \in Views /\ Len(b) \in Nat /\ DOMAIN b = 1..Len(b)
             /\ \A k \in 1..Len(b) : b[k].seq \in Users(input_batch)
             /\ ToSet(b) = {b[k] : k \in 1..Len(b)}
<1> DEFINE b == Last(dispatched)
<1>1. CohortTypes /\ dispatched # <<>> /\ phase = "idle"
  BY DEF EngineInv, AsyncInv, CohortInv, LoopOK
<1>2. /\ b = dispatched[Len(dispatched)] /\ Len(dispatched) \in 1..Len(dispatched)
      /\ Len(dispatched) \in Nat
  BY <1>1, ToSetDef DEF CohortTypes, Last
<1>3. b \in Views
  BY <1>1, <1>2, ElementOfSeq DEF CohortTypes
<1>4. \A k \in 1..Len(b) : b[k].seq \in Users(input_batch)
  BY <1>1, <1>2, ViewsHaveSlots
<1>5. Len(b) \in Nat /\ DOMAIN b = 1..Len(b) /\ ToSet(b) = {b[k] : k \in 1..Len(b)}
  BY <1>3, LenProperties, ToSetDef DEF Views
<1> QED
  BY <1>2, <1>3, <1>4, <1>5

-----------------------------------------------------------------------------
(* The steps                                                               *)

LEMMA KeepSlots ==
  ASSUME EngineInv, input_batch' = input_batch, SlotOwners' = SlotOwners,
         Unslotted \subseteq Unslotted'
  PROVE  OneSlot(input_batch)' /\ SlotsHeld'
<1>1. OneSlot(input_batch) /\ SlotsHeld
  BY DEF EngineInv, SlotInv
<1>2. OneSlot(input_batch)'
  BY <1>1 DEF OneSlot, Slots, Vacant, Held
<1>3. Users(input_batch)' = Users(input_batch)
  BY DEF Users, Slots
<1> QED
  BY <1>1, <1>2, <1>3 DEF SlotsHeld

(* A step that lets no slot be taken keeps them views.                     *)
LEMMA KeepViewSlots ==
  ASSUME EngineInv,
         \A s \in Slots : input_batch'[s].seq \in Requests => input_batch'[s] = input_batch[s],
         ~Serial' => /\ ~Serial
                     /\ \A r \in Requests : Seen(r)' \/ status'[r] = "FINISHED"
                                              => Seen(r) \/ status[r] = "FINISHED"
  PROVE  ViewSlots'
BY DEF EngineInv, SlotInv, ViewSlots, Slots

LEMMA KeepSlotInv ==
  ASSUME EngineInv, input_batch' = input_batch, SlotOwners' = SlotOwners,
         Unslotted \subseteq Unslotted',
         ~Serial' => /\ ~Serial
                     /\ \A r \in Requests : Seen(r)' \/ status'[r] = "FINISHED"
                                              => Seen(r) \/ status[r] = "FINISHED"
  PROVE  SlotInv'
BY KeepSlots, KeepViewSlots DEF SlotInv

LEMMA IdleSlots ==
  ASSUME EngineInv, UNCHANGED <<asyncVars, input_batch>>,
         Unslotted \subseteq Unslotted', Executed' <= Executed
  PROVE  SlotInv'
<1>1. /\ UNCHANGED <<in_flight, running, num_cached_tokens, num_tokens, waiting, status, live,
                     dispatched, views>>
  BY DEF asyncVars, vars, queueVars, seqVars, cohortVars
<1>2. SlotOwners' = SlotOwners
  BY <1>1, SameOwners DEF EngineInv
<1>3. ASSUME NEW r, Seen(r)', ~Serial PROVE Seen(r)
  <2>1. RowsOf(r, views)' = RowsOf(r, views)
    BY <1>1 DEF RowsOf
  <2>2. \A i \in 1..Executed : RowsOf(r, dispatched[i])' = RowsOf(r, dispatched[i])
    BY <1>1 DEF RowsOf
  <2>3. Executed \in Int /\ Executed' \in Int
    <3>1. dispatched \in Seq(Views)
      BY <1>3 DEF EngineInv, AsyncInv, CohortInv, CohortTypes
    <3>2. Len(dispatched) \in Nat
      BY <3>1, LenProperties
    <3> QED
      BY <1>1, <3>2 DEF Executed
  <2>4. \A i \in 1..Executed' : i \in 1..Executed
    BY <2>3
  <2>5. \A i : RowsOf(r, dispatched[i])' = RowsOf(r, dispatched[i])
    BY <1>1 DEF RowsOf
  <2> QED
    BY <1>3, <2>1, <2>4, <2>5 DEF Seen
<1>4. Serial' = Serial
  BY <1>1 DEF Serial
<1> QED
  BY <1>1, <1>2, <1>3, <1>4, KeepSlotInv

LEMMA AddSlots ==
  ASSUME EngineInv, NEW r \in Requests, add_request(r)
  PROVE  SlotInv'
<1>1. /\ add(r) /\ UNCHANGED <<live, dispatched, views, loop, input_batch>>
      /\ UNCHANGED <<scheduled_seqs, batch_queue>>
  BY DEF add_request, add, cohortVars, runnerVars, hostVars, callVars, driverVars
<1>2. SlotOwners' = SlotOwners
  BY <1>1, AddOwners DEF EngineInv
<1>3. Unslotted' = Unslotted /\ Serial' = Serial
  BY <1>1 DEF Unslotted, Serial
<1>4. \A q : Seen(q)' <=> Seen(q)
  BY <1>1 DEF Seen, RowsOf, Executed
<1>5. \A q \in Requests : status'[q] = "FINISHED" => status[q] = "FINISHED"
  BY <1>1, WorkTypes DEF add, EngineInv
<1> QED
  BY <1>1, <1>2, <1>3, <1>4, <1>5, KeepSlotInv

(* The choice of a path.                                                   *)
LEMMA ChosenSlots ==
  ASSUME EngineInv, StepSerial \/ StepBegin \/ StepAsync
  PROVE  SlotInv'
<1>1. Unslotted = {} /\ Executed = Len(dispatched) /\ loop = "top"
  BY DEF StepSerial, StepBegin, StepAsync, Unslotted, Executed
<1>2. CASE StepSerial
  <2>1. UNCHANGED <<asyncVars, input_batch>> /\ loop' = "fill"
    BY <1>2 DEF StepSerial, runnerVars, hostVars
  <2>2. Executed' <= Executed
    <3>1. Len(dispatched) \in Nat
      BY ToSetDef DEF EngineInv, AsyncInv, NoCohort, CohortInv, CohortTypes
    <3> QED
      BY <1>1, <2>1, <3>1 DEF Executed, asyncVars, cohortVars
  <2> QED
    BY <1>1, <2>1, <2>2, IdleSlots
<1>3. CASE StepBegin
  <2>1. /\ begin_async_decode /\ input_batch' = input_batch /\ views' = views /\ dispatched' = <<>>
        /\ Serial /\ loop' = "lookahead" /\ status' = status
    BY <1>3 DEF StepBegin, begin_async_decode, CanBegin, runnerVars, hostVars, seqVars
  <2>2. SlotOwners' = SlotOwners
    BY <2>1, BeginOwners DEF EngineInv
  <2>3. NoCohort /\ OneOwner
    BY <2>1 DEF EngineInv, AsyncInv, NoCohort, Inv, Ownership
  <2>4. OneSlot(input_batch)' /\ SlotsHeld'
    BY <1>1, <2>1, <2>2, KeepSlots
  <2>5. \A r : ~Seen(r)'
    <3>1. views' = <<>> /\ Executed' = 0
      BY <2>1, <2>3 DEF NoCohort, Executed
    <3>2. 1..0 = {}
      OBVIOUS
    <3>3. \A r : RowsOf(r, views)' = {}
      BY <3>1, NoRows DEF RowsOf
    <3> QED
      BY <3>1, <3>2, <3>3 DEF Seen
  <2>6. \A r \in SlotOwners : status[r] # "FINISHED"
    <3>1. \A r \in SlotOwners : r \in Requests /\ r \in in_flight \cup ToSet(waiting) \cup ToSet(running)
      BY OwnerSets DEF EngineInv, SlotOwners
    <3> QED
      BY <2>3, <3>1 DEF OneOwner
  <2>7. ViewSlots'
    <3>1. \A s \in Slots : \A r \in Requests : input_batch[s].seq = r => r \in SlotOwners
      BY <2>1 DEF EngineInv, SlotInv, SlotsHeld, Users
    <3> QED
      BY <2>1, <2>5, <2>6, <3>1 DEF ViewSlots, Slots
  <2> QED
    BY <2>4, <2>7 DEF SlotInv
<1>4. CASE StepAsync
  <2>1. /\ ~Serial /\ input_batch' = input_batch /\ loop' = "lookahead"
        /\ UNCHANGED <<in_flight, running, num_cached_tokens, num_tokens, waiting, status, live,
                       dispatched, views>>
    BY <1>4 DEF StepAsync, drain_for_arrival, StartDraining, asyncVars, vars, queueVars, seqVars,
                cohortVars, runnerVars, hostVars
  <2>2. SlotOwners' = SlotOwners
    BY <2>1, SameOwners DEF EngineInv
  <2>3. \A r : Seen(r)' <=> Seen(r)
    BY <1>1, <2>1 DEF Seen, RowsOf, Executed
  <2> QED
    BY <1>1, <2>1, <2>2, <2>3, KeepSlotInv DEF Serial
<1> QED
  BY <1>2, <1>3, <1>4

(* schedule()                                                              *)
LEMMA FillingSlots ==
  ASSUME EngineInv, FillSchedule \/ InSchedule \/ Scheduled \/ ScheduleRaises \/ FillDone
  PROVE  SlotInv'
<1>1. /\ loop = "fill" /\ Serial /\ Serial' /\ NoCohort /\ AsyncInv /\ Worked
      /\ Unslotted = ToSet(scheduled_seqs) /\ input_batch' = input_batch
      /\ TypeInv
  BY DEF EngineInv, AsyncInv, LoopOK, Unslotted, FillSchedule, InSchedule, Scheduled,
         ScheduleRaises, FillDone, Serial, asyncVars, cohortVars, runnerVars, hostVars,
         NoCohort, Inv
<1>2. ViewSlots' /\ OneSlot(input_batch)
  BY <1>1 DEF ViewSlots, EngineInv, SlotInv
<1>3. ASSUME SlotOwners' = SlotOwners, Unslotted \subseteq Unslotted' PROVE SlotInv'
  BY <1>1, <1>2, <1>3, KeepSlots DEF SlotInv
<1>4. CASE FillSchedule
  <2>1. BeginSchedule /\ loop' = "fill" /\ scheduled_seqs' = scheduled_seqs
    BY <1>4 DEF FillSchedule, BeginSchedule
  <2>2. SlotOwners' = SlotOwners
    BY <1>1, <2>1, QuietOwners
  <2> QED
    BY <1>1, <1>3, <2>1, <2>2 DEF Unslotted
<1>5. CASE InSchedule
  <2>1. loop' = "fill"
    BY <1>5 DEF InSchedule
  <2>2. CASE DecodeDone \/ PrefillPromote \/ PrefillContinuation
    <3>1. scheduled_seqs' = scheduled_seqs
      BY <2>2 DEF DecodeDone, PrefillPromote, PrefillContinuation, callVars
    <3>2. SlotOwners' = SlotOwners
      BY <1>1, <2>2, QuietOwners
    <3> QED
      BY <1>1, <1>3, <2>1, <3>1, <3>2 DEF Unslotted
  <2>3. CASE DecodeRow
    <3>1. scheduled_seqs' = Append(scheduled_seqs, Head(running)) /\ Head(running) \in Requests
      BY <1>1, <2>3, OwnerTypes, PopLeftQueue DEF DecodeRow, InDecodeLoop
    <3>2. ToSet(scheduled_seqs) \subseteq ToSet(scheduled_seqs')
      BY <1>1, <3>1, OwnerTypes, AppendQueue
    <3>3. SlotOwners' = SlotOwners
      BY <1>1, <2>3, DecodeRowOwners
    <3> QED
      BY <1>1, <1>3, <2>1, <3>2, <3>3 DEF Unslotted
  <2>4. CASE DecodePreempt
    <3>1. scheduled_seqs' = scheduled_seqs
      BY <2>4 DEF DecodePreempt, callVars
    <3>2. SlotOwners' = SlotOwners
      BY <1>1, <2>4, PreemptOwners
    <3> QED
      BY <1>1, <1>3, <2>1, <3>1, <3>2 DEF Unslotted
  <2>5. CASE PrefillRow
    <3> DEFINE r == Head(waiting)
    <3>1. /\ r \in Requests /\ SlotOwners' = SlotOwners \cup {r}
          /\ scheduled_seqs' = Append(scheduled_seqs, r)
      BY <1>1, <2>5, PrefillOwners
    <3>2. ToSet(scheduled_seqs') = ToSet(scheduled_seqs) \cup {r}
      BY <1>1, <3>1, OwnerTypes, AppendQueue
    <3>3. Unslotted' = Unslotted \cup {r}
      BY <1>1, <2>1, <3>2 DEF Unslotted
    <3>4. Users(input_batch)' = Users(input_batch)
      BY <1>1 DEF Users, Slots
    <3>5. SlotsHeld'
      BY <3>1, <3>3, <3>4 DEF EngineInv, SlotInv, SlotsHeld
    <3>6. OneSlot(input_batch)'
      BY <1>1, <1>2 DEF OneSlot, Slots, Vacant, Held
    <3> QED
      BY <1>2, <3>5, <3>6 DEF SlotInv
  <2> QED
    BY <1>5, <2>2, <2>3, <2>4, <2>5 DEF InSchedule
<1>6. CASE Scheduled
  <2>1. Return /\ SlotOwners' = SlotOwners
    BY <1>1, <1>6, QuietOwners DEF Scheduled
  <2>2. CASE scheduled_seqs = <<>>
    BY <1>1, <1>3, <2>1, <2>2, EmptyQueue
  <2>3. CASE scheduled_seqs # <<>>
    <3> DEFINE e == [seqs |-> scheduled_seqs,
                     is_prefill |-> \E r \in ToSet(scheduled_seqs) : is_prefill[r]]
    <3>1. batch_queue' = Append(batch_queue, e) /\ e \in Batch /\ e.seqs = scheduled_seqs
          /\ batch_queue \in Seq(Batch) /\ loop' = "execute"
      BY <1>1, <1>6, <2>1, <2>3, OwnerTypes DEF Return, Scheduled, Batch
    <3> HIDE DEF e
    <3>2. Last(batch_queue') = e
      BY <3>1, LenProperties, AppendProperties DEF Last
    <3>3. Unslotted' = ToSet(scheduled_seqs)
      BY <1>1, <3>1, <3>2 DEF Unslotted
    <3> QED
      BY <1>1, <1>3, <2>1, <3>3
  <2> QED
    BY <2>2, <2>3
<1>7. CASE ScheduleRaises
  <2>1. RaiseExhausted /\ SlotOwners' = SlotOwners
    BY <1>1, <1>7, QuietOwners DEF ScheduleRaises
  <2>2. scheduled_seqs = <<>>
    BY <2>1 DEF RaiseExhausted, Exhausted
  <2> QED
    BY <1>1, <1>3, <2>1, <2>2, EmptyQueue
<1>8. CASE FillDone
  <2>1. UNCHANGED <<in_flight, running, num_cached_tokens, num_tokens, waiting>> /\ phase = "idle"
    BY <1>8 DEF FillDone, asyncVars, vars, queueVars, seqVars
  <2>2. SlotOwners' = SlotOwners
    BY <1>1, <2>1, SameOwners
  <2>3. scheduled_seqs = <<>>
    BY <1>1, <2>1 DEF TypeInv, PhaseOK
  <2> QED
    BY <1>1, <1>3, <2>2, <2>3, EmptyQueue
<1> QED
  BY <1>4, <1>5, <1>6, <1>7, <1>8

(* execute_model() on the requests just scheduled gives each its slot.     *)
LEMMA OwnersSlots ==
  ASSUME EngineInv, ExecuteOwners
  PROVE  SlotInv'
<1> DEFINE q == Last(batch_queue).seqs
<1>0. PICK rows : rows = [i \in DOMAIN q |-> OwnerRow(q[i])]
  OBVIOUS
<1>1. /\ loop = "execute" /\ Serial /\ loop' = "fill" /\ UNCHANGED asyncVars
      /\ input_batch' = update(remove_finished(Finished), rows)
  BY <1>0 DEF ExecuteOwners, execute_and_sample
<1>2. /\ q \in Seq(Requests) /\ ToSet(q) \subseteq SlotOwners /\ Unslotted = ToSet(q)
      /\ Cardinality(SlotOwners) <= MaxNumSeqs /\ SlotOwners \subseteq Requests
      /\ scheduled_seqs = <<>>
  BY <1>1, OwnersToRun
<1>3. /\ DOMAIN q = 1..Len(q) /\ Len(q) \in Nat /\ ToSet(q) = {q[i] : i \in 1..Len(q)}
      /\ \A i \in 1..Len(q) : q[i] \in Requests
  BY <1>2, LenProperties, ToSetDef, ElementOfSeq
<1>4. OneSlot(input_batch) /\ SlotsHeld /\ AsyncInv
  BY DEF EngineInv, SlotInv
<1> HIDE DEF q
<1>5. rows = [i \in 1..Len(q) |-> OwnerRow(q[i])]
  BY <1>0, <1>3
<1>6. rows \in [1..Len(q) -> {OwnerRow(r) : r \in Requests}]
  BY <1>3, <1>5
<1>7. Len(rows) = Len(q)
  BY <1>3, <1>6, FunctionIsQueue
<1>8. \A i \in 1..Len(q) : rows[i].seq = q[i] /\ rows[i].view = FALSE
  BY <1>5 DEF OwnerRow
<1>9. input_batch' = update(input_batch, rows)
  BY <1>1, NoneToRemove
<1>10. {rows[i].seq : i \in 1..Len(rows)} = ToSet(q)
  BY <1>3, <1>7, <1>8
<1>11. OneSlot(update(input_batch, rows)) /\ Users(update(input_batch, rows)) = Users(input_batch) \cup ToSet(q)
  <2>0. PICK w \in BOOLEAN : w = FALSE
    OBVIOUS
  <2>1. /\ \A i \in 1..Len(rows) : rows[i].seq \in Requests /\ rows[i].view = w
        /\ \A i \in 1..Len(rows) : rows[i].seq \in SlotOwners
    BY <1>2, <1>3, <1>7, <1>8, <2>0
  <2>2. Users(input_batch) \subseteq SlotOwners
    BY <1>4 DEF SlotsHeld
  <2>3. Len(rows) \in Nat
    BY <1>3, <1>7
  <2>4. /\ OneSlot(update(input_batch, rows))
        /\ Users(update(input_batch, rows))
             = Users(input_batch) \cup {rows[i].seq : i \in 1..Len(rows)}
    BY <1>2, <1>4, <2>1, <2>2, <2>3, Updated
  <2> QED
    BY <1>10, <2>4
<1>12. OneSlot(input_batch)' /\ Users(input_batch)' = Users(input_batch) \cup ToSet(q)
  BY <1>9, <1>11 DEF OneSlot, Slots, Vacant, Held, Users
<1>13. SlotOwners' = SlotOwners
  <2>1. UNCHANGED <<in_flight, running, num_cached_tokens, num_tokens, waiting>>
    BY <1>1 DEF asyncVars, vars, queueVars, seqVars
  <2> QED
    BY <1>4, <2>1, SameOwners
<1>14. SlotsHeld'
  BY <1>2, <1>4, <1>12, <1>13 DEF SlotsHeld
<1>15. ViewSlots'
  BY <1>1 DEF ViewSlots, Serial, asyncVars, cohortVars
<1> QED
  BY <1>12, <1>14, <1>15 DEF SlotInv

(* On views, it puts each in the slot its request has.                     *)
LEMMA ViewsSlots ==
  ASSUME EngineInv, ExecuteViews
  PROVE  SlotInv'
<1> DEFINE b == Last(dispatched)
           new == {b[k].seq : k \in 1..Len(b)}
<1>0. PICK rows : rows = [i \in DOMAIN b |-> ViewRow(b[i])]
  OBVIOUS
<1>1. /\ loop = "execute" /\ ~Serial /\ loop' = "lookahead" /\ UNCHANGED asyncVars
      /\ input_batch' = update(remove_finished(Finished), rows)
  BY <1>0 DEF ExecuteViews, execute_and_sample
<1>2. /\ b = dispatched[Len(dispatched)] /\ Len(dispatched) \in 1..Len(dispatched)
      /\ Len(dispatched) \in Nat
      /\ b \in Views /\ Len(b) \in Nat /\ DOMAIN b = 1..Len(b)
      /\ \A k \in 1..Len(b) : b[k].seq \in Users(input_batch)
  BY <1>1, ViewsToRun
<1>3. OneSlot(input_batch) /\ SlotsHeld /\ ViewSlots /\ AsyncInv
  BY DEF EngineInv, SlotInv
<1> HIDE DEF b
<1>4. rows = [i \in 1..Len(b) |-> ViewRow(b[i])]
  BY <1>0, <1>2
<1>5. rows \in [1..Len(b) -> {ViewRow(b[i]) : i \in 1..Len(b)}]
  BY <1>4
<1>6. Len(rows) = Len(b)
  BY <1>2, <1>5, FunctionIsQueue
<1>7. \A i \in 1..Len(b) : rows[i].seq = b[i].seq /\ rows[i].view = TRUE
  BY <1>4 DEF ViewRow
<1>8. input_batch' = update(input_batch, rows)
  BY <1>1, NoneToRemove
<1>9. {rows[i].seq : i \in 1..Len(rows)} = new /\ new \subseteq Users(input_batch)
  BY <1>2, <1>6, <1>7
<1> DEFINE jb == update(input_batch, rows)
<1>10. /\ OneSlot(jb) /\ Users(jb) = Users(input_batch)
       /\ \A s \in Slots : IF jb[s].seq \in new THEN jb[s].view = TRUE ELSE jb[s] = input_batch[s]
  <2>0. PICK w \in BOOLEAN : w = TRUE
    OBVIOUS
  <2>1. /\ \A i \in 1..Len(rows) : rows[i].seq \in Requests /\ rows[i].view = w
        /\ \A i \in 1..Len(rows) : rows[i].seq \in Users(input_batch)
    BY <1>2, <1>6, <1>7, <2>0 DEF Users
  <2>2. Cardinality(Users(input_batch)) <= MaxNumSeqs /\ Users(input_batch) \subseteq Requests
    <3>1. /\ Cardinality(Users(input_batch)) \in Nat /\ Cardinality(FreeSlots(input_batch)) \in Nat
          /\ Cardinality(Users(input_batch)) + Cardinality(FreeSlots(input_batch)) = MaxNumSeqs
      BY <1>3, SlotCount
    <3>2. Users(input_batch) \subseteq Requests
      BY DEF Users
    <3> QED
      BY <3>1, <3>2, ConfigAssumption
  <2>3. Len(rows) \in Nat
    BY <1>2, <1>6
  <2> DEFINE given == {rows[i].seq : i \in 1..Len(rows)}
  <2>4. /\ OneSlot(jb) /\ Users(jb) = Users(input_batch) \cup given
        /\ \A s \in Slots : IF jb[s].seq \in given THEN jb[s].view = w ELSE jb[s] = input_batch[s]
    BY <1>3, <2>1, <2>2, <2>3, Updated
  <2> HIDE DEF given, jb
  <2>5. given = new /\ new \subseteq Users(input_batch)
    BY <1>9 DEF given
  <2> HIDE DEF new
  <2> QED
    BY <2>0, <2>4, <2>5
<1>11. OneSlot(input_batch)' /\ Users(input_batch)' = Users(input_batch)
  BY <1>8, <1>10 DEF OneSlot, Slots, Vacant, Held, Users
<1>12. /\ UNCHANGED <<in_flight, running, num_cached_tokens, num_tokens, waiting, status, live,
                      dispatched, views>>
       /\ Serial' = Serial
  BY <1>1 DEF asyncVars, vars, queueVars, seqVars, cohortVars, Serial
<1>13. SlotOwners' = SlotOwners
  BY <1>3, <1>12, SameOwners
<1>14. SlotsHeld'
  BY <1>1, <1>3, <1>11, <1>12, <1>13 DEF SlotsHeld, Unslotted
<1>15. ASSUME NEW r \in Requests, Seen(r)' PROVE Seen(r) \/ r \in new
  <2>1. Executed' = Len(dispatched) /\ Executed = Len(dispatched) - 1
    BY <1>1, <1>12 DEF Executed
  <2>2. \A i : RowsOf(r, dispatched[i])' = RowsOf(r, dispatched[i])
    BY <1>12 DEF RowsOf
  <2>3. RowsOf(r, views)' = RowsOf(r, views)
    BY <1>12 DEF RowsOf
  <2>4. CASE RowsOf(r, views) # {}
    BY <2>4 DEF Seen
  <2>5. ASSUME NEW i \in 1..Len(dispatched), RowsOf(r, dispatched[i]) # {}
        PROVE  Seen(r) \/ r \in new
    <3>1. CASE i = Len(dispatched)
      <4>1. PICK k \in 1..Len(b) : b[k].seq = r
        BY <1>2, <2>5, <3>1 DEF RowsOf
      <4> QED
        BY <4>1
    <3>2. CASE i # Len(dispatched)
      <4>1. i \in 1..Executed
        BY <1>2, <2>1, <3>2
      <4> QED
        BY <2>5, <4>1 DEF Seen
    <3> QED
      BY <3>1, <3>2
  <2> HIDE DEF new
  <2>6. RowsOf(r, views) # {} \/ \E i \in 1..Len(dispatched) : RowsOf(r, dispatched[i]) # {}
    BY <1>15, <2>1, <2>2, <2>3 DEF Seen
  <2> QED
    BY <2>4, <2>5, <2>6
<1>16. ViewSlots'
  <2> HIDE DEF new, jb
  <2>1. SUFFICES ASSUME NEW s \in Slots, NEW r \in Requests, input_batch'[s].seq = r,
                        Seen(r)' \/ status'[r] = "FINISHED"
                 PROVE  input_batch'[s].view
    BY DEF ViewSlots, Slots
  <2>2. input_batch' = jb
    BY <1>8 DEF jb
  <2>3. CASE r \in new
    BY <1>10, <2>1, <2>2, <2>3
  <2>4. CASE r \notin new
    <3>1. input_batch'[s] = input_batch[s]
      BY <1>10, <2>1, <2>2, <2>4
    <3>2. Seen(r) \/ status[r] = "FINISHED"
      BY <1>12, <1>15, <2>1, <2>4
    <3> QED
      BY <1>1, <1>3, <2>1, <3>1, <3>2 DEF ViewSlots
  <2> QED
    BY <2>3, <2>4
<1> QED
  BY <1>11, <1>14, <1>16 DEF SlotInv

(* A request that has ended leaves the runner with its last result.        *)
LEMMA LeavingSlots ==
  ASSUME EngineInv, NEW r \in Requests,
         input_batch' = [s \in Slots |-> IF input_batch[s].seq = r THEN Vacant ELSE input_batch[s]],
         SlotOwners' = SlotOwners \ {r}, Unslotted = {}
  PROVE  /\ OneSlot(input_batch)' /\ SlotsHeld'
         /\ \A s \in Slots : input_batch'[s].seq \in Requests
                               => input_batch'[s] = input_batch[s] /\ input_batch'[s].seq # r
<1>1. OneSlot(input_batch) /\ SlotsHeld
  BY DEF EngineInv, SlotInv
<1>2. PICK jb : jb = [s \in Slots |-> IF input_batch[s].seq = r THEN Vacant ELSE input_batch[s]]
  OBVIOUS
<1>3. /\ OneSlot(jb) /\ Users(jb) = Users(input_batch) \ {r}
      /\ \A s \in Slots : jb[s].seq \in Requests => jb[s] = input_batch[s] /\ jb[s].seq # r
  BY <1>1, <1>2, Vacated
<1>4. OneSlot(input_batch)' /\ Users(input_batch)' = Users(input_batch) \ {r}
  BY <1>2, <1>3 DEF OneSlot, Slots, Vacant, Held, Users
<1> QED
  BY <1>1, <1>2, <1>3, <1>4 DEF SlotsHeld

(* postprocess()                                                           *)
LEMMA ConsumedSlots ==
  ASSUME EngineInv, ConsumeNothing \/ Consume \/ \E eos \in BOOLEAN : PostprocessRow(eos)
  PROVE  SlotInv'
<1>1. /\ loop = "consume" /\ Serial /\ Unslotted = {} /\ AsyncInv /\ NoCohort /\ Worked
  BY DEF ConsumeNothing, Consume, PostprocessRow, EngineInv, LoopOK, Unslotted, AsyncInv
<1>2. Serial' /\ dispatched = <<>> /\ dispatched' = <<>>
  BY <1>1 DEF ConsumeNothing, Consume, PostprocessRow, Serial, asyncVars, cohortVars, NoCohort
<1>3. ViewSlots'
  BY <1>2 DEF ViewSlots
<1>4. CASE ConsumeNothing
  <2>1. Executed = 0 /\ Executed' = 0
    <3>1. loop' = "top"
      BY <1>4 DEF ConsumeNothing
    <3> QED
      BY <1>1, <1>2, <3>1 DEF Executed
  <2>2. UNCHANGED <<asyncVars, input_batch>>
    BY <1>4 DEF ConsumeNothing, runnerVars, hostVars
  <2> QED
    BY <1>1, <2>1, <2>2, IdleSlots
<1>5. CASE Consume
  <2>1. BeginPostprocess(1) /\ 1 \in 1..Len(batch_queue) /\ input_batch' = input_batch
    BY <1>5 DEF Consume, BeginPostprocess, runnerVars, hostVars
  <2>2. SlotOwners' = SlotOwners
    BY <1>1, <2>1, QuietOwners
  <2> QED
    BY <1>1, <1>2, <2>1, <2>2, KeepSlotInv
<1>6. ASSUME NEW eos \in BOOLEAN, PostprocessRow(eos) PROVE SlotInv'
  <2>1. /\ Postprocess(eos)
        /\ IF Departs(row, eos) THEN remove_request(row) ELSE UNCHANGED input_batch
    BY <1>6 DEF PostprocessRow
  <2>2. row \in Requests
    BY <1>1, <2>1, PostOwners
  <2>3. Departs(row, eos) <=> ~IsPartial(row) /\ Stops(row, eos)
    BY DEF Departs, IsPartial, consumed, Stops
  <2>4. CASE Departs(row, eos)
    <3>1. PostFinish(eos)
      BY <2>1, <2>3, <2>4 DEF Postprocess, PostPartial, PostContinue
    <3>2. SlotOwners' = SlotOwners \ {row}
      BY <1>1, <2>1, <3>1, PostOwners
    <3>3. input_batch' = [s \in Slots |-> IF input_batch[s].seq = row THEN Vacant ELSE input_batch[s]]
      BY <2>1, <2>4 DEF remove_request
    <3> QED
      BY <1>1, <1>3, <2>2, <3>2, <3>3, LeavingSlots DEF SlotInv
  <2>5. CASE ~Departs(row, eos)
    <3>1. PostPartial \/ PostContinue(eos)
      BY <2>1, <2>3, <2>5 DEF Postprocess, PostFinish
    <3>2. SlotOwners' = SlotOwners
      BY <1>1, <2>1, <3>1, PostOwners
    <3>3. input_batch' = input_batch
      BY <2>1, <2>5
    <3> QED
      BY <1>1, <1>3, <3>2, <3>3, KeepSlots DEF SlotInv
  <2> QED
    BY <2>4, <2>5
<1> QED
  BY <1>4, <1>5, <1>6

(* A batch of views is dispatched, or the lookahead stops.                 *)
LEMMA LookedSlots ==
  ASSUME EngineInv, Look \/ LookNothing
  PROVE  SlotInv'
<1>1. /\ loop = "lookahead" /\ ~Serial /\ Unslotted = {} /\ AsyncInv /\ CohortInv
      /\ Executed = Len(dispatched) /\ input_batch' = input_batch
  BY DEF Look, LookNothing, EngineInv, LoopOK, Unslotted, AsyncInv, Executed, runnerVars, hostVars
<1>2. CASE Look /\ async_schedule
  <2>1. /\ loop' = "execute" /\ ~Serial'
        /\ UNCHANGED <<in_flight, running, num_cached_tokens, num_tokens, waiting, status, live, views>>
    <3>1. loop' = "execute"
      BY <1>1, <1>2 DEF Look, async_schedule, async_schedule_empty, StartDraining, CohortFits
    <3> QED
      BY <1>1, <1>2, <3>1 DEF async_schedule, Serial, queueVars, seqVars
  <2>2. SlotOwners' = SlotOwners
    BY <1>1, <2>1, SameOwners
  <2>3. /\ dispatched \in Seq(Views) /\ Len(dispatched) \in Nat
    BY <1>1, LenProperties DEF CohortInv, CohortTypes
  <2>4. \E b \in Views : dispatched' = Append(dispatched, b)
    <3>1. CohortInv'
      BY <1>1, <1>2, ScheduleCohort
    <3>2. dispatched' \in Seq(Views)
      BY <3>1 DEF CohortInv, CohortTypes
    <3> DEFINE b == [k \in 1..Len(Ready) |-> View(Ready[k], block_table'[Ready[k]])]
    <3>3. dispatched' = Append(dispatched, b)
      BY <1>2 DEF async_schedule
    <3> HIDE DEF b
    <3>4. Len(dispatched') = Len(dispatched) + 1 /\ dispatched'[Len(dispatched) + 1] = b
      BY <2>3, <3>3
    <3>5. b \in Views
      BY <2>3, <3>2, <3>4, ElementOfSeq
    <3> QED
      BY <3>3, <3>5
  <2>5. /\ Len(dispatched') = Len(dispatched) + 1
        /\ \A i \in 1..Len(dispatched) : dispatched'[i] = dispatched[i]
    BY <2>3, <2>4, AppendProperties
  <2>6. Executed' = Len(dispatched)
    BY <2>1, <2>3, <2>5 DEF Executed
  <2>7. ASSUME NEW r \in Requests, Seen(r)' PROVE Seen(r)
    <3>1. RowsOf(r, views)' = RowsOf(r, views)
      BY <2>1 DEF RowsOf
    <3>2. \A i \in 1..Len(dispatched) : RowsOf(r, dispatched[i])' = RowsOf(r, dispatched[i])
      BY <2>5 DEF RowsOf
    <3> QED
      BY <1>1, <2>6, <2>7, <3>1, <3>2 DEF Seen
  <2> QED
    BY <1>1, <2>1, <2>2, <2>7, KeepSlotInv
<1>3. CASE Look /\ async_schedule_empty
  <2>1. /\ loop' = "lookahead" /\ ~Serial'
        /\ UNCHANGED <<in_flight, running, num_cached_tokens, num_tokens, waiting, status, live,
                       views, dispatched>>
    <3>1. UNCHANGED <<vars, live, views, dispatched>>
      BY <1>3 DEF async_schedule_empty, StartDraining
    <3>2. loop' = "lookahead"
      BY <1>1, <1>3 DEF Look, async_schedule, async_schedule_empty, CohortFits
    <3> QED
      BY <1>1, <3>1, <3>2 DEF Serial, vars, queueVars, seqVars
  <2>2. SlotOwners' = SlotOwners
    BY <1>1, <2>1, SameOwners
  <2>3. \A r : Seen(r)' <=> Seen(r)
    BY <1>1, <2>1 DEF Seen, RowsOf, Executed
  <2> QED
    BY <1>1, <2>1, <2>2, <2>3, KeepSlotInv
<1>4. CASE LookNothing
  <2>1. end_async_decode
    BY <1>4 DEF LookNothing
  <2>2. SlotOwners' = SlotOwners /\ Serial'
    BY <1>1, <2>1, ReleasedOwners DEF end_async_decode, Serial
  <2> QED
    BY <1>1, <2>2, KeepSlotInv
<1> QED
  BY <1>2, <1>3, <1>4 DEF Look

(* The results of the oldest batch of views.                               *)
LEMMA TakenSlots ==
  ASSUME EngineInv, LookConsume
  PROVE  SlotInv'
<1>1. /\ loop = "lookahead" /\ loop' = "retire" /\ ~Serial /\ ~Serial' /\ Unslotted = {}
      /\ AsyncInv /\ CohortInv /\ dispatched # <<>> /\ input_batch' = input_batch
      /\ views' = Head(dispatched) /\ dispatched' = Tail(dispatched)
      /\ UNCHANGED <<in_flight, running, num_cached_tokens, num_tokens, waiting, status, live>>
  BY DEF LookConsume, BeginCommit, EngineInv, LoopOK, Unslotted, AsyncInv, Serial, runnerVars,
         hostVars, queueVars, seqVars
<1>2. SlotOwners' = SlotOwners
  BY <1>1, SameOwners
<1>3. dispatched \in Seq(Views)
  BY <1>1 DEF CohortInv, CohortTypes
<1>4. /\ Len(dispatched) \in Nat /\ 1 \in 1..Len(dispatched) /\ Head(dispatched) = dispatched[1]
      /\ Len(dispatched') = Len(dispatched) - 1
      /\ \A i \in 1..Len(dispatched') : /\ dispatched'[i] = dispatched[i + 1]
                                        /\ i + 1 \in 1..Len(dispatched)
  <2>1. Len(dispatched) \in Nat /\ Len(dispatched) # 0
    BY <1>1, <1>3, ToSetDef
  <2>2. /\ Len(dispatched') = Len(dispatched) - 1
        /\ \A i \in 1..Len(dispatched') : dispatched'[i] = dispatched[i + 1]
    BY <1>1, <1>3, HeadTailProperties
  <2>3. Head(dispatched) = dispatched[1]
    BY <1>3, <2>1
  <2> QED
    BY <2>1, <2>2, <2>3
<1>5. ASSUME NEW r \in Requests, Seen(r)' PROVE Seen(r)
  <2>1. Executed = Len(dispatched) /\ Executed' = Len(dispatched')
    BY <1>1 DEF Executed
  <2>2. RowsOf(r, views)' = RowsOf(r, dispatched[1])
    BY <1>1, <1>4 DEF RowsOf
  <2>3. \A i \in 1..Len(dispatched') : RowsOf(r, dispatched[i])' = RowsOf(r, dispatched[i + 1])
    BY <1>4 DEF RowsOf
  <2> QED
    BY <1>4, <1>5, <2>1, <2>2, <2>3 DEF Seen
<1> QED
  BY <1>1, <1>2, <1>5, KeepSlotInv

LEMMA CommittedSlots ==
  ASSUME EngineInv, CommitResult
  PROVE  SlotInv'
<1>1. /\ loop = "retire" /\ ~Serial /\ Unslotted = {} /\ AsyncInv /\ CohortInv /\ CohortTypes
      /\ phase = "commit" /\ loop' = "retire"
  BY DEF CommitResult, EngineInv, LoopOK, Unslotted, AsyncInv, CohortInv
<1>2. DiscardToken \/ \E eos \in BOOLEAN : CommitLast(eos) \/ CommitToken(eos)
  BY DEF CommitResult
<1>3. CommitRow /\ ~Serial' /\ views' = Tail(views) /\ dispatched' = dispatched
  BY <1>1, <1>2 DEF DiscardToken, CommitLast, CommitToken, CommitRow, Serial
<1>4. views \in Views /\ views # <<>> /\ OneEach(views)
  BY <1>1 DEF CohortInv, CohortTypes, Shape, Older
<1> DEFINE c == committed
<1>5. /\ c \in Requests /\ RowsOf(c, views) # {} /\ RowsOf(c, Tail(views)) = {}
      /\ \A q \in Requests \ {c} : RowsOf(q, Tail(views)) = RowsOf(q, views)
  BY <1>4, PopView DEF committed, view
<1>6. /\ SlotOwners' = IF c \in in_flight' THEN SlotOwners ELSE SlotOwners \ {c}
      /\ \A q \in Requests \ {c} : status'[q] = status[q]
  BY <1>1, <1>2, CommitOwners
<1>7. Seen(c)
  BY <1>5 DEF Seen
<1>8. ASSUME NEW r \in Requests, Seen(r)' \/ status'[r] = "FINISHED"
      PROVE  Seen(r) \/ status[r] = "FINISHED"
  <2>1. CASE r = c
    BY <1>7, <2>1
  <2>2. CASE r # c
    <3>1. RowsOf(r, views)' = RowsOf(r, views)
      <4>1. RowsOf(r, views)' = RowsOf(r, Tail(views))
        BY <1>3 DEF RowsOf
      <4> QED
        BY <1>5, <2>2, <4>1
    <3>2. \A i : RowsOf(r, dispatched[i])' = RowsOf(r, dispatched[i])
      BY <1>3 DEF RowsOf
    <3>3. Executed' = Executed
      BY <1>1, <1>3 DEF Executed
    <3>4. Seen(r)' => Seen(r)
      BY <3>1, <3>2, <3>3 DEF Seen
    <3> QED
      BY <1>6, <1>8, <2>2, <3>4
  <2> QED
    BY <2>1, <2>2
<1>9. CASE c \in in_flight'
  <2>1. input_batch' = input_batch /\ SlotOwners' = SlotOwners
    BY <1>6, <1>9 DEF CommitResult
  <2> QED
    BY <1>1, <1>8, <2>1, KeepSlotInv
<1>10. CASE c \notin in_flight'
  <2>1. /\ input_batch' = [s \in Slots |-> IF input_batch[s].seq = c THEN Vacant ELSE input_batch[s]]
        /\ SlotOwners' = SlotOwners \ {c}
    BY <1>6, <1>10 DEF CommitResult, remove_request
  <2> HIDE DEF c
  <2>2. /\ OneSlot(input_batch)' /\ SlotsHeld'
        /\ \A s \in Slots : input_batch'[s].seq \in Requests => input_batch'[s] = input_batch[s]
    BY <1>1, <1>5, <2>1, LeavingSlots
  <2>3. ViewSlots'
    BY <1>1, <1>8, <2>2, KeepViewSlots
  <2> QED
    BY <2>2, <2>3 DEF SlotInv
<1> QED
  BY <1>9, <1>10

LEMMA RetiredSlots ==
  ASSUME EngineInv, LookDone
  PROVE  SlotInv'
<1>1. /\ loop = "retire" /\ loop' = "top" /\ ~Serial /\ Unslotted = {} /\ AsyncInv /\ CohortInv
      /\ Executed = Len(dispatched) /\ input_batch' = input_batch
  BY DEF LookDone, EngineInv, LoopOK, Unslotted, AsyncInv, Executed, runnerVars, hostVars
<1>2. CASE dispatched = <<>>
  <2>1. end_async_decode
    BY <1>2 DEF LookDone
  <2>2. SlotOwners' = SlotOwners /\ Serial'
    BY <1>1, <2>1, ReleasedOwners DEF end_async_decode, Serial
  <2> QED
    BY <1>1, <2>2, KeepSlotInv
<1>3. CASE dispatched # <<>>
  <2>1. UNCHANGED <<asyncVars, input_batch>>
    BY <1>1, <1>3 DEF LookDone
  <2>2. Len(dispatched) \in Nat
    BY <1>1, LenProperties DEF CohortInv, CohortTypes
  <2>3. Executed' <= Executed
    BY <1>1, <2>1, <2>2 DEF Executed, asyncVars, cohortVars
  <2> QED
    BY <1>1, <2>1, <2>3, IdleSlots
<1> QED
  BY <1>2, <1>3

(* The device's steps, and no step.                                        *)
LEMMA DeviceSlots ==
  ASSUME EngineInv, Compute \/ Copy \/ UNCHANGED engineVars
  PROVE  SlotInv'
<1>1. UNCHANGED <<asyncVars, input_batch, loop>>
  BY DEF Compute, Copy, PrepareInputs, Forward, CopyOutput, engineVars, runnerVars, hostVars
<1>2. UNCHANGED <<scheduled_seqs, batch_queue, live, dispatched>>
  BY <1>1 DEF asyncVars, vars, callVars, driverVars, cohortVars
<1>3. Unslotted' = Unslotted /\ Executed' = Executed
  BY <1>1, <1>2 DEF Unslotted, Executed, Serial
<1>4. Executed <= Executed
  <2>1. Len(dispatched) \in Nat
    BY ToSetDef DEF EngineInv, AsyncInv, NoCohort, CohortInv, CohortTypes
  <2> QED
    BY <2>1 DEF Executed
<1> QED
  BY <1>1, <1>3, <1>4, IdleSlots

LEMMA SlotStep ==
  ASSUME EngineInv, EngineNext \/ UNCHANGED engineVars
  PROVE  SlotInv'
<1>1. ASSUME Step PROVE SlotInv'
  BY <1>1, ChosenSlots, FillingSlots, OwnersSlots, ViewsSlots, ConsumedSlots, LookedSlots, TakenSlots,
     CommittedSlots, RetiredSlots DEF Step
<1> QED
  BY <1>1, AddSlots, DeviceSlots DEF EngineNext

LEMMA EngineInvStep == EngineInv /\ [EngineNext]_engineVars => EngineInv'
<1> SUFFICES ASSUME EngineInv, EngineNext \/ UNCHANGED engineVars PROVE EngineInv'
  OBVIOUS
<1>1. AsyncInv /\ LoopOK /\ Worked /\ [AsyncNext]_asyncVars
  BY EngineIsAsync DEF EngineInv
<1>2. AsyncInv' /\ LoopOK' /\ Worked'
  BY <1>1, AsyncStep, LoopStep, WorkedStep
<1>3. SlotInv'
  BY SlotStep
<1> QED
  BY <1>2, <1>3 DEF EngineInv

LEMMA EngineInvCorrect == EngineSpec => []EngineInv
<1>1. EngineInit => EngineInv
  BY InitEngineInv
<1>2. EngineInv /\ [EngineNext]_engineVars => EngineInv'
  BY EngineInvStep
<1> QED
  BY <1>1, <1>2, PTL DEF EngineSpec

-----------------------------------------------------------------------------
(* Sequences that grow and shrink                                          *)

IsSeq(s) == \E S : s \in Seq(S)

LEMMA SeqFacts ==
  ASSUME NEW s, IsSeq(s)
  PROVE  /\ Len(s) \in Nat /\ DOMAIN s = 1..Len(s) /\ (s = <<>> <=> Len(s) = 0)
         /\ s # <<>> => /\ IsSeq(Tail(s)) /\ Len(Tail(s)) = Len(s) - 1 /\ Head(s) = s[1]
                        /\ \A i \in 1..(Len(s) - 1) : Tail(s)[i] = s[i + 1]
<1>1. PICK S : s \in Seq(S)
  BY DEF IsSeq
<1>2. Len(s) \in Nat /\ DOMAIN s = 1..Len(s) /\ (s = <<>> <=> Len(s) = 0)
  BY <1>1, ToSetDef
<1>3. ASSUME s # <<>>
      PROVE  /\ Tail(s) \in Seq(S) /\ Len(Tail(s)) = Len(s) - 1 /\ Head(s) = s[1]
             /\ \A i \in 1..(Len(s) - 1) : Tail(s)[i] = s[i + 1]
  BY <1>1, <1>3, HeadTailProperties
<1> QED
  BY <1>2, <1>3 DEF IsSeq

LEMMA SeqGrows ==
  ASSUME NEW s, IsSeq(s), NEW e
  PROVE  /\ IsSeq(Append(s, e)) /\ Len(Append(s, e)) = Len(s) + 1
         /\ Append(s, e)[Len(s) + 1] = e
         /\ \A i \in 1..Len(s) : Append(s, e)[i] = s[i]
<1>1. PICK S : s \in Seq(S)
  BY DEF IsSeq
<1>2. s \in Seq(S \cup {e}) /\ e \in S \cup {e}
  BY <1>1
<1>3. /\ Append(s, e) \in Seq(S \cup {e}) /\ Len(Append(s, e)) = Len(s) + 1
      /\ Append(s, e)[Len(s) + 1] = e
      /\ \A i \in 1..Len(s) : Append(s, e)[i] = s[i]
  BY <1>2, AppendProperties
<1> QED
  BY <1>3 DEF IsSeq

LEMMA SeqGrowsTwo ==
  ASSUME NEW s, IsSeq(s), NEW a, NEW b
  PROVE  LET t == s \o <<a, b>> IN
         /\ IsSeq(t) /\ Len(t) = Len(s) + 2 /\ t[Len(s) + 1] = a /\ t[Len(s) + 2] = b
         /\ \A i \in 1..Len(s) : t[i] = s[i]
<1>1. PICK S : s \in Seq(S)
  BY DEF IsSeq
<1>2. PICK T : T = S \cup {a, b}
  OBVIOUS
<1>3. s \in Seq(T) /\ <<a, b>> \in Seq(T) /\ Len(<<a, b>>) = 2 /\ Len(s) \in Nat
  BY <1>1, <1>2
<1>4. s \o <<a, b>> \in Seq(T) /\ Len(s \o <<a, b>>) = Len(s) + 2
  BY <1>3, ConcatProperties
<1>5. /\ (s \o <<a, b>>)[Len(s) + 1] = a /\ (s \o <<a, b>>)[Len(s) + 2] = b
      /\ \A i \in 1..Len(s) : (s \o <<a, b>>)[i] = s[i]
  BY <1>3, ConcatProperties
<1> QED
  BY <1>4, <1>5 DEF IsSeq

-----------------------------------------------------------------------------
(* The pipeline: what is on its way between the schedulers, the host's     *)
(* buffers and the device, while any number of its steps are to come.  At  *)
(* most two batches are outstanding, numbered from the oldest: the oldest  *)
(* Done of them have landed, Flying are on the compute stream.  A row of an*)
(* outstanding batch goes on where the batches before it leave its request *)
(* (Landed), whatever has landed by now; and up to there (Reached) the     *)
(* cache, the slot and the token buffer hold what the model computes from  *)
(* the one right history.                                                  *)

(* The rows of the k-th outstanding batch, and whether it is a prompt      *)
(* batch.                                                                  *)
Rows(k) ==
  IF Serial THEN [i \in 1..Len(batch_queue[k].seqs) |-> OwnerRow(batch_queue[k].seqs[i])]
  ELSE [i \in 1..Len(dispatched[k]) |-> ViewRow(dispatched[k][i])]

Prompt(k) == Serial /\ batch_queue[k].is_prefill

Queued == IF Serial THEN Len(batch_queue) ELSE Len(dispatched)

Handles ==
  /\ Queued = Len(outputs) + (IF loop = "execute" THEN 1 ELSE 0)
  /\ Queued <= 2 /\ buf_idx \in 0..1 /\ outputs \in Seq(0..1)
  /\ phase \in {"decode", "prefill"} => Queued < 2
  /\ Len(outputs) >= 1 => outputs[Len(outputs)] = 1 - buf_idx
  /\ Len(outputs) = 2 => outputs[1] = buf_idx

(* What the compute stream holds: at most one preparation, the newest      *)
(* batch's, and the forwards of the newest batches.                        *)
ItemOK(w, k) ==
  /\ w.rows = Rows(k) /\ w.is_prefill = Prompt(k) /\ w.buf = outputs[k]
  /\ DOMAIN w.slots = DOMAIN w.rows
  /\ \A i \in DOMAIN w.rows : w.slots[i] \in Slots /\ input_batch[w.slots[i]].seq = w.rows[i].seq

Starting(w) == {i \in DOMAIN w.rows : w.is_prefill /\ w.rows[i].first = 0}

PrepareOK(w, k) ==
  /\ w.kind = "prepare" /\ ItemOK(w, k)
  /\ w.reset = {w.slots[i] : i \in Starting(w)} /\ w.fresh \subseteq Starting(w)

ForwardOK(w, k) == w.kind = "forward" /\ ItemOK(w, k)

Flying == IF Len(stream) = 0 THEN 0 ELSE IF Len(stream) < 3 THEN 1 ELSE 2

StreamOK ==
  /\ IsSeq(stream) /\ Len(stream) \in 0..3 /\ Flying <= Len(outputs)
  /\ prepared <=> Len(stream) < 2
  /\ Len(stream) >= 1 => ForwardOK(stream[Len(stream)], Len(outputs))
  /\ Len(stream) >= 2 => PrepareOK(stream[Len(stream) - 1], Len(outputs))
  /\ Len(stream) = 3 => ForwardOK(stream[1], Len(outputs) - 1)

Done == Len(outputs) - Flying

(* The staging of the decode batch whose preparation, or forward, is next. *)
Stage(x) == [seq_len |-> x.len, last_block |-> Last(x.table)]

StagingOK ==
  /\ Len(stream) >= 2 /\ ~Prompt(Len(outputs)) =>
       \A i \in DOMAIN Rows(Len(outputs)) : decode_cpu[i] = Stage(Rows(Len(outputs))[i])
  /\ Len(stream) \in {1, 3} /\ ~Prompt(Done + 1) =>
       \A i \in DOMAIN Rows(Done + 1) : decode_gpu[i] = Stage(Rows(Done + 1)[i])

(* How far the device is with r when the first d batches have landed.      *)
InBatch(r, k) == \E i \in DOMAIN Rows(k) : Rows(k)[i].seq = r
RowCount(r) == IF Serial THEN num_scheduled_tokens[r] ELSE 1
Gain(r, k) == IF InBatch(r, k) THEN RowCount(r) ELSE 0
Taken(r) ==
  IF Serial THEN (IF r \in ToSet(batch.seqs) THEN num_scheduled_tokens[r] ELSE 0)
  ELSE Count(RowsOf(r, views))
Landed(r, d) ==
  num_cached_tokens[r] + Taken(r) + (IF d >= 1 THEN Gain(r, 1) ELSE 0)
    + (IF d >= 2 THEN Gain(r, 2) ELSE 0)
Reached(r) == Landed(r, Done)

Awaited(r) == Len(stream) >= 2 /\ \E i \in stream[Len(stream) - 1].fresh :
                                     stream[Len(stream) - 1].rows[i].seq = r
LastToken(r, d) == IF d >= num_tokens[r] THEN d ELSE num_tokens[r] - 1
NextHas(r) == Len(stream) \in {1, 3} /\ \E i \in DOMAIN stream[1].rows : stream[1].rows[i].seq = r

(* The entries and the slot of r when the device has done d positions.     *)
EntriesOK(r, d) ==
  \A p \in 0..(d - 1) : kv[block_table[r][p \div BlockSize + 1]][p % BlockSize] = <<r, p>>

SlotOK(s, r, d) ==
  /\ d > 0 => gdn[s] = <<r, d>>
  /\ d = 0 /\ NextHas(r) => gdn[s] = Zero
  /\ ~Awaited(r) => sampled_token_ids[s] = <<r, LastToken(r, d)>>

DeviceOK ==
  \A r \in Requests : status[r] # "FINISHED" =>
    /\ EntriesOK(r, Reached(r))
    /\ \A s \in Slots : input_batch[s].seq = r => SlotOK(s, r, Reached(r))
    /\ r \notin Users(input_batch) => num_cached_tokens[r] = 0

Right(k, tokens) ==
  \A i \in DOMAIN Rows(k) :
    LET x == Rows(k)[i] IN
    status[x.seq] # "FINISHED" /\ SampledRow(x) => tokens[i] = <<x.seq, x.first + x.count>>

OutputsOK ==
  /\ IsSeq(copies) /\ Len(copies) <= Done /\ DOMAIN output_buf = 0..1
  /\ \A j \in 1..Len(copies) :
       LET k == Done - Len(copies) + j IN
       /\ copies[j].buf = outputs[k] /\ DOMAIN copies[j].tokens = DOMAIN Rows(k)
       /\ Right(k, copies[j].tokens)
  /\ \A k \in 1..(Done - Len(copies)) : Right(k, output_buf[outputs[k]])

ResultOK ==
  /\ IsSeq(result)
  /\ phase = "post" => Len(result) = Len(batch.seqs)
  /\ phase = "commit" => Len(result) = Len(views)
  /\ OutputCorrect

(* No block more than the history needs.                                   *)
Ahead(r) == IF r \in ToSet(running) THEN 0 ELSE IF r \in ToSet(live) THEN pending[r] ELSE 1
Tight(t, n) == t = <<>> \/ (Len(t) - 1) * BlockSize < n
TightOK ==
  /\ \A r \in Requests : status[r] # "FINISHED" =>
       Tight(block_table[r], num_tokens[r] - 1 + Ahead(r))
  /\ \A i \in 1..Len(dispatched) : \A k \in 1..Len(dispatched[i]) :
       /\ Tight(dispatched[i][k].block_table, dispatched[i][k].num_tokens)
       /\ dispatched[i][k].num_tokens >= 1

(* A dispatched decode row computes one token, after the first generated.  *)
DecodeOK ==
  \A r \in Requests : Serial /\ r \in in_flight /\ ~is_prefill[r] =>
    num_scheduled_tokens[r] = 1 /\ num_tokens[r] > PromptLen[r]

PipeInv == Handles /\ StreamOK /\ StagingOK /\ DeviceOK /\ OutputsOK /\ ResultOK
           /\ TightOK /\ DecodeOK

-----------------------------------------------------------------------------
(* The rows of the outstanding batches                                     *)

(* What the model relies on in the rows of an outstanding batch.           *)
RowOK(x, k) ==
  /\ x.seq \in Requests /\ x.table \in Seq(Blocks) /\ x.is_prefill \in BOOLEAN
  /\ x.first \in Nat /\ x.count \in Nat /\ x.len \in Nat
  /\ x.count >= 1 /\ x.first + x.count <= x.len
  /\ x.first + x.count <= Len(x.table) * BlockSize
  /\ Len(x.table) <= Len(block_table[x.seq])
  /\ \A j \in 1..Len(x.table) : x.table[j] = block_table[x.seq][j]
  /\ ~Prompt(k) => /\ x.count = 1 /\ ~x.is_prefill
                   /\ (Len(x.table) - 1) * BlockSize < x.len
  /\ ~x.is_prefill => x.first + x.count = x.len
  /\ status[x.seq] # "FINISHED" =>
       /\ x.first = Landed(x.seq, k - 1) /\ x.count = RowCount(x.seq)
       /\ x.len >= num_tokens[x.seq] /\ (x.is_prefill => x.len = num_tokens[x.seq])
       /\ x.first = 0 => Prompt(k) /\ x.is_prefill

BatchOK(k) ==
  /\ Len(Rows(k)) \in 1..MaxNumSeqs /\ DOMAIN Rows(k) = 1..Len(Rows(k))
  /\ \A i, j \in 1..Len(Rows(k)) : Rows(k)[i].seq = Rows(k)[j].seq => i = j
  /\ \A i \in 1..Len(Rows(k)) : RowOK(Rows(k)[i], k)

LEMMA PipeTypes ==
  ASSUME EngineInv
  PROVE  /\ num_tokens \in [Requests -> Nat] /\ num_cached_tokens \in [Requests -> Nat]
         /\ num_scheduled_tokens \in [Requests -> Nat] /\ is_prefill \in [Requests -> BOOLEAN]
         /\ status \in [Requests -> {"NEW", "WAITING", "RUNNING", "FINISHED"}]
         /\ block_table \in [Requests -> Seq(Blocks)]
         /\ \A r \in Requests : Len(block_table[r]) \in Nat
         /\ dispatched \in Seq(Views) /\ Len(dispatched) \in Nat /\ views \in Views
         /\ batch_queue \in Seq(Batch) /\ Len(batch_queue) \in Nat /\ batch \in Batch
         /\ waiting \in Seq(Requests) /\ running \in Seq(Requests) /\ live \in Seq(Requests)
         /\ in_flight \subseteq Requests
<1>1. <<>> \in Seq(Views) /\ <<>> \in Views /\ <<>> \in Seq(Batch)
  BY DEF Views
<1>2. <<>> \in Seq(Requests) /\ NoBatch \in Batch
  BY DEF NoBatch, Batch
<1>3. CASE Serial
  <2>1. NoCohort
    BY <1>3 DEF EngineInv, AsyncInv
  <2>2. /\ num_tokens \in [Requests -> Nat] /\ num_cached_tokens \in [Requests -> Nat]
        /\ num_scheduled_tokens \in [Requests -> Nat] /\ is_prefill \in [Requests -> BOOLEAN]
        /\ status \in [Requests -> {"NEW", "WAITING", "RUNNING", "FINISHED"}]
        /\ block_table \in [Requests -> Seq(Blocks)]
        /\ batch_queue \in Seq(Batch) /\ batch \in Batch
        /\ waiting \in Seq(Requests) /\ running \in Seq(Requests)
        /\ in_flight \subseteq Requests
    BY <2>1 DEF NoCohort, Inv, TypeInv, TypeOK
  <2>3. dispatched \in Seq(Views) /\ views \in Views /\ live \in Seq(Requests)
    BY <1>1, <1>2, <1>3, <2>1 DEF NoCohort, Serial
  <2> QED
    BY <2>2, <2>3, LenProperties
<1>4. CASE ~Serial
  <2>1. CohortInv
    BY <1>4 DEF EngineInv, AsyncInv
  <2>2. /\ num_tokens \in [Requests -> Nat] /\ num_cached_tokens \in [Requests -> Nat]
        /\ num_scheduled_tokens \in [Requests -> Nat] /\ is_prefill \in [Requests -> BOOLEAN]
        /\ status \in [Requests -> {"NEW", "WAITING", "RUNNING", "FINISHED"}]
        /\ block_table \in [Requests -> Seq(Blocks)]
        /\ dispatched \in Seq(Views) /\ views \in Views
        /\ waiting \in Seq(Requests) /\ live \in Seq(Requests)
        /\ in_flight \subseteq Requests
    BY <2>1 DEF CohortInv, CohortTypes
  <2>3. batch_queue \in Seq(Batch) /\ batch \in Batch /\ running \in Seq(Requests)
    BY <1>1, <1>2, <2>1 DEF CohortInv, Still
  <2> QED
    BY <2>2, <2>3, LenProperties
<1> QED
  BY <1>3, <1>4

(* A batch has no more rows than there are slots.                          *)
LEMMA FewRows ==
  ASSUME NEW s, NEW n \in Nat, NEW T, IsFiniteSet(T), Cardinality(T) <= MaxNumSeqs,
         \A i \in 1..n : s[i] \in T, \A i, j \in 1..n : s[i] = s[j] => i = j
  PROVE  n <= MaxNumSeqs
<1> DEFINE f == [i \in 1..n |-> s[i]]
<1>1. f \in Injection(1..n, T)
  <2>1. f \in [1..n -> T] /\ \A i, j \in 1..n : f[i] = f[j] => i = j
    OBVIOUS
  <2> QED
    BY <2>1 DEF Injection, IsInjective
<1>2. Cardinality(1..n) = n
  BY FS_Interval
<1>3. Cardinality(1..n) <= Cardinality(T) /\ Cardinality(T) \in Nat
  BY <1>1, FS_Injection, FS_CardinalityType
<1> QED
  BY <1>2, <1>3, ConfigAssumption

(* Without a cohort a row is its request as it was scheduled: it is in no  *)
(* other batch, and frozen.                                                *)
LEMMA QueuedRow ==
  ASSUME EngineInv, Serial, NEW k \in 1..Len(batch_queue), k <= 2,
         NEW r \in ToSet(batch_queue[k].seqs)
  PROVE  /\ r \in in_flight /\ r \in Requests
         /\ status[r] \notin {"NEW", "FINISHED"} /\ r \notin ToSet(running)
         /\ r \notin ToSet(batch.seqs)
         /\ \A j \in 1..Len(batch_queue) : r \in ToSet(batch_queue[j].seqs) => j = k
<1>1. NoCohort /\ Inv /\ Ownership /\ OneRowPerFlight /\ OneOwner /\ TypeInv
  BY DEF EngineInv, AsyncInv, NoCohort, Inv, Ownership
<1>2. in_flight = ToSet(scheduled_seqs) \cup ToSet(batch.seqs)
                   \cup UNION {ToSet(batch_queue[i].seqs) : i \in 1..Len(batch_queue)}
  BY <1>1 DEF OneRowPerFlight
<1>3. r \in in_flight
  BY <1>2
<1>4. r \in Requests /\ status[r] \notin {"NEW", "FINISHED"} /\ r \notin ToSet(running)
  BY <1>1, <1>3, PipeTypes, LiveOwners DEF OneOwner
<1>5. /\ r \notin ToSet(batch.seqs)
      /\ \A j \in 1..Len(batch_queue) : r \in ToSet(batch_queue[j].seqs) => j = k
  BY <1>1 DEF OneRowPerFlight
<1> QED
  BY <1>3, <1>4, <1>5

LEMMA SerialRows ==
  ASSUME Serial, NEW k
  PROVE  LET q == batch_queue[k].seqs IN
         /\ Rows(k) = [i \in 1..Len(q) |-> OwnerRow(q[i])]
         /\ \A S : q \in Seq(S) =>
              /\ Len(q) \in Nat /\ DOMAIN Rows(k) = 1..Len(q) /\ Len(Rows(k)) = Len(q)
              /\ \A i \in 1..Len(q) : Rows(k)[i] = OwnerRow(q[i]) /\ Rows(k)[i].seq = q[i]
              /\ \A r : InBatch(r, k) <=> r \in ToSet(q)
<1> DEFINE q == batch_queue[k].seqs
<1>1. Rows(k) = [i \in 1..Len(q) |-> OwnerRow(q[i])]
  BY DEF Rows
<1>2. ASSUME NEW S, q \in Seq(S)
      PROVE  /\ Len(q) \in Nat /\ DOMAIN Rows(k) = 1..Len(q) /\ Len(Rows(k)) = Len(q)
             /\ \A i \in 1..Len(q) : Rows(k)[i] = OwnerRow(q[i]) /\ Rows(k)[i].seq = q[i]
             /\ \A r : InBatch(r, k) <=> r \in ToSet(q)
  <2>1. Len(q) \in Nat /\ ToSet(q) = {q[i] : i \in 1..Len(q)}
    BY <1>2, ToSetDef
  <2>2. DOMAIN Rows(k) = 1..Len(q)
    BY <1>1
  <2>3. \A i \in 1..Len(q) : Rows(k)[i] = OwnerRow(q[i]) /\ Rows(k)[i].seq = q[i]
    BY <1>1 DEF OwnerRow
  <2>4. Len(Rows(k)) = Len(q)
    BY <1>1, <2>1, FunctionIsQueue
  <2> QED
    BY <2>1, <2>2, <2>3, <2>4 DEF InBatch
<1> QED
  BY <1>1, <1>2

LEMMA QueuedBatch ==
  ASSUME EngineInv, Serial, TightOK, DecodeOK, Queued <= 2, NEW k \in 1..Queued
  PROVE  BatchOK(k)
<1> DEFINE q == batch_queue[k].seqs
<1>1. NoCohort /\ Inv /\ Ownership /\ OneRowPerFlight /\ TypeInv /\ Coverage
  BY DEF EngineInv, AsyncInv, NoCohort, Inv, Ownership
<1>2. Queued = Len(batch_queue) /\ k \in 1..Len(batch_queue) /\ k <= 2 /\ k \in {1, 2}
  BY PipeTypes DEF Queued
<1>3. /\ q \in Seq(Requests) /\ q # <<>> /\ Distinct(q) /\ Len(q) \in Nat /\ Len(q) >= 1
      /\ ToSet(q) = {q[i] : i \in 1..Len(q)}
  <2>1. q \in Seq(Requests) /\ q # <<>> /\ Distinct(q)
    BY <1>1, <1>2, OwnerTypes DEF TypeInv, PhaseOK, OneRowPerFlight
  <2>2. ToSet(q) = {q[i] : i \in 1..Len(q)} /\ Len(q) \in Nat /\ (q = <<>> <=> Len(q) = 0)
    BY <2>1, ToSetDef
  <2> QED
    BY <2>1, <2>2
<1>4. /\ DOMAIN Rows(k) = 1..Len(q) /\ Len(Rows(k)) = Len(q)
      /\ \A i \in 1..Len(q) : Rows(k)[i] = OwnerRow(q[i]) /\ Rows(k)[i].seq = q[i]
  BY <1>3, SerialRows
<1>5. Len(q) <= MaxNumSeqs
  <2>1. IsFiniteSet(SlotOwners) /\ Cardinality(SlotOwners) <= MaxNumSeqs
    <3>1. SlotOwners \subseteq Requests /\ SlotsBounded
      BY <1>1, OwnerSets DEF EngineInv, Inv, PolicyInv
    <3> QED
      BY <3>1, FS_Subset, ConfigAssumption DEF SlotsBounded
  <2>2. \A i \in 1..Len(q) : q[i] \in SlotOwners
    BY <1>2, <1>3, QueuedRow DEF SlotOwners
  <2>3. \A i, j \in 1..Len(q) : q[i] = q[j] => i = j
    BY <1>3 DEF Distinct
  <2> QED
    BY <1>3, <2>1, <2>2, <2>3, FewRows
<1>6. ASSUME NEW i \in 1..Len(q) PROVE RowOK(Rows(k)[i], k)
  <2> DEFINE r == q[i]
             x == Rows(k)[i]
  <2>1. /\ r \in ToSet(q) /\ r \in in_flight /\ r \in Requests
        /\ status[r] \notin {"NEW", "FINISHED"} /\ r \notin ToSet(running)
        /\ r \notin ToSet(batch.seqs)
        /\ \A j \in 1..Len(batch_queue) : r \in ToSet(batch_queue[j].seqs) => j = k
    BY <1>2, <1>3, QueuedRow
  <2>2. /\ x.seq = r /\ x.first = num_cached_tokens[r] /\ x.count = num_scheduled_tokens[r]
        /\ x.len = num_tokens[r] /\ x.table = block_table[r] /\ x.is_prefill = is_prefill[r]
    <3>1. x = OwnerRow(r)
      BY <1>4
    <3> HIDE DEF x, r
    <3> QED
      BY <3>1 DEF OwnerRow
  <2>3. /\ num_tokens[r] \in Nat /\ num_cached_tokens[r] \in Nat
        /\ num_scheduled_tokens[r] \in Nat /\ num_scheduled_tokens[r] >= 1
        /\ num_cached_tokens[r] + num_scheduled_tokens[r] <= num_tokens[r]
    BY <1>1, <2>1, CounterTypes DEF EngineInv, Worked
  <2>4. block_table[r] \in Seq(Blocks) /\ is_prefill[r] \in BOOLEAN /\ Len(block_table[r]) \in Nat
    BY <2>1, PipeTypes
  <2>5. /\ num_tokens[r] <= cap(r) /\ cap(r) \in Nat
        /\ ~is_prefill[r] => num_cached_tokens[r] + num_scheduled_tokens[r] = num_tokens[r]
    BY <1>1, <2>1, CoverageTypes DEF Coverage, Covered
  <2>6. num_cached_tokens[r] + num_scheduled_tokens[r] <= Len(block_table[r]) * BlockSize
    BY <2>3, <2>5 DEF cap
  <2>7. /\ Prompt(k) = batch_queue[k].is_prefill
        /\ ~Prompt(k) => ~is_prefill[r]
    <3>1. batch_queue[k] \in Batch
      BY <1>2, PipeTypes
    <3>2. batch_queue[k].is_prefill \in BOOLEAN
      BY <3>1 DEF Batch
    <3>3. Prompt(k) = batch_queue[k].is_prefill
      BY <3>2 DEF Prompt
    <3>4. PureDecode(batch_queue[k])
      BY <1>1, <1>2 DEF Coverage
    <3> QED
      BY <2>1, <3>3, <3>4 DEF PureDecode
  <2>8. ~is_prefill[r] => num_cached_tokens[r] # 0 /\ num_scheduled_tokens[r] = 1
    <3>1. PromptLen[r] \in Nat \ {0}
      BY <2>1, ConfigAssumption
    <3> QED
      BY <2>1, <2>3, <2>5, <3>1 DEF DecodeOK
  <2>9. block_table[r] # <<>> /\ (Len(block_table[r]) - 1) * BlockSize < num_tokens[r]
    <3>1. block_table[r] # <<>>
      <4>1. block_table[r] = <<>> => cap(r) = 0
        BY <1>1, <2>1, CoverageTypes
      <4> QED
        BY <2>3, <2>5, <4>1
    <3>2. r \notin ToSet(live)
      BY EmptyQueue DEF Serial
    <3>3. Ahead(r) = 1
      BY <2>1, <3>2 DEF Ahead
    <3>4. num_tokens[r] - 1 + 1 = num_tokens[r]
      BY <2>3
    <3>5. Tight(block_table[r], num_tokens[r] - 1 + Ahead(r))
      BY <2>1 DEF TightOK
    <3> QED
      BY <3>1, <3>3, <3>4, <3>5 DEF Tight
  <2>11. num_cached_tokens[r] = 0 => Prompt(k) /\ is_prefill[r]
    BY <2>4, <2>7, <2>8
  <2>10. RowCount(r) = num_scheduled_tokens[r] /\ Landed(r, k - 1) = num_cached_tokens[r]
    <3>1. Taken(r) = 0 /\ RowCount(r) = num_scheduled_tokens[r]
      BY <2>1 DEF Taken, RowCount
    <3>2. k = 2 => Gain(r, 1) = 0
      <4>1. SUFFICES ASSUME k = 2 PROVE ~InBatch(r, 1)
        BY DEF Gain
      <4>2. 1 \in 1..Len(batch_queue) /\ r \notin ToSet(batch_queue[1].seqs)
        BY <1>2, <2>1, <4>1
      <4>3. batch_queue[1].seqs \in Seq(Requests)
        BY <1>1, <4>2, OwnerTypes
      <4> QED
        BY <4>2, <4>3, SerialRows
    <3>3. k - 1 = 0 \/ (k = 2 /\ k - 1 = 1)
      BY <1>2
    <3> QED
      BY <2>3, <3>1, <3>2, <3>3 DEF Landed
  <2> QED
    BY <2>2, <2>3, <2>4, <2>6, <2>7, <2>8, <2>9, <2>10, <2>1, <2>5, <2>11 DEF RowOK
<1> QED
  BY <1>3, <1>4, <1>5, <1>6, ConfigAssumption DEF BatchOK, Distinct

LEMMA ViewRows ==
  ASSUME ~Serial, NEW k
  PROVE  LET b == dispatched[k] IN
         /\ Rows(k) = [i \in 1..Len(b) |-> ViewRow(b[i])]
         /\ b \in Views =>
              /\ Len(b) \in Nat /\ DOMAIN Rows(k) = 1..Len(b) /\ Len(Rows(k)) = Len(b)
              /\ \A i \in 1..Len(b) : Rows(k)[i] = ViewRow(b[i]) /\ Rows(k)[i].seq = b[i].seq
              /\ \A r : InBatch(r, k) <=> RowsOf(r, b) # {}
              /\ \A r : Gain(r, k) = Count(RowsOf(r, b))
<1> DEFINE b == dispatched[k]
<1>1. Rows(k) = [i \in 1..Len(b) |-> ViewRow(b[i])]
  BY DEF Rows
<1>2. ASSUME b \in Views
      PROVE  /\ Len(b) \in Nat /\ DOMAIN Rows(k) = 1..Len(b) /\ Len(Rows(k)) = Len(b)
             /\ \A i \in 1..Len(b) : Rows(k)[i] = ViewRow(b[i]) /\ Rows(k)[i].seq = b[i].seq
             /\ \A r : InBatch(r, k) <=> RowsOf(r, b) # {}
             /\ \A r : Gain(r, k) = Count(RowsOf(r, b))
  <2>1. Len(b) \in Nat
    BY <1>2, RowsOfTypes
  <2>2. DOMAIN Rows(k) = 1..Len(b)
    BY <1>1
  <2>3. \A i \in 1..Len(b) : Rows(k)[i] = ViewRow(b[i]) /\ Rows(k)[i].seq = b[i].seq
    BY <1>1 DEF ViewRow
  <2>4. Len(Rows(k)) = Len(b)
    BY <1>1, <2>1, FunctionIsQueue
  <2>5. \A r : InBatch(r, k) <=> RowsOf(r, b) # {}
    BY <2>2, <2>3 DEF InBatch, RowsOf
  <2>6. \A r : Gain(r, k) = Count(RowsOf(r, b))
    BY <2>5 DEF Gain, Count, RowCount
  <2> QED
    BY <2>1, <2>2, <2>3, <2>4, <2>5, <2>6
<1> QED
  BY <1>1, <1>2

(* Where the k-th outstanding batch of views is counted.                   *)
LEMMA PlaceOfBatch ==
  ASSUME CohortInv, ~Serial, NEW k \in 1..Len(dispatched), k <= 2, NEW r \in Requests
  PROVE  /\ dispatched[k] \in Views /\ dispatched[k] # <<>> /\ OneEach(dispatched[k])
         /\ Landed(r, k - 1) \in Nat
         /\ \/ dispatched[k] = Older /\ Landed(r, k - 1) = num_cached_tokens[r]
            \/ /\ dispatched[k] = Newer
               /\ Landed(r, k - 1) = num_cached_tokens[r] + Count(RowsOf(r, Older))
<1>1. /\ dispatched \in Seq(Views) /\ views \in Views /\ Len(dispatched) \in Nat
      /\ num_cached_tokens[r] \in Nat /\ phase \in {"idle", "commit"}
      /\ (dispatched = <<>> <=> Len(dispatched) = 0)
  BY LenProperties, ToSetDef DEF CohortInv, CohortTypes, Still
<1>2. \A S : Count(S) \in {0, 1}
  BY DEF Count
<1>3. dispatched[k] \in Views /\ dispatched[k] # <<>>
  BY <1>1 DEF CohortInv, Shape
<1>4. k \in {1, 2} /\ Len(dispatched) >= 1 /\ dispatched # <<>> /\ 1 \in 1..Len(dispatched)
  BY <1>1
<1>5. Taken(r) = Count(RowsOf(r, views)) /\ Gain(r, 1) = Count(RowsOf(r, dispatched[1]))
  BY <1>1, <1>4, ViewRows DEF Taken
<1>6. CASE phase = "idle"
  <2>1. Older = dispatched[1] /\ (k = 2 => Newer = dispatched[2])
    BY <1>1, <1>4, <1>6 DEF Older, Newer
  <2>2. Taken(r) = 0
    BY <1>5, <1>6, NoRows DEF CohortInv, Shape, Count
  <2>3. k = 1 => dispatched[k] = Older /\ Landed(r, k - 1) = num_cached_tokens[r]
    BY <1>1, <2>1, <2>2 DEF Landed
  <2>4. k = 2 => /\ dispatched[k] = Newer
                 /\ Landed(r, k - 1) = num_cached_tokens[r] + Count(RowsOf(r, Older))
    BY <1>1, <1>2, <1>5, <2>1, <2>2 DEF Landed
  <2>5. OneEach(dispatched[k])
    BY <1>4, <2>1 DEF CohortInv, Shape
  <2> QED
    BY <1>1, <1>2, <1>3, <1>4, <2>3, <2>4, <2>5
<1>7. CASE phase = "commit"
  <2>1. Older = views /\ Newer = dispatched[1] /\ Len(dispatched) <= 1 /\ k = 1
    BY <1>1, <1>4, <1>7 DEF Older, Newer, CohortInv, Shape
  <2>2. Landed(r, k - 1) = num_cached_tokens[r] + Count(RowsOf(r, Older))
    BY <1>1, <1>2, <1>5, <2>1 DEF Landed
  <2>3. OneEach(dispatched[k])
    BY <2>1 DEF CohortInv, Shape
  <2> QED
    BY <1>1, <1>2, <1>3, <2>1, <2>2, <2>3
<1> QED
  BY <1>1, <1>6, <1>7

LEMMA ViewBatch ==
  ASSUME EngineInv, ~Serial, TightOK, Queued <= 2, NEW k \in 1..Queued
  PROVE  BatchOK(k)
<1> DEFINE b == dispatched[k]
<1>1. CohortInv /\ CohortTypes /\ Shape /\ Owners
  BY DEF EngineInv, AsyncInv, CohortInv
<1>2. Queued = Len(dispatched) /\ k \in 1..Len(dispatched) /\ k <= 2
  BY PipeTypes DEF Queued
<1>3. b \in Views /\ b # <<>> /\ OneEach(b) /\ Len(b) \in Nat /\ b \in Seq(ViewType)
  <2>1. b \in Views /\ b # <<>> /\ OneEach(b)
    BY <1>1, <1>2, PlaceOfBatch, PipeTypes, ConfigAssumption DEF Shape, Older, Newer
  <2> QED
    BY <2>1, RowsOfTypes
<1>4. Len(b) >= 1
  BY <1>3, ToSetDef
<1>5. /\ DOMAIN Rows(k) = 1..Len(b) /\ Len(Rows(k)) = Len(b)
      /\ \A i \in 1..Len(b) : Rows(k)[i] = ViewRow(b[i]) /\ Rows(k)[i].seq = b[i].seq
  BY <1>3, ViewRows
<1>6. ASSUME NEW i \in 1..Len(b)
      PROVE  b[i].seq \in ToSet(live) /\ RowOK(Rows(k)[i], k)
  <2> DEFINE v == b[i]
             r == v.seq
             x == Rows(k)[i]
  <2>1. r \in Requests /\ v \in RowsOf(r, b) /\ v \in ViewType /\ v.num_tokens \in Nat
        /\ v.block_table \in Seq(Blocks)
    BY <1>3, RowsOfTypes DEF ViewType
  <2>2. /\ x.seq = r /\ x.first = v.num_tokens - 1 /\ x.count = 1 /\ x.len = v.num_tokens
        /\ x.table = v.block_table /\ x.is_prefill = FALSE
    <3>1. x = ViewRow(v)
      BY <1>5
    <3> HIDE DEF x, v
    <3> QED
      BY <3>1 DEF ViewRow
  <2>3. /\ OnItsWay(r) /\ Account(r) /\ num_tokens[r] \in Nat /\ num_cached_tokens[r] \in Nat
        /\ block_table[r] \in Seq(Blocks)
    BY <1>1, <2>1 DEF CohortInv, CohortTypes
  <2>4. v \in RowsOf(r, Older) \cup RowsOf(r, Newer)
    BY <1>1, <1>2, <2>1, PlaceOfBatch
  <2>5. ViewOK(v, block_table[r], Limit(r)) /\ pending[r] # 0
    <3>1. Count(RowsOf(r, Older)) + Count(RowsOf(r, Newer)) # 0
      BY <2>4 DEF Count
    <3> QED
      BY <2>3, <2>4, <3>1 DEF OnItsWay, Flight
  <2>6. r \in ToSet(live)
    BY <2>3, <2>5 DEF Account
  <2>7. /\ v.num_tokens <= Len(v.block_table) * BlockSize
        /\ Len(v.block_table) <= Len(block_table[r])
        /\ \A j \in 1..Len(v.block_table) : v.block_table[j] = block_table[r][j]
    BY <2>1, <2>3, <2>5, PrefixIs DEF ViewOK
  <2>8. v.num_tokens >= 1 /\ Tight(v.block_table, v.num_tokens)
    BY <1>2 DEF TightOK
  <2>9. (Len(v.block_table) - 1) * BlockSize < v.num_tokens
    <3>1. v.block_table # <<>>
      <4>1. v.block_table = <<>> => Len(v.block_table) * BlockSize = 0
        BY ConfigAssumption
      <4> QED
        BY <2>1, <2>7, <2>8, <4>1
    <3> QED
      BY <2>8, <3>1 DEF Tight
  <2>10. ASSUME status[r] # "FINISHED"
         PROVE  /\ v.num_tokens - 1 = Landed(r, k - 1) /\ v.num_tokens >= num_tokens[r]
                /\ v.num_tokens - 1 # 0
    <3>1. num_cached_tokens[r] = num_tokens[r] - 1
      BY <2>3, <2>6, <2>10 DEF Account
    <3>2. \/ /\ v \in RowsOf(r, Older) /\ Landed(r, k - 1) = num_cached_tokens[r]
          \/ /\ v \in RowsOf(r, Newer)
             /\ Landed(r, k - 1) = num_cached_tokens[r] + Count(RowsOf(r, Older))
      BY <1>1, <1>2, <2>1, PlaceOfBatch
    <3>3. /\ \A w \in RowsOf(r, Older) : w.num_tokens = num_tokens[r]
          /\ \A w \in RowsOf(r, Newer) : w.num_tokens = num_tokens[r] + Count(RowsOf(r, Older))
      BY <2>3, <2>10 DEF OnItsWay, Flight
    <3>4. Count(RowsOf(r, Older)) \in {0, 1}
      BY DEF Count
    <3>5. num_tokens[r] > 1
      BY <2>1, <2>3, <2>6, ConfigAssumption DEF EngineInv, Worked
    <3>6. \/ v.num_tokens = num_tokens[r] /\ Landed(r, k - 1) = num_cached_tokens[r]
          \/ /\ v.num_tokens = num_tokens[r] + Count(RowsOf(r, Older))
             /\ Landed(r, k - 1) = num_cached_tokens[r] + Count(RowsOf(r, Older))
      BY <3>2, <3>3
    <3> HIDE DEF r, v
    <3> QED
      BY <2>1, <2>3, <3>1, <3>4, <3>5, <3>6
  <2>11. ~Prompt(k) /\ RowCount(r) = 1
    BY DEF Prompt, RowCount
  <2>12. v.num_tokens - 1 \in Nat /\ v.num_tokens - 1 + 1 = v.num_tokens
    BY <2>1, <2>8
  <2>13. RowOK(x, k)
    <3> HIDE DEF x, r, v
    <3>1. status[x.seq] # "FINISHED" =>
       /\ x.first = Landed(x.seq, k - 1) /\ x.count = RowCount(x.seq)
       /\ x.len >= num_tokens[x.seq] /\ (x.is_prefill => x.len = num_tokens[x.seq])
       /\ x.first = 0 => Prompt(k) /\ x.is_prefill
      BY <2>2, <2>10, <2>11
    <3>2. /\ x.first + x.count = x.len /\ x.first \in Nat /\ x.len \in Nat /\ x.count = 1
          /\ x.first + x.count <= Len(x.table) * BlockSize
      BY <2>1, <2>2, <2>7, <2>12
    <3>3. x.first + x.count <= x.len
      BY <3>2
    <3>4. ~x.is_prefill /\ x.is_prefill \in BOOLEAN /\ x.seq \in Requests /\ x.table \in Seq(Blocks)
      BY <2>1, <2>2
    <3>5. /\ (Len(x.table) - 1) * BlockSize < x.len /\ Len(x.table) <= Len(block_table[x.seq])
          /\ \A j \in 1..Len(x.table) : x.table[j] = block_table[x.seq][j]
      BY <2>2, <2>7, <2>9
    <3>6. x.count \in Nat /\ x.count >= 1
      BY <3>2
    <3> QED
      BY <3>1, <3>2, <3>3, <3>4, <3>5, <3>6 DEF RowOK
  <2> QED
    BY <2>6, <2>13
<1>7. \A i, j \in 1..Len(b) : b[i].seq = b[j].seq => i = j
  BY <1>3 DEF OneEach
<1>8. Len(b) <= MaxNumSeqs
  <2>1. IsFiniteSet(ToSet(live)) /\ Cardinality(ToSet(live)) <= MaxNumSeqs
    BY <1>1, DistinctCardinality DEF Owners, CohortTypes
  <2> DEFINE s == [i \in 1..Len(b) |-> b[i].seq]
  <2>2. /\ \A i \in 1..Len(b) : s[i] \in ToSet(live)
        /\ \A i, j \in 1..Len(b) : s[i] = s[j] => i = j
    BY <1>6, <1>7
  <2> HIDE DEF s
  <2> QED
    BY <1>3, <2>1, <2>2, FewRows
<1> QED
  BY <1>3, <1>4, <1>5, <1>6, <1>7, <1>8, ConfigAssumption DEF BatchOK

LEMMA BatchesOK ==
  ASSUME EngineInv, TightOK, DecodeOK, Queued <= 2
  PROVE  \A k \in 1..Queued : BatchOK(k)
BY QueuedBatch, ViewBatch

(* No two requests share a block, and none has a block twice.              *)
LEMMA TablesDiffer ==
  ASSUME EngineInv, NEW r \in Requests, NEW q \in Requests,
         NEW i \in 1..Len(block_table[r]), NEW j \in 1..Len(block_table[q]),
         block_table[r][i] = block_table[q][j]
  PROVE  r = q /\ i = j
<1>1. AsyncBlocksConserved
  BY AsyncBlocks DEF EngineInv, AsyncInv, NoCohort, CohortInv, Inv
<1>2. /\ block_table[r] \in Seq(Blocks) /\ block_table[q] \in Seq(Blocks)
      /\ Distinct(block_table[r])
      /\ q # r => ToSet(block_table[r]) \cap ToSet(block_table[q]) = {}
  BY <1>1, PipeTypes DEF AsyncBlocksConserved
<1>3. block_table[r][i] \in ToSet(block_table[r]) /\ block_table[q][j] \in ToSet(block_table[q])
  BY <1>2, ToSetDef
<1>4. r = q
  BY <1>2, <1>3
<1> QED
  BY <1>2, <1>4 DEF Distinct

LEMMA LandedTypes ==
  ASSUME EngineInv, NEW r \in Requests
  PROVE  /\ Landed(r, 0) \in Nat /\ Landed(r, 1) \in Nat /\ Landed(r, 2) \in Nat
         /\ Landed(r, 1) = Landed(r, 0) + Gain(r, 1)
         /\ Landed(r, 2) = Landed(r, 1) + Gain(r, 2)
         /\ Gain(r, 1) \in Nat /\ Gain(r, 2) \in Nat /\ RowCount(r) \in Nat
         /\ num_tokens[r] \in Nat
<1>1. num_cached_tokens[r] \in Nat /\ num_scheduled_tokens[r] \in Nat /\ num_tokens[r] \in Nat
  BY PipeTypes
<1>2. Taken(r) \in Nat /\ RowCount(r) \in Nat
  BY <1>1 DEF Taken, RowCount, Count
<1>3. Gain(r, 1) \in Nat /\ Gain(r, 2) \in Nat
  BY <1>2 DEF Gain
<1>4. /\ Landed(r, 0) = num_cached_tokens[r] + Taken(r)
      /\ Landed(r, 1) = num_cached_tokens[r] + Taken(r) + Gain(r, 1)
      /\ Landed(r, 2) = num_cached_tokens[r] + Taken(r) + Gain(r, 1) + Gain(r, 2)
  BY <1>1, <1>2, <1>3 DEF Landed
<1> QED
  BY <1>1, <1>2, <1>3, <1>4

-----------------------------------------------------------------------------
(* The device's steps                                                      *)

(* Position p of a request lies in the block its table has for it.         *)
LEMMA BlockIndex ==
  ASSUME NEW n \in Nat, NEW p \in Nat, p < n * BlockSize
  PROVE  p \div BlockSize + 1 \in 1..n /\ p % BlockSize \in 0..(BlockSize - 1)
<1> DEFINE q == p \div BlockSize
           m == p % BlockSize
<1>1. p = BlockSize * q + m /\ m \in 0..BlockSize - 1 /\ q \in Int /\ BlockSize \in Nat /\ BlockSize > 1
  BY Euclid, ConfigAssumption
<1> HIDE DEF q, m
<1>2. q >= 0
  BY <1>1
<1>3. q < n
  BY <1>1
<1> QED
  BY <1>1, <1>2, <1>3 DEF q, m

LEMMA SamePosition ==
  ASSUME NEW p \in Nat, NEW q \in Nat, p \div BlockSize = q \div BlockSize,
         p % BlockSize = q % BlockSize
  PROVE  p = q
BY Euclid, ConfigAssumption

(* The last of n blocks that are all needed holds the last position.       *)
LEMMA LastBlock ==
  ASSUME NEW n \in Nat, NEW len \in Nat, len >= 1, len <= n * BlockSize, (n - 1) * BlockSize < len
  PROVE  (len - 1) \div BlockSize + 1 = n
<1> DEFINE p == len - 1
           q == p \div BlockSize
           m == p % BlockSize
<1>1. p \in Nat /\ BlockSize \in Nat /\ BlockSize > 1
  BY ConfigAssumption
<1>2. p = BlockSize * q + m /\ m \in 0..BlockSize - 1 /\ q \in Int
  BY <1>1, Euclid
<1>3. p < n * BlockSize /\ (n - 1) * BlockSize <= p
  BY <1>1
<1> HIDE DEF p, q, m
<1>4. q < n
  BY <1>1, <1>2, <1>3
<1>5. n - 1 <= q
  BY <1>1, <1>2, <1>3
<1>6. q + 1 = n
  BY <1>2, <1>4, <1>5
<1> QED
  BY <1>6 DEF q, p

LEMMA DeviceOnly ==
  ASSUME UNCHANGED <<asyncVars, loop, outputs, result, hostVars>>
  PROVE  /\ \A k : Rows(k)' = Rows(k) /\ Prompt(k)' = Prompt(k) /\ (BatchOK(k) => BatchOK(k)')
         /\ \A r, d : Landed(r, d)' = Landed(r, d)
         /\ \A w, k : ItemOK(w, k)' = ItemOK(w, k)
         /\ (Handles => Handles') /\ (TightOK => TightOK') /\ (DecodeOK => DecodeOK')
         /\ (ResultOK => ResultOK')
<1> USE DEF asyncVars, cohortVars, vars, queueVars, seqVars, blockVars, callVars, driverVars, hostVars
<1>1. \A k : Rows(k)' = Rows(k) /\ Prompt(k)' = Prompt(k)
  BY DEF Rows, Prompt, Serial, OwnerRow, ViewRow
<1>2. \A r, d : Landed(r, d)' = Landed(r, d)
  <2>1. \A r : Taken(r)' = Taken(r)
    BY DEF Taken, Serial
  <2>2. \A r, k : Gain(r, k)' = Gain(r, k)
    BY <1>1 DEF Gain, InBatch, RowCount, Serial
  <2> QED
    BY <2>1, <2>2 DEF Landed
<1>3. \A w, k : ItemOK(w, k)' = ItemOK(w, k)
  BY <1>1 DEF ItemOK
<1>4. \A k : BatchOK(k) => BatchOK(k)'
  <2> SUFFICES ASSUME NEW k, BatchOK(k) PROVE BatchOK(k)'
    OBVIOUS
  <2>1. Rows(k)' = Rows(k) /\ Prompt(k)' = Prompt(k)
    BY <1>1
  <2>2. \A r : Landed(r, k - 1)' = Landed(r, k - 1) /\ RowCount(r)' = RowCount(r)
    BY <1>2 DEF RowCount, Serial
  <2>3. \A x : RowOK(x, k) => RowOK(x, k)'
    BY <2>1, <2>2 DEF RowOK
  <2> QED
    BY <2>1, <2>3 DEF BatchOK
<1>5. Handles => Handles'
  BY DEF Handles, Queued, Serial
<1>6. TightOK => TightOK'
  BY DEF TightOK, Ahead
<1>7. DecodeOK => DecodeOK'
  BY DEF DecodeOK, Serial
<1>8. ResultOK => ResultOK'
  BY DEF ResultOK, OutputCorrect, IsPartial, consumed
<1> QED
  BY <1>1, <1>2, <1>3, <1>4, <1>5, <1>6, <1>7, <1>8

(* The slot of a row is its request's, and no other row's.                 *)
LEMMA SlotOfRow ==
  ASSUME OneSlot(input_batch), NEW s \in Slots, NEW t \in Slots, NEW r \in Requests,
         input_batch[s].seq = r, input_batch[t].seq = r
  PROVE  s = t
BY DEF OneSlot

LEMMA PrepareOnly ==
  ASSUME EngineInv, PipeInv, Compute, PrepareInputs
  PROVE  PipeInv'
<1>0. PICK n : n = Len(outputs)
  OBVIOUS
<1>1. /\ UNCHANGED <<asyncVars, loop, outputs, result, hostVars, copies, kv, output_buf>>
      /\ UNCHANGED input_batch /\ UNCHANGED <<asyncVars, loop, outputs, result, hostVars>>
  BY DEF Compute, PrepareInputs, hostVars
<1>2. /\ \A k : Rows(k)' = Rows(k) /\ Prompt(k)' = Prompt(k)
      /\ \A r, d : Landed(r, d)' = Landed(r, d)
      /\ \A w, k : ItemOK(w, k)' = ItemOK(w, k)
      /\ Handles' /\ TightOK' /\ DecodeOK' /\ ResultOK'
  <2>1. UNCHANGED <<asyncVars, loop, outputs, result, hostVars>>
    BY <1>1
  <2>2. /\ \A k : Rows(k)' = Rows(k) /\ Prompt(k)' = Prompt(k)
        /\ \A r, d : Landed(r, d)' = Landed(r, d)
        /\ \A w, k : ItemOK(w, k)' = ItemOK(w, k)
    BY <2>1, DeviceOnly
  <2>3. (Handles => Handles') /\ (TightOK => TightOK') /\ (DecodeOK => DecodeOK')
        /\ (ResultOK => ResultOK')
    BY <2>1, DeviceOnly
  <2> QED
    BY <2>2, <2>3 DEF PipeInv
<1>3. IsSeq(stream) /\ Len(stream) \in 0..3 /\ n \in Nat
  BY <1>0, LenProperties DEF PipeInv, StreamOK, Handles
<1>4. stream # <<>> /\ stream[1].kind = "prepare" /\ work = stream[1]
  BY <1>3, SeqFacts DEF PrepareInputs, work
<1>5. Len(stream) = 2
  <2>1. Len(stream) # 0
    BY <1>3, <1>4, SeqFacts
  <2>2. Len(stream) \in {1, 3} => stream[1].kind = "forward"
    BY DEF PipeInv, StreamOK, ForwardOK
  <2> QED
    BY <1>3, <1>4, <2>1, <2>2
<1>16. PICK P, F : P = stream[1] /\ F = stream[2]
  OBVIOUS
<1>6. PrepareOK(P, n) /\ ForwardOK(F, n)
  BY <1>0, <1>5, <1>16 DEF PipeInv, StreamOK
<1>7. IsSeq(stream') /\ Len(stream') = 1 /\ stream'[1] = F
  <2>1. stream' = Tail(stream) /\ 1 \in 1..(Len(stream) - 1) /\ Len(stream) = 2
    BY <1>5 DEF PrepareInputs
  <2>2. IsSeq(Tail(stream)) /\ Len(Tail(stream)) = 1 /\ Tail(stream)[1] = stream[1 + 1]
    BY <1>3, <1>4, <2>1, SeqFacts
  <2> QED
    BY <1>16, <2>1, <2>2
<1>8. Flying = 1 /\ Flying' = 1 /\ Done = n - 1 /\ Done' = n - 1 /\ n >= 1
  BY <1>0, <1>1, <1>3, <1>5, <1>7 DEF Flying, Done, PipeInv, StreamOK
<1>9. BatchOK(n) /\ n \in {1, 2}
  <2>1. n \in 1..Queued /\ Queued <= 2 /\ Queued \in Nat
    BY <1>0, <1>3, <1>8, PipeTypes DEF PipeInv, Handles, Queued
  <2> QED
    BY <1>3, <2>1, BatchesOK DEF PipeInv
<1>10. /\ P.rows = Rows(n) /\ DOMAIN P.slots = DOMAIN Rows(n) /\ P.is_prefill = Prompt(n)
       /\ F.rows = Rows(n)
       /\ \A i \in DOMAIN Rows(n) : P.slots[i] \in Slots /\ input_batch[P.slots[i]].seq = Rows(n)[i].seq
       /\ P.reset = {P.slots[i] : i \in Starting(P)} /\ P.fresh \subseteq Starting(P)
       /\ Starting(P) \subseteq DOMAIN Rows(n)
  BY <1>6 DEF PrepareOK, ForwardOK, ItemOK, Starting
<1>11. /\ DOMAIN Rows(n) = 1..Len(Rows(n)) /\ DOMAIN Rows(n) \subseteq Slots
       /\ \A i \in DOMAIN Rows(n) : RowOK(Rows(n)[i], n)
  BY <1>9, ConfigAssumption DEF BatchOK, Slots
<1>12. StreamOK'
  <2>1. prepared' = TRUE
    BY <1>4, <1>5, <1>6, <1>16 DEF PrepareInputs, ForwardOK
  <2>2. ForwardOK(F, n)'
    BY <1>2, <1>6 DEF ForwardOK
  <2>3. Len(outputs') = n
    BY <1>0, <1>1
  <2>4. ForwardOK(stream[Len(stream)], Len(outputs))'
    BY <1>7, <2>2, <2>3 DEF ForwardOK, ItemOK
  <2> QED
    BY <1>3, <1>7, <1>8, <2>1, <2>3, <2>4 DEF StreamOK
<1>13. StagingOK'
  <2>1. SUFFICES ASSUME ~Prompt(n), NEW i \in DOMAIN Rows(n)
                 PROVE  decode_gpu'[i] = Stage(Rows(n)[i])
    BY <1>0, <1>1, <1>2, <1>3, <1>7, <1>8 DEF StagingOK
  <2>2. decode_cpu[i] = Stage(Rows(n)[i])
    BY <1>0, <1>5, <2>1 DEF PipeInv, StagingOK
  <2>3. i \in Slots
    BY <1>11
  <2>4. ~work.is_prefill /\ work.rows = Rows(n)
    BY <1>4, <1>10, <1>16, <2>1
  <2>5. decode_gpu'[i] = decode_cpu[i]
    BY <2>1, <2>3, <2>4 DEF PrepareInputs
  <2> QED
    BY <2>2, <2>5
<1>14. DeviceOK'
  <2> SUFFICES ASSUME NEW r \in Requests, status[r] # "FINISHED"
               PROVE  /\ EntriesOK(r, Reached(r))'
                      /\ \A s \in Slots : input_batch[s].seq = r => SlotOK(s, r, Reached(r))'
                      /\ r \notin Users(input_batch) => num_cached_tokens[r] = 0
    BY <1>1 DEF DeviceOK, Users, asyncVars, vars, seqVars
  <2>1. PICK d : d = Reached(r)
    OBVIOUS
  <2>2. d = Landed(r, n - 1) /\ Reached(r)' = d
    BY <1>1, <1>2, <1>8, <2>1 DEF Reached
  <2>3. d \in Nat /\ num_tokens[r] \in Nat
    <3>1. n - 1 \in {0, 1}
      BY <1>9
    <3> QED
      BY <2>2, <3>1, LandedTypes
  <2>4. EntriesOK(r, d) => EntriesOK(r, d)'
    BY <1>1 DEF EntriesOK, asyncVars, vars, blockVars
  <2>5. ASSUME NEW s \in Slots, input_batch[s].seq = r PROVE SlotOK(s, r, d)'
    <3>1. SlotOK(s, r, d)
      BY <2>1, <2>5 DEF PipeInv, DeviceOK
    <3>2. OneSlot(input_batch)
      BY DEF EngineInv, SlotInv
    <3>3. \A i \in DOMAIN Rows(n) : P.slots[i] = s <=> Rows(n)[i].seq = r
      BY <1>10, <2>5, <3>2, SlotOfRow
    <3>4. \A i \in DOMAIN Rows(n) : Rows(n)[i].seq = r => Rows(n)[i].first = d
      BY <1>11, <2>2 DEF RowOK
    <3>5. d > 0 => gdn'[s] = <<r, d>>
      <4>1. SUFFICES ASSUME d > 0 PROVE gdn'[s] = <<r, d>>
        OBVIOUS
      <4>2. s \notin P.reset
        <5>1. SUFFICES ASSUME NEW i \in Starting(P), P.slots[i] = s PROVE FALSE
          BY <1>10
        <5>2. i \in DOMAIN Rows(n) /\ Rows(n)[i].first = 0
          BY <1>10, <5>1 DEF Starting
        <5> QED
          BY <3>3, <3>4, <4>1, <5>1, <5>2
      <4> QED
        BY <1>4, <1>16, <3>1, <4>1, <4>2 DEF PrepareInputs, SlotOK
    <3>6. d = 0 /\ NextHas(r)' => gdn'[s] = Zero
      <4>1. SUFFICES ASSUME d = 0, NEW i \in DOMAIN Rows(n), Rows(n)[i].seq = r
                     PROVE  s \in P.reset
        BY <1>4, <1>7, <1>10, <1>16 DEF NextHas, PrepareInputs
      <4>2. P.slots[i] = s /\ Rows(n)[i].first = 0
        BY <3>3, <3>4, <4>1
      <4>3. Prompt(n)
        BY <1>11, <4>1, <4>2 DEF RowOK
      <4>4. i \in Starting(P)
        BY <1>10, <4>1, <4>2, <4>3 DEF Starting
      <4> QED
        BY <1>10, <4>2, <4>4
    <3>7. sampled_token_ids'[s] = <<r, LastToken(r, d)>>
      <4>1. CASE \E i \in P.fresh : P.slots[i] = s
        <5>1. PICK i : i = CHOOSE j \in P.fresh : P.slots[j] = s
          OBVIOUS
        <5>2. i \in P.fresh /\ P.slots[i] = s
          BY <4>1, <5>1
        <5>3. sampled_token_ids'[s] = <<Rows(n)[i].seq, Rows(n)[i].len - 1>>
          BY <1>4, <1>10, <1>16, <4>1, <5>1 DEF PrepareInputs
        <5>4. i \in DOMAIN Rows(n) /\ Rows(n)[i].first = 0 /\ Rows(n)[i].seq = r
          BY <1>10, <3>3, <5>2 DEF Starting
        <5>5. d = 0 /\ Rows(n)[i].len = num_tokens[r] /\ num_tokens[r] >= 1
          BY <1>11, <3>4, <5>4 DEF RowOK
        <5> QED
          BY <2>3, <5>3, <5>4, <5>5 DEF LastToken
      <4>2. CASE ~\E i \in P.fresh : P.slots[i] = s
        <5>1. ~Awaited(r)
          BY <1>5, <1>10, <1>16, <3>3, <4>2 DEF Awaited
        <5>2. sampled_token_ids'[s] = sampled_token_ids[s]
          BY <1>4, <1>16, <4>2 DEF PrepareInputs
        <5> QED
          BY <3>1, <5>1, <5>2 DEF SlotOK
      <4> QED
        BY <4>1, <4>2
    <3>8. LastToken(r, d)' = LastToken(r, d)
      BY <1>1 DEF LastToken, asyncVars, vars, seqVars
    <3> QED
      BY <3>5, <3>6, <3>7, <3>8 DEF SlotOK
  <2>6. EntriesOK(r, d)' /\ \A s \in Slots : input_batch[s].seq = r => SlotOK(s, r, d)'
    BY <2>1, <2>4, <2>5 DEF PipeInv, DeviceOK
  <2>7. r \notin Users(input_batch) => num_cached_tokens[r] = 0
    BY DEF PipeInv, DeviceOK
  <2> QED
    BY <2>2, <2>6, <2>7 DEF EntriesOK, SlotOK
<1>15. OutputsOK'
  BY <1>1, <1>2, <1>8 DEF PipeInv, OutputsOK, Right, asyncVars, vars, seqVars
<1> QED
  BY <1>2, <1>12, <1>13, <1>14, <1>15 DEF PipeInv

(* A forward that is next runs the oldest batch that has not landed.       *)
LEMMA NextForward ==
  ASSUME EngineInv, PipeInv, stream # <<>>, work.kind = "forward"
  PROVE  /\ Len(stream) \in {1, 3} /\ work = stream[1]
         /\ Done + 1 \in {1, 2} /\ Done + 1 <= Len(outputs) /\ Len(outputs) \in Nat
         /\ Len(outputs) = (IF Len(stream) = 1 THEN Done + 1 ELSE Done + 2)
         /\ BatchOK(Done + 1) /\ ForwardOK(work, Done + 1) /\ Done + 1 \in 1..Queued
         /\ Done \in {0, 1}
<1>1. IsSeq(stream) /\ Len(stream) \in 0..3 /\ Len(outputs) \in Nat
  BY LenProperties DEF PipeInv, StreamOK, Handles
<1>2. work = stream[1] /\ Len(stream) # 0
  BY <1>1, SeqFacts DEF work
<1>3. Len(stream) # 2
  <2>1. Len(stream) = 2 => stream[1].kind = "prepare"
    BY DEF PipeInv, StreamOK, PrepareOK
  <2> QED
    BY <1>2, <2>1
<1>4. Len(stream) \in {1, 3}
  BY <1>1, <1>2, <1>3
<1>5. Queued = Len(outputs) + (IF loop = "execute" THEN 1 ELSE 0) /\ Queued <= 2
  BY DEF PipeInv, Handles
<1>6. Flying <= Len(outputs) /\ Flying = (IF Len(stream) = 1 THEN 1 ELSE 2)
  BY <1>4 DEF PipeInv, StreamOK, Flying
<1>7. /\ Done + 1 \in {1, 2} /\ Done \in {0, 1} /\ Done + 1 <= Len(outputs)
      /\ Len(outputs) = (IF Len(stream) = 1 THEN Done + 1 ELSE Done + 2)
      /\ Done + 1 \in 1..Queued
  <2>1. PICK n : n = Len(outputs)
    OBVIOUS
  <2>2. PICK m : m = Queued
    OBVIOUS
  <2>3. m \in Nat
    BY <2>2, PipeTypes DEF Queued
  <2>4. n \in Nat /\ n <= m /\ m <= 2
    BY <1>1, <1>5, <2>1, <2>2, <2>3
  <2>5. CASE Len(stream) = 1
    <3>1. Done = n - 1 /\ n >= 1
      BY <1>1, <1>6, <2>1, <2>5 DEF Done
    <3> QED
      BY <2>1, <2>2, <2>3, <2>4, <2>5, <3>1
  <2>6. CASE Len(stream) = 3
    <3>1. Done = n - 2 /\ n >= 2
      BY <1>1, <1>6, <2>1, <2>6 DEF Done
    <3> QED
      BY <2>1, <2>2, <2>3, <2>4, <2>6, <3>1
  <2> QED
    BY <1>4, <2>5, <2>6
<1>8. BatchOK(Done + 1)
  BY <1>5, <1>7, BatchesOK DEF PipeInv
<1>9. ForwardOK(work, Done + 1)
  <2>1. Len(stream) = 1 => ForwardOK(stream[1], Len(outputs))
    BY DEF PipeInv, StreamOK
  <2>2. Len(stream) = 3 => ForwardOK(stream[1], Len(outputs) - 1)
    BY DEF PipeInv, StreamOK
  <2>3. Len(stream) = 3 => Len(outputs) - 1 = Done + 1
    BY <1>1, <1>4, <1>6 DEF Done
  <2> QED
    BY <1>2, <1>4, <1>7, <2>1, <2>2, <2>3
<1> QED
  BY <1>1, <1>2, <1>4, <1>7, <1>8, <1>9

(* A row computes its positions, into the blocks its request's table has   *)
(* for them: the device's copy of the staging is the row's own.            *)
LEMMA RowTargets ==
  ASSUME EngineInv, PipeInv, stream # <<>>, work.kind = "forward", NEW i \in DOMAIN work.rows
  PROVE  LET x == work.rows[i] IN
         /\ x = Rows(Done + 1)[i] /\ RowOK(x, Done + 1) /\ i \in Slots
         /\ first(i) = x.first /\ end(i) = x.first + x.count
         /\ positions(i) = x.first..(x.first + x.count - 1)
         /\ \A p \in positions(i) : target(i, p) = block_of(x, p)
         /\ \A p \in 0..(x.first + x.count - 1) :
              /\ p \div BlockSize + 1 \in 1..Len(block_table[x.seq])
              /\ p % BlockSize \in 0..(BlockSize - 1)
              /\ block_of(x, p) = block_table[x.seq][p \div BlockSize + 1]
<1>1. PICK k : k = Done + 1
  OBVIOUS
<1>2. PICK x : x = work.rows[i]
  OBVIOUS
<1>3. BatchOK(k) /\ ForwardOK(work, k) /\ Len(stream) \in {1, 3}
  BY <1>1, NextForward
<1>4. work.rows = Rows(k) /\ work.is_prefill = Prompt(k)
  BY <1>3 DEF ForwardOK, ItemOK
<1>5. x = Rows(k)[i] /\ RowOK(x, k) /\ i \in Slots
  BY <1>2, <1>3, <1>4, ConfigAssumption DEF BatchOK, Slots
<1>6. /\ x.first \in Nat /\ x.count \in Nat /\ x.len \in Nat /\ Len(x.table) \in Nat
      /\ x.count >= 1 /\ x.first + x.count <= Len(x.table) * BlockSize
      /\ x.table \in Seq(Blocks) /\ x.seq \in Requests /\ x.first + x.count <= x.len
  BY <1>5, LenProperties DEF RowOK
<1>7. ~work.is_prefill => /\ decode_gpu[i] = Stage(x) /\ x.count = 1 /\ x.first + x.count = x.len
                          /\ (Len(x.table) - 1) * BlockSize < x.len
  BY <1>1, <1>2, <1>3, <1>4, <1>5 DEF PipeInv, StagingOK, RowOK
<1>8. first(i) = x.first
  <2>1. CASE work.is_prefill
    BY <1>2, <2>1 DEF first
  <2>2. CASE ~work.is_prefill
    BY <1>6, <1>7, <2>2 DEF first, Stage
  <2> QED
    BY <2>1, <2>2
<1>9. end(i) = x.first + x.count /\ positions(i) = x.first..(x.first + x.count - 1)
  BY <1>2, <1>8 DEF end, positions
<1>10. ASSUME NEW p \in 0..(x.first + x.count - 1)
       PROVE  /\ p \div BlockSize + 1 \in 1..Len(block_table[x.seq])
              /\ p % BlockSize \in 0..(BlockSize - 1)
              /\ block_of(x, p) = block_table[x.seq][p \div BlockSize + 1]
  <2>1. p \in Nat /\ p < Len(x.table) * BlockSize
    <3>1. PICK m : m = Len(x.table) * BlockSize
      OBVIOUS
    <3>2. m \in Nat
      BY <1>6, <3>1, ConfigAssumption
    <3> QED
      BY <1>6, <3>1, <3>2
  <2>2. p \div BlockSize + 1 \in 1..Len(x.table) /\ p % BlockSize \in 0..(BlockSize - 1)
    BY <1>6, <2>1, BlockIndex
  <2>3. PICK b : b = p \div BlockSize + 1
    OBVIOUS
  <2>4. Len(x.table) <= Len(block_table[x.seq]) /\ Len(block_table[x.seq]) \in Nat
        /\ \A j \in 1..Len(x.table) : x.table[j] = block_table[x.seq][j]
    BY <1>5, <1>6, PipeTypes DEF RowOK
  <2> QED
    BY <1>6, <2>2, <2>3, <2>4 DEF block_of
<1>11. ASSUME NEW p \in positions(i) PROVE target(i, p) = block_of(x, p)
  <2>1. CASE work.is_prefill
    BY <1>2, <2>1 DEF target
  <2>2. CASE ~work.is_prefill
    <3>1. p = x.len - 1
      BY <1>6, <1>7, <1>9, <2>2
    <3>2. target(i, p) = x.table[Len(x.table)]
      BY <1>6, <1>7, <2>2 DEF target, Stage, Last
    <3>3. (x.len - 1) \div BlockSize + 1 = Len(x.table)
      <4>1. x.len >= 1 /\ x.len <= Len(x.table) * BlockSize
        BY <1>6, <1>7, <2>2
      <4> QED
        BY <1>6, <1>7, <2>2, <4>1, LastBlock
    <3> QED
      BY <3>1, <3>2, <3>3 DEF block_of
  <2> QED
    BY <2>1, <2>2
<1> QED
  BY <1>1, <1>2, <1>5, <1>8, <1>9, <1>10, <1>11

(* The inputs of a row are right, for a request that has not ended.        *)
LEMMA RowIsRight ==
  ASSUME EngineInv, PipeInv, stream # <<>>, work.kind = "forward", NEW i \in DOMAIN work.rows,
         status[work.rows[i].seq] # "FINISHED"
  PROVE  RightRow(i) /\ work.rows[i].first = Reached(work.rows[i].seq)
<1>1. PICK k : k = Done + 1
  OBVIOUS
<1>2. PICK x : x = work.rows[i]
  OBVIOUS
<1>3. PICK r : r = x.seq
  OBVIOUS
<1>4. PICK s : s = work.slots[i]
  OBVIOUS
<1>5. BatchOK(k) /\ ForwardOK(work, k) /\ Len(stream) \in {1, 3} /\ k - 1 = Done
      /\ k \in {1, 2} /\ work = stream[1]
      /\ Len(outputs) = (IF Len(stream) = 1 THEN k ELSE k + 1)
  BY <1>1, NextForward
<1>6. /\ work.rows = Rows(k) /\ work.is_prefill = Prompt(k)
      /\ s \in Slots /\ input_batch[s].seq = r
  BY <1>2, <1>3, <1>4, <1>5 DEF ForwardOK, ItemOK
<1>7. RowOK(x, k) /\ first(i) = x.first
  BY <1>1, <1>2, RowTargets
<1>8. /\ r \in Requests /\ x.first \in Nat /\ x.first = Landed(r, k - 1) /\ x.len >= num_tokens[r]
      /\ x.count \in Nat /\ x.count >= 1 /\ x.len \in Nat
      /\ ~work.is_prefill => x.count = 1 /\ x.first + x.count = x.len
  BY <1>2, <1>3, <1>6, <1>7 DEF RowOK
<1>9. x.first = Reached(r) /\ num_tokens[r] \in Nat
  BY <1>5, <1>8, PipeTypes DEF Reached
<1>10. SlotOK(s, r, x.first) /\ EntriesOK(r, x.first)
  BY <1>2, <1>3, <1>6, <1>8, <1>9 DEF PipeInv, DeviceOK
<1>11. NextHas(r)
  BY <1>2, <1>3, <1>5 DEF NextHas
<1>12. gdn[s] = IF x.first = 0 THEN Zero ELSE <<r, x.first>>
  BY <1>8, <1>10, <1>11 DEF SlotOK
<1>13. ~Awaited(r)
  <2>10. SUFFICES ASSUME Awaited(r) PROVE FALSE
    OBVIOUS
  <2>11. Len(stream) = 3
    <3>1. Len(stream) >= 2
      BY <2>10 DEF Awaited
    <3>2. CASE Len(stream) = 1
      BY <3>1, <3>2
    <3>3. CASE Len(stream) = 3
      BY <3>3
    <3> QED
      BY <1>5, <3>2, <3>3
  <2>12. stream[Len(stream) - 1] = stream[2]
    BY <2>11
  <2>13. \E i_1 \in stream[2].fresh : stream[2].rows[i_1].seq = r
    BY <2>10, <2>12 DEF Awaited
  <2>14. PICK j : j \in stream[2].fresh /\ stream[2].rows[j].seq = r
    BY <2>13
  <2>1. Len(stream) = 3 /\ j \in stream[2].fresh /\ stream[2].rows[j].seq = r
    BY <2>11, <2>14
  <2>2. PrepareOK(stream[2], k + 1) /\ k = 1
    <3>1. Len(outputs) = k + 1 /\ Len(outputs) <= 2
      BY <1>5, <2>1, NextForward DEF PipeInv, Handles
    <3>2. PrepareOK(stream[Len(stream) - 1], Len(outputs))
      BY <2>1 DEF PipeInv, StreamOK
    <3> QED
      BY <1>5, <2>1, <3>1, <3>2
  <2>3. /\ j \in DOMAIN Rows(2) /\ Rows(2)[j].seq = r /\ Rows(2)[j].first = 0
    BY <2>1, <2>2 DEF PrepareOK, ItemOK, Starting
  <2>4. BatchOK(2)
    <3>1. 2 \in 1..Queued /\ Queued <= 2
      BY <1>5, <2>1, <2>2 DEF PipeInv, Handles
    <3> QED
      BY <3>1, BatchesOK DEF PipeInv
  <2>5. RowOK(Rows(2)[j], 2)
    BY <2>3, <2>4 DEF BatchOK
  <2>6. Landed(r, 1) = 0
    BY <1>2, <1>3, <2>3, <2>5 DEF RowOK
  <2>7. Landed(r, 1) = Landed(r, 0) + Gain(r, 1) /\ Landed(r, 0) \in Nat /\ Gain(r, 1) \in Nat
    BY <1>8, LandedTypes
  <2>8. Gain(r, 1) = x.count
    <3>1. InBatch(r, 1)
      BY <1>2, <1>3, <1>6, <2>2 DEF InBatch
    <3> QED
      BY <1>2, <1>3, <1>7, <3>1 DEF Gain, RowOK
  <2> QED
    BY <1>8, <2>6, <2>7, <2>8
<1>14. ~work.is_prefill => sampled_token_ids[s] = <<r, x.first>>
  <2>1. sampled_token_ids[s] = <<r, LastToken(r, x.first)>>
    BY <1>10, <1>13 DEF SlotOK
  <2>2. ~work.is_prefill => LastToken(r, x.first) = x.first
    BY <1>8, <1>9 DEF LastToken
  <2> QED
    BY <2>1, <2>2
<1>15. \A p \in 0..(x.first - 1) : kv[block_of(x, p)][p % BlockSize] = <<r, p>>
  <2> SUFFICES ASSUME NEW p \in 0..(x.first - 1)
               PROVE  kv[block_of(x, p)][p % BlockSize] = <<r, p>>
    OBVIOUS
  <2>1. p \in 0..(x.first + x.count - 1)
    BY <1>8
  <2>2. block_of(x, p) = block_table[r][p \div BlockSize + 1]
    BY <1>2, <1>3, <2>1, RowTargets
  <2> QED
    BY <1>10, <2>2 DEF EntriesOK
<1>16. \A p \in positions(i) : target(i, p) = block_of(x, p)
  BY <1>2, RowTargets
<1>17. RightRow(i)
  BY <1>2, <1>3, <1>4, <1>7, <1>12, <1>14, <1>15, <1>16 DEF RightRow
<1> QED
  BY <1>2, <1>3, <1>9, <1>17

(* A request has a block for every position that its outstanding batches   *)
(* will have computed.                                                     *)
LEMMA SerialCovered ==
  ASSUME EngineInv, Serial, Queued <= 2, NEW r \in Requests, status[r] # "FINISHED",
         NEW d \in 0..2, d <= Queued
  PROVE  Landed(r, d) <= Len(block_table[r]) * BlockSize
<1>1. NoCohort /\ Inv /\ Ownership /\ OneRowPerFlight /\ TypeInv /\ Coverage
  BY DEF EngineInv, AsyncInv, NoCohort, Inv, Ownership
<1>2. PICK c, S, z : c = num_cached_tokens[r] /\ S = num_scheduled_tokens[r] /\ z = cap(r)
  OBVIOUS
<1>3. c \in Nat /\ S \in Nat /\ z \in Nat /\ cap(r) = Len(block_table[r]) * BlockSize
  BY <1>2, PipeTypes, ConfigAssumption DEF cap
<1>4. c <= z /\ (r \in in_flight => c + S <= z)
  BY <1>1, <1>2, CoverageImpliesKV DEF KVCovered, cap
<1>5. Queued = Len(batch_queue) /\ Len(batch_queue) \in Nat
  BY PipeTypes DEF Queued
<1> DEFINE In(k) == k \in 1..Len(batch_queue) /\ r \in ToSet(batch_queue[k].seqs)
<1>6. /\ Taken(r) = IF r \in ToSet(batch.seqs) THEN S ELSE 0
      /\ \A k \in 1..Len(batch_queue) : Gain(r, k) = IF In(k) THEN S ELSE 0
  <2>1. Taken(r) = IF r \in ToSet(batch.seqs) THEN S ELSE 0
    BY <1>2 DEF Taken
  <2>2. ASSUME NEW k \in 1..Len(batch_queue) PROVE Gain(r, k) = IF In(k) THEN S ELSE 0
    <3>1. batch_queue[k].seqs \in Seq(Requests)
      BY <1>1, OwnerTypes
    <3>2. InBatch(r, k) <=> In(k)
      BY <3>1, SerialRows
    <3> QED
      BY <1>2, <3>2 DEF Gain, RowCount
  <2> QED
    BY <2>1, <2>2
<1>7. /\ \A k : In(k) => r \in in_flight /\ r \notin ToSet(batch.seqs)
      /\ \A k, j : In(k) /\ In(j) => k = j
      /\ r \in ToSet(batch.seqs) => r \in in_flight
  BY <1>1 DEF OneRowPerFlight
<1> HIDE DEF In
<1>8. PICK t, g1, g2 : /\ t = Taken(r) /\ g1 = (IF d >= 1 THEN Gain(r, 1) ELSE 0)
                       /\ g2 = (IF d >= 2 THEN Gain(r, 2) ELSE 0)
  OBVIOUS
<1>9. Landed(r, d) = c + t + g1 + g2
  BY <1>2, <1>8 DEF Landed
<1>10. /\ d >= 1 => 1 \in 1..Len(batch_queue)
       /\ d >= 2 => 2 \in 1..Len(batch_queue)
  BY <1>5
<1>11. \/ t = 0 /\ g1 = 0 /\ g2 = 0
       \/ r \in in_flight /\ t = S /\ g1 = 0 /\ g2 = 0
       \/ r \in in_flight /\ t = 0 /\ g1 = S /\ g2 = 0
       \/ r \in in_flight /\ t = 0 /\ g1 = 0 /\ g2 = S
  <2>1. CASE r \in ToSet(batch.seqs)
    <3>1. r \in in_flight /\ t = S /\ ~In(1) /\ ~In(2)
      BY <1>6, <1>7, <1>8, <2>1
    <3> QED
      BY <1>6, <1>8, <1>10, <3>1
  <2>2. CASE r \notin ToSet(batch.seqs) /\ In(1)
    <3>1. r \in in_flight /\ t = 0 /\ ~In(2)
      BY <1>6, <1>7, <1>8, <2>2
    <3>2. g2 = 0 /\ g1 \in {0, S}
      BY <1>6, <1>8, <1>10, <2>2, <3>1
    <3> QED
      BY <3>1, <3>2
  <2>3. CASE r \notin ToSet(batch.seqs) /\ ~In(1)
    <3>1. t = 0 /\ g1 = 0
      BY <1>6, <1>8, <1>10, <2>3
    <3>2. g2 = 0 \/ (g2 = S /\ r \in in_flight)
      BY <1>6, <1>7, <1>8, <1>10
    <3> QED
      BY <3>1, <3>2
  <2> QED
    BY <2>1, <2>2, <2>3
<1>12. c + t + g1 + g2 <= z
  BY <1>3, <1>4, <1>11
<1> QED
  BY <1>2, <1>3, <1>9, <1>12

LEMMA CohortCovered ==
  ASSUME EngineInv, ~Serial, NEW r \in Requests, status[r] # "FINISHED",
         NEW d \in 0..2, d <= Queued
  PROVE  Landed(r, d) <= Len(block_table[r]) * BlockSize
<1>1. CohortInv /\ CohortTypes /\ Shape /\ Still /\ Account(r) /\ OnItsWay(r)
  BY DEF EngineInv, AsyncInv, CohortInv
<1>2. PICK c, z, p, n : /\ c = num_cached_tokens[r] /\ z = cap(r) /\ p = pending[r]
                        /\ n = num_tokens[r]
  OBVIOUS
<1>3. c \in Nat /\ z \in Nat /\ p \in Nat /\ n \in Nat /\ cap(r) = Len(block_table[r]) * BlockSize
  <2>1. p \in Nat
    <3>1. pending[r] \in 0..2
      BY <1>1 DEF CohortTypes
    <3> QED
      BY <1>2, <3>1
  <2>2. Len(block_table[r]) \in Nat /\ c \in Nat /\ n \in Nat
    BY <1>2, PipeTypes
  <2> QED
    BY <1>2, <2>1, <2>2, ConfigAssumption DEF cap
<1>4. PICK a, b : a = Count(RowsOf(r, Older)) /\ b = Count(RowsOf(r, Newer))
  OBVIOUS
<1>5. p = a + b /\ a \in Nat /\ b \in Nat
  BY <1>1, <1>2, <1>4 DEF OnItsWay, Flight, Count
<1>6. c + p <= z
  <2>1. CASE r \in ToSet(live)
    <3>1. c = n - 1 /\ n + p <= z + 1
      BY <1>1, <1>2, <2>1 DEF Account
    <3> QED
      BY <1>3, <3>1
  <2>2. CASE r \notin ToSet(live)
    <3>1. p = 0 /\ c = 0
      <4>1. status[r] \in {"NEW", "WAITING", "RUNNING"}
        BY PipeTypes
      <4> QED
        BY <1>1, <1>2, <2>2, <4>1 DEF Account
    <3> QED
      BY <1>3, <3>1
  <2> QED
    BY <2>1, <2>2
<1>7. Landed(r, d) <= c + p
  <2>1. PICK t, g1, g2 : /\ t = Taken(r) /\ g1 = (IF d >= 1 THEN Gain(r, 1) ELSE 0)
                         /\ g2 = (IF d >= 2 THEN Gain(r, 2) ELSE 0)
    OBVIOUS
  <2>2. Landed(r, d) = c + t + g1 + g2
    BY <1>2, <2>1 DEF Landed
  <2>3. /\ Queued = Len(dispatched) /\ Len(dispatched) \in Nat /\ dispatched \in Seq(Views)
        /\ (dispatched = <<>> <=> Len(dispatched) = 0)
    BY PipeTypes, ToSetDef DEF Queued
  <2>4. \A k \in 1..Len(dispatched) : Gain(r, k) = Count(RowsOf(r, dispatched[k]))
    BY <2>3, ViewRows, ElementOfSeq
  <2>5. CASE phase = "idle"
    <3>1. t = 0
      <4>1. Taken(r) = Count(RowsOf(r, <<>>))
        BY <1>1, <2>5 DEF Shape, Taken
      <4> QED
        BY <2>1, <4>1, NoRows DEF Count
    <3>2. g1 \in {0, a}
      <4>1. CASE d >= 1
        BY <1>4, <2>1, <2>3, <2>4, <2>5, <4>1 DEF Older
      <4>2. CASE ~(d >= 1)
        BY <2>1, <4>2
      <4> QED
        BY <4>1, <4>2
    <3>3. g2 \in {0, b}
      <4>1. CASE d >= 2
        BY <1>4, <2>1, <2>3, <2>4, <2>5, <4>1 DEF Newer
      <4>2. CASE ~(d >= 2)
        BY <2>1, <4>2
      <4> QED
        BY <4>1, <4>2
    <3> QED
      BY <1>3, <1>5, <2>2, <3>1, <3>2, <3>3
  <2>6. CASE phase = "commit"
    <3>1. t = a
      BY <1>4, <2>1, <2>6 DEF Taken, Older
    <3>2. g1 \in {0, b}
      <4>1. CASE d >= 1
        BY <1>4, <2>1, <2>3, <2>4, <2>6, <4>1 DEF Newer
      <4>2. CASE ~(d >= 1)
        BY <2>1, <4>2
      <4> QED
        BY <4>1, <4>2
    <3>3. g2 = 0
      <4>1. ~(d >= 2)
        BY <1>1, <2>3, <2>6 DEF Shape
      <4> QED
        BY <2>1, <4>1
    <3> QED
      BY <1>3, <1>5, <2>2, <3>1, <3>2, <3>3
  <2> QED
    BY <1>1, <2>5, <2>6 DEF Still
<1>8. Landed(r, d) \in Nat
  BY LandedTypes
<1> QED
  BY <1>2, <1>3, <1>6, <1>7, <1>8

LEMMA LandedCovered ==
  ASSUME EngineInv, Queued <= 2, NEW r \in Requests, status[r] # "FINISHED",
         NEW d \in 0..2, d <= Queued
  PROVE  Landed(r, d) <= Len(block_table[r]) * BlockSize
BY SerialCovered, CohortCovered

(* The oldest batch that has not landed does so.                           *)
LEMMA ForwardShape ==
  ASSUME EngineInv, PipeInv, Compute, Forward
  PROVE  /\ stream # <<>> /\ work.kind = "forward"
         /\ UNCHANGED <<asyncVars, loop, outputs, result, hostVars, prepared, decode_gpu, output_buf>>
         /\ UNCHANGED <<asyncVars, loop, outputs, result, hostVars>>
         /\ IsSeq(stream) /\ IsSeq(stream') /\ Len(stream') \in {0, 2}
         /\ Len(stream) = Len(stream') + 1
         /\ Len(stream') = 2 => stream'[1] = stream[2] /\ stream'[2] = stream[3]
         /\ Done' = Done + 1 /\ Flying' = Flying - 1 /\ Flying \in {1, 2}
         /\ \A r : Reached(r)' = Landed(r, Done + 1)
         /\ \A r \in Requests : Landed(r, Done + 1) = Reached(r) + Gain(r, Done + 1)
<1>1. stream # <<>> /\ work.kind = "forward" /\ stream' = Tail(stream)
  BY DEF Forward
<1>2. /\ UNCHANGED <<asyncVars, loop, outputs, result, hostVars, prepared, decode_gpu, output_buf>>
      /\ UNCHANGED <<asyncVars, loop, outputs, result, hostVars>>
  BY DEF Compute, Forward
<1>3. Len(stream) \in {1, 3} /\ Done \in {0, 1} /\ IsSeq(stream) /\ Len(outputs) \in Nat
  BY <1>1, NextForward DEF PipeInv, StreamOK
<1>4. /\ IsSeq(stream') /\ Len(stream') = Len(stream) - 1
      /\ \A i \in 1..(Len(stream) - 1) : stream'[i] = stream[i + 1]
  BY <1>1, <1>3, SeqFacts
<1>5. PICK m, n, h : m = Len(stream) /\ n = Len(outputs) /\ h = Len(stream')
  OBVIOUS
<1>6. h \in {0, 2} /\ m = h + 1
  BY <1>3, <1>4, <1>5
<1>7. h = 2 => stream'[1] = stream[2] /\ stream'[2] = stream[3]
  <2>1. SUFFICES ASSUME h = 2 PROVE stream'[1] = stream[2] /\ stream'[2] = stream[3]
    OBVIOUS
  <2>2. 1 \in 1..(Len(stream) - 1) /\ 2 \in 1..(Len(stream) - 1)
    BY <1>5, <1>6, <2>1
  <2>3. stream'[1] = stream[1 + 1] /\ stream'[2] = stream[2 + 1]
    BY <1>4, <2>2
  <2> QED
    BY <2>3
<1>8. Flying = (IF m = 1 THEN 1 ELSE 2) /\ Flying' = (IF m = 1 THEN 0 ELSE 1)
  <2>1. CASE h = 0
    <3>1. Len(stream) = 1 /\ Len(stream') = 0 /\ m = 1
      BY <1>5, <1>6, <2>1
    <3> QED
      BY <3>1 DEF Flying
  <2>2. CASE h = 2
    <3>1. Len(stream) = 3 /\ Len(stream') = 2 /\ m = 3
      BY <1>5, <1>6, <2>2
    <3> QED
      BY <3>1 DEF Flying
  <2> QED
    BY <1>6, <2>1, <2>2
<1>9. Len(outputs') = n
  BY <1>2, <1>5
<1>10. Flying' = Flying - 1 /\ Flying \in {1, 2} /\ Done' = Done + 1
  <2>1. Flying' = Flying - 1 /\ Flying \in {1, 2}
    BY <1>3, <1>5, <1>8
  <2>2. Done = n - Flying /\ Done' = n - Flying'
    BY <1>5, <1>9 DEF Done
  <2> QED
    BY <1>3, <1>5, <2>1, <2>2
<1>11. \A r, d : Landed(r, d)' = Landed(r, d)
  BY <1>2, DeviceOnly
<1>12. \A r : Reached(r)' = Landed(r, Done + 1)
  BY <1>10, <1>11 DEF Reached
<1>13. \A r \in Requests : Landed(r, Done + 1) = Reached(r) + Gain(r, Done + 1)
  <2> SUFFICES ASSUME NEW r \in Requests
               PROVE  Landed(r, Done + 1) = Reached(r) + Gain(r, Done + 1)
    OBVIOUS
  <2>1. CASE Done = 0
    BY <2>1, LandedTypes DEF Reached
  <2>2. CASE Done = 1
    BY <2>2, LandedTypes DEF Reached
  <2> QED
    BY <1>3, <2>1, <2>2
<1> QED
  BY <1>1, <1>2, <1>3, <1>4, <1>5, <1>6, <1>7, <1>10, <1>12, <1>13

(* What lies in the cache for a request that has not ended, afterwards.    *)
LEMMA ForwardEntries ==
  ASSUME EngineInv, PipeInv, Compute, Forward, NEW r \in Requests, status[r] # "FINISHED"
  PROVE  EntriesOK(r, Reached(r))'
<1>1. PICK k, d, g, e : /\ k = Done + 1 /\ d = Reached(r) /\ g = Gain(r, k)
                        /\ e = Landed(r, k)
  OBVIOUS
<1>2. stream # <<>> /\ work.kind = "forward" /\ Reached(r)' = e /\ e = d + g
  BY <1>1, ForwardShape
<1>3. k \in {1, 2} /\ k \in 1..Queued /\ ForwardOK(work, k) /\ k - 1 = Done /\ BatchOK(k)
  BY <1>1, <1>2, NextForward
<1>4. d \in Nat /\ g \in Nat /\ e \in Nat
  BY <1>1, <1>3, LandedTypes DEF Reached
<1>5. Queued <= 2 /\ Queued \in Nat
  BY PipeTypes DEF PipeInv, Handles, Queued
<1>6. e <= Len(block_table[r]) * BlockSize
  <2>1. k \in 0..2 /\ k <= Queued
    BY <1>3, <1>5
  <2> QED
    BY <1>1, <1>5, <2>1, LandedCovered
<1>7. block_table' = block_table
  BY ForwardShape DEF asyncVars, vars, blockVars
<1>8. SUFFICES ASSUME NEW p \in 0..(e - 1)
               PROVE  kv'[block_table[r][p \div BlockSize + 1]][p % BlockSize] = <<r, p>>
  BY <1>2, <1>7 DEF EntriesOK
<1>9. PICK b, o, j : o = p % BlockSize /\ j = p \div BlockSize + 1 /\ b = block_table[r][j]
  OBVIOUS
<1>10. /\ j \in 1..Len(block_table[r]) /\ o \in 0..(BlockSize - 1) /\ b \in Blocks /\ p \in Nat
  <2>1. Len(block_table[r]) \in Nat /\ block_table[r] \in Seq(Blocks)
    BY PipeTypes
  <2>2. p \in Nat /\ p < Len(block_table[r]) * BlockSize
    <3>1. PICK c : c = Len(block_table[r]) * BlockSize
      OBVIOUS
    <3>2. c \in Nat
      BY <2>1, <3>1, ConfigAssumption
    <3> QED
      BY <1>4, <1>6, <3>1, <3>2
  <2> QED
    BY <1>9, <2>1, <2>2, BlockIndex, ElementOfSeq
<1>11. ASSUME NEW f \in Written(b, o) PROVE Computed(f[1], f[2]) = <<r, p>>
  <2>1. PICK i \in DOMAIN work.rows : f \in {i} \X positions(i)
    BY <1>11 DEF Written
  <2>2. PICK q \in positions(i) : f = <<i, q>>
    BY <2>1
  <2>3. target(i, q) = b /\ q % BlockSize = o
    BY <1>11, <2>2 DEF Written
  <2>4. PICK x : x = work.rows[i]
    OBVIOUS
  <2>5. /\ x.seq \in Requests /\ x.first \in Nat /\ x.count \in Nat
        /\ positions(i) = x.first..(x.first + x.count - 1)
        /\ target(i, q) = block_of(x, q)
        /\ \A p_1 \in 0..(x.first + x.count - 1) :
              /\ p_1 \div BlockSize + 1 \in 1..Len(block_table[x.seq])
              /\ p_1 % BlockSize \in 0..(BlockSize - 1)
              /\ block_of(x, p_1) = block_table[x.seq][p_1 \div BlockSize + 1]
    BY <1>2, <2>4, RowTargets DEF RowOK
  <2>6. q \in 0..(x.first + x.count - 1) /\ q \in Nat
    BY <2>5
  <2>7. /\ q \div BlockSize + 1 \in 1..Len(block_table[x.seq])
        /\ block_table[x.seq][q \div BlockSize + 1] = b
    BY <2>3, <2>5, <2>6
  <2>8. x.seq = r /\ q \div BlockSize + 1 = j
    BY <1>9, <1>10, <2>5, <2>7, TablesDiffer
  <2>9. q \div BlockSize = p \div BlockSize
    <3>1. q \div BlockSize \in Int /\ p \div BlockSize \in Int
      BY <1>10, <2>6, Euclid, ConfigAssumption
    <3> QED
      BY <1>9, <2>8, <3>1
  <2>10. q = p
    BY <1>9, <1>10, <2>3, <2>6, <2>9, SamePosition
  <2>11. RightRow(i)
    BY <1>2, <2>4, <2>8, RowIsRight
  <2>12. Computed(i, q) = <<work.rows[i].seq, q>>
    BY <2>11 DEF Computed
  <2> QED
    BY <2>2, <2>4, <2>8, <2>10, <2>12
<1>12. ASSUME Written(b, o) = {} PROVE kv[b][o] = <<r, p>>
  <2>1. p < d
    <3>1. SUFFICES ASSUME ~(p < d) PROVE FALSE
      OBVIOUS
    <3>2. g # 0
      BY <1>2, <1>4, <1>10, <3>1
    <3>3. InBatch(r, k) /\ g = RowCount(r)
      BY <1>1, <3>2 DEF Gain
    <3>4. PICK i \in DOMAIN Rows(k) : Rows(k)[i].seq = r
      BY <3>3 DEF InBatch
    <3>5. PICK x : x = work.rows[i]
      OBVIOUS
    <3>6. work.rows = Rows(k)
      BY <1>3 DEF ForwardOK, ItemOK
    <3>7. /\ x = Rows(k)[i] /\ x.seq = r /\ RowOK(x, k) /\ i \in DOMAIN work.rows
      BY <1>1, <1>2, <3>4, <3>5, <3>6, RowTargets
    <3>8. /\ x.first = d /\ x.count = g
      BY <1>1, <1>3, <3>3, <3>7 DEF RowOK, Reached
    <3>9. /\ positions(i) = d..(d + g - 1)
          /\ \A p_1 \in positions(i) : target(i, p_1) = block_of(x, p_1)
          /\ \A p_1 \in 0..(d + g - 1) : block_of(x, p_1) = block_table[r][p_1 \div BlockSize + 1]
      BY <1>2, <3>5, <3>7, <3>8, RowTargets
    <3>10. p \in positions(i) /\ p \in 0..(d + g - 1)
      BY <1>2, <1>4, <1>10, <3>1, <3>9
    <3>11. target(i, p) = b
      BY <1>9, <3>9, <3>10
    <3>12. <<i, p>> \in UNION {{i_1} \X positions(i_1) : i_1 \in DOMAIN work.rows}
      BY <3>7, <3>10
    <3>13. <<i, p>> \in Written(b, o)
      BY <1>9, <3>11, <3>12 DEF Written
    <3> QED
      BY <1>12, <3>13
  <2>2. EntriesOK(r, d)
    BY <1>1 DEF PipeInv, DeviceOK
  <2>3. p \in 0..(d - 1)
    BY <1>4, <1>10, <2>1
  <2> QED
    BY <1>9, <2>2, <2>3 DEF EntriesOK
<1>13. kv'[b][o] = IF Written(b, o) = {} THEN kv[b][o]
                   ELSE LET f == CHOOSE f \in Written(b, o) : TRUE IN Computed(f[1], f[2])
  BY <1>10 DEF Forward
<1>14. kv'[b][o] = <<r, p>>
  <2>1. CASE Written(b, o) = {}
    BY <1>12, <1>13, <2>1
  <2>2. CASE Written(b, o) # {}
    <3>1. PICK f : f = CHOOSE f_1 \in Written(b, o) : TRUE
      OBVIOUS
    <3>2. f \in Written(b, o)
      BY <2>2, <3>1
    <3> QED
      BY <1>11, <1>13, <2>2, <3>1, <3>2
  <2> QED
    BY <2>1, <2>2
<1> QED
  BY <1>9, <1>14

(* The slot of a request that has not ended, afterwards.                   *)
LEMMA ForwardSlot ==
  ASSUME EngineInv, PipeInv, Compute, Forward, NEW r \in Requests, status[r] # "FINISHED",
         NEW s \in Slots, input_batch[s].seq = r
  PROVE  SlotOK(s, r, Reached(r))'
<1>1. PICK k, d, g, e : /\ k = Done + 1 /\ d = Reached(r) /\ g = Gain(r, k)
                        /\ e = Landed(r, k)
  OBVIOUS
<1>2. stream # <<>> /\ work.kind = "forward" /\ Reached(r)' = e /\ e = d + g /\ work = stream[1]
  BY <1>1, ForwardShape, NextForward
<1>3. k \in {1, 2} /\ ForwardOK(work, k) /\ k - 1 = Done /\ BatchOK(k)
  BY <1>1, <1>2, NextForward
<1>4. d \in Nat /\ g \in Nat /\ e \in Nat /\ num_tokens[r] \in Nat
  BY <1>1, <1>3, LandedTypes DEF Reached
<1>5. SlotOK(s, r, d) /\ OneSlot(input_batch)
  BY <1>1 DEF PipeInv, DeviceOK, EngineInv, SlotInv
<1>6. /\ work.rows = Rows(k) /\ DOMAIN work.slots = DOMAIN work.rows
      /\ \A i \in DOMAIN work.rows : work.slots[i] \in Slots
                                     /\ input_batch[work.slots[i]].seq = work.rows[i].seq
  BY <1>3 DEF ForwardOK, ItemOK
<1>7. \A i \in DOMAIN work.rows : work.slots[i] = s <=> work.rows[i].seq = r
  BY <1>5, <1>6, SlotOfRow
<1>8. \A i, j \in DOMAIN work.rows : work.slots[i] = s /\ work.slots[j] = s => i = j
  BY <1>3, <1>6, <1>7 DEF BatchOK
<1>9. num_tokens' = num_tokens /\ LastToken(r, e)' = LastToken(r, e)
  BY ForwardShape DEF LastToken, asyncVars, vars, seqVars
<1>10. Awaited(r)' <=> Awaited(r)
  <2>1. PICK h : h = Len(stream')
    OBVIOUS
  <2>2. h \in {0, 2} /\ Len(stream) = h + 1 /\ (h = 2 => stream'[1] = stream[2])
    BY <2>1, ForwardShape
  <2>3. CASE h = 0
    <3>1. ~(Len(stream) >= 2) /\ ~(Len(stream') >= 2)
      BY <2>1, <2>2, <2>3
    <3> QED
      BY <3>1 DEF Awaited
  <2>4. CASE h = 2
    <3>1. /\ Len(stream) >= 2 /\ Len(stream') >= 2
          /\ stream[Len(stream) - 1] = stream[2] /\ stream'[Len(stream') - 1] = stream[2]
      BY <2>1, <2>2, <2>4
    <3> QED
      BY <3>1 DEF Awaited
  <2> QED
    BY <2>2, <2>3, <2>4
<1>11. ~NextHas(r)'
  <2>1. PICK h : h = Len(stream')
    OBVIOUS
  <2>3. h \in {0, 2}
    BY <2>1, ForwardShape
  <2>4. h \notin {1, 3}
    BY <2>3
  <2>2. ~(Len(stream') \in {1, 3})
    BY <2>1, <2>4, Zenon
  <2> QED
    BY <2>2 DEF NextHas
<1>12. /\ e > 0 => gdn'[s] = <<r, e>>
       /\ ~Awaited(r) => sampled_token_ids'[s] = <<r, LastToken(r, e)>>
  <2>1. CASE ~InBatch(r, k)
    <3>1. e = d
      BY <1>1, <1>2, <1>4, <2>1 DEF Gain
    <3>2. \A i \in DOMAIN work.rows : work.slots[i] # s
      BY <1>6, <1>7, <2>1 DEF InBatch
    <3>3. s \notin ToSet(work.slots)
      BY <1>6, <3>2 DEF ToSet
    <3>4. s \notin {work.slots[i] : i \in {j \in DOMAIN work.rows : SampledRow(work.rows[j])}}
      BY <3>2
    <3>5. gdn'[s] = gdn[s]
      BY <3>3 DEF Forward
    <3>6. sampled_token_ids'[s] = sampled_token_ids[s]
      BY <3>4 DEF Forward
    <3> QED
      BY <1>5, <3>1, <3>5, <3>6 DEF SlotOK
  <2>2. CASE InBatch(r, k)
    <3>1. PICK i \in DOMAIN Rows(k) : Rows(k)[i].seq = r
      BY <2>2 DEF InBatch
    <3>2. PICK x : x = work.rows[i]
      OBVIOUS
    <3>3. i \in DOMAIN work.rows /\ x.seq = r /\ work.slots[i] = s /\ x = Rows(k)[i]
      BY <1>6, <1>7, <3>1, <3>2
    <3>4. i = CHOOSE j \in DOMAIN work.rows : work.slots[j] = s
      BY <1>8, <3>3
    <3>5. RowOK(x, k) /\ end(i) = x.first + x.count
      BY <1>1, <1>2, <3>2, <3>3, RowTargets
    <3>6. /\ x.first = d /\ x.count = g /\ g >= 1 /\ x.len \in Nat /\ x.is_prefill \in BOOLEAN
          /\ x.len >= num_tokens[r] /\ (x.is_prefill => x.len = num_tokens[r])
          /\ ~x.is_prefill => x.first + x.count = x.len
          /\ x.first + x.count <= x.len
      BY <1>1, <1>3, <2>2, <3>3, <3>5 DEF RowOK, Reached, Gain
    <3>7. RightRow(i)
      BY <1>2, <3>2, <3>3, RowIsRight
    <3>8. Computed(i, end(i)) = <<r, e>>
      BY <1>2, <3>2, <3>3, <3>5, <3>6, <3>7 DEF Computed
    <3>9. s \in ToSet(work.slots)
      BY <1>6, <3>3 DEF ToSet
    <3>10. gdn'[s] = <<r, e>>
      BY <3>4, <3>8, <3>9 DEF Forward
    <3>11. (s \in {work.slots[j] : j \in {j \in DOMAIN work.rows : SampledRow(work.rows[j])}})
             <=> SampledRow(x)
      BY <1>8, <3>2, <3>3
    <3>12. CASE SampledRow(x)
      <4>1. sampled_token_ids'[s] = <<r, e>>
        BY <3>4, <3>8, <3>11, <3>12 DEF Forward
      <4>2. e = x.len
        BY <1>2, <3>6, <3>12 DEF SampledRow
      <4>3. LastToken(r, e) = e
        BY <3>6, <4>2 DEF LastToken
      <4> QED
        BY <3>10, <4>1, <4>3
    <3>13. CASE ~SampledRow(x)
      <4>1. sampled_token_ids'[s] = sampled_token_ids[s]
        BY <3>11, <3>13 DEF Forward
      <4>2. e # x.len /\ x.len = num_tokens[r]
        BY <1>2, <3>6, <3>13 DEF SampledRow
      <4>3. ~(e >= num_tokens[r]) /\ ~(d >= num_tokens[r])
        BY <1>2, <1>4, <3>6, <4>2
      <4>4. LastToken(r, e) = LastToken(r, d)
        BY <4>3 DEF LastToken
      <4> QED
        BY <1>5, <3>10, <4>1, <4>4 DEF SlotOK
    <3> QED
      BY <3>12, <3>13
  <2> QED
    BY <2>1, <2>2
<1>13. e = 0 /\ NextHas(r)' => FALSE
  BY <1>11
<1> QED
  BY <1>2, <1>9, <1>10, <1>12, <1>13 DEF SlotOK

LEMMA ForwardOnly ==
  ASSUME EngineInv, PipeInv, Compute, Forward
  PROVE  PipeInv'
<1>1. PICK k, n, h, c : k = Done + 1 /\ n = Len(outputs) /\ h = Len(stream') /\ c = Len(copies)
  OBVIOUS
<1>2. /\ stream # <<>> /\ work.kind = "forward" /\ work = stream[1]
      /\ k \in {1, 2} /\ ForwardOK(work, k) /\ BatchOK(k) /\ n \in Nat
      /\ Len(stream) \in {1, 3} /\ n = (IF Len(stream) = 1 THEN k ELSE k + 1)
  BY <1>1, ForwardShape, NextForward
<1>3. /\ UNCHANGED <<asyncVars, loop, outputs, result, hostVars>>
      /\ UNCHANGED <<prepared, decode_gpu, output_buf, outputs, decode_cpu, status>>
  BY ForwardShape DEF asyncVars, vars, seqVars, hostVars
<1>4. /\ \A j : Rows(j)' = Rows(j) /\ Prompt(j)' = Prompt(j)
      /\ \A w, j : ItemOK(w, j)' = ItemOK(w, j)
      /\ Handles' /\ TightOK' /\ DecodeOK' /\ ResultOK'
  <2>1. /\ \A j : Rows(j)' = Rows(j) /\ Prompt(j)' = Prompt(j)
        /\ \A w, j : ItemOK(w, j)' = ItemOK(w, j)
    BY <1>3, DeviceOnly
  <2>2. (Handles => Handles') /\ (TightOK => TightOK') /\ (DecodeOK => DecodeOK')
        /\ (ResultOK => ResultOK')
    BY <1>3, DeviceOnly
  <2> QED
    BY <2>1, <2>2 DEF PipeInv
<1>5. /\ IsSeq(stream') /\ h \in {0, 2} /\ Len(stream) = h + 1
      /\ h = 2 => stream'[1] = stream[2] /\ stream'[2] = stream[3]
      /\ Done' = k /\ Flying' = Flying - 1 /\ Flying \in {1, 2}
  BY <1>1, ForwardShape
<1>6. Len(outputs') = n /\ Done = k - 1
  <2>1. Len(outputs') = n
    BY <1>1, <1>3
  <2>2. Done \in {0, 1}
    BY <1>2, NextForward
  <2>3. Done = k - 1
    BY <1>1, <2>2
  <2> QED
    BY <2>1, <2>3
<1>7. StreamOK'
  <2>1. Flying <= n
    BY <1>1 DEF PipeInv, StreamOK
  <2>2. Flying' <= n
    BY <1>2, <1>5, <2>1
  <2>3. prepared' <=> h < 2
    <3>1. prepared <=> Len(stream) < 2
      BY DEF PipeInv, StreamOK
    <3> QED
      BY <1>3, <1>5, <3>1
  <2>4. CASE h = 0
    <3>1. Len(stream') = 0 /\ Len(outputs') = n
      BY <1>1, <1>6, <2>4
    <3> QED
      BY <1>5, <2>2, <2>3, <2>4, <3>1 DEF StreamOK
  <2>5. CASE h = 2
    <3>1. Len(stream) = 3
      BY <1>5, <2>5
    <3>2. ForwardOK(stream[3], n) /\ PrepareOK(stream[2], n)
      <4>1. Len(stream) >= 1 /\ Len(stream) >= 2 /\ stream[Len(stream)] = stream[3]
            /\ stream[Len(stream) - 1] = stream[2]
        BY <3>1
      <4> QED
        BY <1>1, <4>1 DEF PipeInv, StreamOK
    <3>3. PICK P, F : P = stream[2] /\ F = stream[3]
      OBVIOUS
    <3>4. ForwardOK(F, n)'
      BY <1>4, <3>2, <3>3 DEF ForwardOK
    <3>5. PrepareOK(P, n)'
      BY <1>4, <3>2, <3>3 DEF PrepareOK, Starting
    <3>6. Len(stream') = 2 /\ stream'[1] = P /\ stream'[2] = F
      BY <1>1, <1>5, <2>5, <3>3
    <3>7. ForwardOK(stream[Len(stream)], Len(outputs))'
      BY <1>6, <3>4, <3>6 DEF ForwardOK, ItemOK
    <3>8. PrepareOK(stream[Len(stream) - 1], Len(outputs))'
      <4>1. stream'[Len(stream') - 1] = P
        BY <3>6
      <4> QED
        BY <1>6, <3>5, <4>1 DEF PrepareOK, ItemOK, Starting
    <3> QED
      BY <1>5, <1>6, <2>2, <2>3, <2>5, <3>6, <3>7, <3>8 DEF StreamOK
  <2> QED
    BY <1>5, <2>4, <2>5
<1>8. StagingOK'
  <2>1. ~(Len(stream') \in {1, 3}) /\ (Len(stream') >= 2 => Len(stream) >= 2)
    BY <1>1, <1>2, <1>5
  <2>2. Prompt(n)' = Prompt(n) /\ Rows(n)' = Rows(n) /\ decode_cpu' = decode_cpu
    BY <1>3, <1>4 DEF hostVars
  <2>3. Len(stream) >= 2 /\ ~Prompt(n) => \A i \in DOMAIN Rows(n) : decode_cpu[i] = Stage(Rows(n)[i])
    BY <1>1 DEF PipeInv, StagingOK
  <2> QED
    BY <1>6, <2>1, <2>2, <2>3 DEF StagingOK
<1>9. DeviceOK'
  <2> SUFFICES ASSUME NEW r \in Requests, status[r] # "FINISHED"
               PROVE  /\ EntriesOK(r, Reached(r))'
                      /\ \A s \in Slots : input_batch[s].seq = r => SlotOK(s, r, Reached(r))'
                      /\ r \notin Users(input_batch) => num_cached_tokens[r] = 0
    BY <1>3 DEF DeviceOK, Users, asyncVars, vars, seqVars, hostVars
  <2>1. EntriesOK(r, Reached(r))'
    BY ForwardEntries
  <2>2. \A s \in Slots : input_batch[s].seq = r => SlotOK(s, r, Reached(r))'
    BY ForwardSlot
  <2>3. r \notin Users(input_batch) => num_cached_tokens[r] = 0
    BY DEF PipeInv, DeviceOK
  <2> QED
    BY <2>1, <2>2, <2>3
<1>10. OutputsOK'
  <2>1. PICK t : t = [i \in DOMAIN work.rows |->
                         IF work.slots[i] \in {work.slots[j] : j \in {j \in DOMAIN work.rows :
                                                 SampledRow(work.rows[j])}}
                         THEN Computed(i, end(i)) ELSE NoToken]
    OBVIOUS
  <2>2. PICK a : a = [buf |-> work.buf, tokens |-> t]
    OBVIOUS
  <2>3. copies' = Append(copies, a)
    BY <2>1, <2>2 DEF Forward
  <2>4. IsSeq(copies) /\ c <= k - 1 /\ DOMAIN output_buf = 0..1 /\ c \in Nat
    BY <1>1, <1>6, SeqFacts DEF PipeInv, OutputsOK
  <2>5. /\ IsSeq(copies') /\ Len(copies') = c + 1 /\ copies'[c + 1] = a
        /\ \A j \in 1..c : copies'[j] = copies[j]
    BY <1>1, <2>3, <2>4, SeqGrows
  <2>6. a.buf = outputs[k] /\ DOMAIN a.tokens = DOMAIN Rows(k) /\ a.tokens = t
    BY <1>2, <2>1, <2>2 DEF ForwardOK, ItemOK
  <2>7. Right(k, t)
    <3> SUFFICES ASSUME NEW i \in DOMAIN Rows(k), status[Rows(k)[i].seq] # "FINISHED",
                        SampledRow(Rows(k)[i])
                 PROVE  t[i] = <<Rows(k)[i].seq, Rows(k)[i].first + Rows(k)[i].count>>
      BY DEF Right
    <3>1. work.rows = Rows(k)
      BY <1>2 DEF ForwardOK, ItemOK
    <3>2. /\ i \in DOMAIN work.rows
          /\ end(i) = Rows(k)[i].first + Rows(k)[i].count
      BY <1>1, <1>2, <3>1, RowTargets
    <3>3. RightRow(i)
      BY <1>2, <3>1, <3>2, RowIsRight
    <3>4. t[i] = Computed(i, end(i))
      BY <2>1, <3>1, <3>2
    <3> QED
      BY <3>1, <3>2, <3>3, <3>4 DEF Computed
  <2>8. \A j, u : Right(j, u)' = Right(j, u)
    BY <1>3, <1>4 DEF Right
  <2>9. \A j : j \in 1..(c + 1) => k - (c + 1) + j = (k - 1) - c + j
    BY <1>2, <2>4
  <2>10. ASSUME NEW j \in 1..(c + 1)
         PROVE  /\ copies'[j].buf = outputs[k - (c + 1) + j]
                /\ DOMAIN copies'[j].tokens = DOMAIN Rows(k - (c + 1) + j)
                /\ Right(k - (c + 1) + j, copies'[j].tokens)
    <3>1. CASE j = c + 1
      <4>1. k - (c + 1) + j = k
        BY <1>2, <2>4, <3>1
      <4> QED
        BY <2>5, <2>6, <2>7, <3>1, <4>1
    <3>2. CASE j # c + 1
      <4>1. j \in 1..c /\ k - (c + 1) + j = (k - 1) - c + j
        BY <1>2, <2>4, <3>2
      <4> QED
        BY <1>1, <1>6, <2>5, <4>1 DEF PipeInv, OutputsOK
    <3> QED
      BY <3>1, <3>2
  <2>11. \A j \in 1..((k - 1) - c) : Right(j, output_buf[outputs[j]])
    BY <1>1, <1>6 DEF PipeInv, OutputsOK
  <2>12. k - (c + 1) = (k - 1) - c /\ c + 1 <= k
    BY <1>2, <2>4
  <2> QED
    BY <1>3, <1>4, <1>5, <2>4, <2>5, <2>8, <2>10, <2>11, <2>12 DEF OutputsOK
<1> QED
  BY <1>4, <1>7, <1>8, <1>9, <1>10 DEF PipeInv

(* The copy of the oldest forward's tokens to its own buffer.              *)
LEMMA CopyOnly ==
  ASSUME EngineInv, PipeInv, Copy
  PROVE  PipeInv'
<1>1. /\ UNCHANGED <<asyncVars, loop, outputs, result, hostVars>>
      /\ UNCHANGED <<prepared, stream, decode_gpu, gdn, sampled_token_ids, kv>>
      /\ UNCHANGED <<input_batch, decode_cpu, block_table, status, num_tokens, num_cached_tokens>>
      /\ copies # <<>> /\ copies' = Tail(copies)
  BY DEF Copy, CopyOutput, hostVars, asyncVars, vars, blockVars, seqVars
<1>2. /\ \A j : Rows(j)' = Rows(j) /\ Prompt(j)' = Prompt(j)
      /\ \A w, j : ItemOK(w, j)' = ItemOK(w, j)
      /\ \A r, d : Landed(r, d)' = Landed(r, d)
      /\ Handles' /\ TightOK' /\ DecodeOK' /\ ResultOK'
  <2>1. UNCHANGED <<asyncVars, loop, outputs, result, hostVars>>
    BY <1>1
  <2>2. /\ \A j : Rows(j)' = Rows(j) /\ Prompt(j)' = Prompt(j)
        /\ \A w, j : ItemOK(w, j)' = ItemOK(w, j)
        /\ \A r, d : Landed(r, d)' = Landed(r, d)
    BY <2>1, DeviceOnly
  <2>3. (Handles => Handles') /\ (TightOK => TightOK') /\ (DecodeOK => DecodeOK')
        /\ (ResultOK => ResultOK')
    BY <2>1, DeviceOnly
  <2> QED
    BY <2>2, <2>3 DEF PipeInv
<1>3. Flying' = Flying /\ Done' = Done
  BY <1>1 DEF Flying, Done
<1>4. StreamOK'
  <2>1. /\ \A w, j : PrepareOK(w, j) => PrepareOK(w, j)'
        /\ \A w, j : ForwardOK(w, j) => ForwardOK(w, j)'
    BY <1>2 DEF PrepareOK, ForwardOK, Starting
  <2>2. PICK n, m : n = Len(outputs) /\ m = Len(stream)
    OBVIOUS
  <2>3. Len(outputs') = n /\ Len(stream') = m /\ stream' = stream
    BY <1>1, <2>2
  <2>4. /\ m >= 1 => ForwardOK(stream[m], n)' 
        /\ m >= 2 => PrepareOK(stream[m - 1], n)'
        /\ m = 3 => ForwardOK(stream[1], n - 1)'
    <3>1. PICK A, B, C : A = stream[m] /\ B = stream[m - 1] /\ C = stream[1]
      OBVIOUS
    <3>2. /\ m >= 1 => ForwardOK(A, n) 
          /\ m >= 2 => PrepareOK(B, n)
          /\ m = 3 => ForwardOK(C, n - 1)
      BY <2>2, <3>1 DEF PipeInv, StreamOK
    <3>3. /\ m >= 1 => ForwardOK(A, n)' 
          /\ m >= 2 => PrepareOK(B, n)'
          /\ m = 3 => ForwardOK(C, n - 1)'
      BY <2>1, <3>2
    <3> QED
      BY <1>1, <3>1, <3>3 DEF ForwardOK, PrepareOK, ItemOK, Starting
  <2> QED
    BY <1>1, <1>3, <2>2, <2>3, <2>4 DEF PipeInv, StreamOK, ForwardOK, PrepareOK, ItemOK, Starting
<1>5. StagingOK'
  BY <1>1, <1>2, <1>3 DEF PipeInv, StagingOK
<1>6. DeviceOK'
  <2>1. \A r : Reached(r)' = Reached(r)
    BY <1>2, <1>3 DEF Reached
  <2>2. \A r : /\ EntriesOK(r, Reached(r)) => EntriesOK(r, Reached(r))'
               /\ \A s : SlotOK(s, r, Reached(r)) => SlotOK(s, r, Reached(r))'
    BY <1>1, <2>1 DEF EntriesOK, SlotOK, NextHas, Awaited, LastToken
  <2> QED
    BY <1>1, <2>2 DEF PipeInv, DeviceOK, Users
<1>7. PICK c, d, x : c = Len(copies) /\ d = Done /\ x = copies[1]
  OBVIOUS
<1>8. /\ c \in Nat /\ c >= 1 /\ c <= d /\ IsSeq(copies) /\ Head(copies) = x
      /\ IsSeq(copies') /\ Len(copies') = c - 1
      /\ \A i \in 1..(c - 1) : copies'[i] = copies[i + 1]
  <2>1. IsSeq(copies) /\ c <= d
    BY <1>7 DEF PipeInv, OutputsOK
  <2> QED
    BY <1>1, <1>7, <2>1, SeqFacts
<1>9. /\ d \in Nat /\ d <= Len(outputs) /\ Len(outputs) \in Nat /\ Len(outputs) <= 2
      /\ Len(outputs) <= Queued /\ Queued <= 2
  <2>1. Queued \in Nat
    BY PipeTypes DEF Queued
  <2>2. Len(outputs) \in Nat /\ Queued = Len(outputs) + (IF loop = "execute" THEN 1 ELSE 0)
        /\ Queued <= 2
    BY LenProperties DEF PipeInv, Handles
  <2>3. Flying \in {0, 1, 2} /\ Flying <= Len(outputs)
    BY DEF PipeInv, StreamOK, Flying
  <2> QED
    BY <1>7, <2>1, <2>2, <2>3 DEF Done
<1>10. PICK k : k = d - c + 1
  OBVIOUS
<1>11. k \in 1..Len(outputs) /\ k \in 1..Queued /\ k \in {1, 2} /\ k = d - c + 1
  <2>1. PICK n, q : n = Len(outputs) /\ q = Queued
    OBVIOUS
  <2>2. q \in Nat
    BY <2>1, PipeTypes DEF Queued
  <2>3. n \in Nat /\ n <= 2 /\ n <= q /\ d <= n
    BY <1>9, <2>1
  <2>4. k \in 1..n /\ k \in 1..q /\ k \in {1, 2}
    BY <1>8, <1>9, <1>10, <2>2, <2>3
  <2> QED
    BY <1>10, <2>1, <2>4
<1>12. x.buf = outputs[k] /\ DOMAIN x.tokens = DOMAIN Rows(k) /\ Right(k, x.tokens)
  <2>1. 1 \in 1..Len(copies) /\ Done - Len(copies) + 1 = k
    BY <1>7, <1>8, <1>10
  <2> QED
    BY <1>7, <2>1 DEF PipeInv, OutputsOK
<1>13. DOMAIN Rows(k) \subseteq Slots
  BY <1>9, <1>11, BatchesOK, ConfigAssumption DEF PipeInv, BatchOK, Slots
<1>14. \A j \in 1..Len(outputs) : outputs[j] \in 0..1 /\ (j # k => outputs[j] # outputs[k])
  <2>1. outputs \in Seq(0..1) /\ buf_idx \in 0..1
        /\ (Len(outputs) >= 1 => outputs[Len(outputs)] = 1 - buf_idx)
        /\ (Len(outputs) = 2 => outputs[1] = buf_idx)
    BY DEF PipeInv, Handles
  <2>2. \A j \in 1..Len(outputs) : outputs[j] \in 0..1
    BY <2>1, ElementOfSeq
  <2>3. ASSUME NEW j \in 1..Len(outputs), j # k PROVE outputs[j] # outputs[k]
    <3>1. Len(outputs) = 2 /\ ((j = 1 /\ k = 2) \/ (j = 2 /\ k = 1))
      <4>1. PICK n : n = Len(outputs)
        OBVIOUS
      <4>2. n \in Nat /\ n <= 2 /\ j \in 1..n /\ k \in 1..n
        BY <1>9, <1>11, <4>1
      <4>3. n = 2 /\ ((j = 1 /\ k = 2) \/ (j = 2 /\ k = 1))
        BY <2>3, <4>2
      <4> QED
        BY <4>1, <4>3
    <3>2. outputs[1] = buf_idx /\ outputs[2] = 1 - buf_idx
      BY <2>1, <3>1
    <3> QED
      BY <2>1, <3>1, <3>2
  <2> QED
    BY <2>2, <2>3
<1>15. output_buf' = [output_buf EXCEPT ![outputs[k]] =
                        [i \in Slots |-> IF i \in DOMAIN x.tokens THEN x.tokens[i] ELSE @[i]]]
  BY <1>8, <1>12 DEF Copy, CopyOutput
<1>16. \A j, u : Right(j, u)' = Right(j, u)
  BY <1>1, <1>2 DEF Right
<1>17. DOMAIN output_buf = 0..1 /\ DOMAIN output_buf' = 0..1
  BY <1>15 DEF PipeInv, OutputsOK
<1>18. ASSUME NEW j \in 1..k PROVE Right(j, output_buf'[outputs[j]])
  <2>0. j \in 1..Len(outputs) /\ j \in Nat
    BY <1>9, <1>11
  <2>1. CASE j = k
    <3>1. \A i \in DOMAIN Rows(k) : output_buf'[outputs[k]][i] = x.tokens[i]
      BY <1>11, <1>12, <1>13, <1>14, <1>15, <1>17
    <3> QED
      BY <1>12, <2>1, <3>1 DEF Right
  <2>2. CASE j # k
    <3>1. output_buf'[outputs[j]] = output_buf[outputs[j]]
      BY <1>11, <1>14, <1>15, <1>17, <2>0, <2>2
    <3>2. j \in 1..(Done - Len(copies))
      <4>1. j \in 1..(d - c)
        BY <1>8, <1>9, <1>10, <2>0, <2>2
      <4> QED
        BY <1>7, <4>1
    <3> QED
      BY <3>1, <3>2 DEF PipeInv, OutputsOK
  <2> QED
    BY <2>1, <2>2
<1>19. ASSUME NEW j \in 1..(c - 1)
       PROVE  /\ copies'[j].buf = outputs[d - (c - 1) + j]
              /\ DOMAIN copies'[j].tokens = DOMAIN Rows(d - (c - 1) + j)
              /\ Right(d - (c - 1) + j, copies'[j].tokens)
  <2>1. j + 1 \in 1..c /\ d - (c - 1) + j = d - c + (j + 1) /\ copies'[j] = copies[j + 1]
    BY <1>8, <1>9
  <2> QED
    BY <1>7, <2>1 DEF PipeInv, OutputsOK
<1>20. OutputsOK'
  <2>1. c - 1 <= d /\ d - (c - 1) = k
    BY <1>8, <1>9, <1>10
  <2>2. outputs' = outputs /\ Done' = d
    BY <1>1, <1>3, <1>7
  <2> QED
    BY <1>2, <1>8, <1>16, <1>17, <1>18, <1>19, <2>1, <2>2 DEF OutputsOK
<1> QED
  BY <1>2, <1>4, <1>5, <1>6, <1>20 DEF PipeInv

-----------------------------------------------------------------------------
(* The host's steps                                                        *)

(* The step takes the c oldest outstanding batches away, and leaves the    *)
(* others, their slots and what the device holds as they are.              *)
SameWork(c) ==
  /\ UNCHANGED <<decode_cpu, deviceVars>>
  /\ Len(outputs') = Len(outputs) - c
  /\ \A k \in 1..(Len(outputs) - c) :
       outputs'[k] = outputs[k + c] /\ Rows(k)' = Rows(k + c) /\ Prompt(k)' = Prompt(k + c)
  /\ \A s \in Slots : \A k \in 1..(Len(outputs) - c) :
       InBatch(input_batch[s].seq, k + c) => input_batch'[s].seq = input_batch[s].seq
  /\ \A s \in Slots : input_batch'[s].seq \in Requests => input_batch'[s].seq = input_batch[s].seq

(* It leaves what has been computed for r, at most one more of its tokens  *)
(* known; or it makes r start over, which has no batch outstanding.        *)
SameProgress(r, c) ==
  /\ status[r] # "FINISHED"
  /\ \/ /\ \A d \in 0..(Len(outputs) - c) : Landed(r, d)' = Landed(r, d + c)
        /\ \A p \in 0..(Reached(r) - 1) :
             block_table'[r][p \div BlockSize + 1] = block_table[r][p \div BlockSize + 1]
        /\ \/ num_tokens'[r] = num_tokens[r]
           \/ num_tokens'[r] = num_tokens[r] + 1 /\ Reached(r) >= num_tokens[r]
     \/ /\ \A d \in 0..(Len(outputs) - c) : Landed(r, d)' = 0
        /\ \A k \in 1..Len(outputs) : ~InBatch(r, k)
        /\ num_tokens'[r] = num_tokens[r] /\ Reached(r) < num_tokens[r]
  /\ r \notin Users(input_batch') => num_cached_tokens'[r] = 0

LEMMA SameFlight ==
  ASSUME EngineInv, PipeInv, NEW c \in {0, 1}, c <= Done - Len(copies), SameWork(c)
  PROVE  /\ UNCHANGED <<decode_cpu, prepared, stream, copies, decode_gpu, gdn,
                        sampled_token_ids, kv, output_buf>>
         /\ Flying' = Flying /\ Done' = Done - c /\ Done \in 0..2 /\ Done - c \in Nat
         /\ Len(outputs) \in 0..2 /\ Flying \in 0..2 /\ Done = Len(outputs) - Flying
         /\ Len(outputs') = Len(outputs) - c /\ Len(outputs) - c \in Nat
         /\ Len(copies) \in Nat /\ Done - c <= Len(outputs) - c
         /\ \A w, k : k \in 1..(Len(outputs) - c) /\ ItemOK(w, k + c) => ItemOK(w, k)'
<1>1. /\ UNCHANGED <<decode_cpu, prepared, stream, copies, decode_gpu, gdn, sampled_token_ids,
                     kv, output_buf>>
      /\ Len(outputs') = Len(outputs) - c
  BY DEF SameWork, deviceVars
<1>2. Flying' = Flying /\ Flying \in 0..2 /\ Flying <= Len(outputs)
  BY <1>1 DEF Flying, PipeInv, StreamOK
<1>3. PICK n, m, q : n = Len(outputs) /\ m = Len(copies) /\ q = Queued
  OBVIOUS
<1>4. n \in Nat /\ n <= 2 /\ m \in Nat
  <2>1. n \in Nat /\ q = n + (IF loop = "execute" THEN 1 ELSE 0) /\ q <= 2
    BY <1>3, LenProperties DEF PipeInv, Handles
  <2>2. IsSeq(copies)
    BY DEF PipeInv, OutputsOK
  <2> QED
    BY <1>3, <2>1, <2>2, SeqFacts
<1>5. Done = n - Flying /\ Done' = (n - c) - Flying
  BY <1>1, <1>2, <1>3 DEF Done
<1>6. /\ Done' = Done - c /\ Done \in 0..2 /\ Done - c \in Nat /\ n \in 0..2 /\ n - c \in Nat
      /\ Done - c <= n - c
  <2>1. PICK f, d : f = Flying /\ d = Done
    OBVIOUS
  <2>2. f \in 0..2 /\ f <= n /\ d = n - f /\ c <= d - m
    BY <1>2, <1>3, <1>5, <2>1
  <2>3. d \in 0..2 /\ d - c \in Nat /\ n \in 0..2 /\ n - c \in Nat /\ (n - c) - f = d - c
        /\ d - c <= n - c
    BY <1>4, <2>2
  <2> QED
    BY <1>5, <2>1, <2>3
<1>7. ASSUME NEW w, NEW k \in 1..(n - c), ItemOK(w, k + c) PROVE ItemOK(w, k)'
  <2>1. /\ w.rows = Rows(k + c) /\ w.is_prefill = Prompt(k + c) /\ w.buf = outputs[k + c]
        /\ DOMAIN w.slots = DOMAIN w.rows
        /\ \A i \in DOMAIN w.rows : w.slots[i] \in Slots
                                    /\ input_batch[w.slots[i]].seq = w.rows[i].seq
    BY <1>7 DEF ItemOK
  <2>2. outputs'[k] = outputs[k + c] /\ Rows(k)' = Rows(k + c) /\ Prompt(k)' = Prompt(k + c)
    BY <1>3 DEF SameWork
  <2>3. ASSUME NEW i \in DOMAIN w.rows PROVE input_batch'[w.slots[i]].seq = w.rows[i].seq
    <3>1. InBatch(input_batch[w.slots[i]].seq, k + c)
      BY <2>1 DEF InBatch
    <3> QED
      BY <1>3, <2>1, <3>1 DEF SameWork
  <2> QED
    BY <2>1, <2>2, <2>3 DEF ItemOK
<1> QED
  BY <1>1, <1>2, <1>3, <1>4, <1>5, <1>6, <1>7

LEMMA SameStream ==
  ASSUME EngineInv, PipeInv, NEW c \in {0, 1}, c <= Done - Len(copies), SameWork(c)
  PROVE  StreamOK' /\ StagingOK'
<1>1. /\ UNCHANGED <<decode_cpu, prepared, stream, copies, decode_gpu, gdn,
                     sampled_token_ids, kv, output_buf>>
      /\ Flying' = Flying /\ Done' = Done - c
      /\ Len(outputs') = Len(outputs) - c
      /\ \A w, k : k \in 1..(Len(outputs) - c) /\ ItemOK(w, k + c) => ItemOK(w, k)'
  BY SameFlight
<1>2. PICK n, d, f, m : n = Len(outputs) /\ d = Done /\ f = Flying /\ m = Len(stream)
  OBVIOUS
<1>3. /\ n \in 0..2 /\ d \in 0..2 /\ f \in 0..2 /\ d = n - f /\ d - c \in Nat /\ n - c \in Nat
      /\ d - c <= n - c
  BY <1>2, SameFlight
<1>4. IsSeq(stream) /\ m \in 0..3 /\ f = (IF m = 0 THEN 0 ELSE IF m < 3 THEN 1 ELSE 2)
  BY <1>2 DEF PipeInv, StreamOK, Flying
<1>5. /\ m >= 1 => n - c \in 1..(n - c) /\ (n - c) + c = n
      /\ m = 3 => n - c - 1 \in 1..(n - c) /\ (n - c - 1) + c = n - 1
      /\ m \in {1, 3} => (d - c) + 1 \in 1..(n - c) /\ ((d - c) + 1) + c = d + 1
  BY <1>3, <1>4
<1>6. /\ \A w, k : k \in 1..(n - c) /\ ForwardOK(w, k + c) => ForwardOK(w, k)'
      /\ \A w, k : k \in 1..(n - c) /\ PrepareOK(w, k + c) => PrepareOK(w, k)'
  BY <1>1, <1>2 DEF ForwardOK, PrepareOK, Starting
<1>7. StreamOK'
  <2>1. PICK A, B, C : A = stream[m] /\ B = stream[m - 1] /\ C = stream[1]
    OBVIOUS
  <2>2. /\ m >= 1 => ForwardOK(A, n)
        /\ m >= 2 => PrepareOK(B, n)
        /\ m = 3 => ForwardOK(C, n - 1)
    BY <1>2, <2>1 DEF PipeInv, StreamOK
  <2>3. m >= 1 => ForwardOK(A, n - c)'
    BY <1>5, <1>6, <2>2
  <2>4. m >= 2 => PrepareOK(B, n - c)'
    BY <1>4, <1>5, <1>6, <2>2
  <2>5. m = 3 => ForwardOK(C, n - c - 1)'
    BY <1>5, <1>6, <2>2
  <2>6. Len(outputs') = n - c /\ Len(stream') = m /\ stream'[m] = A /\ stream'[m - 1] = B
        /\ stream'[1] = C
    BY <1>1, <1>2, <2>1
  <2>7. /\ m >= 1 => ForwardOK(stream[Len(stream)], Len(outputs))'
        /\ m >= 2 => PrepareOK(stream[Len(stream) - 1], Len(outputs))'
        /\ m = 3 => ForwardOK(stream[1], Len(outputs) - 1)'
    BY <2>3, <2>4, <2>5, <2>6 DEF ForwardOK, PrepareOK, ItemOK, Starting
  <2>8. Flying' <= Len(outputs')
    BY <1>1, <1>2, <1>3, <2>6
  <2>9. IsSeq(stream') /\ Len(stream') \in 0..3 /\ (prepared' <=> Len(stream') < 2)
    BY <1>1 DEF PipeInv, StreamOK
  <2> QED
    BY <2>6, <2>7, <2>8, <2>9 DEF StreamOK
<1>8. StagingOK'
  <2>1. /\ m >= 2 /\ ~Prompt(n) => \A i \in DOMAIN Rows(n) : decode_cpu[i] = Stage(Rows(n)[i])
        /\ m \in {1, 3} /\ ~Prompt(d + 1) =>
             \A i \in DOMAIN Rows(d + 1) : decode_gpu[i] = Stage(Rows(d + 1)[i])
    BY <1>2 DEF PipeInv, StagingOK
  <2>2. m >= 2 => Rows(n - c)' = Rows(n) /\ Prompt(n - c)' = Prompt(n)
    BY <1>2, <1>4, <1>5 DEF SameWork
  <2>3. m \in {1, 3} => Rows((d - c) + 1)' = Rows(d + 1) /\ Prompt((d - c) + 1)' = Prompt(d + 1)
    BY <1>2, <1>5 DEF SameWork
  <2>4. Len(outputs') = n - c /\ Len(stream') = m /\ Done' = d - c
        /\ decode_cpu' = decode_cpu /\ decode_gpu' = decode_gpu
    BY <1>1, <1>2
  <2> QED
    BY <2>1, <2>2, <2>3, <2>4 DEF StagingOK
<1> QED
  BY <1>7, <1>8

LEMMA SameOutputs ==
  ASSUME EngineInv, PipeInv, NEW c \in {0, 1}, c <= Done - Len(copies), SameWork(c),
         \A r \in Requests : status'[r] # "FINISHED" => status[r] # "FINISHED"
  PROVE  OutputsOK'
<1>1. /\ UNCHANGED <<copies, output_buf>> /\ Done' = Done - c
      /\ Len(outputs') = Len(outputs) - c
  BY SameFlight
<1>2. PICK n, d, m : n = Len(outputs) /\ d = Done /\ m = Len(copies)
  OBVIOUS
<1>3. n \in 0..2 /\ d \in 0..2 /\ d <= n /\ d - c \in Nat /\ n - c \in Nat /\ m \in Nat /\ c <= d - m
  <2>1. n \in 0..2 /\ d \in 0..2 /\ d - c \in Nat /\ n - c \in Nat /\ m \in Nat /\ d - c <= n - c
    BY <1>2, SameFlight
  <2> QED
    BY <1>2, <2>1
<1>4. /\ IsSeq(copies) /\ DOMAIN output_buf = 0..1
      /\ \A j \in 1..m : /\ copies[j].buf = outputs[d - m + j]
                         /\ DOMAIN copies[j].tokens = DOMAIN Rows(d - m + j)
                         /\ Right(d - m + j, copies[j].tokens)
      /\ \A k \in 1..(d - m) : Right(k, output_buf[outputs[k]])
  BY <1>2 DEF PipeInv, OutputsOK
<1>5. Queued <= 2 /\ Queued \in Nat /\ n <= Queued
  <2>1. Queued \in Nat
    BY PipeTypes DEF Queued
  <2> QED
    BY <1>2, <1>3, <2>1 DEF PipeInv, Handles
<1>6. ASSUME NEW k \in 1..(n - c), NEW u, Right(k + c, u) PROVE Right(k, u)'
  <2>1. Rows(k)' = Rows(k + c)
    BY <1>2 DEF SameWork
  <2>2. k + c \in 1..Queued
    BY <1>3, <1>5
  <2>3. \A i \in DOMAIN Rows(k + c) : Rows(k + c)[i].seq \in Requests
    BY <1>5, <2>2, BatchesOK DEF PipeInv, BatchOK, RowOK
  <2> QED
    BY <1>6, <2>1, <2>3 DEF Right
<1>7. ASSUME NEW j \in 1..m
      PROVE  /\ copies[j].buf = outputs'[(d - c) - m + j]
             /\ DOMAIN copies[j].tokens = DOMAIN Rows((d - c) - m + j)'
             /\ Right((d - c) - m + j, copies[j].tokens)'
  <2>1. PICK k : k = (d - c) - m + j
    OBVIOUS
  <2>2. k \in 1..(n - c) /\ k + c = d - m + j
    BY <1>3, <2>1
  <2>3. outputs'[k] = outputs[k + c] /\ Rows(k)' = Rows(k + c)
    BY <1>2, <2>2 DEF SameWork
  <2>4. PICK e : e = copies[j]
    OBVIOUS
  <2>5. e.buf = outputs'[k] /\ DOMAIN e.tokens = DOMAIN Rows(k)' /\ Right(k, e.tokens)'
    BY <1>4, <1>6, <2>2, <2>3, <2>4
  <2> QED
    BY <1>1, <2>1, <2>4, <2>5 DEF Right
<1>8. ASSUME NEW k \in 1..((d - c) - m) PROVE Right(k, output_buf[outputs[k]])'
  <2>1. k \in 1..(n - c) /\ k + c \in 1..(d - m)
    BY <1>3
  <2>2. outputs'[k] = outputs[k + c]
    BY <1>2, <2>1 DEF SameWork
  <2>3. PICK u : u = output_buf[outputs[k + c]]
    OBVIOUS
  <2>4. Right(k, u)'
    BY <1>4, <1>6, <2>1, <2>3
  <2> QED
    BY <1>1, <2>2, <2>3, <2>4 DEF Right
<1>9. m <= d - c
  BY <1>3
<1> QED
  BY <1>1, <1>2, <1>4, <1>7, <1>8, <1>9 DEF OutputsOK

LEMMA SameDevice ==
  ASSUME EngineInv, PipeInv, NEW c \in {0, 1}, c <= Done - Len(copies), SameWork(c),
         \A r \in Requests : status'[r] # "FINISHED" => SameProgress(r, c)
  PROVE  DeviceOK'
<1>1. /\ UNCHANGED <<stream, gdn, sampled_token_ids, kv>>
      /\ Done' = Done - c /\ Done \in 0..2 /\ Done - c \in Nat /\ Done - c <= Len(outputs) - c
      /\ Len(outputs) \in 0..2 /\ Flying \in 0..2 /\ Done = Len(outputs) - Flying
      /\ Len(outputs) - c \in Nat
  BY SameFlight
<1>2. PICK k : k = Done - c
  OBVIOUS
<1>3. k \in 0..(Len(outputs) - c) /\ k + c = Done
  <2>1. PICK n, d : n = Len(outputs) /\ d = Done
    OBVIOUS
  <2>2. d \in 0..2 /\ k = d - c /\ k \in Nat /\ k <= n - c /\ n \in 0..2
    BY <1>1, <1>2, <2>1
  <2>3. k \in 0..(n - c) /\ k + c = d
    BY <2>2
  <2> QED
    BY <2>1, <2>3
<1>4. /\ \A r : NextHas(r)' <=> NextHas(r)
      /\ \A r : Awaited(r)' <=> Awaited(r)
  BY <1>1 DEF NextHas, Awaited
<1>5. ASSUME NEW r \in Requests, NextHas(r)
      PROVE  \E j \in 1..Len(outputs) : InBatch(r, j)
  <2>1. Len(stream) \in {1, 3}
    BY <1>5 DEF NextHas
  <2>2. PICK n, d, f, m : n = Len(outputs) /\ d = Done /\ f = Flying /\ m = Len(stream)
    OBVIOUS
  <2>3. f = (IF m = 0 THEN 0 ELSE IF m < 3 THEN 1 ELSE 2) /\ m \in {1, 3} /\ d = n - f
        /\ n \in 0..2 /\ d \in 0..2
    BY <1>1, <2>1, <2>2 DEF Flying
  <2>4. d + 1 \in 1..n /\ d + 1 = (IF m = 1 THEN n ELSE n - 1)
    BY <2>3
  <2>5. stream[1].rows = Rows(d + 1)
    <3>1. CASE m = 1
      <4>1. Len(stream) = 1 /\ Len(outputs) = d + 1
        BY <2>2, <2>4, <3>1
      <4>2. ForwardOK(stream[1], d + 1)
        BY <4>1 DEF PipeInv, StreamOK
      <4> QED
        BY <4>2 DEF ForwardOK, ItemOK
    <3>2. CASE m = 3
      BY <3>2, <2>2, <2>4 DEF PipeInv, StreamOK, ForwardOK, ItemOK
    <3> QED
      BY <2>3, <3>1, <3>2
  <2> QED
    BY <1>5, <2>2, <2>4, <2>5 DEF NextHas, InBatch
<1>6. ASSUME NEW r \in Requests, status'[r] # "FINISHED"
      PROVE  /\ EntriesOK(r, Reached(r))'
             /\ \A s \in Slots : input_batch'[s].seq = r => SlotOK(s, r, Reached(r))'
             /\ r \notin Users(input_batch') => num_cached_tokens'[r] = 0
  <2>1. SameProgress(r, c)
    BY <1>6
  <2>2. status[r] # "FINISHED" /\ (r \notin Users(input_batch') => num_cached_tokens'[r] = 0)
    BY <2>1 DEF SameProgress
  <2>3. PICK d, n : d = Reached(r) /\ n = num_tokens[r]
    OBVIOUS
  <2>4. d \in Nat /\ n \in Nat
    <3>1. Landed(r, 0) \in Nat /\ Landed(r, 1) \in Nat /\ Landed(r, 2) \in Nat /\ n \in Nat
      BY LandedTypes, <2>3
    <3>2. Done = 0 \/ Done = 1 \/ Done = 2
      BY <1>1
    <3> QED
      BY <2>3, <3>1, <3>2 DEF Reached
  <2>5. EntriesOK(r, d) /\ \A s \in Slots : input_batch[s].seq = r => SlotOK(s, r, d)
    BY <2>2, <2>3 DEF PipeInv, DeviceOK
  <2>6. \A s \in Slots : input_batch'[s].seq = r => input_batch[s].seq = r
    BY DEF SameWork
  <2>7. Reached(r)' = Landed(r, k)'
    BY <1>1, <1>2 DEF Reached, Landed
  <2>8. CASE /\ \A j \in 0..(Len(outputs) - c) : Landed(r, j)' = Landed(r, j + c)
             /\ \A p \in 0..(Reached(r) - 1) :
                  block_table'[r][p \div BlockSize + 1] = block_table[r][p \div BlockSize + 1]
             /\ \/ num_tokens'[r] = num_tokens[r]
                \/ num_tokens'[r] = num_tokens[r] + 1 /\ Reached(r) >= num_tokens[r]
    <3>1. Reached(r)' = d
      <4>1. Landed(r, k)' = Landed(r, k + c)
        BY <1>3, <2>8
      <4>2. Landed(r, k + c) = Reached(r)
        BY <1>3 DEF Reached
      <4> QED
        BY <2>3, <2>7, <4>1, <4>2
    <3>2. EntriesOK(r, d)'
      BY <1>1, <2>3, <2>5, <2>8 DEF EntriesOK
    <3>3. EntriesOK(r, Reached(r))'
      BY <3>1, <3>2 DEF EntriesOK
    <3>4. LastToken(r, d)' = LastToken(r, d)
      <4>1. num_tokens'[r] = n \/ (num_tokens'[r] = n + 1 /\ d >= n)
        BY <2>3, <2>8
      <4>2. CASE num_tokens'[r] = n
        BY <2>3, <4>2 DEF LastToken
      <4>3. CASE num_tokens'[r] = n + 1 /\ d >= n
        <5>1. LastToken(r, d) = d
          BY <2>3, <4>3 DEF LastToken
        <5>2. LastToken(r, d)' = IF d >= n + 1 THEN d ELSE (n + 1) - 1
          BY <4>3 DEF LastToken
        <5> QED
          BY <2>4, <4>3, <5>1, <5>2
      <4> QED
        BY <4>1, <4>2, <4>3
    <3>5. ASSUME NEW s \in Slots, input_batch'[s].seq = r PROVE SlotOK(s, r, Reached(r))'
      <4>1. SlotOK(s, r, d)
        BY <2>5, <2>6, <3>5
      <4>2. SlotOK(s, r, d)'
        BY <1>1, <1>4, <3>4, <4>1 DEF SlotOK
      <4> QED
        BY <3>1, <3>4, <4>2 DEF SlotOK, LastToken
    <3> QED
      BY <2>2, <3>3, <3>5
  <2>9. CASE /\ \A j \in 0..(Len(outputs) - c) : Landed(r, j)' = 0
             /\ \A j \in 1..Len(outputs) : ~InBatch(r, j)
             /\ num_tokens'[r] = num_tokens[r] /\ Reached(r) < num_tokens[r]
    <3>1. Reached(r)' = 0
      BY <1>3, <2>7, <2>9
    <3>2. EntriesOK(r, Reached(r))'
      BY <3>1 DEF EntriesOK
    <3>3. ~NextHas(r)' /\ ~NextHas(r)
      BY <1>4, <1>5, <2>9
    <3>4. ASSUME NEW s \in Slots, input_batch'[s].seq = r PROVE SlotOK(s, r, Reached(r))'
      <4>1. SlotOK(s, r, d)
        BY <2>5, <2>6, <3>4
      <4>2. d < n /\ num_tokens'[r] = n
        BY <2>3, <2>9
      <4>3. LastToken(r, d) = n - 1
        BY <2>3, <2>4, <4>2 DEF LastToken
      <4>4. LastToken(r, Reached(r))' = n - 1
        <5>1. LastToken(r, Reached(r))' = IF 0 >= n THEN 0 ELSE n - 1
          BY <3>1, <4>2 DEF LastToken
        <5> QED
          BY <2>4, <4>2, <5>1
      <4>5. ~Awaited(r)' => sampled_token_ids'[s] = <<r, n - 1>>
        BY <1>1, <1>4, <4>1, <4>3 DEF SlotOK
      <4> QED
        BY <3>1, <3>3, <4>4, <4>5 DEF SlotOK
    <3> QED
      BY <2>2, <3>2, <3>4
  <2> QED
    BY <2>1, <2>8, <2>9 DEF SameProgress
<1> QED
  BY <1>6 DEF DeviceOK

(* So much about the host's steps in general.                              *)
LEMMA HostStep ==
  ASSUME EngineInv, PipeInv, NEW c \in {0, 1}, c <= Done - Len(copies), SameWork(c),
         \A r \in Requests : status'[r] # "FINISHED" => SameProgress(r, c),
         Handles', ResultOK', TightOK', DecodeOK'
  PROVE  PipeInv'
<1>1. \A r \in Requests : status'[r] # "FINISHED" => status[r] # "FINISHED"
  BY DEF SameProgress
<1>2. StreamOK' /\ StagingOK'
  BY SameStream
<1>3. OutputsOK'
  BY <1>1, SameOutputs
<1>4. DeviceOK'
  BY SameDevice
<1> QED
  BY <1>2, <1>3, <1>4 DEF PipeInv

(* A step that takes no batch away, and waits for none.                    *)
LEMMA NoneTaken ==
  ASSUME EngineInv, PipeInv
  PROVE  /\ 0 <= Done - Len(copies) /\ Len(outputs) \in 0..2 /\ Len(outputs) - 0 = Len(outputs)
         /\ Queued \in 0..2 /\ Len(outputs) <= Queued
         /\ Queued = Len(outputs) + (IF loop = "execute" THEN 1 ELSE 0)
<1>1. PICK n, m, q, f, d : n = Len(outputs) /\ m = Len(copies) /\ q = Queued /\ f = Flying /\ d = Done
  OBVIOUS
<1>2. n \in Nat /\ q = n + (IF loop = "execute" THEN 1 ELSE 0) /\ q <= 2
  BY <1>1, LenProperties DEF PipeInv, Handles
<1>3. m \in Nat /\ m <= d
  BY <1>1, SeqFacts DEF PipeInv, OutputsOK
<1>4. f \in 0..2 /\ f <= n /\ d = n - f
  BY <1>1 DEF PipeInv, StreamOK, Flying, Done
<1>5. 0 <= d - m /\ n \in 0..2 /\ n - 0 = n /\ q \in 0..2 /\ n <= q
  BY <1>2, <1>3, <1>4
<1> QED
  BY <1>1, <1>2, <1>5

(* The outstanding batches are what they were.                             *)
LEMMA QuietRows ==
  ASSUME UNCHANGED <<live, batch_queue, dispatched, num_tokens, num_cached_tokens,
                     num_scheduled_tokens, is_prefill, block_table>>
  PROVE  /\ \A k : Rows(k)' = Rows(k) /\ Prompt(k)' = Prompt(k)
         /\ \A r, k : Gain(r, k)' = Gain(r, k)
         /\ Queued' = Queued /\ Serial' = Serial
<1>1. Serial' = Serial
  BY DEF Serial
<1>2. \A k : Rows(k)' = Rows(k) /\ Prompt(k)' = Prompt(k)
  BY <1>1 DEF Rows, Prompt, OwnerRow, ViewRow
<1>3. \A r, k : Gain(r, k)' = Gain(r, k)
  BY <1>1, <1>2 DEF Gain, InBatch, RowCount
<1> QED
  BY <1>1, <1>2, <1>3 DEF Queued

LEMMA QuietStep ==
  ASSUME EngineInv, PipeInv,
         UNCHANGED <<runnerVars, outputs, result, in_flight, num_tokens, num_cached_tokens,
                     num_scheduled_tokens, is_prefill, block_table, batch_queue, batch, live,
                     pending, dispatched, views, running>>,
         \A r \in Requests : status'[r] = "FINISHED" <=> status[r] = "FINISHED",
         loop # "execute", loop' # "execute", phase' \notin {"post", "commit"},
         phase' \in {"decode", "prefill"} => Queued < 2
  PROVE  PipeInv'
<1>1. /\ \A k : Rows(k)' = Rows(k) /\ Prompt(k)' = Prompt(k)
      /\ \A r, k : Gain(r, k)' = Gain(r, k)
      /\ Queued' = Queued /\ Serial' = Serial
  BY QuietRows
<1>2. /\ 0 <= Done - Len(copies) /\ Len(outputs) - 0 = Len(outputs) /\ Len(outputs) \in 0..2
  BY NoneTaken
<1>3. SameWork(0)
  BY <1>1, <1>2 DEF SameWork, runnerVars, hostVars
<1>4. \A r, d : Landed(r, d)' = Landed(r, d)
  BY <1>1 DEF Landed, Taken
<1>5. ASSUME NEW r \in Requests, status'[r] # "FINISHED" PROVE SameProgress(r, 0)
  <2>1. r \notin Users(input_batch') => num_cached_tokens'[r] = 0
    BY <1>5 DEF PipeInv, DeviceOK, runnerVars, hostVars
  <2> QED
    BY <1>2, <1>4, <1>5, <2>1 DEF SameProgress
<1>6. Handles'
  BY <1>1 DEF Handles, PipeInv, runnerVars, hostVars
<1>7. ResultOK'
  BY DEF ResultOK, OutputCorrect, PipeInv
<1>8. TightOK'
  BY DEF TightOK, Ahead, PipeInv
<1>9. DecodeOK'
  BY <1>1 DEF DecodeOK, PipeInv
<1> QED
  BY <1>2, <1>3, <1>5, <1>6, <1>7, <1>8, <1>9, HostStep

(* The steps that neither dispatch, nor take a result.                     *)
LEMMA QuietOnly ==
  ASSUME EngineInv, PipeInv,
         \/ \E r \in Requests : add_request(r)
         \/ StepSerial \/ StepAsync \/ FillSchedule \/ ScheduleRaises \/ FillDone
         \/ loop = "fill" /\ (DecodeDone \/ PrefillPromote \/ PrefillContinuation)
              /\ UNCHANGED <<cohortVars, runnerVars, loop, outputs, result>>
         \/ ConsumeNothing
         \/ Look /\ async_schedule_empty
         \/ LookDone /\ dispatched # <<>>
  PROVE  PipeInv'
<1>1. /\ loop \in {"top", "lookahead", "execute"} => phase = "idle"
      /\ loop = "fill" => Serial /\ phase \in {"idle", "decode", "prefill"}
  BY DEF EngineInv, LoopOK
<1>2. phase \in {"decode", "prefill"} => Queued < 2
  BY DEF PipeInv, Handles
<1>3. ASSUME NEW r \in Requests, add_request(r) PROVE PipeInv'
  <2>1. status \in [Requests -> {"NEW", "WAITING", "RUNNING", "FINISHED"}]
    BY PipeTypes
  <2>2. \A q \in Requests : status'[q] = "FINISHED" <=> status[q] = "FINISHED"
    BY <1>3, <2>1 DEF add_request, add
  <2> QED
    BY <1>1, <1>3, <2>2, QuietStep
       DEF add_request, add, cohortVars, driverVars, blockVars
<1>4. ASSUME StepSerial \/ StepAsync \/ ConsumeNothing \/ FillDone PROVE PipeInv'
  BY <1>1, <1>4, QuietStep
     DEF StepSerial, StepAsync, ConsumeNothing, FillDone, drain_for_arrival, StartDraining,
         asyncVars, vars, queueVars, seqVars, blockVars, driverVars, cohortVars
<1>5. ASSUME FillSchedule PROVE PipeInv'
  <2>1. Serial /\ Len(batch_queue) < 2
    BY <1>1, <1>5 DEF FillSchedule, MayFill, max_concurrent_batches
  <2>2. Queued < 2
    BY <2>1 DEF Queued
  <2> QED
    BY <1>5, <2>2, QuietStep
       DEF FillSchedule, BeginSchedule, queueVars, seqVars, blockVars, driverVars, cohortVars
<1>6. ASSUME ScheduleRaises PROVE PipeInv'
  BY <1>6, QuietStep
     DEF ScheduleRaises, RaiseExhausted, ResetCall, queueVars, seqVars, blockVars, driverVars,
         cohortVars
<1>7. ASSUME loop = "fill", DecodeDone \/ PrefillPromote \/ PrefillContinuation,
             UNCHANGED <<cohortVars, runnerVars, loop, outputs, result>>
      PROVE  PipeInv'
  BY <1>2, <1>7, QuietStep
     DEF DecodeDone, PrefillPromote, PrefillContinuation, queueVars, seqVars, blockVars,
         driverVars, cohortVars, callVars
<1>8. ASSUME Look, async_schedule_empty PROVE PipeInv'
  <2>1. /\ loop = "lookahead" /\ UNCHANGED <<runnerVars, outputs, result>>
        /\ loop' \in {"execute", loop}
    BY <1>8 DEF Look
  <2>2. ~async_schedule
    BY <1>8 DEF async_schedule, async_schedule_empty
  <2>3. loop' = loop
    BY <1>8, <2>2 DEF Look
  <2> QED
    BY <1>1, <1>8, <2>1, <2>3, QuietStep
       DEF async_schedule_empty, StartDraining, vars, queueVars, seqVars, blockVars, driverVars
<1>9. ASSUME LookDone, dispatched # <<>> PROVE PipeInv'
  BY <1>9, QuietStep
     DEF LookDone, asyncVars, vars, queueVars, seqVars, blockVars, driverVars, cohortVars
<1> QED
  BY <1>3, <1>4, <1>5, <1>6, <1>7, <1>8, <1>9

-----------------------------------------------------------------------------
(* schedule()                                                              *)

(* Where the batches that stay are counted.                                *)
LEMMA LandedKept ==
  ASSUME NEW r, NEW n \in 0..2,
         num_cached_tokens'[r] + Taken(r)' = num_cached_tokens[r] + Taken(r),
         \A k \in 1..n : Gain(r, k)' = Gain(r, k)
  PROVE  \A d \in 0..n : Landed(r, d)' = Landed(r, d)
<1> TAKE d \in 0..n
<1>1. PICK a : a = num_cached_tokens[r] + Taken(r)
  OBVIOUS
<1>2. /\ Landed(r, d) = a + (IF d >= 1 THEN Gain(r, 1) ELSE 0) + (IF d >= 2 THEN Gain(r, 2) ELSE 0)
      /\ Landed(r, d)' = a + (IF d >= 1 THEN Gain(r, 1)' ELSE 0) + (IF d >= 2 THEN Gain(r, 2)' ELSE 0)
  BY <1>1 DEF Landed
<1>3. (d >= 1 => Gain(r, 1)' = Gain(r, 1)) /\ (d >= 2 => Gain(r, 2)' = Gain(r, 2))
  OBVIOUS
<1> QED
  BY <1>2, <1>3

(* schedule() and postprocess() leave the rows of the queued batches as    *)
(* they are.                                                               *)
LEMMA FrozenRows ==
  ASSUME EngineInv, Serial, Queued <= 2, live' = live, NEW n \in 0..Queued,
         \A k \in 1..n : batch_queue'[k] = batch_queue[k],
         \A k \in 1..n : \A r \in ToSet(batch_queue[k].seqs) :
           /\ num_tokens'[r] = num_tokens[r] /\ num_cached_tokens'[r] = num_cached_tokens[r]
           /\ num_scheduled_tokens'[r] = num_scheduled_tokens[r]
           /\ is_prefill'[r] = is_prefill[r] /\ block_table'[r] = block_table[r]
  PROVE  \A k \in 1..n : /\ Rows(k)' = Rows(k) /\ Prompt(k)' = Prompt(k)
                         /\ \A r : InBatch(r, k)' <=> InBatch(r, k)
                         /\ \A r : Gain(r, k)' = Gain(r, k)
<1> TAKE k \in 1..n
<1>1. Queued = Len(batch_queue) /\ Len(batch_queue) \in Nat /\ batch_queue \in Seq(Batch)
  BY PipeTypes DEF Queued
<1>2. k \in 1..Len(batch_queue) /\ batch_queue[k] \in Batch
  <2>1. k \in 1..Len(batch_queue)
    BY <1>1
  <2> QED
    BY <1>1, <2>1
<1>3. PICK q : q = batch_queue[k].seqs
  OBVIOUS
<1>4. q \in Seq(Requests) /\ Len(q) \in Nat /\ ToSet(q) = {q[i] : i \in 1..Len(q)}
  BY <1>2, <1>3, ToSetDef DEF Batch
<1>5. batch_queue'[k].seqs = q /\ Prompt(k)' = Prompt(k) /\ Serial'
  BY <1>3 DEF Prompt, Serial
<1>6. \A i \in 1..Len(q) : OwnerRow(q[i])' = OwnerRow(q[i])
  BY <1>3, <1>4 DEF OwnerRow
<1>7. Rows(k)' = Rows(k)
  BY <1>3, <1>5, <1>6 DEF Rows
<1>8. \A r : InBatch(r, k) => r \in ToSet(q)
  BY <1>3, <1>4, SerialRows
<1>9. \A r : Gain(r, k)' = Gain(r, k)
  <2> TAKE r
  <2>1. CASE InBatch(r, k)
    BY <1>3, <1>5, <1>7, <1>8, <2>1 DEF Gain, InBatch, RowCount
  <2>2. CASE ~InBatch(r, k)
    BY <1>7, <2>2 DEF Gain, InBatch
  <2> QED
    BY <2>1, <2>2
<1> QED
  BY <1>5, <1>7, <1>9 DEF InBatch

(* schedule()'s loops, one request at a time.                              *)
LEMMA OneScheduled ==
  ASSUME EngineInv, PipeInv, loop = "fill", phase \in {"decode", "prefill"},
         UNCHANGED <<runnerVars, loop, outputs, result, cohortVars, batch_queue, batch, phase,
                     num_tokens>>,
         NEW r \in Requests, r \notin in_flight, status[r] # "FINISHED",
         \A q \in Requests \ {r} :
           /\ num_cached_tokens'[q] = num_cached_tokens[q]
           /\ num_scheduled_tokens'[q] = num_scheduled_tokens[q]
           /\ is_prefill'[q] = is_prefill[q] /\ block_table'[q] = block_table[q]
           /\ status'[q] = status[q] /\ (q \in ToSet(running') <=> q \in ToSet(running))
           /\ (q \in in_flight' => q \in in_flight),
         \/ /\ num_cached_tokens'[r] = num_cached_tokens[r]
            /\ \A p \in 0..(num_cached_tokens[r] - 1) :
                 block_table'[r][p \div BlockSize + 1] = block_table[r][p \div BlockSize + 1]
         \/ num_cached_tokens'[r] = 0 /\ num_cached_tokens[r] < num_tokens[r],
         Tight(block_table'[r], num_tokens[r] - 1 + Ahead(r)'),
         \/ is_prefill'[r] \/ r \notin in_flight'
         \/ num_scheduled_tokens'[r] = 1 /\ num_tokens[r] > PromptLen[r]
  PROVE  PipeInv'
<1>1. Serial /\ Serial' /\ batch = NoBatch /\ Inv /\ dispatched = <<>>
  <2>1. Serial
    BY DEF EngineInv, LoopOK
  <2>2. NoCohort
    BY <2>1 DEF EngineInv, AsyncInv
  <2> QED
    BY <2>1, <2>2 DEF NoCohort, Inv, TypeInv, PhaseOK, Serial, cohortVars
<1>2. /\ 0 <= Done - Len(copies) /\ Len(outputs) - 0 = Len(outputs) /\ Len(outputs) \in 0..2
      /\ Queued \in 0..2 /\ Queued = Len(outputs) /\ Queued <= 2
  <2>1. Queued = Len(outputs) + (IF loop = "execute" THEN 1 ELSE 0)
    BY NoneTaken
  <2> QED
    BY <2>1, NoneTaken
<1>3. \A k \in 1..Queued : \A q \in ToSet(batch_queue[k].seqs) : q \in Requests \ {r}
  <2> TAKE k \in 1..Queued
  <2> TAKE q \in ToSet(batch_queue[k].seqs)
  <2>1. k \in 1..Len(batch_queue) /\ k <= 2
    BY <1>1, <1>2 DEF Queued
  <2> QED
    BY <1>1, <2>1, QueuedRow
<1>4. \A k \in 1..Queued : /\ Rows(k)' = Rows(k) /\ Prompt(k)' = Prompt(k)
                           /\ \A q : InBatch(q, k)' <=> InBatch(q, k)
                           /\ \A q : Gain(q, k)' = Gain(q, k)
  <2>1. Queued \in 0..Queued
    BY <1>2
  <2>2. \A k \in 1..Queued : \A q \in ToSet(batch_queue[k].seqs) :
           /\ num_tokens'[q] = num_tokens[q] /\ num_cached_tokens'[q] = num_cached_tokens[q]
           /\ num_scheduled_tokens'[q] = num_scheduled_tokens[q]
           /\ is_prefill'[q] = is_prefill[q] /\ block_table'[q] = block_table[q]
    BY <1>3
  <2>3. live' = live /\ \A k \in 1..Queued : batch_queue'[k] = batch_queue[k]
    BY DEF cohortVars
  <2> QED
    BY <1>1, <1>2, <2>1, <2>2, <2>3, FrozenRows
<1>5. SameWork(0)
  BY <1>2, <1>4 DEF SameWork, runnerVars, hostVars
<1>6. \A q : Taken(q) = 0 /\ Taken(q)' = 0
  <2>1. \A q : q \notin ToSet(NoBatch.seqs)
    BY EmptyQueue DEF NoBatch
  <2> QED
    BY <1>1, <2>1 DEF Taken
<1>7. \A k \in 1..Queued : ~InBatch(r, k) /\ Gain(r, k) = 0 /\ Gain(r, k)' = 0
  <2> TAKE k \in 1..Queued
  <2>1. k \in 1..Len(batch_queue) /\ batch_queue[k] \in Batch
    <3>1. batch_queue \in Seq(Batch) /\ k \in 1..Len(batch_queue)
      BY <1>1, PipeTypes DEF Queued
    <3> QED
      BY <3>1
  <2>2. InBatch(r, k) => r \in ToSet(batch_queue[k].seqs)
    BY <1>1, <2>1, SerialRows DEF Batch
  <2> QED
    BY <1>3, <1>4, <2>2 DEF Gain
<1>8. num_cached_tokens[r] \in Nat /\ Landed(r, 0) \in Nat /\ num_tokens[r] \in Nat
  BY PipeTypes, LandedTypes
<1>9. Reached(r) = num_cached_tokens[r]
  <2>1. PICK d, n : d = Done /\ n = Queued
    OBVIOUS
  <2>2. d \in 0..2 /\ n \in 0..2 /\ d <= n
    <3>1. PICK f : f = Flying
      OBVIOUS
    <3>2. f \in 0..2 /\ d = n - f /\ d \in 0..2
      BY <1>2, <1>5, <2>1, <3>1, SameFlight
    <3>3. n \in 0..2
      BY <1>2, <2>1
    <3> QED
      BY <3>1, <3>2, <3>3
  <2>3. (d >= 1 => Gain(r, 1) = 0) /\ (d >= 2 => Gain(r, 2) = 0)
    BY <1>7, <2>1, <2>2
  <2> QED
    BY <1>6, <1>8, <2>1, <2>3 DEF Reached, Landed
<1>10. ASSUME NEW q \in Requests, num_cached_tokens'[q] = num_cached_tokens[q],
              status[q] # "FINISHED",
              \A p \in 0..(Reached(q) - 1) :
                block_table'[q][p \div BlockSize + 1] = block_table[q][p \div BlockSize + 1]
       PROVE  SameProgress(q, 0)
  <2>1. num_cached_tokens'[q] + Taken(q)' = num_cached_tokens[q] + Taken(q)
    BY <1>6, <1>10
  <2>2. PICK n : n = Len(outputs)
    OBVIOUS
  <2>3. n \in 0..2 /\ \A k \in 1..n : Gain(q, k)' = Gain(q, k)
    BY <1>2, <1>4, <2>2
  <2>4. \A d \in 0..n : Landed(q, d)' = Landed(q, d)
    BY <2>1, <2>3, LandedKept
  <2>5. \A d \in 0..(n - 0) : Landed(q, d)' = Landed(q, d + 0)
    BY <2>3, <2>4
  <2>6. q \notin Users(input_batch') => num_cached_tokens'[q] = 0
    BY <1>10 DEF PipeInv, DeviceOK, runnerVars, hostVars
  <2> QED
    BY <1>10, <2>2, <2>5, <2>6 DEF SameProgress
<1>11. ASSUME num_cached_tokens'[r] = 0, num_cached_tokens[r] < num_tokens[r]
       PROVE  SameProgress(r, 0)
  <2>1. PICK n : n = Len(outputs)
    OBVIOUS
  <2>2. n \in 0..2 /\ \A k \in 1..n : Gain(r, k)' = 0 /\ ~InBatch(r, k)
    BY <1>2, <1>7, <2>1
  <2>3. ASSUME NEW d \in 0..(n - 0) PROVE Landed(r, d)' = 0
    <3>1. (d >= 1 => Gain(r, 1)' = 0) /\ (d >= 2 => Gain(r, 2)' = 0)
      BY <2>2
    <3> QED
      BY <1>6, <1>11, <3>1 DEF Landed
  <2> QED
    BY <1>9, <1>11, <2>1, <2>2, <2>3 DEF SameProgress
<1>12. \A q \in Requests : status'[q] # "FINISHED" => SameProgress(q, 0)
  <2> TAKE q \in Requests
  <2>1. CASE q = r
    BY <1>9, <1>10, <1>11, <2>1
  <2>2. CASE q # r
    BY <1>10, <2>2
  <2> QED
    BY <2>1, <2>2
<1>13. Handles'
  BY <1>1 DEF Handles, PipeInv, runnerVars, hostVars, Queued
<1>14. ResultOK'
  BY DEF ResultOK, OutputCorrect, PipeInv
<1>15. TightOK'
  <2>1. ASSUME NEW q \in Requests, status'[q] # "FINISHED"
        PROVE  Tight(block_table'[q], num_tokens'[q] - 1 + Ahead(q)')
    <3>1. CASE q = r
      BY <3>1
    <3>2. CASE q # r
      <4>1. Ahead(q)' = Ahead(q)
        BY <3>2 DEF Ahead, cohortVars
      <4> QED
        BY <2>1, <3>2, <4>1 DEF PipeInv, TightOK
    <3> QED
      BY <3>1, <3>2
  <2>2. dispatched' = <<>>
    BY <1>1 DEF cohortVars
  <2> QED
    BY <2>1, <2>2 DEF TightOK
<1>16. DecodeOK'
  BY <1>1 DEF DecodeOK, PipeInv
<1> QED
  BY <1>2, <1>5, <1>12, <1>13, <1>14, <1>15, <1>16, HostStep

(* A table without a block to spare takes one more only for a first token  *)
(* past its blocks.                                                        *)
LEMMA TightGrows ==
  ASSUME NEW l \in Nat, NEW n \in Nat, n % BlockSize = 1, l = 0 \/ (l - 1) * BlockSize < n - 1
  PROVE  l * BlockSize < n
<1>1. BlockSize \in Nat /\ BlockSize > 1
  BY ConfigAssumption
<1>2. PICK b, q : b = BlockSize /\ q = n \div b
  OBVIOUS
<1>3. b \in Nat /\ b > 1 /\ q \in Int /\ n = b * q + 1
  BY <1>1, <1>2, Euclid
<1>4. CASE l = 0
  BY <1>1, <1>2, <1>3, <1>4
<1>5. CASE (l - 1) * b < n - 1
  <2>1. l <= q
    <3> SUFFICES ASSUME ~(l <= q) PROVE FALSE
      OBVIOUS
    <3>1. PICK e \in Nat : l - 1 = q + e
      <4>1. l - 1 - q \in Nat
        BY <1>3
      <4> QED
        BY <1>3, <4>1
    <3>2. (l - 1) * b = q * b + e * b /\ e * b >= 0
      BY <1>3, <3>1
    <3>3. q * b = b * q
      BY <1>3
    <3> QED
      BY <1>3, <1>5, <3>2, <3>3
  <2>2. PICK e \in Nat : q = l + e
    <3>1. q - l \in Nat
      BY <1>3, <2>1
    <3> QED
      BY <1>3, <3>1
  <2>3. b * q = l * b + e * b /\ e * b >= 0
    BY <1>3, <2>2
  <2>4. l * b \in Nat
    BY <1>3
  <2> QED
    BY <1>2, <1>3, <2>3, <2>4
<1> QED
  BY <1>2, <1>4, <1>5

(* Nor does an admitted request get a block to spare.                      *)
LEMMA TightStart ==
  ASSUME NEW n \in Nat, n >= 1
  PROVE  LET l == (n + BlockSize - 1) \div BlockSize IN l \in Nat /\ (l - 1) * BlockSize < n
<1>1. BlockSize \in Nat /\ BlockSize > 1
  BY ConfigAssumption
<1>2. PICK b, m, q : b = BlockSize /\ m = n + b - 1 /\ q = m \div b
  OBVIOUS
<1>3. m \in Nat /\ m >= b /\ b \in Nat /\ b > 1
  BY <1>1, <1>2
<1>4. m = b * q + (m % b) /\ m % b \in 0..(b - 1) /\ q \in Int
  BY <1>2, <1>3, Euclid
<1>5. q \in Nat
  <2>1. q >= 0
    BY <1>2, <1>3
  <2> QED
    BY <1>4, <2>1
<1>6. (q - 1) * b = b * q - b
  BY <1>3, <1>5
<1>7. (q - 1) * b < n
  BY <1>2, <1>3, <1>4, <1>6
<1> QED
  BY <1>2, <1>5, <1>7

LEMMA FillTypes ==
  ASSUME EngineInv, PipeInv, loop = "fill"
  PROVE  /\ Serial /\ NoCohort /\ Inv /\ Coverage /\ TypeInv /\ live = <<>>
         /\ \A r \in Requests :
              /\ Covered(r) /\ Len(block_table[r]) \in Nat /\ num_tokens[r] \in Nat
              /\ num_cached_tokens[r] \in Nat /\ num_cached_tokens[r] < num_tokens[r]
              /\ r \notin ToSet(live) /\ num_tokens[r] >= 1
              /\ status[r] # "FINISHED" => Tight(block_table[r], num_tokens[r] - 1 + Ahead(r))
         /\ block_table \in [Requests -> Seq(Blocks)]
         /\ num_cached_tokens \in [Requests -> Nat] /\ num_scheduled_tokens \in [Requests -> Nat]
         /\ status \in [Requests -> {"NEW", "WAITING", "RUNNING", "FINISHED"}]
         /\ is_prefill \in [Requests -> BOOLEAN]
<1>1. Serial /\ NoCohort /\ Inv /\ Coverage /\ TypeInv /\ live = <<>>
  BY DEF EngineInv, LoopOK, AsyncInv, NoCohort, Inv, Serial
<1>2. \A r \in Requests : r \notin ToSet(live)
  BY <1>1, EmptyQueue
<1>3. \A r \in Requests : num_tokens[r] \in Nat /\ num_cached_tokens[r] \in Nat
                          /\ num_cached_tokens[r] < num_tokens[r] /\ num_tokens[r] >= 1
  <2> TAKE r \in Requests
  <2>1. num_tokens[r] \in Nat /\ num_cached_tokens[r] \in Nat
        /\ num_cached_tokens[r] < num_tokens[r]
    BY <1>1, CounterTypes
  <2> QED
    BY <2>1
<1> QED
  BY <1>1, <1>2, <1>3, PipeTypes DEF Coverage, PipeInv, TightOK

LEMMA DecodeRowOnly ==
  ASSUME EngineInv, PipeInv, loop = "fill", DecodeRow,
         UNCHANGED <<cohortVars, runnerVars, loop, outputs, result>>
  PROVE  PipeInv'
<1>1. PICK r : r = Head(running)
  OBVIOUS
<1>2. /\ Serial /\ NoCohort /\ Inv /\ Coverage /\ live = <<>>
      /\ running \in Seq(Requests) /\ running # <<>>
  BY FillTypes, WorkTypes DEF DecodeRow, InDecodeLoop, EngineInv
<1>3. /\ r \in Requests /\ r \in ToSet(running) /\ Tail(running) \in Seq(Requests)
      /\ ToSet(running) = {r} \cup ToSet(Tail(running))
      /\ Distinct(running) => r \notin ToSet(Tail(running))
  BY <1>1, <1>2, PopLeftQueue
<1>4. r \notin in_flight /\ r \notin ToSet(Tail(running)) /\ status[r] # "FINISHED"
  BY <1>2, <1>3 DEF Inv, Ownership, OneOwner
<1>5. /\ running' = Tail(running) /\ in_flight' = in_flight \cup {r}
      /\ num_scheduled_tokens' = [num_scheduled_tokens EXCEPT ![r] = 1]
      /\ is_prefill' = [is_prefill EXCEPT ![r] = FALSE]
      /\ may_append(r) /\ phase = "decode" /\ can_append(r)
      /\ UNCHANGED <<status, num_tokens, num_cached_tokens, phase, batch_queue, batch>>
  BY <1>1 DEF DecodeRow, driverVars
<1>6. PICK l, n, t : l = Len(t) /\ n = num_tokens[r] /\ t = block_table[r]
  OBVIOUS
<1>7. /\ l \in Nat /\ n \in Nat /\ n >= 1 /\ t \in Seq(Blocks) /\ num_cached_tokens[r] = n - 1
      /\ n <= l * BlockSize + 1 /\ Tight(t, n - 1) /\ n > PromptLen[r]
      /\ block_table \in [Requests -> Seq(Blocks)]
      /\ num_scheduled_tokens \in [Requests -> Nat] /\ is_prefill \in [Requests -> BOOLEAN]
      /\ BlockSize \in Nat /\ BlockSize > 1
  <2>1. Covered(r) /\ Tight(t, n - 1 + Ahead(r)) /\ Ahead(r) = 0
    BY <1>3, <1>4, <1>6, FillTypes DEF Ahead
  <2>2. n \in Nat /\ l \in Nat /\ n >= 1 /\ t \in Seq(Blocks)
    BY <1>3, <1>6, FillTypes
  <2>3. num_cached_tokens[r] = n - 1 /\ n <= l * BlockSize + 1
    BY <1>3, <1>6, <2>1 DEF Covered, cap
  <2>4. n - 1 + 0 = n - 1
    BY <2>2
  <2> QED
    BY <1>3, <1>6, <2>1, <2>2, <2>3, <2>4, FillTypes, ConfigAssumption DEF EngineInv, Worked
<1>8. CASE n % BlockSize # 1
  <2>1. block_table' = block_table
    BY <1>5, <1>6, <1>8 DEF may_append, needs_block, blockVars
  <2>2. Tight(t, n)
    <3>1. t = <<>> \/ (l - 1) * BlockSize < n - 1
      BY <1>6, <1>7 DEF Tight
    <3>2. (l - 1) * BlockSize \in Int
      BY <1>7
    <3> QED
      BY <1>6, <1>7, <3>1, <3>2 DEF Tight
  <2>3. Ahead(r)' = 1
    BY <1>2, <1>4, <1>5, EmptyQueue DEF Ahead, cohortVars
  <2>4. Tight(block_table'[r], num_tokens[r] - 1 + Ahead(r)')
    <3>1. n - 1 + 1 = n
      BY <1>7
    <3> QED
      BY <1>6, <2>1, <2>2, <2>3, <3>1
  <2> QED
    BY <1>3, <1>4, <1>5, <1>6, <1>7, <2>1, <2>4, OneScheduled
<1>9. CASE n % BlockSize = 1
  <2>1. PICK e : e = Head(free_block_ids)
    OBVIOUS
  <2>2. block_table' = [block_table EXCEPT ![r] = Append(t, e)]
    BY <1>5, <1>6, <1>9, <2>1 DEF may_append, needs_block
  <2>3. Len(Append(t, e)) = l + 1 /\ \A i \in 1..l : Append(t, e)[i] = t[i]
    BY <1>6, <1>7, SeqGrows DEF IsSeq
  <2>4. block_table'[r] = Append(t, e)
        /\ \A q \in Requests \ {r} : block_table'[q] = block_table[q]
    BY <1>3, <1>7, <2>2
  <2>5. l * BlockSize < n
    <3>1. l = 0 \/ (l - 1) * BlockSize < n - 1
      <4>1. t = <<>> => l = 0
        BY <1>6
      <4> QED
        BY <1>6, <1>7, <4>1 DEF Tight
    <3> QED
      BY <1>7, <1>9, <3>1, TightGrows
  <2>6. Tight(Append(t, e), n)
    <3>1. (l + 1) - 1 = l
      BY <1>7
    <3> QED
      BY <2>3, <2>5, <3>1 DEF Tight
  <2>7. Ahead(r)' = 1
    BY <1>2, <1>4, <1>5, EmptyQueue DEF Ahead, cohortVars
  <2>8. Tight(block_table'[r], num_tokens[r] - 1 + Ahead(r)')
    <3>1. n - 1 + 1 = n
      BY <1>7
    <3> QED
      BY <1>6, <2>4, <2>6, <2>7, <3>1
  <2>9. ASSUME NEW p \in 0..(num_cached_tokens[r] - 1)
        PROVE  block_table'[r][p \div BlockSize + 1] = block_table[r][p \div BlockSize + 1]
    <3>1. p \in Nat /\ p < l * BlockSize
      BY <1>7
    <3>2. p \div BlockSize + 1 \in 1..l
      BY <1>7, <3>1, BlockIndex
    <3> QED
      BY <1>6, <2>3, <2>4, <3>2
  <2> QED
    BY <1>3, <1>4, <1>5, <1>6, <1>7, <2>4, <2>8, <2>9, OneScheduled
<1> QED
  BY <1>8, <1>9

LEMMA DecodePreemptOnly ==
  ASSUME EngineInv, PipeInv, loop = "fill", DecodePreempt,
         UNCHANGED <<cohortVars, runnerVars, loop, outputs, result>>
  PROVE  PipeInv'
<1>1. PICK r : r = Last(running)
  OBVIOUS
<1>2. /\ Serial /\ NoCohort /\ Inv /\ Coverage /\ live = <<>>
      /\ running \in Seq(Requests) /\ running # <<>>
  BY FillTypes, WorkTypes DEF DecodePreempt, InDecodeLoop, EngineInv
<1>3. /\ r \in Requests /\ r \in ToSet(running)
      /\ ToSet(running) = {r} \cup ToSet(Front(running))
  BY <1>1, <1>2, PopQueue
<1>4. r \notin in_flight /\ status[r] # "FINISHED"
  BY <1>2, <1>3 DEF Inv, Ownership, OneOwner
<1>5. /\ running' = Front(running) /\ in_flight' = in_flight \ {r}
      /\ status' = [status EXCEPT ![r] = "WAITING"]
      /\ is_prefill' = [is_prefill EXCEPT ![r] = TRUE]
      /\ num_cached_tokens' = [num_cached_tokens EXCEPT ![r] = 0]
      /\ block_table' = [block_table EXCEPT ![r] = <<>>] /\ phase = "decode"
      /\ UNCHANGED <<num_tokens, num_scheduled_tokens, phase, batch_queue, batch>>
  BY <1>1 DEF DecodePreempt, deallocate, driverVars
<1>6. /\ num_cached_tokens'[r] = 0 /\ num_cached_tokens[r] < num_tokens[r]
      /\ block_table'[r] = <<>> /\ r \notin in_flight'
      /\ Tight(block_table'[r], num_tokens[r] - 1 + Ahead(r)')
  BY <1>3, <1>5, FillTypes DEF Tight
<1>7. \A q \in Requests \ {r} :
        /\ num_cached_tokens'[q] = num_cached_tokens[q]
        /\ num_scheduled_tokens'[q] = num_scheduled_tokens[q]
        /\ is_prefill'[q] = is_prefill[q] /\ block_table'[q] = block_table[q]
        /\ status'[q] = status[q] /\ (q \in ToSet(running') <=> q \in ToSet(running))
        /\ (q \in in_flight' => q \in in_flight)
  BY <1>3, <1>5, FillTypes
<1> QED
  BY <1>3, <1>4, <1>5, <1>6, <1>7, OneScheduled

LEMMA PrefillRowOnly ==
  ASSUME EngineInv, PipeInv, loop = "fill", PrefillRow,
         UNCHANGED <<cohortVars, runnerVars, loop, outputs, result>>
  PROVE  PipeInv'
<1>1. PICK r : r = Head(waiting)
  OBVIOUS
<1>2. /\ Serial /\ NoCohort /\ Inv /\ Coverage /\ live = <<>>
      /\ waiting \in Seq(Requests) /\ waiting # <<>>
  BY FillTypes, WorkTypes DEF PrefillRow, InPrefillLoop, EngineInv
<1>3. r \in Requests /\ r \in ToSet(waiting)
  BY <1>1, <1>2, PopLeftQueue
<1>4. r \notin in_flight /\ r \notin ToSet(running) /\ status[r] # "FINISHED"
  BY <1>2, <1>3 DEF Inv, Ownership, OneOwner
<1>5. /\ in_flight' = in_flight \cup {r}
      /\ num_scheduled_tokens' = [num_scheduled_tokens EXCEPT ![r] = chunk(r)]
      /\ is_prefill' = [is_prefill EXCEPT ![r] = TRUE]
      /\ IF fresh(r) THEN /\ allocate(r)
                          /\ num_cached_tokens' = [num_cached_tokens EXCEPT ![r] = 0]
         ELSE UNCHANGED <<blockVars, num_cached_tokens>>
      /\ phase = "prefill" /\ (fresh(r) => can_allocate(r))
      /\ UNCHANGED <<running, status, num_tokens, phase, batch_queue, batch>>
  BY <1>1 DEF PrefillRow, driverVars, Starved
<1>6. PICK n, t : n = num_tokens[r] /\ t = block_table[r]
  OBVIOUS
<1>7. Ahead(r)' = 1 /\ Ahead(r) = 1 /\ n - 1 + 1 = n /\ n \in Nat /\ n >= 1
  BY <1>2, <1>3, <1>4, <1>5, <1>6, EmptyQueue, FillTypes DEF Ahead, cohortVars
<1>8. is_prefill'[r]
  BY <1>3, <1>5, FillTypes
<1>9. CASE ~fresh(r)
  <2>1. UNCHANGED <<block_table, num_cached_tokens>>
    BY <1>5, <1>9 DEF blockVars
  <2>2. Tight(block_table'[r], num_tokens[r] - 1 + Ahead(r)')
    BY <1>3, <1>4, <1>7, <2>1, FillTypes
  <2>3. \A q \in Requests \ {r} :
           /\ num_cached_tokens'[q] = num_cached_tokens[q]
           /\ num_scheduled_tokens'[q] = num_scheduled_tokens[q]
           /\ is_prefill'[q] = is_prefill[q] /\ block_table'[q] = block_table[q]
           /\ status'[q] = status[q] /\ (q \in ToSet(running') <=> q \in ToSet(running))
           /\ (q \in in_flight' => q \in in_flight)
    BY <1>3, <1>5, <2>1, FillTypes
  <2> QED
    BY <1>3, <1>4, <1>5, <1>8, <2>1, <2>2, <2>3, OneScheduled
<1>10. CASE fresh(r)
  <2>1. /\ block_table' = [block_table EXCEPT ![r] = SubSeq(free_block_ids, 1, num_blocks(r))]
        /\ num_cached_tokens' = [num_cached_tokens EXCEPT ![r] = 0]
        /\ num_blocks(r) <= Len(free_block_ids)
    BY <1>5, <1>10 DEF allocate, can_allocate
  <2>2. num_cached_tokens[r] = 0 /\ 0 < n
    <3>1. t = <<>> /\ Covered(r) /\ cap(r) = 0
      BY <1>3, <1>6, <1>10, FillTypes, CoverageTypes DEF fresh
    <3>2. \/ num_cached_tokens[r] = 0
          \/ n <= 0
      BY <1>3, <1>6, <3>1 DEF Covered
    <3> QED
      BY <1>7, <3>2
  <2>3. num_blocks(r) \in Nat /\ (num_blocks(r) - 1) * BlockSize < n
    BY <1>6, <1>7, TightStart DEF num_blocks
  <2>4. Len(SubSeq(free_block_ids, 1, num_blocks(r))) = num_blocks(r)
    <3>1. free_block_ids \in Seq(Blocks)
      BY FillTypes, BlockTypes
    <3> QED
      BY <2>1, <2>3, <3>1, SplitQueue
  <2>5. /\ block_table'[r] = SubSeq(free_block_ids, 1, num_blocks(r))
        /\ \A q \in Requests \ {r} : block_table'[q] = block_table[q]
        /\ num_cached_tokens'[r] = 0
        /\ \A q \in Requests \ {r} : num_cached_tokens'[q] = num_cached_tokens[q]
    BY <1>3, <2>1, FillTypes
  <2>6. Tight(block_table'[r], num_tokens[r] - 1 + Ahead(r)')
    BY <1>6, <1>7, <2>3, <2>4, <2>5 DEF Tight
  <2>7. num_cached_tokens'[r] = num_cached_tokens[r]
        /\ \A p \in 0..(num_cached_tokens[r] - 1) :
             block_table'[r][p \div BlockSize + 1] = block_table[r][p \div BlockSize + 1]
    BY <2>2, <2>5
  <2>8. \A q \in Requests \ {r} :
           /\ num_cached_tokens'[q] = num_cached_tokens[q]
           /\ num_scheduled_tokens'[q] = num_scheduled_tokens[q]
           /\ is_prefill'[q] = is_prefill[q] /\ block_table'[q] = block_table[q]
           /\ status'[q] = status[q] /\ (q \in ToSet(running') <=> q \in ToSet(running))
           /\ (q \in in_flight' => q \in in_flight)
    BY <1>3, <1>5, <2>5, FillTypes
  <2> QED
    BY <1>3, <1>4, <1>5, <1>8, <2>6, <2>7, <2>8, OneScheduled
<1> QED
  BY <1>9, <1>10

(* schedule() returns.                                                     *)
LEMMA ScheduledOnly ==
  ASSUME EngineInv, PipeInv, Scheduled
  PROVE  PipeInv'
<1>1. /\ loop = "fill" /\ phase = "prefill" /\ phase' = "idle"
      /\ UNCHANGED <<cohortVars, runnerVars, outputs, result, queueVars, seqVars, blockVars, batch>>
  BY DEF Scheduled, Return, ResetCall
<1>2. /\ Serial /\ Serial' /\ NoCohort /\ dispatched = <<>> /\ batch = NoBatch
      /\ Queued < 2 /\ Queued = Len(batch_queue)
  BY <1>1, FillTypes DEF Serial, cohortVars, NoCohort, TypeInv, PhaseOK, PipeInv, Handles, Queued
<1>3. CASE scheduled_seqs = <<>>
  <2>1. batch_queue' = batch_queue /\ loop' = "consume"
    BY <1>3 DEF Scheduled, Return
  <2> QED
    BY <1>1, <2>1, QuietStep DEF cohortVars, queueVars, seqVars, blockVars
<1>4. CASE scheduled_seqs # <<>>
  <2>1. PICK e : batch_queue' = Append(batch_queue, e)
    BY <1>4 DEF Scheduled, Return
  <2>2. loop' = "execute"
    BY <1>4 DEF Scheduled
  <2>3. /\ 0 <= Done - Len(copies) /\ Len(outputs) - 0 = Len(outputs) /\ Len(outputs) \in 0..2
        /\ Queued \in 0..2 /\ Queued = Len(outputs)
    <3>1. Queued = Len(outputs) + (IF loop = "execute" THEN 1 ELSE 0)
      BY NoneTaken
    <3> QED
      BY <1>1, <3>1, NoneTaken
  <2>4. PICK n : n = Queued
    OBVIOUS
  <2>5. n \in 0..2 /\ n < 2 /\ n = Len(batch_queue) /\ n = Len(outputs)
    BY <1>2, <2>3, <2>4
  <2>6. IsSeq(batch_queue)
    BY PipeTypes DEF IsSeq
  <2>7. Len(batch_queue') = n + 1 /\ \A k \in 1..n : batch_queue'[k] = batch_queue[k]
    <3>1. PICK s : s = batch_queue
      OBVIOUS
    <3>2. IsSeq(s) /\ batch_queue' = Append(s, e) /\ Len(s) = n
      BY <2>1, <2>5, <2>6, <3>1
    <3>3. /\ Len(Append(s, e)) = Len(s) + 1
          /\ \A k \in 1..Len(s) : Append(s, e)[k] = s[k]
      BY <3>2, SeqGrows
    <3> QED
      BY <3>1, <3>2, <3>3
  <2>8. \A k \in 1..n : /\ Rows(k)' = Rows(k) /\ Prompt(k)' = Prompt(k)
                        /\ \A r : InBatch(r, k)' <=> InBatch(r, k)
                        /\ \A r : Gain(r, k)' = Gain(r, k)
    <3>1. n \in 0..Queued /\ Queued <= 2
      BY <2>4, <2>5
    <3>2. live' = live /\ UNCHANGED <<num_tokens, num_cached_tokens, num_scheduled_tokens,
                                      is_prefill, block_table>>
      BY <1>1 DEF cohortVars, seqVars, blockVars
    <3> QED
      BY <1>2, <2>7, <3>1, <3>2, FrozenRows
  <2>9. SameWork(0)
    <3>1. UNCHANGED runnerVars /\ outputs' = outputs
      BY <1>1
    <3> QED
      BY <2>3, <2>5, <2>8, <3>1 DEF SameWork, runnerVars, hostVars
  <2>10. ASSUME NEW r \in Requests, status'[r] # "FINISHED" PROVE SameProgress(r, 0)
    <3>1. /\ status'[r] = status[r] /\ num_cached_tokens' = num_cached_tokens
          /\ num_tokens' = num_tokens /\ block_table' = block_table /\ input_batch' = input_batch
      BY <1>1 DEF seqVars, blockVars, runnerVars, hostVars
    <3>2. Taken(r)' = Taken(r)
      BY <1>1, <1>2 DEF Taken, seqVars
    <3>3. \A d \in 0..n : Landed(r, d)' = Landed(r, d)
      BY <2>5, <2>8, <3>1, <3>2, LandedKept
    <3>4. \A d \in 0..(Len(outputs) - 0) : Landed(r, d)' = Landed(r, d + 0)
      BY <2>5, <3>3
    <3>5. r \notin Users(input_batch') => num_cached_tokens'[r] = 0
      BY <2>10, <3>1 DEF PipeInv, DeviceOK
    <3> QED
      BY <2>10, <3>1, <3>4, <3>5 DEF SameProgress
  <2>11. Handles'
    <3>1. Queued' = n + 1
      BY <1>2, <2>7 DEF Queued
    <3>2. Queued' = Len(outputs') + 1 /\ Queued' <= 2
      BY <1>1, <2>5, <3>1
    <3> QED
      BY <1>1, <2>2, <3>2 DEF Handles, PipeInv, runnerVars, hostVars
  <2>12. ResultOK'
    BY <1>1 DEF ResultOK, OutputCorrect, PipeInv
  <2>13. TightOK'
    BY <1>1 DEF TightOK, Ahead, PipeInv, cohortVars, queueVars, seqVars, blockVars
  <2>14. DecodeOK'
    BY <1>1, <1>2 DEF DecodeOK, PipeInv, queueVars, seqVars
  <2> QED
    BY <2>3, <2>9, <2>10, <2>11, <2>12, <2>13, <2>14, HostStep
<1> QED
  BY <1>3, <1>4

(* The change between the two paths: no batch is outstanding.              *)
LEMMA PathChange ==
  ASSUME EngineInv, PipeInv,
         UNCHANGED <<runnerVars, outputs, result, num_tokens, num_cached_tokens, block_table>>,
         Queued = 0, Queued' = 0, dispatched' = <<>>, phase' = "idle", loop # "execute", loop' # "execute",
         \A r \in Requests : Taken(r) = 0 /\ Taken(r)' = 0,
         \A r \in Requests : status'[r] # "FINISHED" =>
                               status[r] # "FINISHED" /\ Ahead(r)' = Ahead(r),
         DecodeOK'
  PROVE  PipeInv'
<1>1. 0 <= Done - Len(copies) /\ Len(outputs) - 0 = Len(outputs) /\ Len(outputs) = 0
  <2>1. Queued = Len(outputs) + (IF loop = "execute" THEN 1 ELSE 0) /\ Len(outputs) \in 0..2
    BY NoneTaken
  <2>2. Len(outputs) = 0
    BY <2>1
  <2> QED
    BY <2>2, NoneTaken
<1>2. SameWork(0)
  BY <1>1 DEF SameWork, runnerVars, hostVars
<1>3. ASSUME NEW r \in Requests, status'[r] # "FINISHED" PROVE SameProgress(r, 0)
  <2>1. status[r] # "FINISHED" /\ num_cached_tokens'[r] + Taken(r)' = num_cached_tokens[r] + Taken(r)
    BY <1>3
  <2>2. PICK n : n = Len(outputs)
    OBVIOUS
  <2>3. n \in 0..2 /\ n = 0 /\ \A k \in 1..n : Gain(r, k)' = Gain(r, k)
    BY <1>1, <2>2
  <2>4. \A d \in 0..n : Landed(r, d)' = Landed(r, d)
    BY <2>1, <2>3, LandedKept
  <2>5. \A d \in 0..(n - 0) : Landed(r, d)' = Landed(r, d + 0)
    BY <2>3, <2>4
  <2>6. r \notin Users(input_batch') => num_cached_tokens'[r] = 0
    BY <2>1 DEF PipeInv, DeviceOK, runnerVars, hostVars
  <2> QED
    BY <2>1, <2>2, <2>5, <2>6 DEF SameProgress
<1>4. Handles'
  BY <1>1 DEF Handles, PipeInv, runnerVars, hostVars
<1>5. ResultOK'
  BY DEF ResultOK, OutputCorrect, PipeInv
<1>6. TightOK'
  BY DEF TightOK, PipeInv
<1> QED
  BY <1>1, <1>2, <1>3, <1>4, <1>5, <1>6, HostStep

LEMMA BeginOnly ==
  ASSUME EngineInv, PipeInv, StepBegin
  PROVE  PipeInv'
<1>1. /\ loop = "top" /\ loop' = "lookahead" /\ begin_async_decode /\ CanBegin /\ Serial
      /\ phase = "idle" /\ phase' = "idle" /\ live' = running /\ running' = <<>>
      /\ pending' = [r \in Requests |-> 0] /\ dispatched' = <<>> /\ views' = views
      /\ running # <<>> /\ in_flight = {}
      /\ UNCHANGED <<runnerVars, outputs, result, seqVars, blockVars, driverVars>>
  BY DEF StepBegin, begin_async_decode, CanBegin
<1>2. NoCohort /\ Inv /\ views = <<>> /\ live = <<>>
  BY <1>1 DEF EngineInv, AsyncInv, NoCohort, Serial
<1>3. batch_queue = <<>> /\ batch = NoBatch
  BY <1>1, <1>2, NothingQueued
<1>4. ~Serial' /\ Queued = 0 /\ Queued' = 0
  BY <1>1, <1>3 DEF Serial, Queued
<1>5. \A r \in Requests : Taken(r) = 0 /\ Taken(r)' = 0
  <2> TAKE r \in Requests
  <2>1. r \notin ToSet(NoBatch.seqs)
    BY EmptyQueue DEF NoBatch
  <2>2. Count(RowsOf(r, <<>>)) = 0
    BY NoRows DEF Count
  <2> QED
    BY <1>1, <1>2, <1>3, <1>4, <2>1, <2>2 DEF Taken
<1>6. \A r \in Requests : Ahead(r)' = Ahead(r)
  BY <1>1, <1>2, EmptyQueue DEF Ahead
<1>7. DecodeOK'
  BY <1>4 DEF DecodeOK
<1>8. status' = status /\ UNCHANGED <<num_tokens, num_cached_tokens, block_table>>
  BY <1>1 DEF seqVars, blockVars
<1> QED
  BY <1>1, <1>4, <1>5, <1>6, <1>7, <1>8, PathChange

LEMMA EndOnly ==
  ASSUME EngineInv, PipeInv, end_async_decode, loop # "execute", loop' # "execute",
         UNCHANGED <<runnerVars, outputs, result>>
  PROVE  PipeInv'
<1>1. /\ ~Serial /\ phase = "idle" /\ dispatched = <<>> /\ CohortInv
      /\ \A r \in ToSet(live) : pending[r] = 0
      /\ UNCHANGED <<driverVars, views, dispatched, pending, block_table>>
  BY DEF end_async_decode, EngineInv, AsyncInv, blockVars
<1>2. /\ live' = <<>> /\ in_flight' = {} /\ ToSet(running') = in_flight
      /\ in_flight \subseteq ToSet(live) /\ ToSet(running) = {}
      /\ UNCHANGED <<waiting, num_tokens, num_cached_tokens, phase, scheduled_seqs, batch_queue>>
      /\ \A r \in Requests : status'[r] # "FINISHED" => status[r] # "FINISHED"
  BY <1>1, EndOwners
<1>3. batch_queue = <<>> /\ batch = NoBatch /\ batch' = NoBatch /\ views = <<>>
  BY <1>1 DEF CohortInv, Still, Shape, driverVars
<1>4. Serial' /\ Queued = 0 /\ Queued' = 0
  BY <1>1, <1>2, <1>3 DEF Serial, Queued
<1>5. \A r \in Requests : Taken(r) = 0 /\ Taken(r)' = 0
  <2> TAKE r \in Requests
  <2>1. r \notin ToSet(NoBatch.seqs)
    BY EmptyQueue DEF NoBatch
  <2>2. Count(RowsOf(r, <<>>)) = 0
    BY NoRows DEF Count
  <2> QED
    BY <1>1, <1>3, <1>4, <2>1, <2>2 DEF Taken
<1>6. ASSUME NEW r \in Requests, status'[r] # "FINISHED" PROVE Ahead(r)' = Ahead(r)
  <2>1. status[r] # "FINISHED"
    BY <1>2, <1>6
  <2>2. r \in in_flight <=> r \in ToSet(live)
    BY <1>1, <2>1 DEF CohortInv, Account
  <2> QED
    BY <1>1, <1>2, <2>2, EmptyQueue DEF Ahead
<1>7. DecodeOK'
  BY <1>2 DEF DecodeOK
<1>8. UNCHANGED <<num_tokens, num_cached_tokens, block_table>> /\ phase' = "idle" /\ dispatched' = <<>>
  BY <1>1, <1>2
<1> QED
  BY <1>2, <1>4, <1>5, <1>6, <1>7, <1>8, PathChange

-----------------------------------------------------------------------------
(* get_output() and postprocess()                                          *)

(* The oldest batch is taken: what it had computed counts as taken.        *)
LEMMA LandedShift ==
  ASSUME EngineInv, NEW r \in Requests, NEW n \in 1..2,
         num_cached_tokens'[r] + Taken(r)' = num_cached_tokens[r] + Taken(r) + Gain(r, 1),
         num_cached_tokens[r] + Taken(r) \in Nat,
         \A k \in 1..(n - 1) : Gain(r, k)' = Gain(r, k + 1)
  PROVE  \A d \in 0..(n - 1) : Landed(r, d)' = Landed(r, d + 1)
<1> TAKE d \in 0..(n - 1)
<1>1. PICK a, g, h, b : /\ a = num_cached_tokens[r] + Taken(r) /\ g = Gain(r, 1) /\ h = Gain(r, 2)
                        /\ b = num_cached_tokens'[r] + Taken(r)'
  OBVIOUS
<1>2. a \in Nat /\ g \in Nat /\ h \in Nat /\ b = a + g
  BY <1>1, LandedTypes
<1>3. CASE d = 0
  <2>1. Landed(r, 0)' = b + 0 + 0
    BY <1>1 DEF Landed
  <2>2. Landed(r, 1) = a + g + 0
    BY <1>1 DEF Landed
  <2> QED
    BY <1>2, <1>3, <2>1, <2>2 DEF Landed
<1>4. CASE d = 1
  <2>1. Gain(r, 1)' = h
    BY <1>1, <1>4
  <2>2. Landed(r, 1)' = b + h + 0
    BY <1>1, <2>1 DEF Landed
  <2>3. Landed(r, 2) = a + g + h
    BY <1>1 DEF Landed
  <2> QED
    BY <1>2, <1>4, <2>2, <2>3 DEF Landed
<1> QED
  BY <1>3, <1>4

(* get_output() returns the tokens of the oldest batch, landed and copied. *)
LEMMA TakenOutput ==
  ASSUME EngineInv, PipeInv, NEW n, TakeOutput(n), outputs # <<>>
  PROVE  /\ 1 <= Done - Len(copies) /\ Len(outputs) \in 1..2
         /\ outputs' = Tail(outputs) /\ Len(outputs') = Len(outputs) - 1
         /\ \A k \in 1..(Len(outputs) - 1) : outputs'[k] = outputs[k + 1]
         /\ result' = SubSeq(output_buf[outputs[1]], 1, n)
         /\ Right(1, output_buf[outputs[1]])
<1>1. PICK l, m, f, d, c : l = Len(outputs) /\ m = Len(stream) /\ f = Flying /\ d = Done /\ c = Len(copies)
  OBVIOUS
<1>2. IsSeq(outputs) /\ IsSeq(stream) /\ IsSeq(copies)
  BY DEF PipeInv, StreamOK, OutputsOK, Handles, IsSeq
<1>3. /\ l \in 1..2 /\ Head(outputs) = outputs[1] /\ Len(Tail(outputs)) = l - 1
      /\ \A k \in 1..(l - 1) : Tail(outputs)[k] = outputs[k + 1]
  <2>1. l \in 0..2
    BY <1>1, NoneTaken
  <2>2. l # 0 /\ Len(Tail(outputs)) = l - 1 /\ Head(outputs) = outputs[1]
        /\ \A k \in 1..(l - 1) : Tail(outputs)[k] = outputs[k + 1]
    BY <1>1, <1>2, SeqFacts
  <2> QED
    BY <2>1, <2>2
<1>4. /\ m \in 0..3 /\ f = (IF m = 0 THEN 0 ELSE IF m < 3 THEN 1 ELSE 2) /\ d = l - f
      /\ c \in Nat /\ c <= d /\ f <= l
  <2>1. c \in Nat
    BY <1>1, <1>2, SeqFacts
  <2> QED
    BY <1>1, <2>1 DEF Flying, Done, PipeInv, StreamOK, OutputsOK
<1>5. /\ \A i \in 1..m : stream[i].buf # outputs[1]
      /\ \A i \in 1..c : copies[i].buf # outputs[1]
  <2>1. DOMAIN stream = 1..m /\ DOMAIN copies = 1..c
    BY <1>1, <1>2, SeqFacts
  <2> QED
    BY <1>3, <2>1 DEF TakeOutput, OutputReady
<1>6. d # 0
  <2> SUFFICES ASSUME d = 0 PROVE FALSE
    OBVIOUS
  <2>1. l = f /\ (l = 1 => m \in {1, 2}) /\ (l = 2 => m = 3)
    BY <1>3, <1>4
  <2>2. CASE l = 1
    <3>1. Len(stream) >= 1 /\ m \in 1..m /\ Len(outputs) = 1
      BY <1>1, <2>1, <2>2
    <3>2. stream[m].buf = outputs[1]
      BY <1>1, <3>1 DEF PipeInv, StreamOK, ForwardOK, ItemOK
    <3> QED
      BY <1>5, <3>1, <3>2
  <2>3. CASE l = 2
    <3>0. m = 3 /\ 1 \in 1..m
      BY <2>1, <2>3
    <3>1. Len(stream) = 3 /\ 1 \in 1..m /\ Len(outputs) = 2
      BY <1>1, <2>3, <3>0
    <3>2. ForwardOK(stream[1], Len(outputs) - 1) /\ Len(outputs) - 1 = 1
      BY <3>1 DEF PipeInv, StreamOK
    <3>3. stream[1].buf = outputs[1]
      BY <3>2 DEF ForwardOK, ItemOK
    <3> QED
      BY <1>5, <3>1, <3>3
  <2> QED
    BY <1>3, <2>2, <2>3
<1>7. c # d
  <2> SUFFICES ASSUME c = d PROVE FALSE
    OBVIOUS
  <2>1. 1 \in 1..c /\ d - c + 1 = 1
    BY <1>3, <1>4, <1>6
  <2>2. copies[1].buf = outputs[d - c + 1]
    BY <1>1, <2>1 DEF PipeInv, OutputsOK
  <2> QED
    BY <1>5, <2>1, <2>2
<1>8. 1 <= d - c /\ 1 \in 1..(d - c)
  BY <1>3, <1>4, <1>6, <1>7
<1>9. Right(1, output_buf[outputs[1]])
  BY <1>1, <1>8 DEF PipeInv, OutputsOK
<1> QED
  BY <1>1, <1>3, <1>8, <1>9 DEF TakeOutput, get_output

LEMMA FirstTokens ==
  ASSUME NEW s, NEW n \in Nat
  PROVE  /\ IsSeq(SubSeq(s, 1, n)) /\ Len(SubSeq(s, 1, n)) = n
         /\ DOMAIN SubSeq(s, 1, n) = 1..n
         /\ \A i \in 1..n : SubSeq(s, 1, n)[i] = s[i]
<1>1. SubSeq(s, 1, n) \in Seq({s[i] : i \in 1..n}) /\ Len(SubSeq(s, 1, n)) = n
  OBVIOUS
<1>2. \A i \in 1..n : SubSeq(s, 1, n)[i] = s[i]
  OBVIOUS
<1> QED
  BY <1>1, <1>2, SeqFacts DEF IsSeq

(* The steps of step() that take a result, in general.                     *)
LEMMA TakeStep ==
  ASSUME EngineInv, PipeInv, NEW n, TakeOutput(n), outputs # <<>>,
         loop # "execute", loop' # "execute", phase' \notin {"decode", "prefill"},
         UNCHANGED <<runnerVars, queueVars, seqVars, blockVars, live, pending>>,
         Queued' = Queued - 1,
         \A k \in 1..(Queued - 1) : /\ Rows(k)' = Rows(k + 1) /\ Prompt(k)' = Prompt(k + 1)
                                    /\ \A r \in Requests : Gain(r, k)' = Gain(r, k + 1),
         \A r \in Requests : Taken(r) = 0 /\ Taken(r)' = Gain(r, 1),
         ResultOK',
         \A i \in 1..Len(dispatched') : i + 1 \in 1..Len(dispatched)
                                        /\ dispatched'[i] = dispatched[i + 1]
  PROVE  PipeInv'
<1>1. /\ 1 <= Done - Len(copies) /\ Len(outputs) \in 1..2
      /\ outputs' = Tail(outputs) /\ Len(outputs') = Len(outputs) - 1
      /\ \A k \in 1..(Len(outputs) - 1) : outputs'[k] = outputs[k + 1]
  BY TakenOutput
<1>2. Queued = Len(outputs)
  <2>1. Queued = Len(outputs) + (IF loop = "execute" THEN 1 ELSE 0)
    BY NoneTaken
  <2> QED
    BY <1>1, <2>1
<1>3. SameWork(1)
  <2>1. PICK l : l = Len(outputs)
    OBVIOUS
  <2>2. \A k \in 1..(l - 1) : /\ Rows(k)' = Rows(k + 1) /\ Prompt(k)' = Prompt(k + 1)
                              /\ outputs'[k] = outputs[k + 1]
    BY <1>1, <1>2, <2>1
  <2> QED
    BY <1>1, <2>1, <2>2 DEF SameWork, runnerVars, hostVars
<1>4. ASSUME NEW r \in Requests, status'[r] # "FINISHED" PROVE SameProgress(r, 1)
  <2>1. PICK l : l = Len(outputs)
    OBVIOUS
  <2>2. /\ status[r] # "FINISHED" /\ num_cached_tokens' = num_cached_tokens
        /\ num_tokens' = num_tokens /\ block_table' = block_table /\ input_batch' = input_batch
    BY <1>4 DEF seqVars, blockVars, runnerVars, hostVars
  <2>3. num_cached_tokens[r] \in Nat /\ Gain(r, 1) \in Nat
    BY PipeTypes, LandedTypes
  <2>4. /\ num_cached_tokens'[r] + Taken(r)' = num_cached_tokens[r] + Taken(r) + Gain(r, 1)
        /\ num_cached_tokens[r] + Taken(r) \in Nat
    BY <2>2, <2>3
  <2>5. l \in 1..2 /\ \A k \in 1..(l - 1) : Gain(r, k)' = Gain(r, k + 1)
    BY <1>1, <1>2, <2>1
  <2>6. \A d \in 0..(l - 1) : Landed(r, d)' = Landed(r, d + 1)
    BY <2>4, <2>5, LandedShift
  <2>7. r \notin Users(input_batch') => num_cached_tokens'[r] = 0
    BY <2>2 DEF PipeInv, DeviceOK
  <2> QED
    BY <2>1, <2>2, <2>6, <2>7 DEF SameProgress
<1>5. Handles'
  <2>1. PICK l : l = Len(outputs)
    OBVIOUS
  <2>2. l \in 1..2 /\ Queued' = l - 1 /\ Len(outputs') = l - 1 /\ buf_idx' = buf_idx
    BY <1>1, <1>2, <2>1 DEF runnerVars, hostVars
  <2>3. outputs' \in Seq(0..1)
    <3>1. outputs \in Seq(0..1)
      BY DEF PipeInv, Handles
    <3> QED
      BY <1>1, <3>1, PopLeftQueue
  <2>4. l = 2 => outputs'[1] = 1 - buf_idx
    <3>1. l = 2 => outputs'[1] = outputs[2] /\ outputs[2] = 1 - buf_idx
      BY <1>1, <2>1 DEF PipeInv, Handles
    <3> QED
      BY <3>1
  <2>5. /\ Queued' = Len(outputs') + 0 /\ Queued' <= 2
        /\ Len(outputs') >= 1 => outputs'[Len(outputs')] = 1 - buf_idx
        /\ Len(outputs') # 2
    BY <2>2, <2>4
  <2> QED
    BY <2>2, <2>3, <2>5 DEF Handles, PipeInv
<1>6. TightOK'
  BY DEF TightOK, Ahead, PipeInv, queueVars, seqVars, blockVars
<1>7. DecodeOK'
  BY DEF DecodeOK, PipeInv, queueVars, seqVars, Serial
<1> QED
  BY <1>1, <1>3, <1>4, <1>5, <1>6, <1>7, HostStep

LEMMA ConsumeOnly ==
  ASSUME EngineInv, PipeInv, Consume
  PROVE  PipeInv'
<1>1. /\ loop = "consume" /\ loop' = loop /\ phase = "idle" /\ phase' = "post"
      /\ batch_queue # <<>> /\ batch' = batch_queue[1] /\ batch_queue' = RemoveAt(batch_queue, 1)
      /\ TakeOutput(Len(Head(batch_queue).seqs))
      /\ UNCHANGED <<cohortVars, runnerVars, queueVars, seqVars, blockVars>>
  BY DEF Consume, BeginPostprocess
<1>2. Serial /\ Serial' /\ NoCohort /\ batch = NoBatch /\ dispatched = <<>> /\ Coverage /\ Inv
  BY <1>1 DEF EngineInv, LoopOK, AsyncInv, NoCohort, Serial, cohortVars, Inv, TypeInv, PhaseOK
<1>3. PICK q, l : q = batch_queue /\ l = Len(q)
  OBVIOUS
<1>4. /\ q \in Seq(Batch) /\ IsSeq(q) /\ q # <<>> /\ l \in Nat /\ l = Queued /\ l \in 1..2
      /\ Head(q) = q[1]
  <2>1. q \in Seq(Batch) /\ IsSeq(q) /\ q # <<>> /\ l = Queued
    BY <1>1, <1>2, <1>3, PipeTypes DEF Queued, IsSeq
  <2>2. l \in 0..2
    BY <2>1, NoneTaken
  <2>3. IsSeq(q) /\ q # <<>>
    BY <2>1
  <2>4. Len(q) # 0 /\ Head(q) = q[1]
    BY <2>3, SeqFacts
  <2> QED
    BY <1>3, <2>1, <2>2, <2>4
<1>5. Len(batch_queue') = l - 1 /\ \A k \in 1..(l - 1) : batch_queue'[k] = q[k + 1]
  <2>1. 1 \in 1..Len(q)
    BY <1>3, <1>4
  <2>2. /\ Len(RemoveAt(q, 1)) = Len(q) - 1
        /\ \A k \in 1..Len(q) - 1 : RemoveAt(q, 1)[k] = IF k < 1 THEN q[k] ELSE q[k + 1]
    BY <1>4, <2>1, RemoveAtIndices
  <2> QED
    BY <1>1, <1>3, <1>4, <2>2
<1>6. Queued' = Queued - 1
  BY <1>2, <1>4, <1>5 DEF Queued
<1>7. outputs # <<>>
  <2>1. Queued = Len(outputs) + (IF loop = "execute" THEN 1 ELSE 0)
    BY NoneTaken
  <2>2. outputs = <<>> => Len(outputs) = 0
    OBVIOUS
  <2> QED
    BY <1>1, <1>4, <2>1, <2>2
<1>8. ASSUME NEW k \in 1..(Queued - 1)
      PROVE  /\ Rows(k)' = Rows(k + 1) /\ Prompt(k)' = Prompt(k + 1)
             /\ \A r \in Requests : Gain(r, k)' = Gain(r, k + 1)
  <2>1. batch_queue'[k] = batch_queue[k + 1]
    BY <1>3, <1>4, <1>5
  <2>2. Rows(k)' = Rows(k + 1) /\ Prompt(k)' = Prompt(k + 1)
    BY <1>1, <1>2, <2>1 DEF Rows, Prompt, OwnerRow, seqVars, blockVars
  <2>3. \A r \in Requests : Gain(r, k)' = Gain(r, k + 1)
    BY <1>1, <1>2, <2>2 DEF Gain, InBatch, RowCount, seqVars
  <2> QED
    BY <2>2, <2>3
<1>9. PICK s : s = q[1].seqs
  OBVIOUS
<1>10. s \in Seq(Requests) /\ Len(s) \in Nat /\ batch' = q[1] /\ batch'.seqs = s
       /\ Head(batch_queue).seqs = s
  <2>1. q[1] \in Batch
    <3>1. 1 \in 1..Len(q)
      BY <1>3, <1>4
    <3> QED
      BY <1>4, <3>1
  <2> QED
    BY <1>1, <1>3, <1>4, <1>9, <2>1 DEF Batch
<1>11. /\ DOMAIN Rows(1) = 1..Len(s) /\ Len(Rows(1)) = Len(s)
       /\ \A i \in 1..Len(s) : Rows(1)[i] = OwnerRow(s[i]) /\ Rows(1)[i].seq = s[i]
       /\ \A r : InBatch(r, 1) <=> r \in ToSet(s)
  BY <1>2, <1>3, <1>9, <1>10, SerialRows
<1>12. \A r \in Requests : Taken(r) = 0 /\ Taken(r)' = Gain(r, 1)
  <2> TAKE r \in Requests
  <2>1. r \notin ToSet(NoBatch.seqs)
    BY EmptyQueue DEF NoBatch
  <2>2. num_scheduled_tokens' = num_scheduled_tokens
    BY <1>1 DEF seqVars
  <2> QED
    BY <1>2, <1>10, <1>11, <2>1, <2>2 DEF Taken, Gain, RowCount
<1>13. /\ result' = SubSeq(output_buf[outputs[1]], 1, Len(s))
       /\ Right(1, output_buf[outputs[1]])
  BY <1>1, <1>7, <1>10, TakenOutput
<1>14. /\ IsSeq(result') /\ Len(result') = Len(s) /\ DOMAIN result' = 1..Len(s)
       /\ \A i \in 1..Len(s) : result'[i] = output_buf[outputs[1]][i]
  BY <1>10, <1>13, FirstTokens
<1>15. ASSUME NEW i \in 1..Len(s), ~IsPartial(s[i])'
       PROVE  result'[i] = <<s[i], num_tokens'[s[i]]>>
  <2>1. PICK r : r = s[i]
    OBVIOUS
  <2>2. r \in Requests /\ r \in ToSet(s) /\ num_tokens'[r] = num_tokens[r]
    BY <1>1, <1>10, <2>1, ToSetDef DEF seqVars
  <2>3. status[r] # "FINISHED"
    <3>1. 1 \in 1..Len(batch_queue) /\ 1 <= 2
      BY <1>3, <1>4
    <3> QED
      BY <1>2, <1>3, <1>9, <2>2, <3>1, QueuedRow
  <2>4. RowOK(Rows(1)[i], 1)
    <3>1. 1 \in 1..Queued /\ Queued <= 2
      BY <1>4
    <3>2. BatchOK(1)
      BY <3>1, BatchesOK DEF PipeInv
    <3> QED
      BY <1>11, <3>2 DEF BatchOK
  <2>5. PICK x : x = Rows(1)[i]
    OBVIOUS
  <2>6. /\ x.seq = r /\ x.first = num_cached_tokens[r] /\ x.count = num_scheduled_tokens[r]
        /\ x.len = num_tokens[r]
    <3>1. x = OwnerRow(r)
      BY <1>11, <2>1, <2>5
    <3> QED
      BY <3>1 DEF OwnerRow
  <2>7. /\ x.first + x.count <= x.len /\ x.first \in Nat /\ x.count \in Nat /\ x.len \in Nat
        /\ (~Prompt(1) => ~x.is_prefill) /\ (~x.is_prefill => x.first + x.count = x.len)
    BY <2>4, <2>5 DEF RowOK
  <2>8. ~Prompt(1) \/ ~(x.first + x.count < x.len)
    BY <1>1, <1>2, <1>3, <1>10, <1>15, <2>1, <2>6 DEF IsPartial, consumed, Prompt, seqVars
  <2>9. x.first + x.count = x.len
    BY <2>7, <2>8
  <2>10. output_buf[outputs[1]][i] = <<r, x.first + x.count>>
    <3>1. SampledRow(x) /\ i \in DOMAIN Rows(1)
      BY <1>11, <2>9 DEF SampledRow
    <3> QED
      BY <1>13, <2>3, <2>5, <2>6, <3>1 DEF Right
  <2> QED
    BY <1>14, <2>1, <2>2, <2>6, <2>9, <2>10
<1>16. ResultOK'
  BY <1>1, <1>10, <1>14, <1>15 DEF ResultOK, OutputCorrect
<1>17. dispatched' = <<>>
  BY <1>1, <1>2 DEF cohortVars
<1> QED
  BY <1>1, <1>6, <1>7, <1>8, <1>10, <1>12, <1>16, <1>17, TakeStep DEF cohortVars

LEMMA LookConsumeOnly ==
  ASSUME EngineInv, PipeInv, LookConsume
  PROVE  PipeInv'
<1>1. /\ loop = "lookahead" /\ loop' = "retire" /\ phase' = "commit"
      /\ dispatched # <<>> /\ views' = Head(dispatched) /\ dispatched' = Tail(dispatched)
      /\ TakeOutput(Len(Head(dispatched)))
      /\ UNCHANGED <<runnerVars, queueVars, seqVars, blockVars, live, pending>>
  BY DEF LookConsume, BeginCommit
<1>2. ~Serial /\ ~Serial' /\ phase = "idle" /\ CohortInv /\ views = <<>>
  BY <1>1 DEF EngineInv, LoopOK, AsyncInv, Serial, CohortInv, Shape
<1>3. PICK q, l : q = dispatched /\ l = Len(q)
  OBVIOUS
<1>4. /\ q \in Seq(Views) /\ IsSeq(q) /\ q # <<>> /\ l \in Nat /\ l = Queued /\ l \in 1..2
      /\ Head(q) = q[1] /\ Len(Tail(q)) = l - 1 /\ \A k \in 1..(l - 1) : Tail(q)[k] = q[k + 1]
  <2>1. q \in Seq(Views) /\ IsSeq(q) /\ q # <<>> /\ l = Queued
    BY <1>1, <1>2, <1>3, PipeTypes DEF Queued, IsSeq
  <2>2. l \in 0..2
    BY <2>1, NoneTaken
  <2>3. IsSeq(q) /\ q # <<>>
    BY <2>1
  <2>4. Len(q) # 0 /\ Head(q) = q[1] /\ Len(Tail(q)) = Len(q) - 1
        /\ \A k \in 1..(Len(q) - 1) : Tail(q)[k] = q[k + 1]
    BY <2>3, SeqFacts
  <2> QED
    BY <1>3, <2>1, <2>2, <2>4
<1>5. Len(dispatched') = l - 1 /\ \A k \in 1..(l - 1) : dispatched'[k] = q[k + 1]
  BY <1>1, <1>3, <1>4
<1>6. Queued' = Queued - 1
  BY <1>2, <1>4, <1>5 DEF Queued
<1>7. outputs # <<>>
  <2>1. Queued = Len(outputs) + (IF loop = "execute" THEN 1 ELSE 0)
    BY NoneTaken
  <2>2. outputs = <<>> => Len(outputs) = 0
    OBVIOUS
  <2> QED
    BY <1>1, <1>4, <2>1, <2>2
<1>8. ASSUME NEW k \in 1..(Queued - 1)
      PROVE  /\ Rows(k)' = Rows(k + 1) /\ Prompt(k)' = Prompt(k + 1)
             /\ \A r \in Requests : Gain(r, k)' = Gain(r, k + 1)
  <2>1. dispatched'[k] = dispatched[k + 1]
    BY <1>3, <1>4, <1>5
  <2>2. Rows(k)' = Rows(k + 1) /\ (Prompt(k)' <=> Prompt(k + 1))
    BY <1>1, <1>2, <2>1 DEF Rows, Prompt, ViewRow
  <2>3. \A r \in Requests : Gain(r, k)' = Gain(r, k + 1)
    BY <1>2, <2>2 DEF Gain, InBatch, RowCount
  <2>4. Prompt(k)' = Prompt(k + 1)
    BY <1>2 DEF Prompt
  <2> QED
    BY <2>2, <2>3, <2>4
<1>9. PICK s : s = q[1]
  OBVIOUS
<1>10. s \in Views /\ Len(s) \in Nat /\ views' = s /\ Head(dispatched) = s
  <2>1. q[1] \in Views
    <3>1. 1 \in 1..Len(q)
      BY <1>3, <1>4
    <3> QED
      BY <1>4, <3>1
  <2> QED
    BY <1>1, <1>3, <1>4, <1>9, <2>1, RowsOfTypes
<1>11. /\ DOMAIN Rows(1) = 1..Len(s) /\ Len(Rows(1)) = Len(s)
       /\ \A i \in 1..Len(s) : Rows(1)[i] = ViewRow(s[i]) /\ Rows(1)[i].seq = s[i].seq
       /\ \A r : Gain(r, 1) = Count(RowsOf(r, s))
  BY <1>2, <1>3, <1>9, <1>10, ViewRows
<1>12. \A r \in Requests : Taken(r) = 0 /\ Taken(r)' = Gain(r, 1)
  <2> TAKE r \in Requests
  <2>1. Count(RowsOf(r, <<>>)) = 0
    BY NoRows DEF Count
  <2> QED
    BY <1>2, <1>10, <1>11, <2>1 DEF Taken
<1>13. /\ result' = SubSeq(output_buf[outputs[1]], 1, Len(s))
       /\ Right(1, output_buf[outputs[1]])
  BY <1>1, <1>7, <1>10, TakenOutput
<1>14. /\ IsSeq(result') /\ Len(result') = Len(s) /\ DOMAIN result' = 1..Len(s)
       /\ \A i \in 1..Len(s) : result'[i] = output_buf[outputs[1]][i]
  BY <1>10, <1>13, FirstTokens
<1>15. ASSUME NEW i \in 1..Len(s), status'[s[i].seq] # "FINISHED"
       PROVE  result'[i] = <<s[i].seq, s[i].num_tokens>>
  <2>1. PICK x, v : x = Rows(1)[i] /\ v = s[i]
    OBVIOUS
  <2>2. x.seq = v.seq /\ x.first = v.num_tokens - 1 /\ x.count = 1 /\ x.is_prefill = FALSE
    <3>1. x = ViewRow(v)
      BY <1>11, <2>1
    <3> QED
      BY <3>1 DEF ViewRow
  <2>3. v.num_tokens \in Nat
    <3>1. v \in ViewType
      BY <1>10, <2>1, RowsOfTypes
    <3> QED
      BY <3>1 DEF ViewType
  <2>4. status[x.seq] # "FINISHED"
    BY <1>1, <1>15, <2>1, <2>2 DEF seqVars
  <2>5. SampledRow(x) /\ i \in DOMAIN Rows(1)
    <3>1. ~x.is_prefill /\ i \in DOMAIN Rows(1)
      BY <1>11, <2>2
    <3> QED
      BY <3>1 DEF SampledRow
  <2>6. output_buf[outputs[1]][i] = <<x.seq, x.first + x.count>>
    BY <1>13, <2>1, <2>4, <2>5 DEF Right
  <2>7. x.first + x.count = v.num_tokens
    BY <2>2, <2>3
  <2> QED
    BY <1>14, <2>1, <2>2, <2>6, <2>7
<1>16. ResultOK'
  BY <1>1, <1>10, <1>14, <1>15 DEF ResultOK, OutputCorrect
<1>17. \A i \in 1..Len(dispatched') : i + 1 \in 1..Len(dispatched)
                                      /\ dispatched'[i] = dispatched[i + 1]
  BY <1>3, <1>4, <1>5
<1> QED
  BY <1>1, <1>6, <1>7, <1>8, <1>10, <1>12, <1>16, <1>17, TakeStep

(* What becomes of the row's request, and that it is in no queued batch.   *)
LEMMA PostedFacts ==
  ASSUME EngineInv, PipeInv, NEW eos \in BOOLEAN, PostprocessRow(eos)
  PROVE  /\ Serial /\ Serial' /\ NoCohort /\ Inv /\ dispatched = <<>> /\ phase = "post"
         /\ loop = "consume" /\ loop' \in {"top", "consume"}
         /\ UNCHANGED <<cohortVars, decode_cpu, buf_idx, deviceVars, outputs, batch_queue,
                        is_prefill>>
         /\ row \in Requests /\ row \in in_flight /\ status[row] # "FINISHED"
         /\ row \notin ToSet(running) /\ row \in ToSet(batch.seqs)
         /\ \A q \in Requests \ {row} :
              /\ num_tokens'[q] = num_tokens[q] /\ num_cached_tokens'[q] = num_cached_tokens[q]
              /\ num_scheduled_tokens'[q] = num_scheduled_tokens[q]
              /\ block_table'[q] = block_table[q] /\ status'[q] = status[q]
              /\ q \in ToSet(running') <=> q \in ToSet(running)
         /\ in_flight' \subseteq in_flight \ {row}
         /\ \A k \in 1..Queued : \A q \in ToSet(batch_queue[k].seqs) : q \in Requests \ {row}
         /\ row \in Users(input_batch)
<1>1. /\ loop = "consume" /\ phase = "post" /\ Postprocess(eos) /\ PostRow
      /\ UNCHANGED <<cohortVars, decode_cpu, buf_idx, deviceVars, outputs, batch_queue, is_prefill>>
      /\ loop' \in {"top", "consume"}
  BY DEF PostprocessRow, Postprocess, PostPartial, PostFinish, PostContinue, PostRow
<1>2. Serial /\ Serial' /\ NoCohort /\ Inv /\ Coverage /\ dispatched = <<>> /\ TypeInv
  BY <1>1 DEF EngineInv, LoopOK, AsyncInv, NoCohort, Serial, cohortVars, Inv
<1>3. row \in Requests /\ row \in ToSet(batch.seqs)
  BY <1>1, <1>2, PostRowFacts
<1>4. row \in in_flight /\ row \notin ToSet(running) /\ status[row] # "FINISHED"
  BY <1>2, <1>3 DEF Inv, Ownership, OneOwner, OneRowPerFlight
<1>5. row \in Users(input_batch)
  <2>1. row \in SlotOwners /\ Worked
    BY <1>1, <1>2, PostOwners DEF EngineInv
  <2>2. Unslotted = {}
    BY <1>1 DEF Unslotted
  <2> QED
    BY <2>1, <2>2 DEF EngineInv, SlotInv, SlotsHeld
<1>6. ASSUME NEW k \in 1..Queued, NEW q \in ToSet(batch_queue[k].seqs)
      PROVE  q \in Requests \ {row}
  <2>1. Queued = Len(batch_queue) /\ Queued \in 0..2
    BY <1>2, NoneTaken DEF Queued
  <2>2. k \in 1..Len(batch_queue) /\ k <= 2
    BY <2>1
  <2> QED
    BY <1>2, <1>3, <2>2, QueuedRow
<1>7. /\ num_tokens \in [Requests -> Nat] /\ num_cached_tokens \in [Requests -> Nat]
      /\ num_scheduled_tokens \in [Requests -> Nat] /\ block_table \in [Requests -> Seq(Blocks)]
      /\ status \in [Requests -> {"NEW", "WAITING", "RUNNING", "FINISHED"}]
      /\ running \in Seq(Requests)
  BY PipeTypes
<1>8. /\ in_flight' = in_flight \ {row}
      /\ num_scheduled_tokens' = [num_scheduled_tokens EXCEPT ![row] = 0]
  BY <1>1 DEF PostRow
<1>9. CASE PostPartial
  BY <1>1, <1>2, <1>3, <1>4, <1>5, <1>6, <1>7, <1>8, <1>9 DEF PostPartial, blockVars
<1>10. CASE PostFinish(eos)
  BY <1>1, <1>2, <1>3, <1>4, <1>5, <1>6, <1>7, <1>8, <1>10 DEF PostFinish, deallocate
<1>11. CASE PostContinue(eos)
  <2>1. ToSet(running') = ToSet(running) \cup {row}
    BY <1>3, <1>7, <1>11, AppendQueue DEF PostContinue
  <2> QED
    BY <1>1, <1>2, <1>3, <1>4, <1>5, <1>6, <1>7, <1>8, <1>11, <2>1 DEF PostContinue, blockVars
<1> QED
  BY <1>1, <1>9, <1>10, <1>11 DEF Postprocess

(* The result of a row that is not partial covers its whole history.       *)
LEMMA PostedReach ==
  ASSUME EngineInv, PipeInv, phase = "post", Serial
  PROVE  /\ Reached(row) = num_cached_tokens[row] + num_scheduled_tokens[row]
         /\ ~IsPartial(row) => num_cached_tokens[row] + num_scheduled_tokens[row] >= num_tokens[row]
         /\ Taken(row) = num_scheduled_tokens[row]
         /\ num_cached_tokens[row] \in Nat /\ num_scheduled_tokens[row] \in Nat
         /\ num_tokens[row] \in Nat
<1>1. NoCohort /\ Inv /\ Coverage /\ TypeInv /\ batch.seqs # <<>> /\ batch.seqs \in Seq(Requests)
  BY DEF EngineInv, AsyncInv, NoCohort, Inv, TypeInv, TypeOK, PhaseOK, Batch
<1>2. row \in Requests /\ row \in ToSet(batch.seqs) /\ row \in in_flight
  <2>1. row \in Requests /\ row \in ToSet(batch.seqs)
    BY <1>1, PopLeftQueue DEF row
  <2> QED
    BY <1>1, <2>1 DEF Inv, Ownership, OneRowPerFlight
<1>3. /\ Taken(row) = num_scheduled_tokens[row]
      /\ num_cached_tokens[row] \in Nat /\ num_scheduled_tokens[row] \in Nat
      /\ num_tokens[row] \in Nat
  BY <1>2, PipeTypes DEF Taken
<1>4. PICK n, d, f : n = Queued /\ d = Done /\ f = Flying
  OBVIOUS
<1>5. n \in 0..2 /\ d \in 0..2 /\ d <= n
  <2>1. PICK l : l = Len(outputs)
    OBVIOUS
  <2>2. n \in 0..2 /\ l \in 0..2 /\ l <= n
    BY <1>4, <2>1, NoneTaken
  <2>3. f \in 0..2 /\ f <= l /\ d = l - f
    BY <1>4, <2>1 DEF Flying, Done, PipeInv, StreamOK
  <2> QED
    BY <2>2, <2>3
<1>6. ASSUME NEW k \in 1..n PROVE Gain(row, k) = 0
  <2>1. n = Len(batch_queue) /\ batch_queue \in Seq(Batch)
    BY <1>4, PipeTypes DEF Queued
  <2>2. k \in 1..Len(batch_queue) /\ k <= 2
    BY <1>5, <2>1
  <2>3. batch_queue[k] \in Batch
    BY <2>1, <2>2
  <2>4. row \notin ToSet(batch_queue[k].seqs)
    BY <1>2, <2>2, QueuedRow
  <2>5. ~InBatch(row, k)
    BY <2>3, <2>4, SerialRows DEF Batch
  <2> QED
    BY <2>5 DEF Gain
<1>7. Reached(row) = num_cached_tokens[row] + num_scheduled_tokens[row]
  <2>1. (d >= 1 => Gain(row, 1) = 0) /\ (d >= 2 => Gain(row, 2) = 0)
    BY <1>5, <1>6
  <2> QED
    BY <1>3, <1>4, <2>1 DEF Reached, Landed
<1>8. ASSUME ~IsPartial(row)
      PROVE  num_cached_tokens[row] + num_scheduled_tokens[row] >= num_tokens[row]
  <2>1. CASE batch.is_prefill
    BY <1>3, <1>8, <2>1 DEF IsPartial, consumed
  <2>2. CASE ~batch.is_prefill
    <3>1. ~is_prefill[row] /\ Covered(row)
      BY <1>1, <1>2, <2>2 DEF Coverage, PureDecode
    <3> QED
      BY <1>2, <1>3, <3>1 DEF Covered
  <2> QED
    BY <2>1, <2>2
<1> QED
  BY <1>3, <1>7, <1>8

(* The rows left.                                                          *)
LEMMA PostedRest ==
  ASSUME EngineInv, PipeInv, NEW eos \in BOOLEAN, PostprocessRow(eos)
  PROVE  /\ batch.seqs \in Seq(Requests) /\ batch.seqs # <<>>
         /\ batch'.seqs = Tail(batch.seqs) /\ row \notin ToSet(Tail(batch.seqs))
         /\ ToSet(batch.seqs) = {row} \cup ToSet(Tail(batch.seqs))
         /\ phase' = "post" => batch'.is_prefill = batch.is_prefill
         /\ phase' \in {"idle", "post"}
         /\ Len(batch.seqs) \in Nat
         /\ \A i \in 1..(Len(batch.seqs) - 1) :
              /\ Tail(batch.seqs)[i] = batch.seqs[i + 1] /\ batch.seqs[i + 1] \in Requests
              /\ batch.seqs[i + 1] # row
         /\ \A q \in Requests : Taken(q)' = (IF q = row THEN 0 ELSE Taken(q))
<1>1. /\ Serial /\ Serial' /\ Inv /\ row \in Requests
      /\ \A q \in Requests \ {row} : num_scheduled_tokens'[q] = num_scheduled_tokens[q]
  BY PostedFacts
<1>2. PostRow
  BY DEF PostprocessRow, Postprocess, PostPartial, PostFinish, PostContinue
<1>3. batch.seqs \in Seq(Requests) /\ batch.seqs # <<>> /\ Distinct(batch.seqs) /\ batch \in Batch
  BY <1>1, <1>2 DEF Inv, TypeInv, TypeOK, PhaseOK, Batch, PostRow, Ownership, OneRowPerFlight
<1>4. PICK s : s = batch.seqs
  OBVIOUS
<1>5. /\ ToSet(s) = {row} \cup ToSet(Tail(s)) /\ row \notin ToSet(Tail(s))
      /\ Tail(s) \in Seq(Requests) /\ Len(Tail(s)) = Len(s) - 1 /\ Len(s) \in Nat
  BY <1>3, <1>4, PopLeftQueue DEF row
<1>6. batch'.seqs = Tail(s)
  <2>1. CASE Tail(s) = <<>>
    BY <1>2, <1>4, <2>1 DEF PostRow, NoBatch
  <2>2. CASE Tail(s) # <<>>
    BY <1>2, <1>3, <1>4, <2>2 DEF PostRow, Batch
  <2> QED
    BY <2>1, <2>2
<1>7. phase' \in {"idle", "post"} /\ (phase' = "post" => batch'.is_prefill = batch.is_prefill)
  BY <1>2, <1>3 DEF PostRow, Batch
<1>8. ASSUME NEW i \in 1..(Len(s) - 1)
      PROVE  Tail(s)[i] = s[i + 1] /\ s[i + 1] \in Requests /\ s[i + 1] # row
  <2>1. Tail(s)[i] = s[i + 1]
    BY <1>3, <1>4, SeqFacts DEF IsSeq
  <2>2. Tail(s)[i] \in Requests /\ Tail(s)[i] \in ToSet(Tail(s))
    <3>1. PICK t : t = Tail(s)
      OBVIOUS
    <3>2. t \in Seq(Requests) /\ i \in 1..Len(t)
      BY <1>5, <3>1
    <3>3. t[i] \in Requests /\ t[i] \in ToSet(t)
      BY <3>2, ToSetDef
    <3> QED
      BY <3>1, <3>3
  <2> QED
    BY <1>5, <2>1, <2>2
<1>9. \A q \in Requests : Taken(q)' = (IF q \in ToSet(Tail(s)) THEN num_scheduled_tokens'[q] ELSE 0)
  BY <1>1, <1>6 DEF Taken
<1>10. \A q \in Requests : Taken(q) = (IF q \in ToSet(s) THEN num_scheduled_tokens[q] ELSE 0)
  BY <1>1, <1>4 DEF Taken
<1>11. \A q \in Requests : Taken(q)' = (IF q = row THEN 0 ELSE Taken(q))
  <2>1. \A q \in Requests : q = row => Taken(q)' = 0
    BY <1>1, <1>5, <1>9
  <2>2. ASSUME NEW q \in Requests \ {row} PROVE Taken(q)' = Taken(q)
    <3>1. q \in ToSet(Tail(s)) <=> q \in ToSet(s)
      BY <1>5
    <3>2. num_scheduled_tokens'[q] = num_scheduled_tokens[q]
      BY <1>1
    <3>3. /\ Taken(q)' = (IF q \in ToSet(Tail(s)) THEN num_scheduled_tokens'[q] ELSE 0)
          /\ Taken(q) = (IF q \in ToSet(s) THEN num_scheduled_tokens[q] ELSE 0)
      BY <1>9, <1>10
    <3> QED
      BY <3>1, <3>2, <3>3
  <2> QED
    BY <2>1, <2>2
<1> QED
  BY <1>3, <1>4, <1>5, <1>6, <1>7, <1>8, <1>11

(* One row of postprocess(): the row's tokens are what the device has      *)
(* computed, and the rows of the queued batches are of other requests.     *)
LEMMA PostprocessOnly ==
  ASSUME EngineInv, PipeInv, NEW eos \in BOOLEAN, PostprocessRow(eos)
  PROVE  PipeInv'
<1>1. /\ Serial /\ Serial' /\ NoCohort /\ Inv /\ dispatched = <<>> /\ phase = "post"
      /\ loop = "consume" /\ loop' \in {"top", "consume"}
      /\ UNCHANGED <<cohortVars, decode_cpu, buf_idx, deviceVars, outputs, batch_queue,
                     is_prefill>>
      /\ row \in Requests /\ row \in in_flight /\ status[row] # "FINISHED"
      /\ row \notin ToSet(running)
      /\ \A q \in Requests \ {row} :
           /\ num_tokens'[q] = num_tokens[q] /\ num_cached_tokens'[q] = num_cached_tokens[q]
           /\ num_scheduled_tokens'[q] = num_scheduled_tokens[q]
           /\ block_table'[q] = block_table[q] /\ status'[q] = status[q]
           /\ q \in ToSet(running') <=> q \in ToSet(running)
      /\ in_flight' \subseteq in_flight \ {row}
      /\ \A k \in 1..Queued : \A q \in ToSet(batch_queue[k].seqs) : q \in Requests \ {row}
      /\ row \in Users(input_batch)
  BY PostedFacts
<1>2. /\ batch'.seqs = Tail(batch.seqs)
      /\ phase' = "post" => batch'.is_prefill = batch.is_prefill
      /\ phase' \in {"idle", "post"}
      /\ Len(batch.seqs) \in Nat
      /\ \A i \in 1..(Len(batch.seqs) - 1) :
           /\ Tail(batch.seqs)[i] = batch.seqs[i + 1] /\ batch.seqs[i + 1] \in Requests
           /\ batch.seqs[i + 1] # row
      /\ \A q \in Requests : Taken(q)' = (IF q = row THEN 0 ELSE Taken(q))
  BY PostedRest
<1>3. /\ Reached(row) = num_cached_tokens[row] + num_scheduled_tokens[row]
      /\ ~IsPartial(row) => num_cached_tokens[row] + num_scheduled_tokens[row] >= num_tokens[row]
      /\ Taken(row) = num_scheduled_tokens[row]
      /\ num_cached_tokens[row] \in Nat /\ num_scheduled_tokens[row] \in Nat
      /\ num_tokens[row] \in Nat
  BY <1>1, PostedReach
<1>4. /\ Postprocess(eos) /\ result' = Tail(result)
      /\ IF Departs(row, eos) THEN remove_request(row) ELSE UNCHANGED input_batch
  BY DEF PostprocessRow
<1>5. PICK n : n = Len(outputs)
  OBVIOUS
<1>6. /\ 0 <= Done - Len(copies) /\ n - 0 = n /\ n \in 0..2 /\ Queued \in 0..2 /\ n = Queued
      /\ Queued <= 2 /\ Queued \in 0..Queued
  <2>1. PICK q : q = Queued
    OBVIOUS
  <2>2. q = n + (IF loop = "execute" THEN 1 ELSE 0) /\ q \in 0..2 /\ n \in 0..2
    BY <1>5, <2>1, NoneTaken
  <2>3. q = n /\ n - 0 = n /\ q <= 2 /\ q \in 0..q
    BY <1>1, <2>2
  <2> QED
    BY <2>1, <2>2, <2>3, NoneTaken
<1>7. \A k \in 1..n : /\ Rows(k)' = Rows(k) /\ Prompt(k)' = Prompt(k)
                      /\ \A q : InBatch(q, k)' <=> InBatch(q, k)
                      /\ \A q : Gain(q, k)' = Gain(q, k)
  <2>1. \A k \in 1..Queued : \A q \in ToSet(batch_queue[k].seqs) :
           /\ num_tokens'[q] = num_tokens[q] /\ num_cached_tokens'[q] = num_cached_tokens[q]
           /\ num_scheduled_tokens'[q] = num_scheduled_tokens[q]
           /\ is_prefill'[q] = is_prefill[q] /\ block_table'[q] = block_table[q]
    BY <1>1
  <2>2. live' = live /\ \A k \in 1..Queued : batch_queue'[k] = batch_queue[k]
    BY <1>1 DEF cohortVars
  <2>3. \A k \in 1..Queued : /\ Rows(k)' = Rows(k) /\ Prompt(k)' = Prompt(k)
                             /\ \A q : InBatch(q, k)' <=> InBatch(q, k)
                             /\ \A q : Gain(q, k)' = Gain(q, k)
    BY <1>1, <1>6, <2>1, <2>2, FrozenRows
  <2> QED
    BY <1>6, <2>3
<1>8. \A k \in 1..n : ~InBatch(row, k)
  <2> TAKE k \in 1..n
  <2>1. k \in 1..Len(batch_queue) /\ batch_queue[k] \in Batch
    <3>1. batch_queue \in Seq(Batch) /\ k \in 1..Len(batch_queue)
      BY <1>1, <1>6, PipeTypes DEF Queued
    <3> QED
      BY <3>1
  <2>2. InBatch(row, k) => row \in ToSet(batch_queue[k].seqs)
    BY <1>1, <2>1, SerialRows DEF Batch
  <2>3. k \in 1..Queued
    BY <1>6
  <2> QED
    BY <1>1, <2>2, <2>3
<1>9. \A s \in Slots : /\ input_batch[s].seq # row => input_batch'[s] = input_batch[s]
                       /\ input_batch'[s].seq \in Requests => input_batch'[s] = input_batch[s]
  BY <1>4, NoneAssumption DEF remove_request, Vacant
<1>10. SameWork(0)
  <2>1. /\ UNCHANGED <<decode_cpu, deviceVars>> /\ Len(outputs') = n - 0
        /\ \A k \in 1..(n - 0) :
             outputs'[k] = outputs[k + 0] /\ Rows(k)' = Rows(k + 0) /\ Prompt(k)' = Prompt(k + 0)
    BY <1>1, <1>5, <1>6, <1>7
  <2>2. \A s \in Slots : \A k \in 1..(n - 0) :
          InBatch(input_batch[s].seq, k + 0) => input_batch'[s].seq = input_batch[s].seq
    BY <1>6, <1>8, <1>9
  <2>3. \A s \in Slots : input_batch'[s].seq \in Requests
                           => input_batch'[s].seq = input_batch[s].seq
    BY <1>9
  <2> QED
    BY <1>5, <2>1, <2>2, <2>3 DEF SameWork
<1>11. PICK r : r = row
  OBVIOUS
<1>12. /\ r \in Requests /\ status[r] # "FINISHED" /\ num_cached_tokens[r] \in Nat
       /\ num_scheduled_tokens[r] \in Nat /\ num_tokens[r] \in Nat
       /\ Taken(r) = num_scheduled_tokens[r] /\ Taken(r)' = 0
       /\ Reached(r) = num_cached_tokens[r] + num_scheduled_tokens[r]
       /\ r \in Users(input_batch) /\ r \notin ToSet(running)
  BY <1>1, <1>2, <1>3, <1>11
<1>13. Ahead(r) = 1
  <2>1. r \notin ToSet(live)
    BY <1>1, EmptyQueue DEF Serial
  <2> QED
    BY <1>12, <2>1 DEF Ahead
<1>14. ASSUME status'[r] # "FINISHED"
       PROVE  /\ num_cached_tokens'[r] = num_cached_tokens[r] + num_scheduled_tokens[r]
              /\ block_table'[r] = block_table[r] /\ UNCHANGED input_batch
              /\ \/ num_tokens'[r] = num_tokens[r] /\ Ahead(r)' = 1
                 \/ num_tokens'[r] = num_tokens[r] + 1 /\ ~IsPartial(row) /\ Ahead(r)' = 0
  <2>1. r \notin ToSet(live')
    BY <1>1, EmptyQueue DEF Serial
  <2>2. /\ num_tokens \in [Requests -> Nat] /\ num_cached_tokens \in [Requests -> Nat]
        /\ status \in [Requests -> {"NEW", "WAITING", "RUNNING", "FINISHED"}]
        /\ running \in Seq(Requests)
    BY PipeTypes
  <2>3. ~PostFinish(eos)
    BY <1>11, <1>12, <1>14, <2>2 DEF PostFinish
  <2>4. CASE PostPartial
    <3>1. UNCHANGED input_batch
      BY <1>4, <2>4 DEF PostPartial, IsPartial, consumed, Departs
    <3>2. r \notin ToSet(running')
      BY <1>12, <2>4 DEF PostPartial
    <3>3. num_tokens'[r] = num_tokens[r] /\ Ahead(r)' = 1
      BY <2>1, <2>4, <3>2 DEF PostPartial, Ahead
    <3> QED
      BY <1>11, <1>12, <2>2, <2>4, <3>1, <3>3 DEF PostPartial, blockVars, consumed
  <2>5. CASE PostContinue(eos)
    <3>1. UNCHANGED input_batch
      BY <1>4, <2>5 DEF PostContinue, Departs, Stops
    <3>2. r \in ToSet(running')
      BY <1>11, <1>12, <2>2, <2>5, AppendQueue DEF PostContinue
    <3>3. num_tokens'[r] = num_tokens[r] + 1 /\ ~IsPartial(row) /\ Ahead(r)' = 0
      BY <1>11, <1>12, <2>2, <2>5, <3>2 DEF PostContinue, Ahead
    <3> QED
      BY <1>11, <1>12, <2>2, <2>5, <3>1, <3>3 DEF PostContinue, blockVars, consumed
  <2> QED
    BY <1>4, <2>3, <2>4, <2>5 DEF Postprocess
<1>15. ASSUME NEW q \in Requests, status'[q] # "FINISHED" PROVE SameProgress(q, 0)
  <2>1. /\ status[q] # "FINISHED"
        /\ num_cached_tokens'[q] + Taken(q)' = num_cached_tokens[q] + Taken(q)
        /\ block_table'[q] = block_table[q]
        /\ \/ num_tokens'[q] = num_tokens[q]
           \/ num_tokens'[q] = num_tokens[q] + 1 /\ Reached(q) >= num_tokens[q]
        /\ q \notin Users(input_batch') => num_cached_tokens'[q] = 0
    <3>1. CASE q = r
      <4>1. /\ num_cached_tokens'[r] = num_cached_tokens[r] + num_scheduled_tokens[r]
            /\ block_table'[r] = block_table[r] /\ input_batch' = input_batch
            /\ \/ num_tokens'[r] = num_tokens[r]
               \/ num_tokens'[r] = num_tokens[r] + 1 /\ ~IsPartial(row)
        BY <1>14, <1>15, <3>1
      <4>2. num_cached_tokens'[r] + Taken(r)' = num_cached_tokens[r] + Taken(r)
        BY <1>12, <4>1
      <4>3. ~IsPartial(row) => Reached(r) >= num_tokens[r]
        BY <1>3, <1>11, <1>12
      <4> QED
        BY <1>12, <3>1, <4>1, <4>2, <4>3
    <3>2. CASE q # r
      <4>1. /\ num_tokens'[q] = num_tokens[q] /\ num_cached_tokens'[q] = num_cached_tokens[q]
            /\ block_table'[q] = block_table[q] /\ status'[q] = status[q]
            /\ Taken(q)' = Taken(q)
        BY <1>1, <1>2, <1>11, <3>2
      <4>2. q \notin Users(input_batch') => q \notin Users(input_batch)
        BY <1>9, <1>11, <3>2 DEF Users
      <4>3. q \notin Users(input_batch) => num_cached_tokens[q] = 0
        BY <1>15, <4>1 DEF PipeInv, DeviceOK
      <4> QED
        BY <1>15, <4>1, <4>2, <4>3
    <3> QED
      BY <3>1, <3>2
  <2>2. \A d \in 0..n : Landed(q, d)' = Landed(q, d)
    BY <1>6, <1>7, <2>1, LandedKept
  <2>3. \A d \in 0..(n - 0) : Landed(q, d)' = Landed(q, d + 0)
    BY <1>6, <2>2
  <2> QED
    BY <1>5, <2>1, <2>3 DEF SameProgress
<1>16. Handles'
  <2>1. Queued' = Queued /\ loop # "execute" /\ loop' # "execute" /\ outputs' = outputs
        /\ buf_idx' = buf_idx /\ phase' \notin {"decode", "prefill"}
    BY <1>1, <1>2 DEF Queued
  <2> QED
    BY <2>1 DEF Handles, PipeInv
<1>17. ResultOK'
  <2>1. IsSeq(result) /\ Len(result) = Len(batch.seqs) /\ batch.seqs # <<>>
    BY <1>1 DEF PipeInv, ResultOK, Inv, TypeInv, PhaseOK
  <2>2. PICK s, l : s = result /\ l = Len(batch.seqs)
    OBVIOUS
  <2>3. IsSeq(s) /\ Len(s) = l /\ l \in Nat /\ l # 0
    <3>1. batch.seqs \in Seq(Requests)
      BY <1>1 DEF Inv, TypeInv, TypeOK, Batch
    <3>2. l # 0
      BY <2>1, <2>2, <3>1
    <3> QED
      BY <1>2, <2>1, <2>2, <3>2
  <2>4. /\ Len(Tail(s)) = l - 1 /\ \A i \in 1..(l - 1) : Tail(s)[i] = s[i + 1]
        /\ IsSeq(Tail(s)) /\ DOMAIN Tail(s) = 1..(l - 1)
    <3>1. IsSeq(s) /\ s # <<>>
      BY <2>3
    <3> QED
      BY <2>3, <3>1, SeqFacts DEF IsSeq
  <2>5. Len(batch'.seqs) = l - 1 /\ result' = Tail(s)
    <3>1. PICK u : u = batch.seqs
      OBVIOUS
    <3>2. u \in Seq(Requests) /\ u # <<>>
      BY <1>1, <2>1, <3>1 DEF Inv, TypeInv, TypeOK, Batch
    <3>3. Len(Tail(u)) = Len(u) - 1
      BY <3>2
    <3> QED
      BY <1>2, <1>4, <2>2, <3>1, <3>3
  <2>6. ASSUME phase' = "post", NEW i \in 1..(l - 1), ~IsPartial(batch.seqs[i])'
        PROVE  result'[i] = <<batch'.seqs[i], num_tokens'[batch'.seqs[i]]>>
    <3>1. PICK q : q = batch.seqs[i + 1]
      OBVIOUS
    <3>2. batch'.seqs[i] = q /\ q \in Requests /\ q # row
      BY <1>2, <2>2, <3>1
    <3>3. /\ num_tokens'[q] = num_tokens[q] /\ num_cached_tokens'[q] = num_cached_tokens[q]
          /\ num_scheduled_tokens'[q] = num_scheduled_tokens[q]
      BY <1>1, <3>2
    <3>4. ~IsPartial(q)'
      BY <2>6, <3>2
    <3>5. ~IsPartial(q)
      BY <1>2, <2>6, <3>3, <3>4 DEF IsPartial, consumed
    <3>6. i + 1 \in DOMAIN result
      BY <2>2, <2>3 DEF IsSeq
    <3>7. s[i + 1] = <<q, num_tokens[q]>>
      BY <1>1, <2>2, <3>1, <3>5, <3>6 DEF PipeInv, ResultOK, OutputCorrect
    <3> QED
      BY <2>4, <2>5, <3>2, <3>3, <3>7
  <2>7. phase' # "commit"
    BY <1>2
  <2> QED
    BY <2>4, <2>5, <2>6, <2>7 DEF ResultOK, OutputCorrect
<1>18. TightOK'
  <2>1. ASSUME NEW q \in Requests, status'[q] # "FINISHED"
        PROVE  Tight(block_table'[q], num_tokens'[q] - 1 + Ahead(q)')
    <3>1. CASE q = r
      <4>1. Tight(block_table[r], num_tokens[r] - 1 + 1)
        BY <1>12, <1>13 DEF PipeInv, TightOK
      <4>2. num_tokens'[r] - 1 + Ahead(r)' = num_tokens[r] - 1 + 1 /\ block_table'[r] = block_table[r]
        BY <1>12, <1>14, <2>1, <3>1
      <4> QED
        BY <3>1, <4>1, <4>2
    <3>2. CASE q # r
      <4>1. Ahead(q)' = Ahead(q) /\ num_tokens'[q] = num_tokens[q] /\ block_table'[q] = block_table[q]
            /\ status'[q] = status[q]
        BY <1>1, <1>11, <3>2 DEF Ahead, cohortVars
      <4> QED
        BY <2>1, <4>1 DEF PipeInv, TightOK
    <3> QED
      BY <3>1, <3>2
  <2>2. dispatched' = <<>>
    BY <1>1 DEF cohortVars
  <2> QED
    BY <2>1, <2>2 DEF TightOK
<1>19. DecodeOK'
  <2>1. ASSUME NEW q \in Requests, q \in in_flight', ~is_prefill'[q]
        PROVE  num_scheduled_tokens'[q] = 1 /\ num_tokens'[q] > PromptLen[q]
    <3>1. q \in in_flight /\ q # row /\ ~is_prefill[q]
      BY <1>1, <2>1
    <3>2. num_scheduled_tokens'[q] = num_scheduled_tokens[q] /\ num_tokens'[q] = num_tokens[q]
      BY <1>1, <3>1
    <3> QED
      BY <1>1, <3>1, <3>2 DEF PipeInv, DecodeOK
  <2> QED
    BY <2>1 DEF DecodeOK
<1> QED
  BY <1>6, <1>10, <1>15, <1>16, <1>17, <1>18, <1>19, HostStep

(* One row of the cohort's postprocess(): the token that is appended is    *)
(* what the device has computed; a slot is given up with the last view.    *)
LEMMA CommittedFacts ==
  ASSUME EngineInv, PipeInv, CommitResult
  PROVE  /\ ~Serial /\ ~Serial' /\ CohortInv /\ phase = "commit" /\ phase' \in {"idle", "commit"}
         /\ loop = "retire" /\ loop' = "retire" /\ committed \in Requests
         /\ UNCHANGED <<decode_cpu, buf_idx, deviceVars, outputs, running, live, dispatched,
                        batch_queue>>
         /\ \A q \in Requests : q # committed =>
              /\ num_tokens'[q] = num_tokens[q] /\ num_cached_tokens'[q] = num_cached_tokens[q]
              /\ block_table'[q] = block_table[q] /\ status'[q] = status[q]
              /\ pending'[q] = pending[q] /\ Taken(q)' = Taken(q)
         /\ \A q \in Requests : q = committed =>
              /\ Taken(q) = 1 /\ Taken(q)' = 0 /\ pending'[q] = pending[q] - 1
              /\ pending[q] \in 1..2 /\ q \in ToSet(live) /\ q \notin ToSet(running)
              /\ q \notin in_flight' => RowsOf(q, Newer) = {}
              /\ status'[q] # "FINISHED" =>
                   /\ status[q] # "FINISHED" /\ q \in in_flight' /\ block_table'[q] = block_table[q]
                   /\ num_tokens'[q] = num_tokens[q] + 1
                   /\ num_cached_tokens'[q] = num_cached_tokens[q] + 1
                   /\ num_tokens[q] \in Nat /\ num_cached_tokens[q] = num_tokens[q] - 1
<1>1. /\ loop = "retire" /\ loop' = "retire" /\ CommitRow
      /\ UNCHANGED <<decode_cpu, buf_idx, deviceVars, outputs>>
      /\ DiscardToken \/ \E eos \in BOOLEAN : CommitLast(eos) \/ CommitToken(eos)
  BY DEF CommitResult, DiscardToken, CommitLast, CommitToken
<1>2. /\ phase = "commit" /\ phase' \in {"idle", "commit"} /\ views' = Tail(views)
      /\ UNCHANGED <<running, live, dispatched, batch_queue>>
  BY <1>1 DEF CommitRow, driverVars
<1>3. ~Serial /\ ~Serial' /\ CohortInv
  BY <1>1, <1>2 DEF EngineInv, LoopOK, AsyncInv, Serial
<1>4. CohortTypes /\ views # <<>> /\ OneEach(views) /\ running = <<>>
  BY <1>2, <1>3 DEF CohortInv, Shape, Older, Still
<1>5. PICK c : c = committed
  OBVIOUS
<1>6. /\ c \in Requests /\ c \in ToSet(live) /\ c \in in_flight /\ pending[c] \in 1..2
      /\ pending'[c] = pending[c] - 1 /\ \A q \in Requests \ {c} : pending'[q] = pending[q]
      /\ num_tokens[c] \in Nat /\ num_cached_tokens[c] \in Nat
      /\ Flight(pending[c], status[c], num_tokens[c], block_table[c], Limit(c), {view},
                RowsOf(c, Newer))
      /\ status[c] # "NEW"
  BY <1>1, <1>3, <1>5, CommitOwner
<1>7. /\ RowsOf(c, views) = {view} /\ RowsOf(c, Tail(views)) = {}
      /\ \A q \in Requests \ {c} : RowsOf(q, Tail(views)) = RowsOf(q, views)
  BY <1>4, <1>5, PopView DEF CohortTypes, committed, view
<1>8. Taken(c) = 1 /\ Taken(c)' = 0 /\ \A q \in Requests \ {c} : Taken(q)' = Taken(q)
  BY <1>2, <1>3, <1>7 DEF Taken, Count
<1>9. c \notin ToSet(running)
  BY <1>4, EmptyQueue
<1>10. /\ num_tokens' = num_tokens \/ num_tokens' = [num_tokens EXCEPT ![c] = @ + 1]
       /\ \/ num_cached_tokens' = num_cached_tokens
          \/ num_cached_tokens' = [num_cached_tokens EXCEPT ![c] = 0]
          \/ num_cached_tokens' = [num_cached_tokens EXCEPT ![c] = @ + 1]
       /\ status' = status \/ status' = [status EXCEPT ![c] = "FINISHED"]
       /\ block_table' = block_table \/ block_table' = [block_table EXCEPT ![c] = <<>>]
       /\ in_flight' = in_flight \/ pending[c] = 1
  BY <1>1, <1>5 DEF DiscardToken, CommitLast, CommitToken, AppendToken, Retire, deallocate,
                    blockVars
<1>11. c \notin in_flight' => RowsOf(c, Newer) = {}
  BY <1>6, <1>10 DEF Flight, Count
<1>12. \A q \in Requests \ {c} :
         /\ num_tokens'[q] = num_tokens[q] /\ num_cached_tokens'[q] = num_cached_tokens[q]
         /\ block_table'[q] = block_table[q] /\ status'[q] = status[q]
  BY <1>4, <1>10 DEF CohortTypes
<1>13. ASSUME status'[c] # "FINISHED"
       PROVE  /\ status[c] # "FINISHED" /\ c \in in_flight' /\ block_table'[c] = block_table[c]
              /\ num_tokens'[c] = num_tokens[c] + 1
              /\ num_cached_tokens'[c] = num_cached_tokens[c] + 1
              /\ num_cached_tokens[c] = num_tokens[c] - 1
  <2>1. ~DiscardToken /\ \A eos \in BOOLEAN : ~CommitLast(eos)
    BY <1>4, <1>5, <1>6, <1>13 DEF DiscardToken, CommitLast, CohortTypes
  <2>2. PICK eos \in BOOLEAN : CommitToken(eos)
    BY <1>1, <2>1
  <2>3. Account(c)
    BY <1>3, <1>6 DEF CohortInv
  <2> QED
    BY <1>4, <1>5, <1>6, <2>2, <2>3 DEF CommitToken, AppendToken, CohortTypes, Account, blockVars
<1> QED
  BY <1>1, <1>2, <1>3, <1>5, <1>6, <1>8, <1>9, <1>11, <1>12, <1>13

LEMMA CommitOnly ==
  ASSUME EngineInv, PipeInv, CommitResult
  PROVE  PipeInv'
<1>1. /\ ~Serial /\ ~Serial' /\ CohortInv /\ phase = "commit" /\ phase' \in {"idle", "commit"}
      /\ loop = "retire" /\ loop' = "retire" /\ committed \in Requests
      /\ UNCHANGED <<decode_cpu, buf_idx, deviceVars, outputs, running, live, dispatched,
                     batch_queue>>
      /\ \A q \in Requests : q # committed =>
           /\ num_tokens'[q] = num_tokens[q] /\ num_cached_tokens'[q] = num_cached_tokens[q]
           /\ block_table'[q] = block_table[q] /\ status'[q] = status[q]
           /\ pending'[q] = pending[q] /\ Taken(q)' = Taken(q)
      /\ \A q \in Requests : q = committed =>
           /\ Taken(q) = 1 /\ Taken(q)' = 0 /\ pending'[q] = pending[q] - 1
           /\ pending[q] \in 1..2 /\ q \in ToSet(live) /\ q \notin ToSet(running)
           /\ q \notin in_flight' => RowsOf(q, Newer) = {}
           /\ status'[q] # "FINISHED" =>
                /\ status[q] # "FINISHED" /\ q \in in_flight' /\ block_table'[q] = block_table[q]
                /\ num_tokens'[q] = num_tokens[q] + 1
                /\ num_cached_tokens'[q] = num_cached_tokens[q] + 1
                /\ num_tokens[q] \in Nat /\ num_cached_tokens[q] = num_tokens[q] - 1
  BY CommittedFacts
<1>2. PICK c, n : c = committed /\ n = Len(outputs)
  OBVIOUS
<1>3. /\ c \in Requests /\ result' = Tail(result) /\ views' = Tail(views)
      /\ IF c \in in_flight' THEN UNCHANGED input_batch ELSE remove_request(c)
  BY <1>1, <1>2 DEF CommitResult, DiscardToken, CommitLast, CommitToken, CommitRow
<1>4. /\ 0 <= Done - Len(copies) /\ n - 0 = n /\ n \in 0..1 /\ n = Queued
      /\ n = Len(dispatched) /\ dispatched \in Seq(Views)
  <2>1. PICK q : q = Queued
    OBVIOUS
  <2>2. q = n + (IF loop = "execute" THEN 1 ELSE 0) /\ q \in 0..2 /\ n \in 0..2
    BY <1>2, <2>1, NoneTaken
  <2>3. q = Len(dispatched)
    BY <1>1, <2>1 DEF Queued
  <2>4. Len(dispatched) <= 1 /\ dispatched \in Seq(Views)
    BY <1>1 DEF CohortInv, Shape, CohortTypes
  <2>5. q = n /\ n - 0 = n /\ n \in 0..1
    BY <1>1, <2>2, <2>3, <2>4
  <2> QED
    BY <2>1, <2>3, <2>4, <2>5, NoneTaken
<1>5. \A k \in 1..n : /\ Rows(k)' = Rows(k) /\ Prompt(k)' = Prompt(k)
                      /\ \A q : Gain(q, k)' = Gain(q, k)
  <2>1. \A k : Rows(k)' = Rows(k) /\ Prompt(k)' = Prompt(k)
    BY <1>1 DEF Rows, Prompt, ViewRow
  <2>2. \A q, k : Gain(q, k)' = Gain(q, k)
    BY <1>1, <2>1 DEF Gain, InBatch, RowCount
  <2> QED
    BY <2>1, <2>2
<1>6. ASSUME c \notin in_flight' PROVE \A k \in 1..n : ~InBatch(c, k)
  <2> TAKE k \in 1..n
  <2>1. k = 1 /\ Len(dispatched) = 1 /\ dispatched[1] \in Views /\ dispatched # <<>>
    <3>1. k = 1 /\ n = 1 /\ 1 \in 1..Len(dispatched) /\ Len(dispatched) = 1
      BY <1>4
    <3>2. dispatched[1] \in Views /\ dispatched # <<>>
      BY <1>4, <3>1
    <3> QED
      BY <3>1, <3>2
  <2>2. Newer = dispatched[1] /\ RowsOf(c, dispatched[1]) = {}
    BY <1>1, <1>2, <1>3, <1>6, <2>1 DEF Newer
  <2>3. Gain(c, 1) = 0 /\ RowCount(c) = 1
    BY <1>1, <2>1, <2>2, ViewRows DEF Count, RowCount
  <2> QED
    BY <2>1, <2>3 DEF Gain
<1>7. \A s \in Slots :
        /\ c \in in_flight' \/ input_batch[s].seq # c => input_batch'[s] = input_batch[s]
        /\ input_batch'[s].seq \in Requests => input_batch'[s] = input_batch[s]
  BY <1>3, NoneAssumption DEF remove_request, Vacant
<1>8. SameWork(0)
  <2>1. /\ UNCHANGED <<decode_cpu, deviceVars>> /\ Len(outputs') = n - 0
        /\ \A k \in 1..(n - 0) :
             outputs'[k] = outputs[k + 0] /\ Rows(k)' = Rows(k + 0) /\ Prompt(k)' = Prompt(k + 0)
    BY <1>1, <1>2, <1>4, <1>5
  <2>2. \A s \in Slots : \A k \in 1..(n - 0) :
          InBatch(input_batch[s].seq, k + 0) => input_batch'[s].seq = input_batch[s].seq
    BY <1>4, <1>6, <1>7
  <2>3. \A s \in Slots : input_batch'[s].seq \in Requests
                           => input_batch'[s].seq = input_batch[s].seq
    BY <1>7
  <2> QED
    BY <1>2, <2>1, <2>2, <2>3 DEF SameWork
<1>9. ASSUME status'[c] # "FINISHED" PROVE Reached(c) >= num_tokens[c]
  <2>1. PICK a, g, h : a = num_cached_tokens[c] /\ g = Gain(c, 1) /\ h = Gain(c, 2)
    OBVIOUS
  <2>2. a \in Nat /\ g \in Nat /\ h \in Nat
    BY <1>3, <2>1, PipeTypes, LandedTypes
  <2>3. Reached(c) = a + 1 + (IF Done >= 1 THEN g ELSE 0) + (IF Done >= 2 THEN h ELSE 0)
    BY <1>1, <1>2, <1>3, <2>1 DEF Reached, Landed
  <2>4. num_tokens[c] = a + 1
    BY <1>1, <1>2, <1>3, <1>9, <2>1
  <2> QED
    BY <2>2, <2>3, <2>4
<1>10. ASSUME NEW q \in Requests, status'[q] # "FINISHED" PROVE SameProgress(q, 0)
  <2>1. /\ status[q] # "FINISHED"
        /\ num_cached_tokens'[q] + Taken(q)' = num_cached_tokens[q] + Taken(q)
        /\ block_table'[q] = block_table[q]
        /\ \/ num_tokens'[q] = num_tokens[q]
           \/ num_tokens'[q] = num_tokens[q] + 1 /\ Reached(q) >= num_tokens[q]
        /\ q \notin Users(input_batch') => num_cached_tokens'[q] = 0
    <3>1. CASE q = c
      <4>1. /\ status[c] # "FINISHED" /\ c \in in_flight' /\ block_table'[c] = block_table[c]
            /\ num_tokens'[c] = num_tokens[c] + 1 /\ num_tokens[c] \in Nat
            /\ num_cached_tokens'[c] = num_cached_tokens[c] + 1
            /\ num_cached_tokens[c] = num_tokens[c] - 1
            /\ Taken(c) = 1 /\ Taken(c)' = 0
        BY <1>1, <1>2, <1>10, <3>1
      <4>2. c \in Users(input_batch')
        <5>1. c \in SlotOwners
          BY <1>1, <1>2, <4>1 DEF SlotOwners, CohortInv, Account
        <5>2. SlotsHeld
          BY DEF EngineInv, SlotInv
        <5>3. Unslotted = {}
          BY <1>1 DEF Unslotted
        <5>4. c \in Users(input_batch)
          BY <5>1, <5>2, <5>3 DEF SlotsHeld
        <5> QED
          BY <1>3, <4>1, <5>4
      <4>3. num_cached_tokens'[c] + Taken(c)' = num_cached_tokens[c] + Taken(c)
        BY <4>1
      <4>4. Reached(c) >= num_tokens[c]
        BY <1>9, <1>10, <3>1
      <4> QED
        BY <3>1, <4>1, <4>2, <4>3, <4>4
    <3>2. CASE q # c
      <4>1. /\ num_tokens'[q] = num_tokens[q] /\ num_cached_tokens'[q] = num_cached_tokens[q]
            /\ block_table'[q] = block_table[q] /\ status'[q] = status[q]
            /\ Taken(q)' = Taken(q)
        BY <1>1, <1>2, <3>2
      <4>2. q \notin Users(input_batch') => q \notin Users(input_batch)
        BY <1>7, <3>2 DEF Users
      <4>3. q \notin Users(input_batch) => num_cached_tokens[q] = 0
        BY <1>10, <4>1 DEF PipeInv, DeviceOK
      <4> QED
        BY <1>10, <4>1, <4>2, <4>3
    <3> QED
      BY <3>1, <3>2
  <2>2. n \in 0..2
    BY <1>4
  <2>3. \A d \in 0..n : Landed(q, d)' = Landed(q, d)
    BY <1>5, <2>1, <2>2, LandedKept
  <2>4. \A d \in 0..(n - 0) : Landed(q, d)' = Landed(q, d + 0)
    BY <1>4, <2>3
  <2> QED
    BY <1>2, <2>1, <2>4 DEF SameProgress
<1>11. Handles'
  <2>1. Queued' = Queued /\ loop # "execute" /\ loop' # "execute" /\ outputs' = outputs
        /\ buf_idx' = buf_idx /\ phase' \notin {"decode", "prefill"}
    BY <1>1 DEF Queued
  <2> QED
    BY <2>1 DEF Handles, PipeInv
<1>12. ResultOK'
  <2>1. PICK s, u, l : s = result /\ u = views /\ l = Len(u)
    OBVIOUS
  <2>2. IsSeq(s) /\ Len(s) = l /\ l \in Nat /\ l # 0 /\ IsSeq(u) /\ u \in Views
    <3>1. IsSeq(s) /\ Len(s) = l
      BY <1>1, <2>1 DEF PipeInv, ResultOK
    <3>2. u \in Views /\ u # <<>>
      BY <1>1, <2>1 DEF CohortInv, CohortTypes, Shape
    <3>3. IsSeq(u) /\ l \in Nat /\ l # 0
      BY <2>1, <3>2 DEF Views, IsSeq
    <3> QED
      BY <3>1, <3>2, <3>3
  <2>3. /\ Len(Tail(s)) = l - 1 /\ \A i \in 1..(l - 1) : Tail(s)[i] = s[i + 1]
        /\ IsSeq(Tail(s)) /\ DOMAIN Tail(s) = 1..(l - 1)
    <3>1. IsSeq(s) /\ s # <<>>
      BY <2>2
    <3> QED
      BY <2>2, <3>1, SeqFacts DEF IsSeq
  <2>4. Len(Tail(u)) = l - 1 /\ \A i \in 1..(l - 1) : Tail(u)[i] = u[i + 1]
    <3>1. IsSeq(u) /\ u # <<>>
      BY <2>1, <2>2
    <3> QED
      BY <2>1, <2>2, <3>1, SeqFacts
  <2>5. ASSUME NEW i \in 1..(l - 1), status'[views'[i].seq] # "FINISHED"
        PROVE  result'[i] = <<views'[i].seq, views'[i].num_tokens>>
    <3>1. views'[i] = u[i + 1] /\ result'[i] = s[i + 1]
      BY <1>3, <2>1, <2>3, <2>4
    <3>2. i + 1 \in DOMAIN result /\ i + 1 \in 1..Len(u)
      BY <2>1, <2>2 DEF IsSeq
    <3>3. PICK r : r = u[i + 1].seq
      OBVIOUS
    <3>4. r \in Requests
      <4>1. u \in Seq(ViewType) /\ i + 1 \in 1..Len(u)
        BY <2>1, <2>2, <3>2, RowsOfTypes
      <4>2. u[i + 1] \in ViewType
        BY <4>1
      <4> QED
        BY <3>3, <4>2 DEF ViewType
    <3>5. status[r] # "FINISHED"
      BY <1>1, <1>2, <2>5, <3>1, <3>3, <3>4
    <3>6. s[i + 1] = <<u[i + 1].seq, u[i + 1].num_tokens>>
      BY <1>1, <2>1, <3>2, <3>3, <3>5 DEF PipeInv, ResultOK, OutputCorrect
    <3> QED
      BY <3>1, <3>6
  <2>6. Len(result') = l - 1 /\ Len(views') = l - 1 /\ IsSeq(result') /\ DOMAIN result' = 1..(l - 1)
    BY <1>3, <2>1, <2>3, <2>4
  <2>7. phase' # "post"
    BY <1>1
  <2> QED
    BY <2>5, <2>6, <2>7 DEF ResultOK, OutputCorrect
<1>13. TightOK'
  <2>1. ASSUME NEW q \in Requests, status'[q] # "FINISHED"
        PROVE  Tight(block_table'[q], num_tokens'[q] - 1 + Ahead(q)')
    <3>1. CASE q = c
      <4>1. /\ status[c] # "FINISHED" /\ block_table'[c] = block_table[c]
            /\ num_tokens'[c] = num_tokens[c] + 1 /\ num_tokens[c] \in Nat
            /\ pending'[c] = pending[c] - 1 /\ pending[c] \in 1..2
            /\ c \in ToSet(live) /\ c \notin ToSet(running)
        BY <1>1, <1>2, <2>1, <3>1
      <4>2. Tight(block_table[c], num_tokens[c] - 1 + pending[c])
        BY <1>3, <4>1 DEF PipeInv, TightOK, Ahead
      <4>3. Ahead(c)' = pending[c] - 1
        BY <1>1, <4>1 DEF Ahead
      <4>4. (num_tokens[c] + 1) - 1 + (pending[c] - 1) = num_tokens[c] - 1 + pending[c]
        BY <4>1
      <4> QED
        BY <3>1, <4>1, <4>2, <4>3, <4>4
    <3>2. CASE q # c
      <4>1. Ahead(q)' = Ahead(q) /\ num_tokens'[q] = num_tokens[q] /\ block_table'[q] = block_table[q]
            /\ status'[q] = status[q]
        BY <1>1, <1>2, <3>2 DEF Ahead
      <4> QED
        BY <2>1, <4>1 DEF PipeInv, TightOK
    <3> QED
      BY <3>1, <3>2
  <2> QED
    BY <1>1, <2>1 DEF TightOK, PipeInv
<1>14. DecodeOK'
  BY <1>1 DEF DecodeOK
<1> QED
  BY <1>4, <1>8, <1>10, <1>11, <1>12, <1>13, <1>14, HostStep

(* The cohort's schedule(): every view that grows gets the one block it    *)
(* needs, and the positions computed so far stay where they are.           *)
LEMMA LastNeeded ==
  ASSUME NEW l \in Nat, NEW v \in Nat, l < (v + BlockSize - 1) \div BlockSize
  PROVE  l * BlockSize < v
<1>1. PICK b, q, m : b = BlockSize /\ q = (v + b - 1) \div b /\ m = (v + b - 1) % b
  OBVIOUS
<1>2. b \in Nat /\ b > 1
  BY <1>1, ConfigAssumption
<1>3. v + b - 1 \in Nat
  BY <1>2
<1>4. v + b - 1 = b * q + m /\ m >= 0 /\ q \in Int /\ m \in Int
  BY <1>1, <1>2, <1>3, Euclid
<1>5. PICK e \in Nat : q = l + 1 + e
  <2>1. q - l - 1 \in Nat
    BY <1>1, <1>4
  <2> QED
    BY <1>4, <2>1
<1>6. b * q = l * b + b + e * b /\ e * b >= 0 /\ l * b \in Nat
  BY <1>2, <1>5
<1> QED
  BY <1>1, <1>2, <1>4, <1>6

LEMMA LookedFacts ==
  ASSUME EngineInv, PipeInv, Look, async_schedule
  PROVE  /\ ~Serial /\ ~Serial' /\ CohortInv /\ phase = "idle" /\ phase' = "idle"
         /\ loop = "lookahead" /\ loop' = "execute" /\ Queued < 2
         /\ Len(dispatched) \in {0, 1} /\ Len(dispatched') = Len(dispatched) + 1
         /\ \A k \in 1..Len(dispatched) : dispatched'[k] = dispatched[k]
         /\ dispatched'[Len(dispatched) + 1]
              = [k \in 1..Len(Ready) |-> View(Ready[k], block_table'[Ready[k]])]
         /\ UNCHANGED <<runnerVars, outputs, result, queueVars, seqVars, batch_queue, live, views>>
         /\ \A r \in Requests :
              /\ pending'[r] = (IF r \in ToSet(Ready) THEN pending[r] + 1 ELSE pending[r])
              /\ IF r \in ToSet(Growing) THEN \E e \in Blocks : block_table'[r] = Append(block_table[r], e)
                 ELSE block_table'[r] = block_table[r]
<1>1. /\ InSchedulableCohort /\ CohortFits
      /\ block_table' = Grown(free_block_ids, block_table, Growing)
      /\ pending' = [r \in Requests |-> IF r \in ToSet(Ready) THEN pending[r] + 1 ELSE pending[r]]
      /\ dispatched' = Append(dispatched,
                         [k \in 1..Len(Ready) |-> View(Ready[k], block_table'[Ready[k]])])
      /\ phase = "idle" /\ phase' = "idle" /\ ~Serial /\ ~Serial'
      /\ UNCHANGED <<queueVars, seqVars, batch_queue, live, views>>
  BY DEF async_schedule, InSchedulableCohort, driverVars, Grown, Serial
<1>2. /\ loop = "lookahead" /\ LookFurther /\ UNCHANGED <<runnerVars, outputs, result>>
      /\ loop' = "execute"
  BY <1>1 DEF Look, async_schedule_empty
<1>3. CohortInv
  BY <1>1 DEF EngineInv, AsyncInv
<1>4. Len(dispatched) \in {0, 1} /\ dispatched \in Seq(Views)
  BY <1>1, <1>3, RoomForABatch DEF CohortFits, CohortInv, CohortTypes
<1>5. PICK b : b = [k \in 1..Len(Ready) |-> View(Ready[k], block_table'[Ready[k]])]
  OBVIOUS
<1>6. /\ Len(dispatched') = Len(dispatched) + 1
      /\ \A k \in 1..Len(dispatched) : dispatched'[k] = dispatched[k]
      /\ dispatched'[Len(dispatched) + 1] = b
  <2>1. PICK q : q = dispatched
    OBVIOUS
  <2>2. q \in Seq(Views) /\ IsSeq(q)
    BY <1>4, <2>1 DEF IsSeq
  <2>3. Len(Append(q, b)) = Len(q) + 1 /\ Append(q, b)[Len(q) + 1] = b
        /\ \A k \in 1..Len(q) : Append(q, b)[k] = q[k]
    BY <2>2, SeqGrows
  <2> QED
    BY <1>1, <1>5, <2>1, <2>3
<1>7. Queued < 2
  BY <1>1, <1>4 DEF Queued
<1>8. \A r \in Requests :
        IF r \in ToSet(Growing) THEN \E e \in Blocks : block_table'[r] = Append(block_table[r], e)
        ELSE block_table'[r] = block_table[r]
  <2>1. /\ free_block_ids \in Seq(Blocks) /\ block_table \in [Requests -> Seq(Blocks)]
        /\ Growing \in Seq(Requests) /\ Distinct(Growing) /\ Len(Growing) <= Len(free_block_ids)
        /\ Conserved(free_block_ids, block_table)
    <3>1. CohortTypes /\ AsyncBlocksConserved
      BY <1>3 DEF CohortInv
    <3>2. Conserved(free_block_ids, block_table)
      BY <3>1 DEF AsyncBlocksConserved, Conserved
    <3> QED
      BY <1>1, <1>3, <3>1, <3>2, ReadyOnes DEF CohortFits, CohortTypes
  <2>2. PICK f, t, s : f = free_block_ids /\ t = block_table /\ s = Growing
    OBVIOUS
  <2>3. /\ f \in Seq(Blocks) /\ t \in [Requests -> Seq(Blocks)] /\ s \in Seq(Requests)
        /\ Distinct(s) /\ Len(s) <= Len(f) /\ Conserved(f, t)
    BY <2>1, <2>2
  <2>4. \A r \in Requests : IF r \in ToSet(s) THEN \E e \in Blocks : Grown(f, t, s)[r] = Append(t[r], e)
                            ELSE Grown(f, t, s)[r] = t[r]
    BY <2>3, GrowTables
  <2> QED
    BY <1>1, <2>2, <2>4
<1> QED
  BY <1>1, <1>2, <1>3, <1>4, <1>5, <1>6, <1>7, <1>8

LEMMA LookOnly ==
  ASSUME EngineInv, PipeInv, Look, async_schedule
  PROVE  PipeInv'
<1>1. /\ ~Serial /\ ~Serial' /\ CohortInv /\ phase = "idle" /\ phase' = "idle"
      /\ loop = "lookahead" /\ loop' = "execute" /\ Queued < 2
      /\ Len(dispatched) \in {0, 1} /\ Len(dispatched') = Len(dispatched) + 1
      /\ \A k \in 1..Len(dispatched) : dispatched'[k] = dispatched[k]
      /\ dispatched'[Len(dispatched) + 1]
           = [k \in 1..Len(Ready) |-> View(Ready[k], block_table'[Ready[k]])]
      /\ UNCHANGED <<runnerVars, outputs, result, queueVars, seqVars, batch_queue, live, views>>
      /\ \A r \in Requests :
           /\ pending'[r] = (IF r \in ToSet(Ready) THEN pending[r] + 1 ELSE pending[r])
           /\ IF r \in ToSet(Growing) THEN \E e \in Blocks : block_table'[r] = Append(block_table[r], e)
              ELSE block_table'[r] = block_table[r]
  BY LookedFacts
<1>2. PICK n : n = Len(outputs)
  OBVIOUS
<1>3. /\ 0 <= Done - Len(copies) /\ n - 0 = n /\ n \in 0..2 /\ n = Queued /\ Queued \in 0..2
      /\ n = Len(dispatched) /\ Queued' = n + 1
  <2>1. PICK q : q = Queued
    OBVIOUS
  <2>2. q = n + (IF loop = "execute" THEN 1 ELSE 0) /\ q \in 0..2 /\ n \in 0..2
    BY <1>2, <2>1, NoneTaken
  <2>3. q = n /\ n - 0 = n
    BY <1>1, <2>2
  <2>4. q = Len(dispatched) /\ Queued' = Len(dispatched')
    BY <1>1, <2>1 DEF Queued
  <2> QED
    BY <1>1, <2>1, <2>2, <2>3, <2>4, NoneTaken
<1>4. \A k \in 1..n : /\ Rows(k)' = Rows(k) /\ Prompt(k)' = Prompt(k)
                      /\ \A q : Gain(q, k)' = Gain(q, k)
  <2> TAKE k \in 1..n
  <2>1. dispatched'[k] = dispatched[k]
    BY <1>1, <1>3
  <2>2. Rows(k)' = Rows(k) /\ Prompt(k)' = Prompt(k)
    BY <1>1, <2>1 DEF Rows, Prompt, ViewRow
  <2>3. \A q : Gain(q, k)' = Gain(q, k)
    BY <1>1, <2>2 DEF Gain, InBatch, RowCount
  <2> QED
    BY <2>2, <2>3
<1>5. SameWork(0)
  <2>1. /\ UNCHANGED <<decode_cpu, deviceVars, input_batch>> /\ Len(outputs') = n - 0
        /\ \A k \in 1..(n - 0) :
             outputs'[k] = outputs[k + 0] /\ Rows(k)' = Rows(k + 0) /\ Prompt(k)' = Prompt(k + 0)
    BY <1>1, <1>2, <1>3, <1>4 DEF runnerVars, hostVars
  <2> QED
    BY <1>2, <2>1 DEF SameWork
<1>6. ASSUME NEW q \in Requests
      PROVE  /\ block_table[q] \in Seq(Blocks) /\ block_table'[q] \in Seq(Blocks)
             /\ \A i \in 1..Len(block_table[q]) : block_table'[q][i] = block_table[q][i]
             /\ Len(block_table[q]) \in Nat
             /\ IF q \in ToSet(Growing) THEN Len(block_table'[q]) = Len(block_table[q]) + 1
                ELSE block_table'[q] = block_table[q]
  <2>1. block_table[q] \in Seq(Blocks)
    BY PipeTypes
  <2>2. CASE q \in ToSet(Growing)
    <3>1. PICK t, e : t = block_table[q] /\ e \in Blocks /\ block_table'[q] = Append(t, e)
      BY <1>1, <2>2
    <3>2. t \in Seq(Blocks) /\ e \in Blocks
      BY <2>1, <3>1
    <3>3. /\ Append(t, e) \in Seq(Blocks) /\ Len(Append(t, e)) = Len(t) + 1 /\ Len(t) \in Nat
          /\ \A i \in 1..Len(t) : Append(t, e)[i] = t[i]
      BY <3>2
    <3> QED
      BY <2>1, <2>2, <3>1, <3>3
  <2>3. CASE q \notin ToSet(Growing)
    BY <1>1, <2>1, <2>3
  <2> QED
    BY <2>2, <2>3
<1>7. ASSUME NEW q \in Requests, status'[q] # "FINISHED" PROVE SameProgress(q, 0)
  <2>1. /\ status[q] # "FINISHED" /\ num_tokens'[q] = num_tokens[q]
        /\ num_cached_tokens'[q] = num_cached_tokens[q] /\ Taken(q)' = Taken(q)
        /\ input_batch' = input_batch
    BY <1>1, <1>7 DEF seqVars, runnerVars, hostVars, Taken
  <2>2. \A d \in 0..n : Landed(q, d)' = Landed(q, d)
    BY <1>3, <1>4, <2>1, LandedKept
  <2>3. \A d \in 0..(n - 0) : Landed(q, d)' = Landed(q, d + 0)
    BY <1>3, <2>2
  <2>4. \A p \in 0..(Reached(q) - 1) :
          block_table'[q][p \div BlockSize + 1] = block_table[q][p \div BlockSize + 1]
    <3>1. PICK d, l, k : d = Done /\ l = Reached(q) /\ k = Len(block_table[q])
      OBVIOUS
    <3>2. d \in 0..2 /\ d <= Queued
      <4>1. Done \in 0..2 /\ Done = Len(outputs) - Flying /\ Flying \in 0..2
        <5>1. 0 \in {0, 1} /\ 0 <= Done - Len(copies)
          BY <1>3
        <5> QED
          BY <1>5, <5>1, SameFlight
      <4>2. PICK f : f = Flying
        OBVIOUS
      <4>3. d = n - f /\ f \in 0..2 /\ d \in 0..2 /\ n \in 0..2
        BY <1>2, <1>3, <3>1, <4>1, <4>2
      <4>4. d <= n
        BY <4>3
      <4> QED
        BY <1>3, <4>3, <4>4
    <3>3. Landed(q, d) <= Len(block_table[q]) * BlockSize
      <4>1. Queued <= 2
        BY <1>3
      <4> QED
        BY <2>1, <3>2, <4>1, LandedCovered
    <3>4. l <= k * BlockSize /\ l \in Nat /\ k \in Nat
      <4>1. Landed(q, d) \in Nat
        BY <3>2, LandedTypes
      <4> QED
        BY <1>6, <3>1, <3>3, <4>1 DEF Reached
    <3> TAKE p \in 0..(Reached(q) - 1)
    <3>5. p \in Nat /\ p < l
      BY <3>1, <3>4
    <3>6. k * BlockSize \in Nat
      BY <3>4, ConfigAssumption
    <3>7. p < k * BlockSize
      BY <3>4, <3>5, <3>6
    <3>8. p \div BlockSize + 1 \in 1..k
      BY <3>4, <3>5, <3>7, BlockIndex
    <3> QED
      BY <1>6, <3>1, <3>8
  <2>5. q \notin Users(input_batch') => num_cached_tokens'[q] = 0
    BY <2>1 DEF PipeInv, DeviceOK
  <2> QED
    BY <1>2, <2>1, <2>3, <2>4, <2>5 DEF SameProgress
<1>8. Handles'
  <2>1. /\ outputs' = outputs /\ buf_idx' = buf_idx /\ Len(outputs') = n
        /\ phase' \notin {"decode", "prefill"} /\ n + 1 <= 2
    BY <1>1, <1>2, <1>3 DEF runnerVars, hostVars
  <2>2. Queued' = Len(outputs') + (IF loop' = "execute" THEN 1 ELSE 0) /\ Queued' <= 2
    BY <1>1, <1>3, <2>1
  <2> QED
    BY <2>1, <2>2 DEF Handles, PipeInv
<1>9. ResultOK'
  BY <1>1 DEF ResultOK, OutputCorrect, PipeInv
<1>10. /\ Ready \in Seq(Requests) /\ ToSet(Ready) = {r \in ToSet(live) : HasMore(r)}
       /\ ToSet(Growing) = {r \in ToSet(Ready) : Len(block_table[r]) < view_blocks(r)}
       /\ running = <<>> /\ running' = <<>> /\ ToSet(running) = {} /\ live' = live
  <2>1. running = <<>>
    BY <1>1 DEF CohortInv, Still
  <2> QED
    BY <1>1, <2>1, ReadyOnes, EmptyQueue DEF queueVars
<1>11. ASSUME NEW q \in ToSet(Ready), q \in Requests
       PROVE  /\ Tight(block_table'[q], view_tokens(q)) /\ view_tokens(q) \in Nat
              /\ view_tokens(q) >= 1
              /\ view_tokens(q) = num_tokens'[q] - 1 + Ahead(q)'
  <2>1. /\ q \in ToSet(live) /\ q \notin ToSet(running) /\ status[q] # "FINISHED"
        /\ num_tokens[q] \in Nat /\ pending[q] \in 0..2 /\ num_tokens[q] >= 1
    <3>1. q \in ToSet(live) /\ q \notin ToSet(running) /\ status[q] # "FINISHED"
      BY <1>10, <1>11 DEF HasMore
    <3>2. num_tokens[q] \in Nat /\ pending[q] \in 0..2 /\ num_cached_tokens[q] \in Nat
          /\ Account(q)
      BY <1>1, <1>11 DEF CohortInv, CohortTypes
    <3> QED
      BY <3>1, <3>2 DEF Account
  <2>2. PICK v, l : v = view_tokens(q) /\ l = Len(block_table[q])
    OBVIOUS
  <2>3. v = num_tokens[q] + pending[q] /\ v \in Nat /\ v >= 1 /\ l \in Nat
    BY <1>6, <1>11, <2>1, <2>2 DEF view_tokens
  <2>4. num_tokens'[q] - 1 + Ahead(q)' = v
    <3>1. Ahead(q)' = pending[q] + 1 /\ num_tokens'[q] = num_tokens[q]
      BY <1>1, <1>10, <1>11, <2>1 DEF Ahead, seqVars
    <3> QED
      BY <2>1, <2>3, <3>1
  <2>5. Tight(block_table'[q], v)
    <3>1. CASE q \in ToSet(Growing)
      <4>1. l < view_blocks(q)
        BY <1>10, <2>2, <3>1
      <4>2. l < (v + BlockSize - 1) \div BlockSize
        BY <2>2, <4>1 DEF view_blocks
      <4>3. l * BlockSize < v
        BY <2>3, <4>2, LastNeeded
      <4>4. Len(block_table'[q]) - 1 = l
        BY <1>6, <1>11, <2>2, <2>3, <3>1
      <4> QED
        BY <4>3, <4>4 DEF Tight
    <3>2. CASE q \notin ToSet(Growing)
      <4>1. block_table'[q] = block_table[q]
        BY <1>6, <1>11, <3>2
      <4>2. Tight(block_table[q], num_tokens[q] - 1 + pending[q])
        BY <1>11, <2>1 DEF PipeInv, TightOK, Ahead
      <4>3. PICK w : w = (l - 1) * BlockSize
        OBVIOUS
      <4>4. w \in Int
        BY <2>3, <4>3, ConfigAssumption
      <4>5. block_table[q] = <<>> \/ w < num_tokens[q] - 1 + pending[q]
        BY <2>2, <4>2, <4>3 DEF Tight
      <4>6. block_table[q] = <<>> \/ w < v
        BY <2>1, <2>3, <4>4, <4>5
      <4> QED
        BY <2>2, <4>1, <4>3, <4>6 DEF Tight
    <3> QED
      BY <3>1, <3>2
  <2> QED
    BY <2>2, <2>3, <2>4, <2>5
<1>12. TightOK'
  <2>1. ASSUME NEW q \in Requests, status'[q] # "FINISHED"
        PROVE  Tight(block_table'[q], num_tokens'[q] - 1 + Ahead(q)')
    <3>1. CASE q \in ToSet(Ready)
      BY <1>11, <3>1
    <3>2. CASE q \notin ToSet(Ready)
      <4>1. /\ Ahead(q)' = Ahead(q) /\ num_tokens'[q] = num_tokens[q]
            /\ block_table'[q] = block_table[q] /\ status[q] # "FINISHED"
        BY <1>1, <1>10, <2>1, <3>2 DEF Ahead, seqVars
      <4> QED
        BY <4>1 DEF PipeInv, TightOK
    <3> QED
      BY <3>1, <3>2
  <2>2. ASSUME NEW i \in 1..Len(dispatched'), NEW k \in 1..Len(dispatched'[i])
        PROVE  /\ Tight(dispatched'[i][k].block_table, dispatched'[i][k].num_tokens)
               /\ dispatched'[i][k].num_tokens >= 1
    <3>1. CASE i \in 1..Len(dispatched)
      BY <1>1, <2>2, <3>1 DEF PipeInv, TightOK
    <3>2. CASE i = Len(dispatched) + 1
      <4>1. PICK N : N = Len(Ready)
        OBVIOUS
      <4>2. dispatched'[i] = [j \in 1..N |-> View(Ready[j], block_table'[Ready[j]])]
        BY <1>1, <3>2, <4>1
      <4>3. N \in Nat /\ Len(dispatched'[i]) = N
        <5>1. N \in Nat
          BY <1>10, <4>1
        <5>2. PICK f : f = [j \in 1..N |-> View(Ready[j], block_table'[Ready[j]])]
          OBVIOUS
        <5>3. Len(f) = N
          BY <5>1, <5>2
        <5> QED
          BY <4>2, <5>1, <5>2, <5>3
      <4>4. k \in 1..N
        BY <2>2, <4>3
      <4>5. PICK q : q = Ready[k]
        OBVIOUS
      <4>6. q \in Requests /\ q \in ToSet(Ready)
        BY <1>10, <4>1, <4>4, <4>5, ToSetDef
      <4>7. dispatched'[i][k] = View(q, block_table'[q])
        BY <4>2, <4>4, <4>5
      <4>8. /\ dispatched'[i][k].block_table = block_table'[q]
            /\ dispatched'[i][k].num_tokens = view_tokens(q)
        BY <4>7 DEF View
      <4> QED
        BY <1>11, <4>6, <4>8
    <3> QED
      BY <1>1, <2>2, <3>1, <3>2
  <2> QED
    BY <2>1, <2>2 DEF TightOK
<1>13. DecodeOK'
  BY <1>1 DEF DecodeOK
<1> QED
  BY <1>3, <1>5, <1>7, <1>8, <1>9, <1>12, <1>13, HostStep

-----------------------------------------------------------------------------
(* execute_model() and sample_tokens()                                     *)

(* execute_model() and sample_tokens() are called on the newest batch.     *)
LEMMA BatchToRun ==
  ASSUME EngineInv, PipeInv, ExecuteOwners \/ ExecuteViews
  PROVE  /\ loop = "execute" /\ loop' # "execute" /\ phase = "idle"
         /\ UNCHANGED <<asyncVars, result>> /\ outputs' = Append(outputs, buf_idx)
         /\ Queued \in 1..2 /\ Queued = Len(outputs) + 1
         /\ execute_and_sample(Rows(Queued), Prompt(Queued), Finished)
<1>1. /\ loop = "execute" /\ loop' # "execute" /\ UNCHANGED <<asyncVars, result>>
      /\ outputs' = Append(outputs, buf_idx)
  BY DEF ExecuteOwners, ExecuteViews
<1>2. phase = "idle"
  BY <1>1 DEF EngineInv, LoopOK
<1>3. PICK n, q : n = Len(outputs) /\ q = Queued
  OBVIOUS
<1>4. q \in 1..2 /\ q = n + 1
  <2>1. q = n + (IF loop = "execute" THEN 1 ELSE 0) /\ q \in 0..2 /\ n \in 0..2
    BY <1>3, NoneTaken
  <2> QED
    BY <1>1, <2>1
<1>5. CASE ExecuteOwners
  <2>1. Serial
    BY <1>5 DEF ExecuteOwners
  <2>2. q = Len(batch_queue) /\ batch_queue \in Seq(Batch) /\ q \in 1..Len(batch_queue)
    BY <1>3, <1>4, <2>1, PipeTypes DEF Queued
  <2>3. PICK b : b = batch_queue[q]
    OBVIOUS
  <2>4. b \in Batch /\ Last(batch_queue) = b
    BY <2>2, <2>3 DEF Last
  <2>5. b.seqs \in Seq(Requests) /\ b.is_prefill \in BOOLEAN
    BY <2>4 DEF Batch
  <2>6. Prompt(q) = b.is_prefill
    BY <2>1, <2>3, <2>5 DEF Prompt
  <2>7. [i \in DOMAIN b.seqs |-> OwnerRow(b.seqs[i])] = Rows(q)
    <3>1. PICK s : s = b.seqs
      OBVIOUS
    <3>2. DOMAIN s = 1..Len(s)
      BY <2>5, <3>1
    <3>3. Rows(q) = [i \in 1..Len(s) |-> OwnerRow(s[i])]
      BY <2>1, <2>3, <3>1, SerialRows
    <3> QED
      BY <3>1, <3>2, <3>3
  <2>8. execute_and_sample([i \in DOMAIN b.seqs |-> OwnerRow(b.seqs[i])], b.is_prefill, Finished)
    BY <1>5, <2>4 DEF ExecuteOwners
  <2>9. execute_and_sample(Rows(q), Prompt(q), Finished)
    BY <2>6, <2>7, <2>8
  <2> QED
    BY <1>1, <1>2, <1>3, <1>4, <2>9
<1>6. CASE ExecuteViews
  <2>1. ~Serial
    BY <1>6 DEF ExecuteViews
  <2>2. q = Len(dispatched) /\ dispatched \in Seq(Views) /\ q \in 1..Len(dispatched)
    BY <1>3, <1>4, <2>1, PipeTypes DEF Queued
  <2>3. PICK b : b = dispatched[q]
    OBVIOUS
  <2>4. b \in Views /\ Last(dispatched) = b
    BY <2>2, <2>3 DEF Last
  <2>5. Prompt(q) = FALSE
    BY <2>1 DEF Prompt
  <2>6. [i \in DOMAIN b |-> ViewRow(b[i])] = Rows(q)
    <3>1. DOMAIN b = 1..Len(b)
      BY <2>4, RowsOfTypes
    <3>2. Rows(q) = [i \in 1..Len(b) |-> ViewRow(b[i])]
      BY <2>1, <2>3, ViewRows
    <3> QED
      BY <3>1, <3>2
  <2>7. execute_and_sample([i \in DOMAIN b |-> ViewRow(b[i])], FALSE, Finished)
    BY <1>6, <2>4 DEF ExecuteViews
  <2>8. execute_and_sample(Rows(q), Prompt(q), Finished)
    BY <2>5, <2>6, <2>7
  <2> QED
    BY <1>1, <1>2, <1>3, <1>4, <2>8
<1> QED
  BY <1>5, <1>6

(* A request without a slot gets one, and starts; the others keep theirs.  *)
LEMMA BatchSlots ==
  ASSUME EngineInv, PipeInv, loop = "execute", Queued \in 1..2
  PROVE  LET rows == Rows(Queued)
             jb == update(input_batch, rows)
             given == {rows[i].seq : i \in 1..Len(rows)}
         IN  /\ remove_finished(Finished) = input_batch
             /\ OneSlot(input_batch) /\ OneSlot(jb) /\ Users(jb) = Users(input_batch) \cup given
             /\ \A s \in Slots : input_batch[s].seq \in Requests => jb[s].seq = input_batch[s].seq
             /\ \A s \in Slots : jb[s].seq \in given \/ jb[s] = input_batch[s]
             /\ Len(rows) \in 1..MaxNumSeqs /\ DOMAIN rows = 1..Len(rows)
             /\ \A i, j \in 1..Len(rows) : rows[i].seq = rows[j].seq => i = j
             /\ \A i \in 1..Len(rows) :
                  /\ rows[i].seq \in Requests
                  /\ \/ rows[i].seq \in Users(input_batch)
                     \/ /\ status[rows[i].seq] # "FINISHED" /\ Prompt(Queued)
                        /\ rows[i].first = 0 /\ Landed(rows[i].seq, Queued - 1) = 0
<1>1. PICK rows, q : rows = Rows(q) /\ q = Queued
  OBVIOUS
<1>2. BatchOK(q) /\ q \in 1..2 /\ Queued <= 2
  <2>1. Queued <= 2 /\ q \in 1..Queued
    BY <1>1
  <2> QED
    BY <1>1, <2>1, BatchesOK DEF PipeInv
<1>3. /\ Len(rows) \in 1..MaxNumSeqs /\ DOMAIN rows = 1..Len(rows)
      /\ \A i, j \in 1..Len(rows) : rows[i].seq = rows[j].seq => i = j
      /\ \A i \in 1..Len(rows) : RowOK(rows[i], q) /\ rows[i].seq \in Requests
  BY <1>1, <1>2 DEF BatchOK, RowOK
<1>4. remove_finished(Finished) = input_batch
  BY NoneToRemove
<1>5. OneSlot(input_batch) /\ SlotsHeld
  BY DEF EngineInv, SlotInv
<1>6. \E w \in BOOLEAN, all \in SUBSET Requests :
        /\ \A i \in 1..Len(rows) : rows[i].view = w /\ rows[i].seq \in all
        /\ Cardinality(all) <= MaxNumSeqs /\ Users(input_batch) \subseteq all
        /\ ~Serial => \A i \in 1..Len(rows) : rows[i].seq \in Users(input_batch)
  <2>1. CASE Serial
    <3>1. PICK b : b = batch_queue[q].seqs
      OBVIOUS
    <3>2. q = Len(batch_queue) /\ Last(batch_queue).seqs = b
      BY <1>1, <2>1, <3>1 DEF Queued, Last
    <3>3. /\ b \in Seq(Requests) /\ ToSet(b) \subseteq SlotOwners
          /\ Cardinality(SlotOwners) <= MaxNumSeqs /\ SlotOwners \subseteq Requests
      BY <2>1, <3>2, OwnersToRun
    <3>4. /\ Len(rows) = Len(b)
          /\ \A i \in 1..Len(b) : rows[i] = OwnerRow(b[i]) /\ rows[i].seq = b[i]
      BY <1>1, <2>1, <3>1, <3>3, SerialRows
    <3>5. ASSUME NEW i \in 1..Len(b) PROVE rows[i].view = FALSE /\ rows[i].seq \in SlotOwners
      <4>1. PICK x, r : x = rows[i] /\ r = b[i]
        OBVIOUS
      <4>2. x = OwnerRow(r) /\ x.seq = r
        BY <3>4, <4>1
      <4>3. x.view = FALSE
        BY <4>2 DEF OwnerRow
      <4>4. r \in ToSet(b)
        BY <3>3, <4>1, ToSetDef
      <4> QED
        BY <3>3, <4>1, <4>2, <4>3, <4>4
    <3>6. Users(input_batch) \subseteq SlotOwners
      BY <1>5 DEF SlotsHeld
    <3> QED
      BY <2>1, <3>3, <3>4, <3>5, <3>6
  <2>2. CASE ~Serial
    <3>1. PICK b : b = dispatched[q]
      OBVIOUS
    <3>2. q = Len(dispatched) /\ Last(dispatched) = b
      BY <1>1, <2>2, <3>1 DEF Queued, Last
    <3>3. b \in Views /\ \A k \in 1..Len(b) : b[k].seq \in Users(input_batch)
      BY <2>2, <3>2, ViewsToRun
    <3>4. /\ Len(rows) = Len(b)
          /\ \A i \in 1..Len(b) : rows[i] = ViewRow(b[i]) /\ rows[i].seq = b[i].seq
      BY <1>1, <2>2, <3>1, <3>3, ViewRows
    <3>5. ASSUME NEW i \in 1..Len(b)
          PROVE  rows[i].view = TRUE /\ rows[i].seq \in Users(input_batch)
      <4>1. PICK x, v : x = rows[i] /\ v = b[i]
        OBVIOUS
      <4>2. x = ViewRow(v) /\ x.seq = v.seq
        BY <3>4, <4>1
      <4>3. x.view = TRUE
        BY <4>2 DEF ViewRow
      <4> QED
        BY <3>3, <4>1, <4>2, <4>3
    <3>6. Cardinality(Users(input_batch)) <= MaxNumSeqs /\ Users(input_batch) \subseteq Requests
      <4>1. /\ Cardinality(Users(input_batch)) \in Nat /\ Cardinality(FreeSlots(input_batch)) \in Nat
            /\ Cardinality(Users(input_batch)) + Cardinality(FreeSlots(input_batch)) = MaxNumSeqs
        BY <1>5, SlotCount
      <4> QED
        BY <4>1, ConfigAssumption DEF Users
    <3> QED
      BY <3>4, <3>5, <3>6
  <2> QED
    BY <2>1, <2>2
<1>7. PICK w \in BOOLEAN, all \in SUBSET Requests :
        /\ \A i \in 1..Len(rows) : rows[i].view = w /\ rows[i].seq \in all
        /\ Cardinality(all) <= MaxNumSeqs /\ Users(input_batch) \subseteq all
        /\ ~Serial => \A i \in 1..Len(rows) : rows[i].seq \in Users(input_batch)
  BY <1>6
<1>8. LET jb == update(input_batch, rows)
          given == {rows[i].seq : i \in 1..Len(rows)}
      IN  /\ OneSlot(jb) /\ Users(jb) = Users(input_batch) \cup given
          /\ \A s \in Slots : IF jb[s].seq \in given THEN jb[s].view = w ELSE jb[s] = input_batch[s]
          /\ \A s \in Slots : input_batch[s].seq \in Requests => jb[s].seq = input_batch[s].seq
  <2>1. /\ Len(rows) \in Nat
        /\ \A i \in 1..Len(rows) : rows[i].seq \in Requests /\ rows[i].view = w
        /\ \A i \in 1..Len(rows) : rows[i].seq \in all
        /\ all \subseteq Requests /\ Cardinality(all) <= MaxNumSeqs /\ Users(input_batch) \subseteq all
    BY <1>3, <1>7
  <2> QED
    BY <1>5, <2>1, Updated
<1>9. ASSUME NEW i \in 1..Len(rows), rows[i].seq \notin Users(input_batch)
      PROVE  /\ status[rows[i].seq] # "FINISHED" /\ Prompt(q)
             /\ rows[i].first = 0 /\ Landed(rows[i].seq, q - 1) = 0
  <2>1. Serial
    BY <1>7, <1>9
  <2>2. PICK b, x, r : b = batch_queue[q].seqs /\ x = rows[i] /\ r = x.seq
    OBVIOUS
  <2>3. q = Len(batch_queue) /\ q \in 1..Len(batch_queue) /\ q <= 2 /\ Last(batch_queue).seqs = b
    BY <1>1, <1>2, <2>1, <2>2 DEF Queued, Last
  <2>4. b \in Seq(Requests)
    BY <2>1, <2>3, OwnersToRun
  <2>5. Len(rows) = Len(b) /\ x = OwnerRow(b[i]) /\ r = b[i] /\ b[i] \in ToSet(b)
    BY <1>1, <1>9, <2>1, <2>2, <2>4, SerialRows, ToSetDef
  <2>6. status[r] # "FINISHED" /\ r \in Requests
    BY <2>1, <2>2, <2>3, <2>5, QueuedRow
  <2>7. num_cached_tokens[r] = 0
    BY <1>9, <2>2, <2>6 DEF PipeInv, DeviceOK
  <2>8. x.first = 0
    <3>1. x = OwnerRow(r)
      BY <2>5
    <3> QED
      BY <2>7, <3>1 DEF OwnerRow
  <2>9. x.first = Landed(r, q - 1) /\ (x.first = 0 => Prompt(q))
    BY <1>3, <2>2, <2>6 DEF RowOK
  <2> QED
    BY <2>2, <2>6, <2>8, <2>9
<1> QED
  BY <1>1, <1>3, <1>4, <1>5, <1>8, <1>9

(* What the call changes: the buffer, the staging, two items on the stream. *)
Executes(n, m, rows, slots, new, P, F) ==
  /\ n \in 0..1 /\ m \in 0..1
  /\ n = Len(outputs) /\ m = Len(stream) /\ m <= n /\ Queued = n + 1 /\ rows = Rows(n + 1)
  /\ Flying = m /\ Done = n - m /\ Flying' = m + 1 /\ Done' = n - m
  /\ outputs' \in Seq(0..1) /\ Len(outputs') = n + 1 /\ outputs'[n + 1] = buf_idx
  /\ n = 1 => outputs'[1] = outputs[1] /\ outputs[1] = 1 - buf_idx
  /\ buf_idx \in 0..1 /\ buf_idx' = 1 - buf_idx
  /\ IsSeq(stream') /\ Len(stream') = m + 2 /\ stream'[m + 1] = P /\ stream'[m + 2] = F
  /\ m = 1 => stream'[1] = stream[1]
  /\ ~prepared' /\ input_batch' = update(input_batch, rows)
  /\ slots = [i \in DOMAIN rows |-> CHOOSE s \in Slots : input_batch'[s].seq = rows[i].seq]
  /\ new = [s \in Slots |-> input_batch[s].seq # input_batch'[s].seq]
  /\ decode_cpu' = IF Prompt(n + 1) THEN decode_cpu
                   ELSE [i \in Slots |->
                           IF i \in DOMAIN rows
                           THEN [seq_len |-> rows[i].len, last_block |-> Last(rows[i].table)]
                           ELSE decode_cpu[i]]
  /\ P.kind = "prepare" /\ P.rows = rows /\ P.slots = slots
  /\ P.is_prefill = Prompt(n + 1) /\ P.buf = buf_idx
  /\ P.fresh = {i \in DOMAIN rows : new[slots[i]]}
  /\ P.reset = reset_slots(new, rows, slots, Prompt(n + 1))
  /\ F.kind = "forward" /\ F.rows = rows /\ F.slots = slots
  /\ F.is_prefill = Prompt(n + 1) /\ F.buf = buf_idx
  /\ UNCHANGED <<copies, decode_gpu, gdn, sampled_token_ids, kv, output_buf>>

LEMMA ExecuteFacts ==
  ASSUME EngineInv, PipeInv, ExecuteOwners \/ ExecuteViews
  PROVE  \E n, m, rows, slots, new, P, F : Executes(n, m, rows, slots, new, P, F)
<1>1. /\ loop = "execute" /\ loop' # "execute" /\ phase = "idle"
      /\ outputs' = Append(outputs, buf_idx)
      /\ Queued \in 1..2 /\ Queued = Len(outputs) + 1
      /\ execute_and_sample(Rows(Queued), Prompt(Queued), Finished)
  BY BatchToRun
<1>2. PICK n, m, q, f, rows : /\ n = Len(outputs) /\ m = Len(stream) /\ q = Queued
                              /\ f = Flying /\ rows = Rows(q)
  OBVIOUS
<1>3. n \in 0..1 /\ q = n + 1
  <2>1. q \in 1..2 /\ q = n + 1 /\ n \in Nat
    BY <1>1, <1>2, LenProperties DEF PipeInv, Handles
  <2> QED
    BY <2>1
<1>4. remove_finished(Finished) = input_batch
  BY <1>1, NoneToRemove
<1>5. PICK slots, new, P, F :
        /\ prepared /\ ~prepared'
        /\ input_batch' = update(input_batch, rows) /\ buf_idx' = 1 - buf_idx
        /\ slots = [i \in DOMAIN rows |-> CHOOSE s \in Slots : input_batch'[s].seq = rows[i].seq]
        /\ new = [s \in Slots |-> input_batch[s].seq # input_batch'[s].seq]
        /\ decode_cpu' = IF Prompt(q) THEN decode_cpu
                         ELSE [i \in Slots |->
                                 IF i \in DOMAIN rows
                                 THEN [seq_len |-> rows[i].len, last_block |-> Last(rows[i].table)]
                                 ELSE decode_cpu[i]]
        /\ P = [kind |-> "prepare", rows |-> rows, slots |-> slots, is_prefill |-> Prompt(q),
                fresh |-> {i \in DOMAIN rows : new[slots[i]]},
                reset |-> reset_slots(new, rows, slots, Prompt(q)), buf |-> buf_idx]
        /\ F = [kind |-> "forward", rows |-> rows, slots |-> slots, is_prefill |-> Prompt(q),
                buf |-> buf_idx]
        /\ stream' = stream \o <<P, F>>
        /\ UNCHANGED <<copies, decode_gpu, gdn, sampled_token_ids, kv, output_buf>>
  <2>1. execute_and_sample(rows, Prompt(q), Finished)
    BY <1>1, <1>2
  <2> DEFINE ib == update(input_batch, rows)
             slots == [i \in DOMAIN rows |-> CHOOSE s \in Slots : ib[s].seq = rows[i].seq]
             new == [s \in Slots |-> input_batch[s].seq # ib[s].seq]
             P == [kind |-> "prepare", rows |-> rows, slots |-> slots, is_prefill |-> Prompt(q),
                   fresh |-> {i \in DOMAIN rows : new[slots[i]]},
                   reset |-> reset_slots(new, rows, slots, Prompt(q)), buf |-> buf_idx]
             F == [kind |-> "forward", rows |-> rows, slots |-> slots, is_prefill |-> Prompt(q),
                   buf |-> buf_idx]
  <2>2. /\ prepared /\ ~prepared'
        /\ input_batch' = ib /\ buf_idx' = 1 - buf_idx
        /\ decode_cpu' = IF Prompt(q) THEN decode_cpu
                         ELSE [i \in Slots |->
                                 IF i \in DOMAIN rows
                                 THEN [seq_len |-> rows[i].len, last_block |-> Last(rows[i].table)]
                                 ELSE decode_cpu[i]]
        /\ stream' = stream \o <<P, F>>
        /\ UNCHANGED <<copies, decode_gpu, gdn, sampled_token_ids, kv, output_buf>>
    BY <2>1, <1>4 DEF execute_and_sample, InputPrep, NextBuffer
  <2>3. /\ slots = [i \in DOMAIN rows |-> CHOOSE s \in Slots : input_batch'[s].seq = rows[i].seq]
        /\ new = [s \in Slots |-> input_batch[s].seq # input_batch'[s].seq]
    BY <2>2
  <2>4. /\ P = [kind |-> "prepare", rows |-> rows, slots |-> slots, is_prefill |-> Prompt(q),
                fresh |-> {i \in DOMAIN rows : new[slots[i]]},
                reset |-> reset_slots(new, rows, slots, Prompt(q)), buf |-> buf_idx]
        /\ F = [kind |-> "forward", rows |-> rows, slots |-> slots, is_prefill |-> Prompt(q),
                buf |-> buf_idx]
    OBVIOUS
  <2> HIDE DEF slots, new, P, F
  <2> QED
    BY <2>2, <2>3, <2>4
<1>6. /\ outputs \in Seq(0..1) /\ buf_idx \in 0..1 /\ IsSeq(stream) /\ m \in 0..3
      /\ (prepared <=> m < 2) /\ f <= n /\ (n = 1 => outputs[1] = 1 - buf_idx)
  BY <1>2, <1>3 DEF PipeInv, Handles, StreamOK
<1>7. m \in 0..1 /\ f = m /\ m <= n
  <2>1. m \in 0..1
    BY <1>5, <1>6
  <2>2. f = IF m = 0 THEN 0 ELSE IF m < 3 THEN 1 ELSE 2
    BY <1>2 DEF Flying
  <2>3. f = m
    BY <2>1, <2>2
  <2> QED
    BY <1>6, <2>1, <2>3
<1>8. /\ outputs' \in Seq(0..1) /\ Len(outputs') = n + 1 /\ outputs'[n + 1] = buf_idx
      /\ n = 1 => outputs'[1] = outputs[1]
  BY <1>1, <1>2, <1>3, <1>6, AppendProperties
<1>9. /\ IsSeq(stream') /\ Len(stream') = m + 2 /\ stream'[m + 1] = P /\ stream'[m + 2] = F
      /\ m = 1 => stream'[1] = stream[1]
  <2>1. PICK s, t : s = stream /\ t = stream' /\ t = s \o <<P, F>>
    BY <1>5
  <2>2. IsSeq(s) /\ Len(s) = m
    BY <1>2, <1>6, <2>1
  <2>3. /\ IsSeq(t) /\ Len(t) = m + 2 /\ t[m + 1] = P /\ t[m + 2] = F
        /\ \A i \in 1..m : t[i] = s[i]
    BY <2>1, <2>2, SeqGrowsTwo
  <2> QED
    BY <1>7, <2>1, <2>3
<1>10. Flying' = m + 1
  <2>1. PICK l : l = Len(stream')
    OBVIOUS
  <2>2. Flying' = IF l = 0 THEN 0 ELSE IF l < 3 THEN 1 ELSE 2
    BY <2>1 DEF Flying
  <2>3. l = m + 2
    BY <1>9, <2>1
  <2> QED
    BY <1>7, <2>2, <2>3
<1>11. Done = n - m
  BY <1>2, <1>7 DEF Done
<1>12. Done' = n - m
  <2>1. PICK a, b : a = Len(outputs') /\ b = Flying'
    OBVIOUS
  <2>2. a = n + 1 /\ b = m + 1 /\ Done' = a - b
    BY <1>8, <1>10, <2>1 DEF Done
  <2> QED
    BY <1>3, <1>7, <2>2
<1>13. /\ P.kind = "prepare" /\ P.rows = rows /\ P.slots = slots
       /\ P.is_prefill = Prompt(q) /\ P.buf = buf_idx
       /\ P.fresh = {i \in DOMAIN rows : new[slots[i]]}
       /\ P.reset = reset_slots(new, rows, slots, Prompt(q))
       /\ F.kind = "forward" /\ F.rows = rows /\ F.slots = slots
       /\ F.is_prefill = Prompt(q) /\ F.buf = buf_idx
  BY <1>5
<1>14. /\ n = Len(outputs) /\ m = Len(stream) /\ m <= n /\ Queued = n + 1 /\ rows = Rows(n + 1)
       /\ Flying = m /\ Prompt(n + 1) = Prompt(q)
  BY <1>2, <1>3, <1>7
<1>15. Executes(n, m, rows, slots, new, P, F)
  BY <1>3, <1>5, <1>6, <1>7, <1>8, <1>9, <1>10, <1>11, <1>12, <1>13, <1>14 DEF Executes
<1> QED
  BY <1>15

(* A row whose request had no slot is a fresh one, and no other is.        *)
LEMMA ExecuteSlots ==
  ASSUME EngineInv, PipeInv, ExecuteOwners \/ ExecuteViews,
         NEW n, NEW m, NEW rows, NEW slots, NEW new, NEW P, NEW F,
         Executes(n, m, rows, slots, new, P, F)
  PROVE  /\ OneSlot(input_batch') /\ Users(input_batch) \subseteq Users(input_batch')
         /\ \A s \in Slots : input_batch[s].seq \in Requests => input_batch'[s].seq = input_batch[s].seq
         /\ Len(rows) \in 1..MaxNumSeqs /\ DOMAIN rows = 1..Len(rows) /\ DOMAIN slots = DOMAIN rows
         /\ \A i, j \in DOMAIN rows : rows[i].seq = rows[j].seq => i = j
         /\ \A r \in Users(input_batch') \ Users(input_batch) : \E i \in DOMAIN rows : rows[i].seq = r
         /\ \A i \in DOMAIN rows :
              /\ slots[i] \in Slots /\ input_batch'[slots[i]].seq = rows[i].seq
              /\ rows[i].seq \in Requests /\ rows[i].seq \in Users(input_batch')
              /\ new[slots[i]] <=> rows[i].seq \notin Users(input_batch)
              /\ rows[i].seq \notin Users(input_batch) =>
                   /\ status[rows[i].seq] # "FINISHED" /\ Prompt(n + 1)
                   /\ rows[i].first = 0 /\ Landed(rows[i].seq, n) = 0
<1>1. loop = "execute" /\ Queued \in 1..2
  BY BatchToRun
<1>2. /\ n \in 0..1 /\ Queued = n + 1 /\ rows = Rows(Queued) /\ input_batch' = update(input_batch, rows)
      /\ slots = [i \in DOMAIN rows |-> CHOOSE s \in Slots : input_batch'[s].seq = rows[i].seq]
      /\ new = [s \in Slots |-> input_batch[s].seq # input_batch'[s].seq]
  BY DEF Executes
<1>3. PICK given : given = {rows[i].seq : i \in 1..Len(rows)}
  OBVIOUS
<1>4. /\ OneSlot(input_batch) /\ OneSlot(input_batch')
      /\ Users(input_batch') = Users(input_batch) \cup given
      /\ \A s \in Slots : input_batch[s].seq \in Requests => input_batch'[s].seq = input_batch[s].seq
      /\ Len(rows) \in 1..MaxNumSeqs /\ DOMAIN rows = 1..Len(rows)
      /\ \A i, j \in 1..Len(rows) : rows[i].seq = rows[j].seq => i = j
      /\ \A i \in 1..Len(rows) :
           /\ rows[i].seq \in Requests
           /\ \/ rows[i].seq \in Users(input_batch)
              \/ /\ status[rows[i].seq] # "FINISHED" /\ Prompt(Queued)
                 /\ rows[i].first = 0 /\ Landed(rows[i].seq, Queued - 1) = 0
  BY <1>1, <1>2, <1>3, BatchSlots
<1>5. Queued - 1 = n
  BY <1>2
<1>6. ASSUME NEW i \in DOMAIN rows
      PROVE  /\ slots[i] \in Slots /\ input_batch'[slots[i]].seq = rows[i].seq
             /\ rows[i].seq \in Requests /\ rows[i].seq \in Users(input_batch')
             /\ new[slots[i]] <=> rows[i].seq \notin Users(input_batch)
  <2>1. PICK r : r = rows[i].seq
    OBVIOUS
  <2>2. r \in Requests /\ r \in Users(input_batch')
    BY <1>3, <1>4, <1>6, <2>1
  <2>3. \E s \in Slots : input_batch'[s].seq = r
    BY <2>2 DEF Users
  <2>4. slots[i] = CHOOSE s \in Slots : input_batch'[s].seq = r
    BY <1>2, <1>6, <2>1
  <2>5. slots[i] \in Slots /\ input_batch'[slots[i]].seq = r
    BY <2>3, <2>4
  <2>6. new[slots[i]] <=> input_batch[slots[i]].seq # r
    BY <1>2, <2>5
  <2>7. ASSUME r \in Users(input_batch) PROVE input_batch[slots[i]].seq = r
    <3>1. PICK s \in Slots : input_batch[s].seq = r
      BY <2>7 DEF Users
    <3>2. input_batch'[s].seq = r
      BY <1>4, <2>2, <3>1
    <3>3. s = slots[i]
      BY <1>4, <2>2, <2>5, <3>2 DEF OneSlot
    <3> QED
      BY <3>1, <3>3
  <2>8. ASSUME input_batch[slots[i]].seq = r PROVE r \in Users(input_batch)
    BY <2>2, <2>5, <2>8 DEF Users
  <2> QED
    BY <2>1, <2>2, <2>5, <2>6, <2>7, <2>8
<1>7. DOMAIN slots = DOMAIN rows
  BY <1>2
<1>8. \A r \in Users(input_batch') \ Users(input_batch) : \E i \in DOMAIN rows : rows[i].seq = r
  BY <1>3, <1>4
<1>9. ASSUME NEW i \in DOMAIN rows, rows[i].seq \notin Users(input_batch)
      PROVE  /\ status[rows[i].seq] # "FINISHED" /\ Prompt(n + 1)
             /\ rows[i].first = 0 /\ Landed(rows[i].seq, n) = 0
  <2>1. i \in 1..Len(rows)
    BY <1>4, <1>9
  <2>2. /\ status[rows[i].seq] # "FINISHED" /\ Prompt(Queued)
        /\ rows[i].first = 0 /\ Landed(rows[i].seq, Queued - 1) = 0
    BY <1>4, <1>9, <2>1
  <2> QED
    BY <1>2, <1>5, <2>2
<1> QED
  BY <1>4, <1>6, <1>7, <1>8, <1>9
LEMMA ExecuteItems ==
  ASSUME EngineInv, PipeInv, ExecuteOwners \/ ExecuteViews,
         NEW n, NEW m, NEW rows, NEW slots, NEW new, NEW P, NEW F,
         Executes(n, m, rows, slots, new, P, F)
  PROVE  /\ PrepareOK(P, n + 1)' /\ ForwardOK(F, n + 1)'
         /\ m = 1 => ForwardOK(stream[1], 1)'
<1>1. /\ DOMAIN slots = DOMAIN rows
      /\ \A s \in Slots : input_batch[s].seq \in Requests => input_batch'[s].seq = input_batch[s].seq
      /\ \A i \in DOMAIN rows :
           /\ slots[i] \in Slots /\ input_batch'[slots[i]].seq = rows[i].seq
           /\ new[slots[i]] => Prompt(n + 1) /\ rows[i].first = 0
  BY ExecuteSlots
<1>2. /\ rows = Rows(n + 1) /\ outputs'[n + 1] = buf_idx
      /\ P.kind = "prepare" /\ P.rows = rows /\ P.slots = slots
      /\ P.is_prefill = Prompt(n + 1) /\ P.buf = buf_idx
      /\ P.fresh = {i \in DOMAIN rows : new[slots[i]]}
      /\ P.reset = reset_slots(new, rows, slots, Prompt(n + 1))
      /\ F.kind = "forward" /\ F.rows = rows /\ F.slots = slots
      /\ F.is_prefill = Prompt(n + 1) /\ F.buf = buf_idx
  BY DEF Executes
<1>3. \A k : Rows(k)' = Rows(k) /\ Prompt(k)' = Prompt(k)
  <2>1. UNCHANGED asyncVars
    BY BatchToRun
  <2> QED
    BY <2>1, QuietRows DEF asyncVars, cohortVars, vars, queueVars, seqVars, blockVars, driverVars
<1>4. ItemOK(P, n + 1)' /\ ItemOK(F, n + 1)'
  BY <1>1, <1>2, <1>3 DEF ItemOK
<1>5. Starting(P) = {i \in DOMAIN rows : Prompt(n + 1) /\ rows[i].first = 0}
  BY <1>2 DEF Starting
<1>6. P.fresh \subseteq Starting(P)
  BY <1>1, <1>2, <1>5
<1>7. P.reset = {P.slots[i] : i \in Starting(P)}
  <2>1. PICK J : J = {j \in DOMAIN rows : new[slots[j]] \/ (Prompt(n + 1) /\ rows[j].first = 0)}
    OBVIOUS
  <2>2. J = Starting(P)
    BY <1>1, <1>5, <2>1
  <2>3. reset_slots(new, rows, slots, Prompt(n + 1)) = {slots[i] : i \in J}
    BY <2>1 DEF reset_slots
  <2>4. P.reset = {P.slots[i] : i \in J}
    BY <1>2, <2>3
  <2> QED
    BY <2>2, <2>4
<1>8. PrepareOK(P, n + 1)' /\ ForwardOK(F, n + 1)'
  BY <1>2, <1>4, <1>6, <1>7 DEF PrepareOK, ForwardOK, Starting
<1>9. ASSUME m = 1 PROVE ForwardOK(stream[1], 1)'
  <2>1. PICK w : w = stream[1]
    OBVIOUS
  <2>2. n = 1 /\ Len(stream) = 1 /\ Len(outputs) = 1 /\ stream'[1] = w /\ outputs'[1] = outputs[1]
    BY <1>9, <2>1 DEF Executes
  <2>3. ForwardOK(w, 1)
    BY <2>1, <2>2 DEF PipeInv, StreamOK
  <2>4. \A i \in DOMAIN w.rows : w.rows[i].seq \in Requests
    <3>1. BatchOK(1)
      <4>1. Queued \in 1..2 /\ Queued <= 2 /\ 1 \in 1..Queued
        BY BatchToRun
      <4> QED
        BY <4>1, BatchesOK DEF PipeInv
    <3>2. w.rows = Rows(1)
      BY <2>3 DEF ForwardOK, ItemOK
    <3> QED
      BY <3>1, <3>2 DEF BatchOK, RowOK
  <2>5. /\ w.kind = "forward" /\ w.rows = Rows(1) /\ w.is_prefill = Prompt(1) /\ w.buf = outputs[1]
        /\ DOMAIN w.slots = DOMAIN w.rows
        /\ \A i \in DOMAIN w.rows :
             w.slots[i] \in Slots /\ input_batch[w.slots[i]].seq = w.rows[i].seq
    BY <2>3 DEF ForwardOK, ItemOK
  <2>6. /\ w.rows = Rows(1)' /\ w.is_prefill = Prompt(1)' /\ w.buf = outputs'[1]
    BY <1>3, <2>2, <2>5
  <2>7. ASSUME NEW i \in DOMAIN w.rows
        PROVE  w.slots[i] \in Slots /\ input_batch'[w.slots[i]].seq = w.rows[i].seq
    BY <1>1, <2>4, <2>5, <2>7
  <2>8. stream'[1] = w
    BY <2>2
  <2> QED
    BY <2>5, <2>6, <2>7, <2>8 DEF ForwardOK, ItemOK
<1> QED
  BY <1>8, <1>9

(* The stream and the staging after the call.                              *)
LEMMA ExecuteStream ==
  ASSUME EngineInv, PipeInv, ExecuteOwners \/ ExecuteViews,
         NEW n, NEW m, NEW rows, NEW slots, NEW new, NEW P, NEW F,
         Executes(n, m, rows, slots, new, P, F)
  PROVE  StreamOK' /\ StagingOK'
<1>1. /\ n \in 0..1 /\ m \in 0..1 /\ m <= n /\ Len(outputs') = n + 1 /\ Len(stream') = m + 2
      /\ IsSeq(stream') /\ ~prepared' /\ Flying' = m + 1 /\ Done = n - m /\ Done' = n - m
      /\ stream'[m + 1] = P /\ stream'[m + 2] = F
      /\ decode_gpu' = decode_gpu /\ Len(stream) = m /\ rows = Rows(n + 1)
  BY DEF Executes
<1>2. \A k : Rows(k)' = Rows(k) /\ Prompt(k)' = Prompt(k)
  <2>1. UNCHANGED asyncVars
    BY BatchToRun
  <2> QED
    BY <2>1, QuietRows DEF asyncVars, cohortVars, vars, queueVars, seqVars, blockVars, driverVars
<1>3. StreamOK'
  <2>1. /\ PrepareOK(P, n + 1)' /\ ForwardOK(F, n + 1)'
        /\ m = 1 => ForwardOK(stream[1], 1)'
    BY ExecuteItems
  <2>2. Len(stream') \in 0..3 /\ (prepared' <=> Len(stream') < 2) /\ Flying' <= Len(outputs')
    BY <1>1
  <2>3. PICK l, k : l = Len(stream') /\ k = Len(outputs')
    OBVIOUS
  <2>4. l = m + 2 /\ l - 1 = m + 1 /\ k = n + 1 /\ (l = 3 => m = 1 /\ k - 1 = 1)
    BY <1>1, <2>3
  <2>5. stream'[l] = F /\ stream'[l - 1] = P
    BY <1>1, <2>4
  <2>6. ForwardOK(F, k)' /\ PrepareOK(P, k)' /\ (l = 3 => ForwardOK(stream[1], k - 1)')
    BY <2>1, <2>4 DEF ForwardOK, PrepareOK, ItemOK, Starting
  <2>7. ForwardOK(stream[Len(stream)], Len(outputs))'
    BY <2>3, <2>5, <2>6 DEF ForwardOK, ItemOK
  <2>8. PrepareOK(stream[Len(stream) - 1], Len(outputs))'
    BY <2>3, <2>5, <2>6 DEF PrepareOK, ItemOK, Starting
  <2>9. Len(stream') = 3 => ForwardOK(stream[1], Len(outputs) - 1)'
    BY <2>3, <2>6 DEF ForwardOK, ItemOK
  <2> QED
    BY <1>1, <2>2, <2>7, <2>8, <2>9 DEF StreamOK
<1>4. StagingOK'
  <2>1. ~Prompt(n + 1) => \A i \in DOMAIN Rows(n + 1) : decode_cpu'[i] = Stage(Rows(n + 1)[i])
    <3>1. SUFFICES ASSUME ~Prompt(n + 1), NEW i \in DOMAIN rows
                   PROVE  decode_cpu'[i] = Stage(rows[i])
      BY <1>1
    <3>2. i \in Slots
      <4>1. Len(rows) \in 1..MaxNumSeqs /\ DOMAIN rows = 1..Len(rows)
        BY ExecuteSlots
      <4> QED
        BY <3>1, <4>1, ConfigAssumption DEF Slots
    <3>3. decode_cpu' = [j \in Slots |->
                           IF j \in DOMAIN rows
                           THEN [seq_len |-> rows[j].len, last_block |-> Last(rows[j].table)]
                           ELSE decode_cpu[j]]
      BY <3>1 DEF Executes
    <3> QED
      BY <3>1, <3>2, <3>3 DEF Stage
  <2>2. m = 1 /\ ~Prompt(Done + 1) =>
          \A i \in DOMAIN Rows(Done + 1) : decode_gpu[i] = Stage(Rows(Done + 1)[i])
    BY <1>1 DEF PipeInv, StagingOK
  <2>3. PICK d, l, k : d = n - m /\ l = Len(stream') /\ k = Len(outputs')
    OBVIOUS
  <2>4. d = Done /\ d = Done' /\ l = m + 2 /\ k = n + 1 /\ (l \in {1, 3} => m = 1)
    BY <1>1, <2>3
  <2>5. ~Prompt(k)' => \A i \in DOMAIN Rows(k)' : decode_cpu'[i] = Stage(Rows(k)'[i])
    BY <1>2, <2>1, <2>4
  <2>6. l \in {1, 3} /\ ~Prompt(d + 1)' =>
          \A i \in DOMAIN Rows(d + 1)' : decode_gpu'[i] = Stage(Rows(d + 1)'[i])
    BY <1>1, <1>2, <2>2, <2>4
  <2> QED
    BY <2>3, <2>4, <2>5, <2>6 DEF StagingOK, Stage
<1> QED
  BY <1>3, <1>4

(* What has landed stays; a new slot will hold the request's last token.   *)
LEMMA ExecuteDevice ==
  ASSUME EngineInv, PipeInv, ExecuteOwners \/ ExecuteViews,
         NEW n, NEW m, NEW rows, NEW slots, NEW new, NEW P, NEW F,
         Executes(n, m, rows, slots, new, P, F)
  PROVE  DeviceOK'
<1>1. UNCHANGED asyncVars
  BY BatchToRun
<1>2. /\ n \in 0..1 /\ m \in 0..1 /\ m <= n /\ Len(stream') = m + 2 /\ Len(stream) = m
      /\ Done = n - m /\ Done' = n - m /\ stream'[m + 1] = P /\ (m = 1 => stream'[1] = stream[1])
      /\ UNCHANGED <<gdn, sampled_token_ids, kv>> /\ Len(outputs) = n
      /\ P.rows = rows /\ P.fresh = {i \in DOMAIN rows : new[slots[i]]}
  BY DEF Executes
<1>3. PICK k : k = n - m
  OBVIOUS
<1>4. k \in 0..1 /\ k = Done /\ k = Done' /\ k <= n
  BY <1>2, <1>3
<1>5. \A r, d : Landed(r, d)' = Landed(r, d)
  <2>1. \A r, j : Gain(r, j)' = Gain(r, j)
    BY <1>1, QuietRows DEF asyncVars, cohortVars, vars, queueVars, seqVars, blockVars, driverVars
  <2>2. \A r : Taken(r)' = Taken(r)
    BY <1>1 DEF Taken, Serial, asyncVars, cohortVars, vars, queueVars, seqVars, blockVars, driverVars
  <2> QED
    BY <1>1, <2>1, <2>2 DEF Landed, asyncVars, vars, seqVars
<1>6. \A r : Reached(r)' = Reached(r)
  BY <1>4, <1>5 DEF Reached, Landed
<1>7. ASSUME NEW r, NextHas(r)' PROVE NextHas(r) /\ m = 1
  <2>1. Len(stream') \in {1, 3}
    BY <1>7 DEF NextHas
  <2>2. m = 1
    BY <1>2, <2>1
  <2> QED
    BY <1>2, <1>7, <2>2 DEF NextHas
<1>8. ASSUME NEW r PROVE ~Awaited(r)
  BY <1>2 DEF Awaited
<1>9. UNCHANGED <<status, num_tokens, num_cached_tokens, block_table>>
  BY <1>1 DEF asyncVars, vars, seqVars, blockVars
<1>10. ASSUME NEW r \in Requests, status[r] # "FINISHED"
       PROVE  /\ EntriesOK(r, Reached(r))'
              /\ \A s \in Slots : input_batch'[s].seq = r => SlotOK(s, r, Reached(r))'
              /\ r \notin Users(input_batch') => num_cached_tokens'[r] = 0
  <2>1. PICK d : d = Reached(r)
    OBVIOUS
  <2>2. d = Reached(r)'
    BY <1>6, <2>1
  <2>3. /\ EntriesOK(r, d)
        /\ \A s \in Slots : input_batch[s].seq = r => SlotOK(s, r, d)
        /\ r \notin Users(input_batch) => num_cached_tokens[r] = 0
    BY <1>10, <2>1 DEF PipeInv, DeviceOK
  <2>4. EntriesOK(r, Reached(r))'
    BY <1>2, <1>9, <2>2, <2>3 DEF EntriesOK
  <2>5. r \notin Users(input_batch') => num_cached_tokens'[r] = 0
    <3>1. Users(input_batch) \subseteq Users(input_batch')
      BY ExecuteSlots
    <3> QED
      BY <1>9, <2>3, <3>1
  <2>6. LastToken(r, d)' = LastToken(r, d)
    BY <1>9 DEF LastToken
  <2>7. ASSUME NEW s \in Slots, input_batch'[s].seq = r, r \in Users(input_batch)
        PROVE  SlotOK(s, r, d)'
    <3>1. PICK t \in Slots : input_batch[t].seq = r
      BY <2>7 DEF Users
    <3>2. input_batch'[t].seq = r /\ OneSlot(input_batch')
      BY <3>1, ExecuteSlots
    <3>3. s = t
      BY <2>7, <3>2 DEF OneSlot
    <3>4. SlotOK(s, r, d)
      BY <2>3, <3>1, <3>3
    <3>5. /\ d > 0 => gdn[s] = <<r, d>>
          /\ d = 0 /\ NextHas(r)' => gdn[s] = Zero
          /\ sampled_token_ids[s] = <<r, LastToken(r, d)>>
      BY <1>7, <1>8, <3>4 DEF SlotOK
    <3> QED
      BY <1>2, <2>6, <3>5 DEF SlotOK
  <2>8. ASSUME NEW s \in Slots, input_batch'[s].seq = r, r \notin Users(input_batch)
        PROVE  SlotOK(s, r, d)'
    <3>1. r \in Users(input_batch')
      BY <2>8 DEF Users
    <3>2. PICK i \in DOMAIN rows : rows[i].seq = r
      BY <2>8, <3>1, ExecuteSlots
    <3>3. new[slots[i]] /\ Landed(r, n) = 0
      BY <2>8, <3>2, ExecuteSlots
    <3>4. d = 0
      <4>1. /\ Landed(r, 0) \in Nat /\ Landed(r, 1) \in Nat /\ Gain(r, 1) \in Nat
            /\ Landed(r, 1) = Landed(r, 0) + Gain(r, 1)
        BY LandedTypes
      <4>2. d = Landed(r, k)
        BY <1>4, <2>1 DEF Reached
      <4>3. (k = n) \/ (k = 0 /\ n = 1)
        BY <1>2, <1>3
      <4> QED
        BY <3>3, <4>1, <4>2, <4>3
    <3>5. ~NextHas(r)'
      <4>1. SUFFICES ASSUME NextHas(r)' PROVE FALSE
        OBVIOUS
      <4>2. NextHas(r) /\ m = 1
        BY <1>7, <4>1
      <4>3. Len(stream) = 1 /\ Len(outputs) = 1
        BY <1>2, <4>2
      <4>4. ForwardOK(stream[1], 1)
        BY <4>3 DEF PipeInv, StreamOK
      <4>5. PICK j \in DOMAIN stream[1].rows : stream[1].rows[j].seq = r
        BY <4>2 DEF NextHas
      <4>6. stream[1].slots[j] \in Slots /\ input_batch[stream[1].slots[j]].seq = r
        BY <4>4, <4>5 DEF ForwardOK, ItemOK
      <4> QED
        BY <2>8, <4>6 DEF Users
    <3>6. Awaited(r)'
      <4>1. PICK l : l = Len(stream')
        OBVIOUS
      <4>2. l >= 2 /\ l - 1 = m + 1
        BY <1>2, <4>1
      <4>3. stream'[l - 1] = P
        BY <1>2, <4>2
      <4>4. i \in P.fresh /\ P.rows[i].seq = r
        BY <1>2, <3>2, <3>3
      <4> QED
        BY <4>1, <4>2, <4>3, <4>4 DEF Awaited
    <3> QED
      BY <3>4, <3>5, <3>6 DEF SlotOK
  <2>9. \A s \in Slots : input_batch'[s].seq = r => SlotOK(s, r, Reached(r))'
    <3>1. \A s \in Slots : input_batch'[s].seq = r => SlotOK(s, r, d)'
      BY <2>7, <2>8
    <3> QED
      BY <2>2, <3>1 DEF SlotOK, LastToken
  <2> QED
    BY <2>4, <2>5, <2>9
<1> QED
  BY <1>9, <1>10 DEF DeviceOK

LEMMA ExecuteOnly ==
  ASSUME EngineInv, PipeInv, ExecuteOwners \/ ExecuteViews
  PROVE  PipeInv'
<1>1. PICK n, m, rows, slots, new, P, F : Executes(n, m, rows, slots, new, P, F)
  BY ExecuteFacts
<1>2. /\ loop = "execute" /\ loop' # "execute" /\ phase = "idle"
      /\ UNCHANGED <<asyncVars, result>> /\ Queued = Len(outputs) + 1
  BY BatchToRun
<1>3. /\ \A k : Rows(k)' = Rows(k) /\ Prompt(k)' = Prompt(k)
      /\ \A r, k : Gain(r, k)' = Gain(r, k)
      /\ Queued' = Queued /\ Serial' = Serial
  BY <1>2, QuietRows DEF asyncVars, cohortVars, vars, queueVars, seqVars, blockVars, driverVars
<1>4. UNCHANGED <<status, num_tokens, num_cached_tokens, num_scheduled_tokens, is_prefill,
                  block_table, running, live, pending, dispatched, in_flight, phase, batch, views>>
  BY <1>2 DEF asyncVars, cohortVars, vars, queueVars, seqVars, blockVars, callVars, driverVars
<1>5. /\ n \in 0..1 /\ n = Len(outputs) /\ Queued = n + 1 /\ Len(outputs') = n + 1
      /\ outputs' \in Seq(0..1) /\ outputs'[n + 1] = buf_idx
      /\ n = 1 => outputs'[1] = outputs[1] /\ outputs[1] = 1 - buf_idx
      /\ buf_idx \in 0..1 /\ buf_idx' = 1 - buf_idx
      /\ m \in 0..1 /\ m <= n /\ Done = n - m /\ Done' = n - m /\ UNCHANGED <<copies, output_buf>>
  BY <1>1 DEF Executes
<1>6. Handles'
  <2>1. PICK k, q, b, c : k = Len(outputs') /\ q = Queued' /\ b = buf_idx /\ c = buf_idx'
    OBVIOUS
  <2>2. k = n + 1 /\ q = n + 1 /\ n \in 0..1 /\ b \in 0..1 /\ c = 1 - b
    BY <1>3, <1>5, <2>1
  <2>3. outputs'[k] = b /\ (n = 1 => outputs'[1] = 1 - b)
    BY <1>5, <2>1, <2>2
  <2>4. /\ k = n + 1 /\ q = k /\ q <= 2 /\ b \in 0..1 /\ c = 1 - b /\ c \in 0..1 /\ b = 1 - c
        /\ outputs'[k] = b /\ (k = 2 => outputs'[1] = 1 - b)
    BY <2>2, <2>3
  <2>5. /\ q = k /\ q <= 2 /\ c \in 0..1 /\ outputs'[k] = 1 - c /\ (k = 2 => outputs'[1] = c)
    BY <2>4
  <2>6. q = k + (IF loop' = "execute" THEN 1 ELSE 0)
    BY <1>2, <2>4, <1>5
  <2> QED
    BY <1>2, <1>4, <1>5, <2>1, <2>5, <2>6 DEF Handles
<1>7. StreamOK' /\ StagingOK'
  BY <1>1, ExecuteStream
<1>8. DeviceOK'
  BY <1>1, ExecuteDevice
<1>9. OutputsOK'
  <2>1. PICK d, c : d = Done /\ c = Len(copies)
    OBVIOUS
  <2>2. d = Done' /\ c = Len(copies') /\ d \in 0..n /\ c \in Nat
    <3>1. c \in Nat
      BY <2>1, SeqFacts DEF PipeInv, OutputsOK
    <3> QED
      BY <1>5, <2>1, <3>1
  <2>3. \A k \in 1..n : outputs'[k] = outputs[k]
    BY <1>5
  <2>4. \A k, u : Right(k, u)' <=> Right(k, u)
    BY <1>3, <1>4 DEF Right
  <2>5. /\ IsSeq(copies) /\ c <= d /\ DOMAIN output_buf = 0..1
        /\ \A j \in 1..c : /\ copies[j].buf = outputs[d - c + j]
                           /\ DOMAIN copies[j].tokens = DOMAIN Rows(d - c + j)
                           /\ Right(d - c + j, copies[j].tokens)
        /\ \A k \in 1..(d - c) : Right(k, output_buf[outputs[k]])
    BY <2>1 DEF PipeInv, OutputsOK
  <2>6. ASSUME NEW j \in 1..c
        PROVE  /\ copies[j].buf = outputs'[d - c + j]
               /\ DOMAIN copies[j].tokens = DOMAIN Rows(d - c + j)'
               /\ Right(d - c + j, copies[j].tokens)'
    <3>1. PICK k, e : k = d - c + j /\ e = copies[j]
      OBVIOUS
    <3>2. k \in 1..n
      BY <1>5, <2>2, <2>5, <3>1
    <3>3. e.buf = outputs'[k] /\ DOMAIN e.tokens = DOMAIN Rows(k)' /\ Right(k, e.tokens)'
      BY <1>3, <2>3, <2>4, <2>5, <3>1, <3>2
    <3> QED
      BY <1>5, <3>1, <3>3 DEF Right
  <2>7. ASSUME NEW k \in 1..(d - c) PROVE Right(k, output_buf[outputs[k]])'
    <3>1. k \in 1..n
      BY <1>5, <2>2
    <3>2. PICK u : u = output_buf[outputs[k]]
      OBVIOUS
    <3>3. Right(k, u)' /\ output_buf'[outputs'[k]] = u
      BY <1>5, <2>3, <2>4, <2>5, <3>1, <3>2
    <3> QED
      BY <3>3 DEF Right
  <2> QED
    BY <1>5, <2>2, <2>5, <2>6, <2>7 DEF OutputsOK
<1>10. ResultOK'
  BY <1>2, <1>4 DEF ResultOK, OutputCorrect, PipeInv
<1>11. TightOK'
  BY <1>4 DEF TightOK, Ahead, PipeInv
<1>12. DecodeOK'
  BY <1>3, <1>4 DEF DecodeOK, PipeInv
<1> QED
  BY <1>6, <1>7, <1>8, <1>9, <1>10, <1>11, <1>12 DEF PipeInv

-----------------------------------------------------------------------------
(* All steps together                                                      *)

LEMMA InScheduleOnly ==
  ASSUME EngineInv, PipeInv, InSchedule
  PROVE  PipeInv'
BY DecodeRowOnly, DecodePreemptOnly, PrefillRowOnly, QuietOnly DEF InSchedule

(* The two steps that may end the cohort.                                  *)
LEMMA LookEndOnly ==
  ASSUME EngineInv, PipeInv, LookNothing \/ LookDone
  PROVE  PipeInv'
<1>1. ASSUME LookNothing PROVE PipeInv'
  <2>1. /\ loop = "lookahead" /\ loop' = "fill" /\ end_async_decode
        /\ UNCHANGED <<runnerVars, outputs, result>>
    BY <1>1 DEF LookNothing
  <2> QED
    BY <2>1, EndOnly
<1>2. ASSUME LookDone, dispatched = <<>> PROVE PipeInv'
  <2>1. /\ loop = "retire" /\ loop' = "top" /\ end_async_decode
        /\ UNCHANGED <<runnerVars, outputs, result>>
    BY <1>2 DEF LookDone
  <2> QED
    BY <2>1, EndOnly
<1>3. ASSUME LookDone, dispatched # <<>> PROVE PipeInv'
  BY <1>3, QuietOnly
<1> QED
  BY <1>1, <1>2, <1>3

LEMMA InitPipe == EngineInit => PipeInv
<1> SUFFICES ASSUME EngineInit PROVE PipeInv
  OBVIOUS
<1>1. /\ live = <<>> /\ dispatched = <<>> /\ batch_queue = <<>> /\ batch = NoBatch /\ phase = "idle"
      /\ num_cached_tokens = [r \in Requests |-> 0] /\ block_table = [r \in Requests |-> <<>>]
      /\ in_flight = {} /\ views = <<>>
  BY DEF EngineInit, AsyncInit, Init
<1>2. /\ stream = <<>> /\ copies = <<>> /\ outputs = <<>> /\ result = <<>> /\ loop = "top"
      /\ prepared = TRUE /\ buf_idx = 0 /\ input_batch = [s \in Slots |-> Vacant]
      /\ output_buf = [b \in 0..1 |-> [i \in Slots |-> NoToken]]
  BY DEF EngineInit, RunnerInit
<1>3. /\ Serial /\ Queued = 0 /\ Flying = 0 /\ Done = 0
      /\ Len(stream) = 0 /\ Len(outputs) = 0 /\ Len(copies) = 0 /\ Len(result) = 0
      /\ Len(dispatched) = 0
  BY <1>1, <1>2 DEF Serial, Queued, Flying, Done
<1>4. \A s : s = <<>> => IsSeq(s)
  <2>1. <<>> \in Seq({})
    OBVIOUS
  <2> QED
    BY <2>1 DEF IsSeq
<1>5. Handles
  <2>1. <<>> \in Seq(0..1)
    OBVIOUS
  <2> QED
    BY <1>1, <1>2, <1>3, <2>1 DEF Handles
<1>6. StreamOK
  BY <1>2, <1>3, <1>4 DEF StreamOK
<1>7. StagingOK
  BY <1>3 DEF StagingOK
<1>8. DeviceOK
  <2>1. ASSUME NEW r \in Requests
        PROVE  /\ Reached(r) = 0 /\ \A s \in Slots : input_batch[s].seq # r
               /\ num_cached_tokens[r] = 0
    <3>1. Taken(r) = 0
      BY <1>1, <1>3, EmptyQueue DEF Taken, NoBatch
    <3>2. Reached(r) = 0
      BY <1>1, <1>3, <3>1 DEF Reached, Landed
    <3>3. \A s \in Slots : input_batch[s].seq # r
      BY <1>2, NoneAssumption DEF Vacant
    <3> QED
      BY <1>1, <3>2, <3>3
  <2> QED
    BY <2>1 DEF DeviceOK, EntriesOK
<1>9. OutputsOK
  BY <1>2, <1>3, <1>4 DEF OutputsOK
<1>10. ResultOK
  BY <1>1, <1>2, <1>4 DEF ResultOK, OutputCorrect
<1>11. TightOK
  BY <1>1, <1>3 DEF TightOK, Tight
<1>12. DecodeOK
  BY <1>1 DEF DecodeOK
<1> QED
  BY <1>5, <1>6, <1>7, <1>8, <1>9, <1>10, <1>11, <1>12 DEF PipeInv

LEMMA PipeStep == EngineInv /\ PipeInv /\ [EngineNext]_engineVars => PipeInv'
<1> SUFFICES ASSUME EngineInv, PipeInv, EngineNext \/ UNCHANGED engineVars PROVE PipeInv'
  OBVIOUS
<1>1. ASSUME \/ \E r \in Requests : add_request(r)
             \/ StepSerial \/ StepAsync \/ FillSchedule \/ ScheduleRaises \/ FillDone \/ ConsumeNothing
      PROVE  PipeInv'
  BY <1>1, QuietOnly
<1>2. ASSUME StepBegin PROVE PipeInv'
  BY <1>2, BeginOnly
<1>3. ASSUME InSchedule PROVE PipeInv'
  BY <1>3, InScheduleOnly
<1>4. ASSUME Scheduled PROVE PipeInv'
  BY <1>4, ScheduledOnly
<1>5. ASSUME ExecuteOwners \/ ExecuteViews PROVE PipeInv'
  BY <1>5, ExecuteOnly
<1>6. ASSUME Consume PROVE PipeInv'
  BY <1>6, ConsumeOnly
<1>7. ASSUME NEW eos \in BOOLEAN, PostprocessRow(eos) PROVE PipeInv'
  BY <1>7, PostprocessOnly
<1>8. ASSUME Look PROVE PipeInv'
  <2>1. async_schedule \/ async_schedule_empty
    BY <1>8 DEF Look
  <2> QED
    BY <1>8, <2>1, LookOnly, QuietOnly
<1>9. ASSUME LookNothing \/ LookDone PROVE PipeInv'
  BY <1>9, LookEndOnly
<1>10. ASSUME LookConsume PROVE PipeInv'
  BY <1>10, LookConsumeOnly
<1>11. ASSUME CommitResult PROVE PipeInv'
  BY <1>11, CommitOnly
<1>12. ASSUME Compute PROVE PipeInv'
  <2>1. PrepareInputs \/ Forward
    BY <1>12 DEF Compute
  <2> QED
    BY <1>12, <2>1, PrepareOnly, ForwardOnly
<1>13. ASSUME Copy PROVE PipeInv'
  BY <1>13, CopyOnly
<1>14. ASSUME UNCHANGED engineVars PROVE PipeInv'
  <2>1. /\ UNCHANGED <<asyncVars, loop, outputs, result, hostVars>>
        /\ UNCHANGED <<prepared, stream, copies, decode_cpu, decode_gpu, gdn, sampled_token_ids, kv,
                       output_buf, input_batch, status, block_table, num_tokens, num_cached_tokens>>
    BY <1>14 DEF engineVars, asyncVars, vars, seqVars, blockVars, runnerVars, hostVars, deviceVars
  <2>2. /\ \A k : Rows(k)' = Rows(k) /\ Prompt(k)' = Prompt(k)
        /\ \A r, d : Landed(r, d)' = Landed(r, d)
        /\ Handles' /\ TightOK' /\ DecodeOK' /\ ResultOK'
    BY <2>1, DeviceOnly DEF PipeInv
  <2>3. 0 <= Done - Len(copies) /\ Len(outputs) - 0 = Len(outputs) /\ Len(outputs) \in 0..2
    BY NoneTaken
  <2>4. UNCHANGED <<decode_cpu, deviceVars, outputs, input_batch>>
    BY <2>1 DEF deviceVars
  <2>5. SameWork(0)
    BY <2>2, <2>3, <2>4 DEF SameWork
  <2>6. ASSUME NEW r \in Requests, status'[r] # "FINISHED" PROVE SameProgress(r, 0)
    <3>1. r \notin Users(input_batch') => num_cached_tokens'[r] = 0
      BY <2>1, <2>6 DEF PipeInv, DeviceOK
    <3> QED
      BY <2>1, <2>2, <2>3, <2>6, <3>1 DEF SameProgress
  <2> QED
    BY <2>2, <2>3, <2>5, <2>6, HostStep
<1> QED
  BY <1>1, <1>2, <1>3, <1>4, <1>5, <1>6, <1>7, <1>8, <1>9, <1>10, <1>11, <1>12, <1>13, <1>14
     DEF EngineNext, Step

LEMMA PipeInvCorrect == EngineSpec => []PipeInv
<1>1. EngineInit => EngineInv /\ PipeInv
  BY InitEngineInv, InitPipe
<1>2. EngineInv /\ PipeInv /\ [EngineNext]_engineVars => EngineInv' /\ PipeInv'
  BY EngineInvStep, PipeStep
<1> QED
  BY <1>1, <1>2, PTL DEF EngineSpec

-----------------------------------------------------------------------------
(* The theorems                                                            *)

(* Between two calls of step() the runner's slots are held by exactly the  *)
(* requests that the scheduler counts against max_num_seqs.                *)
THEOREM SlotsAgreeAlways == EngineSpec => []SlotsAgree
<1>1. EngineInv => SlotsAgree
  <2> SUFFICES ASSUME EngineInv, loop = "top" PROVE {r \in Requests : HasSlot(r)} = SlotOwners
    BY DEF SlotsAgree
  <2>1. {r \in Requests : HasSlot(r)} = Users(input_batch)
    BY DEF HasSlot, Users
  <2>2. Unslotted = {}
    BY DEF Unslotted
  <2> QED
    BY <2>1, <2>2 DEF EngineInv, SlotInv, SlotsHeld
<1> QED
  BY <1>1, EngineInvCorrect, PTL

(* The rows about to be executed that have no slot find a free one each;   *)
(* a view's request has one.                                               *)
THEOREM SlotForEveryRowAlways == EngineSpec => []SlotForEveryRow
<1>1. EngineInv => SlotForEveryRow
  <2> SUFFICES ASSUME EngineInv, loop = "execute"
               PROVE  IF Serial
                      THEN Cardinality({r \in ToSet(Last(batch_queue).seqs) : ~HasSlot(r)})
                             <= Cardinality(FreeSlots(remove_finished(Finished)))
                      ELSE \A v \in ToSet(Last(dispatched)) : HasSlot(v.seq)
    BY DEF SlotForEveryRow
  <2>1. \A r \in Requests : HasSlot(r) <=> r \in Users(input_batch)
    BY DEF HasSlot, Users
  <2>2. CASE Serial
    <3> DEFINE q == Last(batch_queue).seqs
               U == Users(input_batch)
               new == {r \in ToSet(q) : ~HasSlot(r)}
    <3>1. /\ ToSet(q) \subseteq SlotOwners /\ SlotOwners \subseteq Requests
          /\ Cardinality(SlotOwners) <= MaxNumSeqs
      BY <2>2, OwnersToRun
    <3>2. OneSlot(input_batch) /\ U \subseteq SlotOwners
      BY DEF EngineInv, SlotInv, SlotsHeld
    <3>3. /\ IsFiniteSet(U) /\ Cardinality(U) \in Nat /\ Cardinality(FreeSlots(input_batch)) \in Nat
          /\ Cardinality(U) + Cardinality(FreeSlots(input_batch)) = MaxNumSeqs
      BY <3>2, SlotCount
    <3>4. IsFiniteSet(SlotOwners) /\ Cardinality(SlotOwners) \in Nat
      BY <3>1, ConfigAssumption, FS_Subset, FS_CardinalityType
    <3>5. new \subseteq SlotOwners \ U
      BY <2>1, <3>1
    <3> HIDE DEF q, U, new
    <3>6. SlotOwners \cap U = U
      BY <3>2
    <3>7. /\ IsFiniteSet(SlotOwners \ U)
          /\ Cardinality(SlotOwners \ U) = Cardinality(SlotOwners) - Cardinality(U)
      BY <3>3, <3>4, <3>6, FS_Difference
    <3>8. Cardinality(new) <= Cardinality(SlotOwners \ U) /\ Cardinality(new) \in Nat
      BY <3>5, <3>7, FS_Subset, FS_CardinalityType
    <3>9. Cardinality(new) <= Cardinality(FreeSlots(input_batch))
      BY <3>1, <3>3, <3>4, <3>7, <3>8, ConfigAssumption
    <3>10. remove_finished(Finished) = input_batch
      BY NoneToRemove
    <3> QED
      BY <2>2, <3>9, <3>10 DEF new, q
  <2>3. CASE ~Serial
    <3>1. \A v \in ToSet(Last(dispatched)) : v.seq \in Users(input_batch)
      BY <2>3, ViewsToRun
    <3>2. Users(input_batch) \subseteq Requests
      BY DEF Users
    <3> QED
      BY <2>1, <2>3, <3>1, <3>2
  <2> QED
    BY <2>2, <2>3
<1> QED
  BY <1>1, EngineInvCorrect, PTL

(* Every token that is appended to a history is the one the model computes *)
(* from exactly that history.                                              *)
THEOREM OutputCorrectAlways == EngineSpec => []OutputCorrect
<1>1. PipeInv => OutputCorrect
  BY DEF PipeInv, ResultOK
<1> QED
  BY <1>1, PipeInvCorrect, PTL
=============================================================================
