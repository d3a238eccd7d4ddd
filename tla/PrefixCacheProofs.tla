--------------------------- MODULE PrefixCacheProofs ---------------------------
(***************************************************************************)
(* Sharing is safe: reference counts are exact, no row writes to a block   *)
(* that another request has, and what is counted as cached is the KV of    *)
(* the request's own tokens -- for every number of requests, blocks and    *)
(* tokens.                                                                 *)
(*                                                                         *)
(* The invariant orders the blocks of a request by its progress: those     *)
(* computed in full carry the hash of its text up to their end, and so may *)
(* be shared; from the first one that is not, it is the only holder and    *)
(* nothing can find them (Chain).  A hashed block holds the KV of its hash *)
(* (HashedKV) and the index leads only to such blocks (IndexOK).           *)
(***************************************************************************)
EXTENDS PrefixCache, QueueLemmas, FiniteSetTheorems

-----------------------------------------------------------------------------
(* Positions and blocks                                                    *)

LEMMA Offset ==
  /\ 0 \in Offsets /\ 1 \in Offsets /\ BlockSize \in Nat \ {0}
  /\ \A o \in Offsets : o \in Nat /\ o < BlockSize
BY PrefixAssumption DEF Offsets

LEMMA BlockOfPosition ==
  ASSUME NEW p \in Nat
  PROVE  \E d \in Nat, m \in Offsets :
           /\ p = d * BlockSize + m
           /\ p \div BlockSize = d /\ p % BlockSize = m
<1>1. BlockSize \in Nat /\ BlockSize > 1
  BY PrefixAssumption
<1>2. ASSUME NEW b \in Nat, b > 1
      PROVE  \E d \in Nat, m \in 0..b - 1 :
               p = d * b + m /\ p \div b = d /\ p % b = m
  <2>1. p = b * (p \div b) + (p % b) /\ p % b \in 0..b - 1 /\ p \div b \in Int
    BY <1>2
  <2> DEFINE d == p \div b
             m == p % b
  <2>2. p = b * d + m /\ d \in Int /\ m \in 0..b - 1 /\ b > 1
    BY <1>2, <2>1
  <2>3. p \div b = d /\ p % b = m
    OBVIOUS
  <2> HIDE DEF d, m
  <2>4. b * d = d * b /\ b * d \in Int
    BY <2>2
  <2>5. d < 0 => b * d <= 0 - b
    BY <2>2
  <2>6. d >= 0
    BY <2>2, <2>4, <2>5
  <2>7. d \in Nat /\ m \in 0..b - 1 /\ p = d * b + m
    BY <2>2, <2>4, <2>6
  <2> QED
    BY <2>3, <2>7, Zenon
<1> QED
  BY <1>1, <1>2, Zenon DEF Offsets

LEMMA Products ==
  ASSUME NEW i \in Nat
  PROVE  /\ i * BlockSize \in Nat
         /\ (i + 1) * BlockSize = i * BlockSize + BlockSize
         /\ \A k \in Nat : i < k => i * BlockSize + BlockSize <= k * BlockSize
BY PrefixAssumption

(* A position lies before the end of block k exactly when its block does.  *)
LEMMA BeforeBlock ==
  ASSUME NEW q \in Nat, NEW o \in Offsets, NEW k \in Nat
  PROVE  q * BlockSize + o < k * BlockSize <=> q < k
<1> DEFINE x == q * BlockSize
           y == k * BlockSize
<1>1. x \in Nat /\ y \in Nat /\ o \in 0..BlockSize - 1 /\ BlockSize \in Nat
  BY PrefixAssumption DEF Offsets
<1>2. q + 1 <= k => x + BlockSize <= y
  BY PrefixAssumption
<1>3. k <= q => y <= x
  BY PrefixAssumption
<1> HIDE DEF x, y
<1>4. x + o < y <=> q < k
  BY <1>1, <1>2, <1>3
<1> QED
  BY <1>4 DEF x, y

(* The position an offset of a block is, and back.                         *)
LEMMA PositionInBlock ==
  ASSUME NEW q \in Nat, NEW o \in Offsets
  PROVE  /\ q * BlockSize + o \in Nat
         /\ (q * BlockSize + o) \div BlockSize = q
         /\ (q * BlockSize + o) % BlockSize = o
<1> DEFINE p == q * BlockSize + o
<1>1. p \in Nat /\ q * BlockSize \in Nat /\ o \in Nat /\ p = q * BlockSize + o
  BY Products, Offset
<1> HIDE DEF p
<1>2. PICK d \in Nat, m \in Offsets :
        p = d * BlockSize + m /\ p \div BlockSize = d /\ p % BlockSize = m
  BY <1>1, BlockOfPosition, Zenon
<1>3. /\ (q + 1) * BlockSize = q * BlockSize + BlockSize
      /\ (d + 1) * BlockSize = d * BlockSize + BlockSize
      /\ d * BlockSize \in Nat
  BY Products
<1>4. m < BlockSize /\ o < BlockSize /\ m \in Nat /\ BlockSize \in Nat
  BY Offset
<1>5. d < q + 1
  <2>1. d * BlockSize + m < (q + 1) * BlockSize
    BY <1>1, <1>2, <1>3, <1>4
  <2> QED
    BY <2>1, BeforeBlock
<1>6. q < d + 1
  <2>1. q * BlockSize + o < (d + 1) * BlockSize
    BY <1>1, <1>2, <1>3, <1>4
  <2> QED
    BY <2>1, BeforeBlock
<1>7. d = q
  BY <1>5, <1>6
<1>8. m = o
  BY <1>1, <1>2, <1>4, <1>7
<1> QED
  BY <1>1, <1>2, <1>7, <1>8 DEF p

LEMMA BlockMonotone ==
  ASSUME NEW i \in Nat, NEW k \in Nat
  PROVE  /\ i <= k <=> i * BlockSize <= k * BlockSize
         /\ i = k <=> i * BlockSize = k * BlockSize
<1> DEFINE x == i * BlockSize
           y == k * BlockSize
<1>1. x \in Nat /\ y \in Nat /\ BlockSize \in Nat /\ BlockSize > 0
  BY PrefixAssumption
<1>2. (i < k => x + BlockSize <= y) /\ (k < i => y + BlockSize <= x)
  BY Products
<1>3. i = k => x = y
  OBVIOUS
<1> HIDE DEF x, y
<1>4. (i <= k <=> x <= y) /\ (i = k <=> x = y)
  BY <1>1, <1>2, <1>3
<1> QED
  BY <1>4 DEF x, y

(* Block numbers are what full blocks of a count are.                      *)
LEMMA FullBlocks ==
  ASSUME NEW i \in Nat, NEW n \in Nat
  PROVE  i <= n \div BlockSize <=> i * BlockSize <= n
<1>1. PICK d \in Nat, m \in Offsets : n = d * BlockSize + m /\ n \div BlockSize = d
  BY BlockOfPosition, Zenon
<1>2. n < i * BlockSize <=> d < i
  BY <1>1, BeforeBlock, Zenon
<1>3. i <= d <=> i * BlockSize <= n
  BY <1>2, Products
<1> QED
  BY <1>1, <1>3, Zenon

(* num_blocks: the least number of blocks that hold n tokens.              *)
LEMMA CeilingBlocks ==
  ASSUME NEW n \in Nat \ {0}
  PROVE  LET k == (n + BlockSize - 1) \div BlockSize IN
         /\ k \in Nat \ {0}
         /\ n <= k * BlockSize
         /\ (k - 1) * BlockSize < n
<1> DEFINE u == n + BlockSize - 1
           k == u \div BlockSize
           m == u % BlockSize
           x == k * BlockSize
<1>1. u \in Nat /\ BlockSize \in Nat \ {0}
  BY PrefixAssumption
<1>2. k \in Nat /\ m \in 0..BlockSize - 1 /\ u = x + m /\ x \in Nat
  BY <1>1, BlockOfPosition, Products DEF Offsets
<1>3. n <= x
  <2> HIDE DEF k, m, x
  <2> QED
    BY <1>1, <1>2
<1>4. k # 0
  BY <1>3, PrefixAssumption
<1>5. k - 1 \in Nat /\ (k - 1) + 1 = k
  BY <1>2, <1>4
<1>6. x = (k - 1) * BlockSize + BlockSize /\ (k - 1) * BlockSize \in Nat
  <2>0. SUFFICES ASSUME NEW j \in Nat, j + 1 = k
                 PROVE  x = j * BlockSize + BlockSize /\ j * BlockSize \in Nat
    BY <1>5
  <2> QED
    BY <2>0, Products
<1>7. (k - 1) * BlockSize < n
  <2> HIDE DEF k, m, x
  <2> QED
    BY <1>1, <1>2, <1>6
<1> QED
  BY <1>2, <1>3, <1>4, <1>7

(* One token past full blocks is the first of a block: needs_block().      *)
LEMMA PastFull ==
  ASSUME NEW n \in Nat \ {0}
  PROVE  n % BlockSize = 1 <=> \E k \in Nat : n = k * BlockSize + 1
<1>1. 1 \in Offsets
  BY PrefixAssumption DEF Offsets
<1>2. \A k \in Nat : n = k * BlockSize + 1 => n % BlockSize = 1
  BY <1>1, PositionInBlock
<1>3. \E d \in Nat, m \in Offsets : n = d * BlockSize + m /\ n % BlockSize = m
  BY BlockOfPosition, Zenon
<1> QED
  BY <1>2, <1>3, Zenon

-----------------------------------------------------------------------------
(* Texts and their prefixes                                                *)

LEMMA TextPrefix ==
  ASSUME NEW T, NEW s \in Seq(T), NEW m \in 0..Len(s)
  PROVE  /\ SubSeq(s, 1, m) \in Seq(T) /\ Len(SubSeq(s, 1, m)) = m
         /\ \A i \in 1..m : SubSeq(s, 1, m)[i] = s[i]
<1>1. m \in Nat /\ Len(s) \in Nat
  OBVIOUS
<1>2. \A i \in 1..m : s[i] \in T
  OBVIOUS
<1> QED
  BY <1>1, <1>2

LEMMA SameText ==
  ASSUME NEW T, NEW s \in Seq(T), NEW t \in Seq(T), Len(s) = Len(t),
         \A i \in 1..Len(s) : s[i] = t[i]
  PROVE  s = t
OBVIOUS

LEMMA PrefixOfPrefix ==
  ASSUME NEW T, NEW s \in Seq(T), NEW m \in 0..Len(s), NEW k \in 0..m
  PROVE  SubSeq(SubSeq(s, 1, m), 1, k) = SubSeq(s, 1, k)
<1> DEFINE u == SubSeq(s, 1, m)
           v == SubSeq(s, 1, k)
<1>1. k \in 0..Len(s) /\ Len(s) \in Nat
  OBVIOUS
<1>2. u \in Seq(T) /\ Len(u) = m /\ \A i \in 1..m : u[i] = s[i]
  BY TextPrefix
<1>3. v \in Seq(T) /\ Len(v) = k /\ \A i \in 1..k : v[i] = s[i]
  BY <1>1, TextPrefix
<1> HIDE DEF u, v
<1> DEFINE w == SubSeq(u, 1, k)
<1>4. w \in Seq(T) /\ Len(w) = k /\ \A i \in 1..k : w[i] = u[i]
  BY <1>2, TextPrefix
<1> HIDE DEF w
<1>5. \A i \in 1..k : w[i] = v[i]
  BY <1>1, <1>2, <1>3, <1>4
<1>6. w = v
  BY <1>3, <1>4, <1>5, SameText, Zenon
<1> QED
  BY <1>6 DEF w, u, v

LEMMA PrefixOfLonger ==
  ASSUME NEW T, NEW s \in Seq(T), NEW e \in T, NEW m \in 0..Len(s)
  PROVE  SubSeq(Append(s, e), 1, m) = SubSeq(s, 1, m)
<1> DEFINE t == Append(s, e)
           u == SubSeq(t, 1, m)
           v == SubSeq(s, 1, m)
<1>1. t \in Seq(T) /\ m \in 0..Len(t) /\ \A i \in 1..Len(s) : t[i] = s[i]
  OBVIOUS
<1>2. v \in Seq(T) /\ Len(v) = m /\ \A i \in 1..m : v[i] = s[i]
  BY TextPrefix
<1> HIDE DEF t, v
<1>3. u \in Seq(T) /\ Len(u) = m /\ \A i \in 1..m : u[i] = t[i]
  BY <1>1, TextPrefix
<1> HIDE DEF u
<1>4. \A i \in 1..m : u[i] = v[i]
  BY <1>1, <1>2, <1>3
<1>5. u = v
  BY <1>2, <1>3, <1>4, SameText, Zenon
<1> QED
  BY <1>5 DEF t, u, v

LEMMA JoinPrefix ==
  ASSUME NEW T, NEW s \in Seq(T), NEW n \in 0..Len(s), NEW m \in 0..n
  PROVE  SubSeq(s, 1, m) \o SubSeq(s, m + 1, n) = SubSeq(s, 1, n)
<1> DEFINE u == SubSeq(s, 1, m)
           v == SubSeq(s, m + 1, n)
           w == SubSeq(s, 1, n)
<1>0. m \in Nat /\ n \in Nat /\ Len(s) \in Nat /\ m <= n /\ n <= Len(s)
  OBVIOUS
<1>1. w \in Seq(T) /\ Len(w) = n /\ \A i \in 1..n : w[i] = s[i]
  BY TextPrefix
<1>2. u \in Seq(T) /\ Len(u) = m /\ \A i \in 1..m : u[i] = s[i]
  BY <1>0, TextPrefix
<1>3. v \in Seq(T) /\ Len(v) = n - m /\ \A i \in 1..n - m : v[i] = s[m + i]
  <2>1. \A i \in m + 1..n : s[i] \in T
    BY <1>0
  <2>2. Len(v) = n - m /\ v \in Seq(T)
    BY <1>0, <2>1
  <2> QED
    BY <1>0, <2>2
<1> HIDE DEF u, v, w
<1>4. u \o v \in Seq(T) /\ Len(u \o v) = n
  BY <1>0, <1>2, <1>3
<1>5. \A i \in 1..n : (u \o v)[i] = w[i]
  <2>1. \A i \in 1..n : (u \o v)[i] = IF i <= m THEN u[i] ELSE v[i - m]
    BY <1>0, <1>2, <1>3
  <2>2. \A i \in 1..n : i <= m => u[i] = s[i]
    BY <1>0, <1>2
  <2>3. ASSUME NEW i \in 1..n, i > m PROVE v[i - m] = s[i]
    <3>1. i - m \in 1..n - m /\ m + (i - m) = i
      BY <1>0, <2>3
    <3> QED
      BY <1>3, <3>1
  <2>4. ASSUME NEW i \in 1..n PROVE (u \o v)[i] = s[i]
    <3>1. i <= m \/ i > m
      BY <1>0
    <3> QED
      BY <2>1, <2>2, <2>3, <3>1, Zenon
  <2> QED
    BY <1>1, <2>4, Zenon
<1>6. u \o v = w
  BY <1>1, <1>4, <1>5, SameText, Zenon
<1> QED
  BY <1>6 DEF u, v, w

-----------------------------------------------------------------------------
(* Reference counts                                                        *)

PoolTypes ==
  /\ block_table \in [Requests -> Seq(Blocks)]
  /\ ref_count \in [Blocks -> Nat]
  /\ free_block_ids \in Seq(Blocks)
  /\ used_block_ids \in SUBSET Blocks

(* The requests that have b in their tables.                               *)
Holders(b) == {r \in Requests : b \in ToSet(block_table[r])}

LEMMA HoldersFinite ==
  ASSUME NEW b
  PROVE  /\ IsFiniteSet(Holders(b)) /\ Cardinality(Holders(b)) \in Nat
         /\ Holders(b) \in SUBSET Requests
<1>1. Holders(b) \in SUBSET Requests
  BY DEF Holders
<1> QED
  BY <1>1, PrefixAssumption, FS_Subset, FS_CardinalityType

(* What the counts say of a block.                                         *)
LEMMA CountsMean ==
  ASSUME PoolTypes, RefCountsExact, NEW b \in Blocks
  PROVE  /\ ref_count[b] = Cardinality(Holders(b)) /\ ref_count[b] \in Nat
         /\ b \in used_block_ids <=> ref_count[b] > 0
         /\ b \in used_block_ids <=> \E r \in Requests : b \in ToSet(block_table[r])
         /\ b \in ToSet(free_block_ids) <=> b \notin used_block_ids
         /\ \A r \in Requests : b \in ToSet(block_table[r]) =>
              (ref_count[b] = 1 <=> \A q \in Requests : b \in ToSet(block_table[q]) => q = r)
<1>1. ref_count[b] = Cardinality(Holders(b)) /\ (b \in used_block_ids <=> ref_count[b] > 0)
  BY DEF RefCountsExact, Holders
<1>2. IsFiniteSet(Holders(b)) /\ Cardinality(Holders(b)) \in Nat
  BY HoldersFinite
<1>3. Cardinality(Holders(b)) = 0 <=> Holders(b) = {}
  BY <1>2, FS_EmptySet
<1>4. b \in used_block_ids <=> \E r \in Requests : b \in ToSet(block_table[r])
  <2>1. b \in used_block_ids <=> Holders(b) # {}
    BY <1>1, <1>2, <1>3
  <2> QED
    BY <2>1 DEF Holders
<1>5. Cardinality(Holders(b)) = 1 <=> \E x : Holders(b) = {x}
  BY <1>2, FS_Singleton
<1>6. ASSUME NEW r \in Requests, b \in ToSet(block_table[r])
      PROVE  ref_count[b] = 1 <=> \A q \in Requests : b \in ToSet(block_table[q]) => q = r
  <2>1. r \in Holders(b)
    BY <1>6 DEF Holders
  <2>2. (\E x : Holders(b) = {x}) <=> \A q \in Holders(b) : q = r
    BY <2>1
  <2> QED
    BY <1>1, <1>5, <2>2 DEF Holders
<1>7. b \in ToSet(free_block_ids) <=> b \notin used_block_ids
  BY DEF RefCountsExact
<1> QED
  BY <1>1, <1>2, <1>4, <1>6, <1>7

(* A request takes blocks: each has one more holder.                       *)
LEMMA GainCounts ==
  ASSUME PoolTypes, RefCountsExact, NEW r \in Requests,
         NEW t \in Seq(Blocks), NEW G \in SUBSET Blocks,
         Distinct(t), ToSet(t) = ToSet(block_table[r]) \cup G,
         G \cap ToSet(block_table[r]) = {},
         block_table' = [block_table EXCEPT ![r] = t],
         free_block_ids' \in Seq(Blocks), Distinct(free_block_ids'),
         ToSet(free_block_ids') = ToSet(free_block_ids) \ G,
         used_block_ids' = used_block_ids \cup G,
         ref_count' \in [Blocks -> Nat],
         \A b \in Blocks :
           ref_count'[b] = IF b \in G THEN ref_count[b] + 1 ELSE ref_count[b]
  PROVE  PoolTypes' /\ RefCountsExact'
<1>1. /\ block_table' \in [Requests -> Seq(Blocks)] /\ block_table'[r] = t
      /\ \A q \in Requests \ {r} : block_table'[q] = block_table[q]
  BY DEF PoolTypes
<1>2. PoolTypes'
  BY <1>1 DEF PoolTypes
<1>3. ToSet(free_block_ids') = Blocks \ used_block_ids'
  BY DEF RefCountsExact, PoolTypes
<1>4. ASSUME NEW q \in Requests PROVE Distinct(block_table'[q])
  <2>1. CASE q = r
    BY <1>1, <2>1
  <2>2. CASE q # r
    BY <1>1, <2>2 DEF RefCountsExact
  <2> QED
    BY <2>1, <2>2
<1>5. ASSUME NEW b \in Blocks
      PROVE  /\ ref_count'[b] = Cardinality({q \in Requests : b \in ToSet(block_table'[q])})
             /\ b \in used_block_ids' <=> ref_count'[b] > 0
  <2> DEFINE H == {q \in Requests : b \in ToSet(block_table'[q])}
  <2>1. /\ ref_count[b] = Cardinality(Holders(b)) /\ ref_count[b] \in Nat
        /\ b \in used_block_ids <=> ref_count[b] > 0
    BY CountsMean
  <2>2. CASE b \in G
    <3>1. H = Holders(b) \cup {r} /\ r \notin Holders(b)
      BY <1>1, <2>2 DEF Holders
    <3>2. Cardinality(H) = Cardinality(Holders(b)) + 1
      BY <3>1, HoldersFinite, FS_AddElement
    <3> QED
      BY <2>1, <2>2, <3>2
  <2>3. CASE b \notin G
    <3>1. \A q \in Requests : b \in ToSet(block_table'[q]) <=> b \in ToSet(block_table[q])
      BY <1>1, <2>3
    <3>2. H = Holders(b)
      BY <3>1 DEF Holders
    <3> QED
      BY <2>1, <2>3, <3>2
  <2> QED
    BY <2>2, <2>3
<1> QED
  BY <1>2, <1>3, <1>4, <1>5 DEF RefCountsExact

(* A request gives its blocks back: those it was the last holder of become *)
(* free, in whatever order, and the others stay with the rest.             *)
LEMMA DropCounts ==
  ASSUME PoolTypes, RefCountsExact, NEW r \in Requests, deallocate(r)
  PROVE  PoolTypes' /\ RefCountsExact'
<1> DEFINE t == block_table[r]
           dropped == {b \in ToSet(t) : ref_count[b] = 1}
           back == Only(Reverse(t), dropped)
<1>1. /\ block_table' \in [Requests -> Seq(Blocks)] /\ block_table'[r] = <<>>
      /\ \A q \in Requests \ {r} : block_table'[q] = block_table[q]
  BY DEF PoolTypes, deallocate
<1>2. t \in Seq(Blocks) /\ Distinct(t) /\ ToSet(t) \subseteq Blocks
  <2>1. t \in Seq(Blocks)
    BY DEF PoolTypes
  <2> QED
    BY <2>1, ToSetDef DEF RefCountsExact
<1>3. /\ ref_count' = [b \in Blocks |-> IF b \in ToSet(t) THEN ref_count[b] - 1 ELSE ref_count[b]]
      /\ used_block_ids' = used_block_ids \ dropped
      /\ free_block_ids' = free_block_ids \o back
  BY DEF deallocate
<1>4. \A b \in ToSet(t) : ref_count[b] \in Nat /\ ref_count[b] > 0 /\ b \in used_block_ids
  BY <1>2, CountsMean
<1>5. back \in Seq(Blocks) /\ Distinct(back) /\ ToSet(back) = dropped
  <2>1. Reverse(t) \in Seq(Blocks) /\ Distinct(Reverse(t)) /\ ToSet(Reverse(t)) = ToSet(t)
    BY <1>2, ReverseQueue
  <2> HIDE DEF t
  <2>2. /\ back \in Seq(Blocks) /\ Distinct(back)
        /\ ToSet(back) = ToSet(Reverse(t)) \cap dropped
    BY <2>1, OnlyQueue
  <2> QED
    BY <2>1, <2>2
<1>6. /\ free_block_ids \in Seq(Blocks) /\ Distinct(free_block_ids)
      /\ ToSet(free_block_ids) = Blocks \ used_block_ids
  BY DEF PoolTypes, RefCountsExact
<1> HIDE DEF back, t
<1>7. /\ free_block_ids' \in Seq(Blocks) /\ Distinct(free_block_ids')
      /\ ToSet(free_block_ids') = ToSet(free_block_ids) \cup dropped
  <2>1. ToSet(free_block_ids) \cap ToSet(back) = {}
    BY <1>4, <1>5, <1>6
  <2> QED
    BY <1>3, <1>5, <1>6, <2>1, ConcatQueue
<1>8. PoolTypes'
  <2>1. ref_count' \in [Blocks -> Nat]
    BY <1>2, <1>3, <1>4 DEF PoolTypes
  <2>2. used_block_ids' \in SUBSET Blocks
    BY <1>3 DEF PoolTypes
  <2> QED
    BY <1>1, <1>7, <2>1, <2>2 DEF PoolTypes
<1>9. ToSet(free_block_ids') = Blocks \ used_block_ids'
  BY <1>2, <1>3, <1>4, <1>6, <1>7
<1>10. ASSUME NEW q \in Requests PROVE Distinct(block_table'[q])
  <2>1. CASE q = r
    BY <1>1, <2>1, EmptyQueue
  <2>2. CASE q # r
    BY <1>1, <2>2 DEF RefCountsExact
  <2> QED
    BY <2>1, <2>2
<1>11. ASSUME NEW b \in Blocks
       PROVE  /\ ref_count'[b] = Cardinality({q \in Requests : b \in ToSet(block_table'[q])})
              /\ b \in used_block_ids' <=> ref_count'[b] > 0
  <2> DEFINE H == {q \in Requests : b \in ToSet(block_table'[q])}
  <2>1. /\ ref_count[b] = Cardinality(Holders(b)) /\ ref_count[b] \in Nat
        /\ b \in used_block_ids <=> ref_count[b] > 0
    BY CountsMean
  <2>2. CASE b \in ToSet(t)
    <3>1. H = Holders(b) \ {r} /\ r \in Holders(b)
      BY <1>1, <2>2, EmptyQueue DEF Holders, t
    <3>2. Cardinality(H) = Cardinality(Holders(b)) - 1
      BY <3>1, HoldersFinite, FS_RemoveElement
    <3>3. ref_count'[b] = ref_count[b] - 1 /\ ref_count[b] > 0
      BY <1>3, <1>4, <2>2
    <3>4. b \in used_block_ids' <=> ref_count[b] # 1
      BY <1>3, <1>4, <2>2
    <3> QED
      BY <2>1, <3>2, <3>3, <3>4
  <2>3. CASE b \notin ToSet(t)
    <3>1. \A q \in Requests : b \in ToSet(block_table'[q]) <=> b \in ToSet(block_table[q])
      BY <1>1, <2>3, EmptyQueue DEF t
    <3>2. H = Holders(b)
      BY <3>1 DEF Holders
    <3>3. ref_count'[b] = ref_count[b] /\ (b \in used_block_ids' <=> b \in used_block_ids)
      BY <1>3, <2>3
    <3> QED
      BY <2>1, <3>2, <3>3
  <2> QED
    BY <2>2, <2>3
<1> QED
  BY <1>7, <1>8, <1>9, <1>10, <1>11 DEF RefCountsExact

-----------------------------------------------------------------------------
(* Admission                                                               *)

RequestTypes ==
  /\ at \in [Requests -> {"waiting", "running", "in_flight", "finished"}]
  /\ token_ids \in [Requests -> Seq(Tokens)]
  /\ num_cached_tokens \in [Requests -> Nat]
  /\ num_scheduled_tokens \in [Requests -> Nat]
  /\ launched \in Seq(Requests)

HashTypes ==
  /\ hash \in [Blocks -> Seq(Tokens)]
  /\ hash_to_block_id \in [DOMAIN hash_to_block_id -> Blocks]

(* What the index finds under a text holds that text.                      *)
IndexOK ==
  \A h \in DOMAIN hash_to_block_id : h # NoHash /\ hash[hash_to_block_id[h]] = h

LEMMA PrefixTypes ==
  ASSUME RequestTypes, NEW r \in Requests, NEW i \in Nat, i * BlockSize <= num_tokens(r)
  PROVE  /\ prefix(r, i) = SubSeq(token_ids[r], 1, i * BlockSize)
         /\ prefix(r, i) \in Seq(Tokens) /\ Len(prefix(r, i)) = i * BlockSize
         /\ i > 0 => prefix(r, i) # NoHash
<1>1. token_ids[r] \in Seq(Tokens) /\ i * BlockSize \in 0..Len(token_ids[r])
  BY Products DEF RequestTypes, num_tokens
<1>2. prefix(r, i) = SubSeq(token_ids[r], 1, i * BlockSize)
  BY <1>1 DEF prefix, slice
<1>3. prefix(r, i) \in Seq(Tokens) /\ Len(prefix(r, i)) = i * BlockSize
  BY <1>1, <1>2, TextPrefix
<1>4. i > 0 => i * BlockSize # 0
  BY BlockMonotone, Products
<1> QED
  BY <1>2, <1>3, <1>4 DEF NoHash

LEMMA BlockNumbers ==
  ASSUME RequestTypes, NEW r \in Requests, num_tokens(r) > 0
  PROVE  /\ num_tokens(r) \in Nat \ {0} /\ num_blocks(r) \in Nat \ {0}
         /\ num_tokens(r) <= num_blocks(r) * BlockSize
         /\ \A i \in 0..num_blocks(r) - 1 : i \in Nat /\ i * BlockSize < num_tokens(r)
<1>1. num_tokens(r) \in Nat \ {0}
  BY DEF RequestTypes, num_tokens
<1>2. /\ num_blocks(r) \in Nat \ {0}
      /\ num_tokens(r) <= num_blocks(r) * BlockSize
      /\ (num_blocks(r) - 1) * BlockSize < num_tokens(r)
  BY <1>1, CeilingBlocks DEF num_blocks
<1>3. ASSUME NEW i \in 0..num_blocks(r) - 1 PROVE i \in Nat /\ i * BlockSize < num_tokens(r)
  <2>1. i \in Nat /\ num_blocks(r) - 1 \in Nat /\ i <= num_blocks(r) - 1
    BY <1>2
  <2>2. i * BlockSize <= (num_blocks(r) - 1) * BlockSize
    BY <2>1, BlockMonotone
  <2>3. i * BlockSize \in Nat /\ (num_blocks(r) - 1) * BlockSize \in Nat
    BY <2>1, Products
  <2> QED
    BY <1>1, <1>2, <2>1, <2>2, <2>3
<1> QED
  BY <1>1, <1>2, <1>3

(* The leading run of hits is well defined.                                *)
LEMMA LeadingRun ==
  ASSUME NEW m \in Nat, NEW H
  PROVE  \E n \in 0..m : (\A i \in 1..n : i \in H) /\ (n < m => n + 1 \notin H)
<1> SUFFICES ASSUME ~ \E n \in 0..m : (\A i \in 1..n : i \in H) /\ (n < m => n + 1 \notin H)
             PROVE  FALSE
  OBVIOUS
<1> DEFINE P == {n \in 0..m : \A i \in 1..n : i \in H}
<1>1. 0 \in P
  OBVIOUS
<1>2. \A k \in 0..m - 1 : k \in P => k + 1 \in P
  OBVIOUS
<1> HIDE DEF P
<1>3. \A k \in 0..m : k \in P
  BY <1>1, <1>2, CountUp
<1>4. m \in P
  BY <1>3
<1> QED
  BY <1>4 DEF P

LEMMA CachedBlocks ==
  ASSUME RequestTypes, HashTypes, IndexOK, NEW r \in Requests, num_tokens(r) > 0
  PROVE  /\ num_cached_blocks(r) \in 0..num_blocks(r) - 1
         /\ cached(r) \in Seq(Blocks) /\ Len(cached(r)) = num_cached_blocks(r)
         /\ \A i \in 1..num_cached_blocks(r) :
              /\ hash[cached(r)[i]] = prefix(r, i) /\ prefix(r, i) # NoHash
              /\ i * BlockSize <= num_tokens(r)
         /\ Distinct(cached(r))
<1> DEFINE n == num_cached_blocks(r)
           H == {i \in Nat : Hit(r, i)}
<1>1. num_blocks(r) - 1 \in Nat
  BY BlockNumbers
<1>2. /\ n \in 0..num_blocks(r) - 1
      /\ \A i \in 1..n : Hit(r, i)
  <2>1. \E k \in 0..num_blocks(r) - 1 :
          (\A i \in 1..k : i \in H) /\ (k < num_blocks(r) - 1 => k + 1 \notin H)
    BY <1>1, LeadingRun
  <2>2. \E k \in 0..num_blocks(r) - 1 :
          /\ \A i \in 1..k : Hit(r, i)
          /\ k < num_blocks(r) - 1 => ~Hit(r, k + 1)
    BY <2>1
  <2> QED
    BY <2>2 DEF num_cached_blocks
<1> HIDE DEF n, H
<1>3. ASSUME NEW i \in 1..n
      PROVE  /\ i \in Nat /\ i > 0 /\ i * BlockSize <= num_tokens(r)
             /\ prefix(r, i) \in DOMAIN hash_to_block_id
             /\ hash_to_block_id[prefix(r, i)] \in Blocks
             /\ hash[hash_to_block_id[prefix(r, i)]] = prefix(r, i)
             /\ Len(prefix(r, i)) = i * BlockSize /\ prefix(r, i) # NoHash
  <2>1. i \in 0..num_blocks(r) - 1 /\ i \in Nat /\ i > 0
    BY <1>1, <1>2
  <2>2. i * BlockSize <= num_tokens(r)
    BY <2>1, BlockNumbers, Products
  <2>3. Len(prefix(r, i)) = i * BlockSize /\ prefix(r, i) # NoHash
    BY <2>1, <2>2, PrefixTypes
  <2>4. prefix(r, i) \in DOMAIN hash_to_block_id
    BY <1>2 DEF Hit
  <2> QED
    BY <2>1, <2>2, <2>3, <2>4 DEF HashTypes, IndexOK
<1>4. /\ cached(r) \in Seq(Blocks) /\ Len(cached(r)) = n
      /\ \A i \in 1..n : cached(r)[i] = hash_to_block_id[prefix(r, i)]
  <2>1. cached(r) = [i \in 1..n |-> hash_to_block_id[prefix(r, i)]]
    BY DEF cached, n
  <2>2. cached(r) \in [1..n -> Blocks]
    BY <1>3, <2>1
  <2> QED
    BY <1>2, <2>1, <2>2, FunctionIsQueue
<1>5. ASSUME NEW i \in 1..n, NEW j \in 1..n, cached(r)[i] = cached(r)[j]
      PROVE  i = j
  <2>1. prefix(r, i) = prefix(r, j)
    BY <1>3, <1>4, <1>5
  <2>2. i * BlockSize = j * BlockSize
    BY <1>3, <2>1
  <2> QED
    BY <1>3, <2>2, BlockMonotone
<1>6. Distinct(cached(r))
  BY <1>4, <1>5 DEF Distinct
<1> QED
  BY <1>2, <1>3, <1>4, <1>6 DEF n

LEMMA TakeHashes ==
  ASSUME HashTypes, IndexOK, NEW taken \in SUBSET Blocks, TakeBlocks(taken)
  PROVE  /\ HashTypes' /\ IndexOK'
         /\ \A b \in Blocks : hash'[b] = IF b \in taken THEN NoHash ELSE hash[b]
<1> DEFINE kept == {h \in DOMAIN hash_to_block_id :
                      ~(hash_to_block_id[h] \in taken /\ hash[hash_to_block_id[h]] = h)}
<1>1. /\ hash' = [b \in Blocks |-> IF b \in taken THEN NoHash ELSE hash[b]]
      /\ hash_to_block_id' = [h \in kept |-> hash_to_block_id[h]]
  BY DEF TakeBlocks, Forgotten, Restrict
<1>2. \A h \in DOMAIN hash_to_block_id :
        h # NoHash /\ hash_to_block_id[h] \in Blocks /\ hash[hash_to_block_id[h]] = h
  BY DEF HashTypes, IndexOK
<1>3. \A h \in kept : h \in DOMAIN hash_to_block_id /\ hash_to_block_id[h] \notin taken
  BY <1>2
<1> HIDE DEF kept
<1>4. DOMAIN hash_to_block_id' = kept /\ \A h \in kept : hash_to_block_id'[h] = hash_to_block_id[h]
  BY <1>1
<1>5. HashTypes'
  <2>1. NoHash \in Seq(Tokens)
    BY DEF NoHash
  <2>2. hash' \in [Blocks -> Seq(Tokens)]
    BY <1>1, <2>1 DEF HashTypes
  <2>3. hash_to_block_id' \in [DOMAIN hash_to_block_id' -> Blocks]
    BY <1>1, <1>2, <1>3
  <2> QED
    BY <2>2, <2>3 DEF HashTypes
<1>6. IndexOK'
  <2>1. SUFFICES ASSUME NEW h \in kept PROVE h # NoHash /\ hash'[hash_to_block_id'[h]] = h
    BY <1>4 DEF IndexOK, NoHash
  <2>2. hash_to_block_id'[h] \in Blocks \ taken /\ hash_to_block_id'[h] = hash_to_block_id[h]
    BY <1>2, <1>3, <1>4
  <2> QED
    BY <1>1, <1>2, <1>3, <2>2
<1>7. \A b \in Blocks : hash'[b] = IF b \in taken THEN NoHash ELSE hash[b]
  BY <1>1
<1> QED
  BY <1>5, <1>6, <1>7

(* can_allocate() counts right: with the cached blocks set aside, the deque *)
(* has what else the request needs.                                        *)
LEMMA RoomForRest ==
  ASSUME PoolTypes, RefCountsExact, RequestTypes, HashTypes, IndexOK,
         NEW r \in Requests, num_tokens(r) > 0, can_allocate(r)
  PROVE  LET free == Only(free_block_ids, Blocks \ ToSet(cached(r))) IN
         /\ num_blocks(r) - num_cached_blocks(r) \in Nat
         /\ num_blocks(r) - num_cached_blocks(r) <= Len(free)
<1> DEFINE shared == ToSet(cached(r))
           free == Only(free_block_ids, Blocks \ shared)
           n == num_cached_blocks(r)
           Kept == {i \in 1..n : cached(r)[i] \in used_block_ids}
           Found == {i \in 1..n : cached(r)[i] \notin used_block_ids}
           F == ToSet(free_block_ids)
<1>1. /\ n \in 0..num_blocks(r) - 1 /\ cached(r) \in Seq(Blocks) /\ Len(cached(r)) = n
      /\ num_blocks(r) \in Nat \ {0} /\ n \in Nat
  BY CachedBlocks, BlockNumbers
<1>2. /\ free_block_ids \in Seq(Blocks) /\ Distinct(free_block_ids)
      /\ F = Blocks \ used_block_ids
  BY DEF PoolTypes, RefCountsExact
<1>3. /\ shared = {cached(r)[i] : i \in 1..n} /\ shared \subseteq Blocks
  BY <1>1, ToSetDef
<1>4. /\ free \in Seq(Blocks) /\ Distinct(free) /\ ToSet(free) = F \cap (Blocks \ shared)
  BY <1>2, OnlyQueue
<1>5. /\ IsFiniteSet(F) /\ Cardinality(F) = Len(free_block_ids)
      /\ Cardinality(ToSet(free)) = Len(free)
      /\ Len(free_block_ids) \in Nat /\ Len(free) \in Nat
  BY <1>2, <1>4, DistinctCardinality, ToSetDef
<1>6. Cardinality(F \ shared) = Cardinality(F) - Cardinality(F \cap shared)
  BY <1>5, FS_Difference
<1>7. F \ shared = ToSet(free)
  BY <1>2, <1>4
<1>8. /\ IsFiniteSet(1..n) /\ Cardinality(1..n) = n
      /\ IsFiniteSet(Kept) /\ Cardinality(Kept) \in Nat
      /\ IsFiniteSet(Found) /\ Cardinality(Found) = n - Cardinality(Kept)
  <2>1. IsFiniteSet(1..n) /\ Cardinality(1..n) = n
    BY <1>1, FS_Interval
  <2>2. Kept \in SUBSET (1..n) /\ Found = (1..n) \ Kept /\ (1..n) \cap Kept = Kept
    OBVIOUS
  <2>3. IsFiniteSet(Kept) /\ Cardinality(Kept) \in Nat
    BY <2>1, <2>2, FS_Subset, FS_CardinalityType
  <2> HIDE DEF Kept, Found
  <2>4. /\ IsFiniteSet((1..n) \ Kept)
        /\ Cardinality((1..n) \ Kept) = Cardinality(1..n) - Cardinality((1..n) \cap Kept)
    BY <2>1, FS_Difference, Zenon
  <2>5. IsFiniteSet(Found) /\ Cardinality(Found) = n - Cardinality(Kept)
    BY <2>1, <2>2, <2>4
  <2> QED
    BY <2>1, <2>3, <2>5
<1>9. Cardinality(F \cap shared) <= Cardinality(Found)
  <2> DEFINE img == {cached(r)[i] : i \in Found}
  <2>1. F \cap shared = img
    BY <1>2, <1>3
  <2>2. Cardinality(img) <= Cardinality(Found)
    <3> DEFINE f == [i \in Found |-> cached(r)[i]]
    <3>1. f \in Surjection(Found, img)
      BY DEF Surjection
    <3> HIDE DEF Found, f, img
    <3> QED
      BY <1>8, <3>1, FS_Surjection
  <2> QED
    BY <2>1, <2>2
<1>10. Len(free_block_ids) >= num_blocks(r) - Cardinality(Kept)
  BY DEF can_allocate, num_new_blocks
<1>11. Cardinality(F \cap shared) \in Nat
  BY <1>5, FS_Intersection, FS_CardinalityType
<1> HIDE DEF F, shared, Kept, Found, n, free
<1>12. /\ num_blocks(r) - n \in Nat
       /\ num_blocks(r) - n <= Len(free)
  <2>1. Len(free) = Len(free_block_ids) - Cardinality(F \cap shared)
    BY <1>5, <1>6, <1>7
  <2>2. num_blocks(r) - n \in Nat
    BY <1>1
  <2>3. Cardinality(Found) = n - Cardinality(Kept)
    BY <1>8
  <2>4. \A len, len2, c, f, k, nb, m \in Nat :
          /\ len = len2 - c /\ c <= f /\ f = m - k /\ len2 >= nb - k
          => nb - m <= len
    OBVIOUS
  <2>5. Cardinality(Found) \in Nat /\ Cardinality(Kept) \in Nat
    BY <1>8, FS_CardinalityType
  <2> QED
    BY <1>1, <1>5, <1>9, <1>10, <1>11, <2>1, <2>2, <2>3, <2>4, <2>5
<1> QED
  BY <1>12 DEF n, free, shared

(* Admission gives the request the cached blocks, and as many more as it    *)
(* needs, of those nobody has.                                             *)
LEMMA AllocateCounts ==
  ASSUME PoolTypes, RefCountsExact, RequestTypes, HashTypes, IndexOK,
         NEW r \in Requests, num_tokens(r) > 0, block_table[r] = <<>>,
         can_allocate(r), allocate(r)
  PROVE  /\ PoolTypes' /\ RefCountsExact'
         /\ \E new \in Seq(Blocks) :
              /\ block_table' = [block_table EXCEPT ![r] = cached(r) \o new]
              /\ Len(new) = num_blocks(r) - num_cached_blocks(r)
              /\ ToSet(new) \subseteq Blocks \ used_block_ids
              /\ ToSet(new) \cap ToSet(cached(r)) = {}
              /\ TakeBlocks(ToSet(new))
<1> DEFINE shared == ToSet(cached(r))
           free == Only(free_block_ids, Blocks \ shared)
           n == num_blocks(r) - num_cached_blocks(r)
           new == SubSeq(free, 1, n)
           rest == SubSeq(free, n + 1, Len(free))
           G == shared \cup ToSet(new)
<1>1. n \in Nat /\ n <= Len(free)
  BY RoomForRest
<1>2. /\ cached(r) \in Seq(Blocks) /\ Distinct(cached(r)) /\ shared \subseteq Blocks
  BY CachedBlocks, ToSetDef
<1>3. /\ free_block_ids \in Seq(Blocks) /\ Distinct(free_block_ids)
      /\ ToSet(free_block_ids) = Blocks \ used_block_ids
  BY DEF PoolTypes, RefCountsExact
<1>4. /\ free \in Seq(Blocks) /\ Distinct(free)
      /\ ToSet(free) = ToSet(free_block_ids) \cap (Blocks \ shared)
  BY <1>3, OnlyQueue
<1>5. /\ slice(free, 1, n) = new
      /\ block_table' = [block_table EXCEPT ![r] = cached(r) \o new]
      /\ free_block_ids' = rest
      /\ used_block_ids' = used_block_ids \cup shared \cup ToSet(new)
      /\ ref_count' = [b \in Blocks |->
                        IF b \in shared \cap used_block_ids THEN ref_count[b] + 1
                        ELSE IF b \in shared \cup ToSet(new) THEN 1
                        ELSE ref_count[b]]
      /\ TakeBlocks(ToSet(new))
  <2>1. slice(free, 1, n) = new
    BY <1>1 DEF slice
  <2> QED
    BY <2>1 DEF allocate
<1> HIDE DEF free
<1>6. /\ new \in Seq(Blocks) /\ Len(new) = n /\ rest \in Seq(Blocks)
      /\ ToSet(free) = ToSet(new) \cup ToSet(rest)
      /\ Distinct(new) /\ Distinct(rest) /\ ToSet(new) \cap ToSet(rest) = {}
  BY <1>1, <1>4, SplitQueue
<1> HIDE DEF new, rest, n, shared
<1>7. /\ ToSet(new) \subseteq Blocks \ used_block_ids /\ ToSet(new) \cap shared = {}
      /\ ToSet(rest) = ToSet(free_block_ids) \ G
  BY <1>3, <1>4, <1>6
<1> DEFINE t == cached(r) \o new
<1>8. t \in Seq(Blocks) /\ Distinct(t) /\ ToSet(t) = G
  BY <1>2, <1>6, <1>7, ConcatQueue DEF shared
<1>9. ToSet(block_table[r]) = {}
  BY EmptyQueue
<1>10. G \in SUBSET Blocks
  BY <1>2, <1>7
<1>11. ASSUME NEW b \in Blocks
       PROVE  ref_count'[b] = IF b \in G THEN ref_count[b] + 1 ELSE ref_count[b]
  <2>1. ref_count[b] \in Nat /\ (b \in used_block_ids <=> ref_count[b] > 0)
    BY CountsMean
  <2> QED
    BY <1>5, <1>7, <2>1
<1>12. ref_count' \in [Blocks -> Nat]
  BY <1>5 DEF PoolTypes
<1>13. used_block_ids' = used_block_ids \cup G
  BY <1>5
<1> HIDE DEF t, G
<1>14. PoolTypes' /\ RefCountsExact'
  <2>1. /\ block_table' = [block_table EXCEPT ![r] = t]
        /\ ToSet(t) = ToSet(block_table[r]) \cup G /\ G \cap ToSet(block_table[r]) = {}
        /\ free_block_ids' \in Seq(Blocks) /\ Distinct(free_block_ids')
        /\ ToSet(free_block_ids') = ToSet(free_block_ids) \ G
    BY <1>5, <1>6, <1>7, <1>8, <1>9 DEF t
  <2> QED
    BY <1>8, <1>10, <1>11, <1>12, <1>13, <2>1, GainCounts
<1>15. /\ block_table' = [block_table EXCEPT ![r] = cached(r) \o new]
       /\ Len(new) = num_blocks(r) - num_cached_blocks(r)
       /\ ToSet(new) \subseteq Blocks \ used_block_ids
       /\ ToSet(new) \cap ToSet(cached(r)) = {}
       /\ TakeBlocks(ToSet(new))
  BY <1>5, <1>6, <1>7 DEF n, shared
<1> QED
  BY <1>6, <1>14, <1>15

(* A decode row takes the head of the deque.                               *)
LEMMA AppendCounts ==
  ASSUME PoolTypes, RefCountsExact, NEW r \in Requests, can_append(r),
         needs_block(r), may_append(r)
  PROVE  /\ PoolTypes' /\ RefCountsExact'
         /\ \E b \in Blocks \ used_block_ids :
              /\ block_table' = [block_table EXCEPT ![r] = Append(block_table[r], b)]
              /\ TakeBlocks({b})
<1> DEFINE b == Head(free_block_ids)
           t == Append(block_table[r], b)
<1>1. free_block_ids # <<>>
  BY DEF can_append
<1>2. /\ block_table' = [block_table EXCEPT ![r] = Append(@, b)]
      /\ free_block_ids' = Tail(free_block_ids)
      /\ used_block_ids' = used_block_ids \cup {b}
      /\ ref_count' = [ref_count EXCEPT ![b] = 1]
      /\ TakeBlocks({b})
  BY DEF may_append
<1>3. /\ free_block_ids \in Seq(Blocks) /\ Distinct(free_block_ids)
      /\ ToSet(free_block_ids) = Blocks \ used_block_ids
      /\ block_table[r] \in Seq(Blocks) /\ Distinct(block_table[r])
  BY DEF PoolTypes, RefCountsExact
<1>4. /\ b \in Blocks /\ b \notin used_block_ids
      /\ free_block_ids' \in Seq(Blocks) /\ Distinct(free_block_ids')
      /\ ToSet(free_block_ids') = ToSet(free_block_ids) \ {b}
  BY <1>1, <1>2, <1>3, PopLeftQueue
<1> HIDE DEF b
<1>5. b \notin ToSet(block_table[r])
  BY <1>4, CountsMean
<1>6. t \in Seq(Blocks) /\ Distinct(t) /\ ToSet(t) = ToSet(block_table[r]) \cup {b}
  BY <1>3, <1>4, <1>5, AppendQueue
<1>7. block_table' = [block_table EXCEPT ![r] = t]
  BY <1>2
<1>8. ref_count' \in [Blocks -> Nat]
      /\ \A c \in Blocks : ref_count'[c] = IF c \in {b} THEN ref_count[c] + 1 ELSE ref_count[c]
  <2>1. ref_count[b] = 0
    BY <1>4, CountsMean
  <2>2. ref_count \in [Blocks -> Nat] /\ ref_count' = [ref_count EXCEPT ![b] = 1]
    BY <1>2 DEF PoolTypes
  <2>3. \A c \in Blocks : ref_count'[c] = IF c = b THEN 1 ELSE ref_count[c]
    BY <2>2
  <2> QED
    BY <1>4, <2>1, <2>2, <2>3
<1> HIDE DEF t
<1>9. PoolTypes' /\ RefCountsExact'
  <2>1. {b} \in SUBSET Blocks /\ {b} \cap ToSet(block_table[r]) = {}
    BY <1>4, <1>5
  <2> QED
    BY <1>2, <1>4, <1>6, <1>7, <1>8, <2>1, GainCounts
<1> QED
  BY <1>2, <1>4, <1>9

-----------------------------------------------------------------------------
(* The invariant                                                           *)

KVTypes == kv \in [Blocks -> [Offsets -> Seq(Tokens)]]

PrefixTypesOK == RequestTypes /\ PoolTypes /\ HashTypes /\ KVTypes

(* Progress and blocks of a request, by where it is.                       *)
Place(r) ==
  /\ num_tokens(r) > 0
  /\ at[r] = "waiting" =>
       /\ num_cached_tokens[r] < num_tokens(r)
       /\ block_table[r] # <<>> => num_tokens(r) <= Len(block_table[r]) * BlockSize
       /\ block_table[r] = <<>> => num_cached_tokens[r] = 0
  /\ at[r] = "running" =>
       /\ num_cached_tokens[r] = num_tokens(r) - 1
       /\ num_cached_tokens[r] <= Len(block_table[r]) * BlockSize
  /\ at[r] = "in_flight" =>
       /\ num_scheduled_tokens[r] > 0 /\ consumed(r) <= num_tokens(r)
       /\ num_tokens(r) <= Len(block_table[r]) * BlockSize
  /\ at[r] = "finished" => block_table[r] = <<>> /\ num_cached_tokens[r] = 0

LaunchOK == Distinct(launched) /\ \A r \in ToSet(launched) : at[r] = "in_flight"

(* The blocks a request has computed in full carry the hash of its text up *)
(* to their end; the rest have none, and nobody shares them.               *)
Chain(r) ==
  \A i \in 1..Len(block_table[r]) :
    IF i * BlockSize <= num_cached_tokens[r]
    THEN hash[block_table[r][i]] = prefix(r, i)
    ELSE /\ hash[block_table[r][i]] = NoHash
         /\ \A q \in Requests : block_table[r][i] \in ToSet(block_table[q]) => q = r

(* The positions whose KV is there: once its forward has run, those of the *)
(* chunk too.                                                              *)
written(r) ==
  IF at[r] = "in_flight" /\ r \notin ToSet(launched) THEN consumed(r)
  ELSE num_cached_tokens[r]

Written(r) ==
  \A p \in 0..written(r) - 1 :
    /\ p \div BlockSize < Len(block_table[r])
    /\ kv[block_table[r][p \div BlockSize + 1]][p % BlockSize]
         = SubSeq(token_ids[r], 1, p + 1)

(* A block holds the KV of the text it is known by.                        *)
HashedKV ==
  \A b \in Blocks : hash[b] # NoHash =>
    /\ Len(hash[b]) >= BlockSize
    /\ \A o \in Offsets : kv[b][o] = SubSeq(hash[b], 1, Len(hash[b]) - BlockSize + o + 1)

Rows == \A r \in Requests : Place(r) /\ Chain(r) /\ Written(r)

PrefixInv ==
  PrefixTypesOK /\ RefCountsExact /\ IndexOK /\ LaunchOK /\ HashedKV /\ Rows

-----------------------------------------------------------------------------
LEMMA RowTypes ==
  ASSUME PrefixTypesOK, NEW r \in Requests
  PROVE  /\ token_ids[r] \in Seq(Tokens) /\ num_tokens(r) = Len(token_ids[r])
         /\ num_tokens(r) \in Nat /\ consumed(r) \in Nat /\ written(r) \in Nat
         /\ num_cached_tokens[r] \in Nat /\ num_scheduled_tokens[r] \in Nat
         /\ block_table[r] \in Seq(Blocks) /\ Len(block_table[r]) \in Nat
         /\ at[r] \in {"waiting", "running", "in_flight", "finished"}
         /\ consumed(r) = num_cached_tokens[r] + num_scheduled_tokens[r]
         /\ ToSet(block_table[r]) = {block_table[r][i] : i \in 1..Len(block_table[r])}
         /\ ToSet(block_table[r]) \subseteq Blocks
         /\ \A i \in 1..Len(block_table[r]) : i \in Nat /\ block_table[r][i] \in Blocks
<1>1. /\ token_ids[r] \in Seq(Tokens) /\ num_tokens(r) = Len(token_ids[r])
      /\ num_cached_tokens[r] \in Nat /\ num_scheduled_tokens[r] \in Nat
      /\ block_table[r] \in Seq(Blocks)
      /\ at[r] \in {"waiting", "running", "in_flight", "finished"}
  BY DEF PrefixTypesOK, RequestTypes, PoolTypes, num_tokens
<1>2. /\ Len(token_ids[r]) \in Nat /\ consumed(r) \in Nat
      /\ consumed(r) = num_cached_tokens[r] + num_scheduled_tokens[r]
  BY <1>1 DEF consumed
<1>3. written(r) \in Nat
  BY <1>1, <1>2 DEF written
<1> QED
  BY <1>1, <1>2, <1>3, ToSetDef

(* The KV of a block that is hashed by a request's own text.               *)
LEMMA HashedIsWritten ==
  ASSUME PrefixTypesOK, HashedKV, NEW r \in Requests, NEW i \in Nat \ {0},
         i * BlockSize <= num_tokens(r),
         NEW b \in Blocks, hash[b] = prefix(r, i), NEW p \in Nat,
         p \div BlockSize + 1 = i
  PROVE  kv[b][p % BlockSize] = SubSeq(token_ids[r], 1, p + 1)
<1>1. PICK d \in Nat, o \in Offsets :
        p = d * BlockSize + o /\ p \div BlockSize = d /\ p % BlockSize = o
  BY BlockOfPosition, Zenon
<1>2. i = d + 1
  BY <1>1
<1>3. i * BlockSize = d * BlockSize + BlockSize /\ d * BlockSize \in Nat
  BY <1>2, Products
<1>4. /\ prefix(r, i) = SubSeq(token_ids[r], 1, i * BlockSize)
      /\ Len(prefix(r, i)) = i * BlockSize /\ prefix(r, i) # NoHash
  BY PrefixTypes DEF PrefixTypesOK
<1>5. kv[b][o] = SubSeq(prefix(r, i), 1, Len(prefix(r, i)) - BlockSize + o + 1)
  BY <1>4 DEF HashedKV
<1>6. o \in Nat /\ o < BlockSize /\ BlockSize \in Nat
  BY Offset
<1>7. Len(prefix(r, i)) - BlockSize + o + 1 = p + 1 /\ p + 1 \in 0..i * BlockSize
  BY <1>1, <1>3, <1>4, <1>6
<1>8. token_ids[r] \in Seq(Tokens) /\ i * BlockSize \in 0..Len(token_ids[r])
  BY <1>3, <1>6, RowTypes
<1>9. SubSeq(prefix(r, i), 1, p + 1) = SubSeq(token_ids[r], 1, p + 1)
  BY <1>4, <1>7, <1>8, PrefixOfPrefix
<1> QED
  BY <1>1, <1>5, <1>7, <1>9

(* A prefix that is complete stays what it is when a token is appended.    *)
LEMMA PrefixStays ==
  ASSUME PrefixTypesOK, NEW r \in Requests,
         \/ token_ids'[r] = token_ids[r]
         \/ \E t \in Tokens : token_ids'[r] = Append(token_ids[r], t)
  PROVE  /\ \A i \in Nat : i * BlockSize <= num_tokens(r) => prefix(r, i)' = prefix(r, i)
         /\ \A m \in 0..num_tokens(r) :
              SubSeq(token_ids'[r], 1, m) = SubSeq(token_ids[r], 1, m)
         /\ num_tokens(r) <= num_tokens(r)'
<1>1. token_ids[r] \in Seq(Tokens) /\ num_tokens(r) = Len(token_ids[r]) /\ num_tokens(r) \in Nat
  BY RowTypes
<1>2. \A m \in 0..num_tokens(r) :
        SubSeq(token_ids'[r], 1, m) = SubSeq(token_ids[r], 1, m)
  BY <1>1, PrefixOfLonger
<1>3. num_tokens(r)' = Len(token_ids'[r]) /\ num_tokens(r) <= num_tokens(r)'
  BY <1>1 DEF num_tokens
<1>4. ASSUME NEW i \in Nat, i * BlockSize <= num_tokens(r)
      PROVE  prefix(r, i)' = prefix(r, i)
  <2>1. i * BlockSize \in 0..num_tokens(r)
    BY <1>1, <1>4, Products
  <2>2. prefix(r, i) = SubSeq(token_ids[r], 1, i * BlockSize)
    BY <1>1, <1>4 DEF prefix, slice
  <2>3. prefix(r, i)' = SubSeq(token_ids'[r], 1, i * BlockSize)
    BY <1>1, <1>3, <1>4, <2>1 DEF prefix, slice
  <2> QED
    BY <1>2, <2>1, <2>2, <2>3
<1> QED
  BY <1>2, <1>3, <1>4

(* A request the step does not concern keeps what the invariant says of it *)
(* if its blocks keep their hashes and their KV, and the blocks that only  *)
(* it has stay its own.                                                    *)
LEMMA OtherRow ==
  ASSUME PrefixTypesOK, PrefixTypesOK', NEW q \in Requests,
         Place(q), Chain(q), Written(q),
         at'[q] = at[q], token_ids'[q] = token_ids[q],
         num_cached_tokens'[q] = num_cached_tokens[q],
         num_scheduled_tokens'[q] = num_scheduled_tokens[q],
         block_table'[q] = block_table[q],
         q \in ToSet(launched') <=> q \in ToSet(launched),
         \A b \in ToSet(block_table[q]) :
           /\ hash'[b] = hash[b] /\ kv'[b] = kv[b]
           /\ hash[b] = NoHash => \A s \in Requests :
                b \in ToSet(block_table'[s]) => b \in ToSet(block_table[s])
  PROVE  Place(q)' /\ Chain(q)' /\ Written(q)'
<1>1. /\ num_tokens(q)' = num_tokens(q) /\ consumed(q)' = consumed(q)
      /\ written(q)' = written(q)
      /\ \A i : prefix(q, i)' = prefix(q, i)
  BY DEF num_tokens, consumed, written, prefix, slice
<1>2. Place(q)'
  BY <1>1 DEF Place
<1>3. ASSUME NEW i \in 1..Len(block_table[q])
      PROVE  block_table[q][i] \in ToSet(block_table[q])
  BY RowTypes
<1>4. Chain(q)'
  BY <1>1, <1>3 DEF Chain, NoHash
<1>5. Written(q)'
  <2>1. ASSUME NEW p \in 0..written(q) - 1
        PROVE  /\ p \div BlockSize < Len(block_table[q])
               /\ block_table[q][p \div BlockSize + 1] \in ToSet(block_table[q])
               /\ kv[block_table[q][p \div BlockSize + 1]][p % BlockSize]
                    = SubSeq(token_ids[q], 1, p + 1)
    <3>1. p \in Nat
      BY RowTypes
    <3>2. p \div BlockSize < Len(block_table[q]) /\ p \div BlockSize \in Nat
      BY <3>1, BlockOfPosition DEF Written
    <3>3. p \div BlockSize + 1 \in 1..Len(block_table[q])
      BY <3>2, RowTypes
    <3> QED
      BY <1>3, <3>2, <3>3 DEF Written
  <2> QED
    BY <1>1, <2>1 DEF Written
<1> QED
  BY <1>2, <1>4, <1>5

-----------------------------------------------------------------------------
(* The steps                                                               *)

(* What a dispatch does besides giving blocks.                             *)
LEMMA DispatchFacts ==
  ASSUME RequestTypes, LaunchOK, NEW r \in Requests, NEW n \in Nat,
         at[r] # "in_flight", Dispatch(r, n)
  PROVE  /\ at' = [at EXCEPT ![r] = "in_flight"] /\ at'[r] = "in_flight"
         /\ num_scheduled_tokens'[r] = n
         /\ \A q \in Requests \ {r} : /\ at'[q] = at[q]
                                      /\ num_scheduled_tokens'[q] = num_scheduled_tokens[q]
                                      /\ q \in ToSet(launched') <=> q \in ToSet(launched)
         /\ token_ids' = token_ids /\ kv' = kv
         /\ at' \in [Requests -> {"waiting", "running", "in_flight", "finished"}]
         /\ num_scheduled_tokens' \in [Requests -> Nat]
         /\ launched' \in Seq(Requests) /\ r \in ToSet(launched')
         /\ LaunchOK'
<1>1. /\ at' = [at EXCEPT ![r] = "in_flight"]
      /\ num_scheduled_tokens' = [num_scheduled_tokens EXCEPT ![r] = n]
      /\ launched' = Append(launched, r) /\ token_ids' = token_ids /\ kv' = kv
  BY DEF Dispatch
<1>2. r \notin ToSet(launched) /\ Distinct(launched) /\ launched \in Seq(Requests)
  BY DEF LaunchOK, RequestTypes
<1>3. /\ launched' \in Seq(Requests) /\ ToSet(launched') = ToSet(launched) \cup {r}
      /\ Distinct(launched')
  BY <1>1, <1>2, AppendQueue
<1>4. /\ at' \in [Requests -> {"waiting", "running", "in_flight", "finished"}]
      /\ at'[r] = "in_flight" /\ \A q \in Requests \ {r} : at'[q] = at[q]
      /\ num_scheduled_tokens' \in [Requests -> Nat]
      /\ num_scheduled_tokens'[r] = n
      /\ \A q \in Requests \ {r} : num_scheduled_tokens'[q] = num_scheduled_tokens[q]
  BY <1>1 DEF RequestTypes
<1>5. LaunchOK'
  <2>1. ToSet(launched) \subseteq Requests
    BY <1>2, ToSetDef
  <2> QED
    BY <1>3, <1>4, <2>1 DEF LaunchOK
<1> QED
  BY <1>1, <1>3, <1>4, <1>5

LEMMA AdmitStep ==
  ASSUME PrefixInv, NEW r \in Requests, Admit(r)
  PROVE  PrefixInv'
<1> DEFINE k == num_cached_blocks(r)
<1>1. /\ PrefixTypesOK /\ RefCountsExact /\ IndexOK /\ LaunchOK /\ HashedKV
      /\ \A q \in Requests : Place(q) /\ Chain(q) /\ Written(q)
      /\ RequestTypes /\ PoolTypes /\ HashTypes /\ KVTypes
  BY DEF PrefixInv, Rows, PrefixTypesOK
<1>2. /\ at[r] = "waiting" /\ block_table[r] = <<>> /\ can_allocate(r) /\ allocate(r)
      /\ num_cached_tokens' = [num_cached_tokens EXCEPT ![r] = k * BlockSize]
  BY DEF Admit
<1>3. PICK n \in 1..(num_tokens(r) - k * BlockSize) : Dispatch(r, n)
  BY DEF Admit
<1>4. num_tokens(r) > 0 /\ num_tokens(r) \in Nat
  BY <1>1, RowTypes DEF Place
<1>5. /\ k \in 0..num_blocks(r) - 1
      /\ cached(r) \in Seq(Blocks) /\ Len(cached(r)) = k
      /\ \A i \in 1..k : /\ hash[cached(r)[i]] = prefix(r, i) /\ prefix(r, i) # NoHash
                         /\ i * BlockSize <= num_tokens(r)
      /\ Distinct(cached(r))
      /\ num_blocks(r) \in Nat \ {0} /\ num_tokens(r) <= num_blocks(r) * BlockSize
      /\ k \in Nat
  BY <1>1, <1>4, CachedBlocks, BlockNumbers
<1> HIDE DEF k
<1>6. k * BlockSize \in Nat /\ n \in Nat /\ n > 0 /\ k * BlockSize + n <= num_tokens(r)
  BY <1>3, <1>4, <1>5, Products
<1>7. PoolTypes' /\ RefCountsExact'
  BY <1>1, <1>2, <1>4, AllocateCounts
<1>8. PICK new \in Seq(Blocks) :
        /\ block_table' = [block_table EXCEPT ![r] = cached(r) \o new]
        /\ Len(new) = num_blocks(r) - k
        /\ ToSet(new) \subseteq Blocks \ used_block_ids
        /\ ToSet(new) \cap ToSet(cached(r)) = {}
        /\ TakeBlocks(ToSet(new))
  BY <1>1, <1>2, <1>4, AllocateCounts DEF k
<1>9. /\ HashTypes' /\ IndexOK'
      /\ \A b \in Blocks : hash'[b] = IF b \in ToSet(new) THEN NoHash ELSE hash[b]
  BY <1>1, <1>8, TakeHashes
<1>10. /\ at'[r] = "in_flight" /\ num_scheduled_tokens'[r] = n
       /\ \A q \in Requests \ {r} : /\ at'[q] = at[q]
                                    /\ num_scheduled_tokens'[q] = num_scheduled_tokens[q]
                                    /\ q \in ToSet(launched') <=> q \in ToSet(launched)
       /\ token_ids' = token_ids /\ kv' = kv
       /\ at' \in [Requests -> {"waiting", "running", "in_flight", "finished"}]
       /\ num_scheduled_tokens' \in [Requests -> Nat]
       /\ launched' \in Seq(Requests) /\ r \in ToSet(launched')
       /\ LaunchOK'
  BY <1>1, <1>2, <1>3, <1>6, DispatchFacts
<1>11. /\ num_cached_tokens' \in [Requests -> Nat] /\ num_cached_tokens'[r] = k * BlockSize
       /\ \A q \in Requests \ {r} : num_cached_tokens'[q] = num_cached_tokens[q]
  BY <1>1, <1>2, <1>6 DEF RequestTypes
<1>12. PrefixTypesOK'
  BY <1>1, <1>7, <1>9, <1>10, <1>11 DEF PrefixTypesOK, RequestTypes, KVTypes
<1>13. HashedKV'
  BY <1>1, <1>9, <1>10 DEF HashedKV, NoHash
<1>14. /\ block_table'[r] = cached(r) \o new
       /\ \A q \in Requests \ {r} : block_table'[q] = block_table[q]
       /\ Len(block_table'[r]) = num_blocks(r)
       /\ \A i \in 1..k : block_table'[r][i] = cached(r)[i]
       /\ \A i \in k + 1..num_blocks(r) : block_table'[r][i] \in ToSet(new)
  <2>1. /\ block_table'[r] = cached(r) \o new
        /\ \A q \in Requests \ {r} : block_table'[q] = block_table[q]
    BY <1>1, <1>8 DEF PoolTypes
  <2>2. /\ Len(cached(r) \o new) = num_blocks(r)
        /\ \A i \in 1..k : (cached(r) \o new)[i] = cached(r)[i]
    BY <1>5, <1>8
  <2>3. ASSUME NEW i \in k + 1..num_blocks(r)
        PROVE  (cached(r) \o new)[i] \in ToSet(new)
    <3>1. (cached(r) \o new)[i] = new[i - k] /\ i - k \in 1..Len(new)
      BY <1>5, <1>8
    <3> QED
      BY <3>1, <1>8, ToSetDef
  <2> QED
    BY <2>1, <2>2, <2>3
<1>15. ToSet(block_table'[r]) = ToSet(cached(r)) \cup ToSet(new)
  <2>1. cached(r) \in Seq(Blocks) /\ new \in Seq(Blocks)
    BY <1>5
  <2>2. ToSet(cached(r) \o new) = ToSet(cached(r)) \cup ToSet(new)
    BY <2>1, ConcatQueue
  <2> QED
    BY <1>14, <2>2
<1>16. \A i \in 1..k : cached(r)[i] \in Blocks /\ hash[cached(r)[i]] # NoHash
                       /\ cached(r)[i] \notin ToSet(new)
  <2>1. ToSet(cached(r)) = {cached(r)[i] : i \in 1..k} /\ ToSet(cached(r)) \subseteq Blocks
    BY <1>5, ToSetDef
  <2> QED
    BY <1>5, <1>8, <2>1
<1>17. \A b \in ToSet(cached(r)) : hash[b] # NoHash
  <2>1. ToSet(cached(r)) = {cached(r)[i] : i \in 1..k}
    BY <1>5, ToSetDef
  <2> QED
    BY <1>16, <2>1
<1>18. ASSUME NEW q \in Requests, NEW b \in ToSet(block_table[q])
       PROVE  b \in Blocks /\ b \in used_block_ids /\ b \notin ToSet(new)
  <2>1. b \in Blocks
    BY <1>1, RowTypes
  <2>2. b \in used_block_ids
    BY <1>1, <2>1, CountsMean
  <2> QED
    BY <1>8, <2>1, <2>2
<1>19. ASSUME NEW q \in Requests \ {r}
       PROVE  Place(q)' /\ Chain(q)' /\ Written(q)'
  <2>1. ASSUME NEW b \in ToSet(block_table[q])
        PROVE  /\ hash'[b] = hash[b] /\ kv'[b] = kv[b]
               /\ hash[b] = NoHash => \A s \in Requests :
                    b \in ToSet(block_table'[s]) => b \in ToSet(block_table[s])
    <3>1. hash'[b] = hash[b] /\ kv'[b] = kv[b] /\ b \notin ToSet(new)
      BY <1>9, <1>10, <1>18
    <3>2. ASSUME hash[b] = NoHash, NEW s \in Requests, b \in ToSet(block_table'[s])
          PROVE  b \in ToSet(block_table[s])
      <4>1. CASE s = r
        BY <1>15, <1>17, <3>1, <3>2, <4>1
      <4>2. CASE s # r
        BY <1>14, <3>2, <4>2
      <4> QED
        BY <4>1, <4>2
    <3> QED
      BY <3>1, <3>2
  <2> QED
    BY <1>1, <1>10, <1>11, <1>12, <1>14, <2>1, OtherRow
<1>20. num_tokens(r)' = num_tokens(r) /\ \A i : prefix(r, i)' = prefix(r, i)
  BY <1>10 DEF num_tokens, prefix, slice
<1>21. Place(r)'
  <2>1. consumed(r)' = k * BlockSize + n
    BY <1>10, <1>11 DEF consumed
  <2> QED
    BY <1>4, <1>5, <1>6, <1>10, <1>14, <1>20, <2>1 DEF Place
<1>22. Chain(r)'
  <2>1. ASSUME NEW i \in 1..num_blocks(r)
        PROVE  IF i * BlockSize <= k * BlockSize
               THEN hash'[block_table'[r][i]] = prefix(r, i)
               ELSE /\ hash'[block_table'[r][i]] = NoHash
                    /\ \A q \in Requests : block_table'[r][i] \in ToSet(block_table'[q]) => q = r
    <3>1. i * BlockSize <= k * BlockSize <=> i <= k
      BY <1>5, BlockMonotone
    <3>2. CASE i <= k
      <4>1. i \in 1..k
        BY <1>5, <3>2
      <4>2. /\ block_table'[r][i] = cached(r)[i] /\ cached(r)[i] \in Blocks
            /\ cached(r)[i] \notin ToSet(new) /\ hash[cached(r)[i]] = prefix(r, i)
        BY <1>5, <1>14, <1>16, <4>1
      <4> QED
        BY <1>9, <3>1, <3>2, <4>2
    <3>3. CASE ~(i <= k)
      <4>1. i \in k + 1..num_blocks(r)
        BY <1>5, <3>3
      <4>2. block_table'[r][i] \in ToSet(new) /\ block_table'[r][i] \in Blocks
        BY <1>8, <1>14, <4>1
      <4>3. \A q \in Requests \ {r} : block_table'[r][i] \notin ToSet(block_table'[q])
        BY <1>14, <1>18, <4>2
      <4> QED
        BY <1>9, <3>1, <3>3, <4>2, <4>3
    <3> QED
      BY <3>2, <3>3
  <2> QED
    BY <1>11, <1>14, <1>20, <2>1 DEF Chain, NoHash
<1>23. Written(r)'
  <2>1. written(r)' = k * BlockSize
    BY <1>10, <1>11 DEF written
  <2>2. ASSUME NEW p \in 0..k * BlockSize - 1
        PROVE  /\ p \div BlockSize < num_blocks(r)
               /\ kv[block_table'[r][p \div BlockSize + 1]][p % BlockSize]
                    = SubSeq(token_ids[r], 1, p + 1)
    <3>0. p \in Nat /\ p < k * BlockSize
      BY <1>6
    <3>1. PICK d \in Nat, o \in Offsets : p = d * BlockSize + o /\ p \div BlockSize = d
      BY <3>0, BlockOfPosition, Zenon
    <3>2. d < k
      BY <1>5, <3>0, <3>1, BeforeBlock, Zenon
    <3>3. d + 1 \in 1..k /\ d + 1 \in Nat \ {0}
      BY <1>5, <3>2
    <3>4. kv[cached(r)[d + 1]][p % BlockSize] = SubSeq(token_ids[r], 1, p + 1)
      <4>1. /\ (d + 1) * BlockSize <= num_tokens(r) /\ cached(r)[d + 1] \in Blocks
            /\ hash[cached(r)[d + 1]] = prefix(r, d + 1)
        BY <1>5, <1>16, <3>3
      <4>2. p \div BlockSize + 1 = d + 1
        BY <3>1
      <4> QED
        BY <1>1, <3>0, <3>3, <4>1, <4>2, HashedIsWritten
    <3>5. d < num_blocks(r) /\ block_table'[r][d + 1] = cached(r)[d + 1]
      BY <1>5, <1>14, <3>2, <3>3
    <3> QED
      BY <3>1, <3>4, <3>5
  <2> QED
    BY <1>10, <1>14, <2>1, <2>2 DEF Written
<1>24. Rows'
  BY <1>19, <1>21, <1>22, <1>23 DEF Rows
<1> QED
  BY <1>7, <1>9, <1>10, <1>12, <1>13, <1>24 DEF PrefixInv

LEMMA InvParts ==
  ASSUME PrefixInv
  PROVE  /\ PrefixTypesOK /\ RefCountsExact /\ IndexOK /\ LaunchOK /\ HashedKV
         /\ RequestTypes /\ PoolTypes /\ HashTypes /\ KVTypes
         /\ \A q \in Requests : Place(q) /\ Chain(q) /\ Written(q)
BY DEF PrefixInv, Rows, PrefixTypesOK

(* A request keeps its chain if its counted tokens and blocks stay.        *)
LEMMA SameChain ==
  ASSUME NEW r \in Requests, Chain(r),
         token_ids'[r] = token_ids[r], num_cached_tokens'[r] = num_cached_tokens[r],
         block_table' = block_table, hash' = hash
  PROVE  Chain(r)'
<1>1. \A i : prefix(r, i)' = prefix(r, i)
  BY DEF prefix, slice
<1> QED
  BY <1>1 DEF Chain, NoHash

LEMMA ContinueStep ==
  ASSUME PrefixInv, NEW r \in Requests, Continue(r)
  PROVE  PrefixInv'
<1>1. /\ PrefixTypesOK /\ RefCountsExact /\ IndexOK /\ LaunchOK /\ HashedKV
      /\ RequestTypes /\ PoolTypes /\ HashTypes /\ KVTypes
      /\ \A q \in Requests : Place(q) /\ Chain(q) /\ Written(q)
  BY InvParts
<1>2. /\ at[r] = "waiting" /\ block_table[r] # <<>>
      /\ num_cached_tokens' = num_cached_tokens /\ block_table' = block_table
      /\ ref_count' = ref_count /\ hash' = hash /\ hash_to_block_id' = hash_to_block_id
      /\ free_block_ids' = free_block_ids /\ used_block_ids' = used_block_ids
  BY DEF Continue, poolVars
<1>3. PICK n \in 1..(num_tokens(r) - num_cached_tokens[r]) : Dispatch(r, n)
  BY DEF Continue
<1>4. n \in Nat /\ n > 0 /\ num_cached_tokens[r] + n <= num_tokens(r)
  BY <1>1, <1>3, RowTypes
<1>5. /\ at'[r] = "in_flight" /\ num_scheduled_tokens'[r] = n
      /\ \A q \in Requests \ {r} : /\ at'[q] = at[q]
                                   /\ num_scheduled_tokens'[q] = num_scheduled_tokens[q]
                                   /\ q \in ToSet(launched') <=> q \in ToSet(launched)
      /\ token_ids' = token_ids /\ kv' = kv
      /\ at' \in [Requests -> {"waiting", "running", "in_flight", "finished"}]
      /\ num_scheduled_tokens' \in [Requests -> Nat]
      /\ launched' \in Seq(Requests) /\ r \in ToSet(launched')
      /\ LaunchOK'
  BY <1>1, <1>2, <1>3, <1>4, DispatchFacts
<1>6. PrefixTypesOK' /\ RefCountsExact' /\ IndexOK' /\ HashedKV'
  <2>1. PrefixTypesOK'
    BY <1>1, <1>2, <1>5 DEF PrefixTypesOK, RequestTypes, PoolTypes, HashTypes, KVTypes
  <2>2. RefCountsExact' /\ IndexOK' /\ HashedKV'
    BY <1>1, <1>2, <1>5 DEF RefCountsExact, IndexOK, HashedKV, NoHash
  <2> QED
    BY <2>1, <2>2
<1>7. ASSUME NEW q \in Requests \ {r} PROVE Place(q)' /\ Chain(q)' /\ Written(q)'
  BY <1>1, <1>2, <1>5, <1>6, OtherRow
<1>8. Chain(r)'
  BY <1>1, <1>2, <1>5, SameChain
<1>9. Place(r)'
  <2>1. /\ num_tokens(r)' = num_tokens(r) /\ consumed(r)' = num_cached_tokens[r] + n
    BY <1>2, <1>5 DEF num_tokens, consumed
  <2>2. num_tokens(r) <= Len(block_table[r]) * BlockSize /\ num_tokens(r) > 0
    BY <1>1, <1>2 DEF Place
  <2> QED
    BY <1>2, <1>4, <1>5, <2>1, <2>2 DEF Place
<1>10. Written(r)'
  <2>1. written(r)' = written(r)
    BY <1>2, <1>5 DEF written
  <2> QED
    BY <1>1, <1>2, <1>5, <2>1 DEF Written
<1>11. Rows'
  BY <1>7, <1>8, <1>9, <1>10 DEF Rows
<1> QED
  BY <1>5, <1>6, <1>11 DEF PrefixInv

LEMMA PreemptStep ==
  ASSUME PrefixInv, NEW r \in Requests, Preempt(r)
  PROVE  PrefixInv'
<1>1. /\ PrefixTypesOK /\ RefCountsExact /\ IndexOK /\ LaunchOK /\ HashedKV
      /\ RequestTypes /\ PoolTypes /\ HashTypes /\ KVTypes
      /\ \A q \in Requests : Place(q) /\ Chain(q) /\ Written(q)
  BY InvParts
<1>2. /\ at[r] = "running" /\ at' = [at EXCEPT ![r] = "waiting"] /\ deallocate(r)
      /\ num_cached_tokens' = [num_cached_tokens EXCEPT ![r] = 0]
      /\ token_ids' = token_ids /\ num_scheduled_tokens' = num_scheduled_tokens
      /\ hash' = hash /\ hash_to_block_id' = hash_to_block_id
      /\ launched' = launched /\ kv' = kv
  BY DEF Preempt
<1>3. PoolTypes' /\ RefCountsExact'
  BY <1>1, <1>2, DropCounts
<1>4. /\ block_table'[r] = <<>>
      /\ \A q \in Requests \ {r} : block_table'[q] = block_table[q]
  BY <1>1, <1>2 DEF deallocate, PoolTypes
<1>5. /\ at' \in [Requests -> {"waiting", "running", "in_flight", "finished"}]
      /\ num_cached_tokens' \in [Requests -> Nat]
      /\ at'[r] = "waiting" /\ num_cached_tokens'[r] = 0
      /\ \A q \in Requests \ {r} : /\ at'[q] = at[q]
                                   /\ num_cached_tokens'[q] = num_cached_tokens[q]
  BY <1>1, <1>2 DEF RequestTypes
<1>6. PrefixTypesOK' /\ IndexOK' /\ HashedKV' /\ LaunchOK'
  <2>1. PrefixTypesOK'
    BY <1>1, <1>2, <1>3, <1>5 DEF PrefixTypesOK, RequestTypes, HashTypes, KVTypes
  <2>2. IndexOK' /\ HashedKV'
    BY <1>1, <1>2 DEF IndexOK, HashedKV, NoHash
  <2>3. LaunchOK'
    <3>1. ToSet(launched) \subseteq Requests
      BY <1>1, ToSetDef DEF RequestTypes
    <3> QED
      BY <1>1, <1>2, <1>5, <3>1 DEF LaunchOK
  <2> QED
    BY <2>1, <2>2, <2>3
<1>7. \A s \in Requests : ToSet(block_table'[s]) \subseteq ToSet(block_table[s])
  BY <1>4, EmptyQueue
<1>8. ASSUME NEW q \in Requests \ {r} PROVE Place(q)' /\ Chain(q)' /\ Written(q)'
  <2>1. \A b \in ToSet(block_table[q]) :
           /\ hash'[b] = hash[b] /\ kv'[b] = kv[b]
           /\ hash[b] = NoHash => \A s \in Requests :
                b \in ToSet(block_table'[s]) => b \in ToSet(block_table[s])
    BY <1>2, <1>7
  <2> QED
    BY <1>1, <1>2, <1>4, <1>5, <1>6, <2>1, OtherRow
<1>9. num_tokens(r)' = num_tokens(r) /\ written(r)' = 0 /\ num_tokens(r) > 0
  BY <1>1, <1>2, <1>5 DEF num_tokens, written, Place
<1>10. Place(r)' /\ Chain(r)' /\ Written(r)'
  BY <1>4, <1>5, <1>9 DEF Place, Chain, Written
<1>11. Rows'
  BY <1>8, <1>10 DEF Rows
<1> QED
  BY <1>3, <1>6, <1>11 DEF PrefixInv

(* A decode row has a block for the token it computes: it is given one     *)
(* exactly when its tokens have filled those it has.                       *)
LEMMA DecodeFits ==
  ASSUME PrefixTypesOK, NEW r \in Requests, Place(r), at[r] = "running"
  PROVE  /\ needs_block(r) =>
              num_tokens(r) <= (Len(block_table[r]) + 1) * BlockSize
         /\ ~needs_block(r) => num_tokens(r) <= Len(block_table[r]) * BlockSize
<1> DEFINE n == num_tokens(r)
           k == Len(block_table[r])
<1>1. n \in Nat \ {0} /\ k \in Nat /\ n - 1 <= k * BlockSize
  BY RowTypes DEF Place
<1> HIDE DEF n, k
<1>2. k * BlockSize \in Nat /\ (k + 1) * BlockSize = k * BlockSize + BlockSize
  BY <1>1, Products
<1>3. n <= (k + 1) * BlockSize
  BY <1>1, <1>2, Offset
<1>4. n % BlockSize # 1 => n # k * BlockSize + 1
  BY <1>1, PastFull, Zenon
<1>5. n # k * BlockSize + 1 => n <= k * BlockSize
  BY <1>1, <1>2
<1> QED
  BY <1>3, <1>4, <1>5, Zenon DEF needs_block, n, k

LEMMA DecodeStep ==
  ASSUME PrefixInv, NEW r \in Requests, Decode(r)
  PROVE  PrefixInv'
<1>1. /\ PrefixTypesOK /\ RefCountsExact /\ IndexOK /\ LaunchOK /\ HashedKV
      /\ RequestTypes /\ PoolTypes /\ HashTypes /\ KVTypes
      /\ \A q \in Requests : Place(q) /\ Chain(q) /\ Written(q)
  BY InvParts
<1>2. /\ at[r] = "running" /\ can_append(r) /\ may_append(r) /\ Dispatch(r, 1)
      /\ num_cached_tokens' = num_cached_tokens
  BY DEF Decode
<1>3. /\ at'[r] = "in_flight" /\ num_scheduled_tokens'[r] = 1
      /\ \A q \in Requests \ {r} : /\ at'[q] = at[q]
                                   /\ num_scheduled_tokens'[q] = num_scheduled_tokens[q]
                                   /\ q \in ToSet(launched') <=> q \in ToSet(launched)
      /\ token_ids' = token_ids /\ kv' = kv
      /\ at' \in [Requests -> {"waiting", "running", "in_flight", "finished"}]
      /\ num_scheduled_tokens' \in [Requests -> Nat]
      /\ launched' \in Seq(Requests) /\ r \in ToSet(launched')
      /\ LaunchOK'
  BY <1>1, <1>2, DispatchFacts
<1>4. RequestTypes' /\ KVTypes'
  BY <1>1, <1>2, <1>3 DEF RequestTypes, KVTypes
<1>5. /\ num_tokens(r)' = num_tokens(r) /\ num_tokens(r) \in Nat /\ num_tokens(r) > 0
      /\ num_cached_tokens[r] = num_tokens(r) - 1 /\ consumed(r)' = num_tokens(r)
      /\ written(r)' = num_cached_tokens[r] /\ written(r) = num_cached_tokens[r]
      /\ num_cached_tokens[r] <= Len(block_table[r]) * BlockSize
      /\ \A i : prefix(r, i)' = prefix(r, i)
  <2>1. num_cached_tokens[r] = num_tokens(r) - 1 /\ num_tokens(r) \in Nat /\ num_tokens(r) > 0
        /\ num_cached_tokens[r] <= Len(block_table[r]) * BlockSize
    BY <1>1, <1>2, RowTypes DEF Place
  <2>2. consumed(r)' = num_cached_tokens[r] + 1
    BY <1>2, <1>3 DEF consumed
  <2>3. written(r)' = num_cached_tokens[r] /\ written(r) = num_cached_tokens[r]
    BY <1>2, <1>3 DEF written
  <2>4. num_tokens(r)' = num_tokens(r) /\ \A i : prefix(r, i)' = prefix(r, i)
    BY <1>3 DEF num_tokens, prefix, slice
  <2> QED
    BY <2>1, <2>2, <2>3, <2>4
<1>6. CASE ~needs_block(r)
  <2>1. /\ block_table' = block_table
        /\ ref_count' = ref_count /\ hash' = hash /\ hash_to_block_id' = hash_to_block_id
        /\ free_block_ids' = free_block_ids /\ used_block_ids' = used_block_ids
    BY <1>2, <1>6 DEF may_append, poolVars
  <2>2. PrefixTypesOK' /\ RefCountsExact' /\ IndexOK' /\ HashedKV'
    <3>1. PrefixTypesOK'
      BY <1>1, <1>4, <2>1 DEF PrefixTypesOK, PoolTypes, HashTypes
    <3>2. RefCountsExact' /\ IndexOK' /\ HashedKV'
      BY <1>1, <1>3, <2>1 DEF RefCountsExact, IndexOK, HashedKV, NoHash
    <3> QED
      BY <3>1, <3>2
  <2>3. ASSUME NEW q \in Requests \ {r} PROVE Place(q)' /\ Chain(q)' /\ Written(q)'
    BY <1>1, <1>2, <1>3, <2>1, <2>2, OtherRow
  <2>4. Chain(r)'
    BY <1>1, <1>2, <1>3, <2>1, SameChain
  <2>5. Place(r)'
    <3>1. num_tokens(r) <= Len(block_table[r]) * BlockSize
      BY <1>1, <1>2, <1>6, DecodeFits
    <3> QED
      BY <1>3, <1>5, <2>1, <3>1 DEF Place
  <2>6. Written(r)'
    BY <1>1, <1>3, <1>5, <2>1 DEF Written
  <2>7. Rows'
    BY <2>3, <2>4, <2>5, <2>6 DEF Rows
  <2> QED
    BY <1>3, <2>2, <2>7 DEF PrefixInv
<1>7. CASE needs_block(r)
  <2>1. PoolTypes' /\ RefCountsExact'
    BY <1>1, <1>2, <1>7, AppendCounts
  <2>2. PICK b \in Blocks \ used_block_ids :
          /\ block_table' = [block_table EXCEPT ![r] = Append(block_table[r], b)]
          /\ TakeBlocks({b})
    BY <1>1, <1>2, <1>7, AppendCounts
  <2>3. /\ HashTypes' /\ IndexOK'
        /\ \A c \in Blocks : hash'[c] = IF c = b THEN NoHash ELSE hash[c]
    <3>1. {b} \in SUBSET Blocks
      BY <2>2
    <3>2. /\ HashTypes' /\ IndexOK'
          /\ \A c \in Blocks : hash'[c] = IF c \in {b} THEN NoHash ELSE hash[c]
      BY <1>1, <2>2, <3>1, TakeHashes
    <3> QED
      BY <3>2
  <2>4. PrefixTypesOK' /\ HashedKV'
    <3>1. PrefixTypesOK'
      BY <1>4, <2>1, <2>3 DEF PrefixTypesOK
    <3>2. HashedKV'
      BY <1>1, <1>3, <2>3 DEF HashedKV, NoHash
    <3> QED
      BY <3>1, <3>2
  <2>5. /\ block_table'[r] = Append(block_table[r], b)
        /\ \A q \in Requests \ {r} : block_table'[q] = block_table[q]
        /\ block_table[r] \in Seq(Blocks)
    BY <1>1, <2>2 DEF PoolTypes
  <2>6. /\ Len(block_table'[r]) = Len(block_table[r]) + 1
        /\ \A i \in 1..Len(block_table[r]) : block_table'[r][i] = block_table[r][i]
        /\ block_table'[r][Len(block_table[r]) + 1] = b
        /\ Len(block_table[r]) \in Nat
    BY <2>2, <2>5
  <2>7. ToSet(block_table'[r]) = ToSet(block_table[r]) \cup {b}
    BY <2>2, <2>5, AppendQueue
  <2>8. ASSUME NEW q \in Requests, NEW c \in ToSet(block_table[q])
        PROVE  c \in Blocks /\ c # b /\ hash'[c] = hash[c]
    <3>1. c \in Blocks
      BY <1>1, RowTypes
    <3>2. c \in used_block_ids
      BY <1>1, <3>1, CountsMean
    <3> QED
      BY <2>2, <2>3, <3>1, <3>2
  <2>9. ASSUME NEW q \in Requests, NEW c \in ToSet(block_table[q]),
               NEW s \in Requests, c \in ToSet(block_table'[s])
        PROVE  c \in ToSet(block_table[s])
    <3>1. CASE s = r
      BY <2>7, <2>8, <2>9, <3>1
    <3>2. CASE s # r
      BY <2>5, <2>9, <3>2
    <3> QED
      BY <3>1, <3>2
  <2>10. ASSUME NEW q \in Requests \ {r} PROVE Place(q)' /\ Chain(q)' /\ Written(q)'
    <3>1. \A c \in ToSet(block_table[q]) :
            /\ hash'[c] = hash[c] /\ kv'[c] = kv[c]
            /\ hash[c] = NoHash => \A s \in Requests :
                 c \in ToSet(block_table'[s]) => c \in ToSet(block_table[s])
      BY <1>3, <2>8, <2>9
    <3> QED
      BY <1>1, <1>2, <1>3, <2>4, <2>5, <3>1, OtherRow
  <2>11. Place(r)'
    <3>1. num_tokens(r) <= (Len(block_table[r]) + 1) * BlockSize
      BY <1>1, <1>2, <1>7, DecodeFits
    <3> QED
      BY <1>3, <1>5, <2>6, <3>1 DEF Place
  <2>12. Chain(r)'
    <3>1. ASSUME NEW i \in 1..Len(block_table[r]) + 1
          PROVE  IF i * BlockSize <= num_cached_tokens[r]
                 THEN hash'[block_table'[r][i]] = prefix(r, i)
                 ELSE /\ hash'[block_table'[r][i]] = NoHash
                      /\ \A q \in Requests : block_table'[r][i] \in ToSet(block_table'[q]) => q = r
      <4>1. CASE i \in 1..Len(block_table[r])
        <5>1. block_table'[r][i] = block_table[r][i] /\ block_table[r][i] \in ToSet(block_table[r])
          BY <1>1, <2>6, <4>1, RowTypes
        <5>2. hash'[block_table[r][i]] = hash[block_table[r][i]]
          BY <2>8, <5>1
        <5>3. \A q \in Requests : block_table[r][i] \in ToSet(block_table'[q])
                                    => block_table[r][i] \in ToSet(block_table[q])
          BY <2>9, <5>1
        <5>4. Chain(r)
          BY <1>1
        <5> QED
          BY <4>1, <5>1, <5>2, <5>3, <5>4 DEF Chain
      <4>2. CASE i = Len(block_table[r]) + 1
        <5>1. ~(i * BlockSize <= num_cached_tokens[r])
          <6>1. i * BlockSize = Len(block_table[r]) * BlockSize + BlockSize
                /\ Len(block_table[r]) * BlockSize \in Nat
            BY <2>6, <4>2, Products
          <6> QED
            BY <1>5, <6>1, Offset
        <5>2. block_table'[r][i] = b /\ hash'[b] = NoHash
          BY <2>2, <2>3, <2>6, <4>2
        <5>3. \A q \in Requests \ {r} : b \notin ToSet(block_table'[q])
          BY <2>5, <2>8
        <5> QED
          BY <5>1, <5>2, <5>3
      <4> QED
        BY <2>6, <4>1, <4>2
    <3> QED
      BY <1>2, <1>5, <2>6, <3>1 DEF Chain, NoHash
  <2>13. Written(r)'
    <3>1. ASSUME NEW p \in 0..num_cached_tokens[r] - 1
          PROVE  /\ p \div BlockSize < Len(block_table[r]) + 1
                 /\ kv[block_table'[r][p \div BlockSize + 1]][p % BlockSize]
                      = SubSeq(token_ids[r], 1, p + 1)
      <4>1. p \in Nat
        BY <1>1, RowTypes
      <4>2. PICK d \in Nat, o \in Offsets : p \div BlockSize = d /\ p % BlockSize = o
        BY <4>1, BlockOfPosition, Zenon
      <4>3. d < Len(block_table[r]) /\ kv[block_table[r][d + 1]][o] = SubSeq(token_ids[r], 1, p + 1)
        BY <1>1, <1>5, <4>2 DEF Written
      <4>4. block_table'[r][d + 1] = block_table[r][d + 1] /\ d < Len(block_table[r]) + 1
        BY <2>6, <4>3
      <4> QED
        BY <4>2, <4>3, <4>4
    <3> QED
      BY <1>3, <1>5, <2>6, <3>1 DEF Written
  <2>14. Rows'
    BY <2>10, <2>11, <2>12, <2>13 DEF Rows
  <2> QED
    BY <1>3, <2>1, <2>3, <2>4, <2>14 DEF PrefixInv
<1> QED
  BY <1>6, <1>7

(* The positions of the chunk of r that offset o of block b stands for.    *)
ChunkAt(r, b, o) ==
  {p \in num_cached_tokens[r]..(consumed(r) - 1) :
     block_table[r][p \div BlockSize + 1] = b /\ p % BlockSize = o}

LEMMA ChunkPlaces ==
  ASSUME PrefixInv, NEW r \in Requests, at[r] = "in_flight"
  PROVE  /\ \A p \in 0..consumed(r) - 1 :
              /\ p \in Nat /\ p \div BlockSize + 1 \in 1..Len(block_table[r])
              /\ p \div BlockSize < Len(block_table[r]) /\ p % BlockSize \in Offsets
              /\ \A c \in num_cached_tokens[r]..(consumed(r) - 1) :
                   c \in ChunkAt(r, block_table[r][p \div BlockSize + 1], p % BlockSize)
                     <=> c = p
         /\ \A b \in Blocks, o \in Offsets : \A p \in ChunkAt(r, b, o) :
              /\ hash[b] = NoHash
              /\ \A q \in Requests : b \in ToSet(block_table[q]) => q = r
<1> DEFINE t == block_table[r]
<1>1. /\ PrefixTypesOK /\ Place(r) /\ Chain(r) /\ t \in Seq(Blocks) /\ Len(t) \in Nat
      /\ consumed(r) \in Nat /\ num_cached_tokens[r] \in Nat /\ num_tokens(r) \in Nat
      /\ Distinct(t)
  BY InvParts, RowTypes DEF RefCountsExact
<1>2. consumed(r) <= Len(t) * BlockSize /\ Len(t) * BlockSize \in Nat
  <2>1. consumed(r) <= num_tokens(r) /\ num_tokens(r) <= Len(t) * BlockSize
    BY <1>1 DEF Place
  <2> QED
    BY <1>1, <2>1, Products
<1>3. ASSUME NEW p \in 0..consumed(r) - 1
      PROVE  \E d \in Nat, o \in Offsets :
               /\ p = d * BlockSize + o /\ p \div BlockSize = d /\ p % BlockSize = o
               /\ d < Len(t)
  <2>1. p \in Nat /\ p < Len(t) * BlockSize
    BY <1>1, <1>2
  <2>2. PICK d \in Nat, o \in Offsets :
          p = d * BlockSize + o /\ p \div BlockSize = d /\ p % BlockSize = o
    BY <2>1, BlockOfPosition, Zenon
  <2>3. d < Len(t)
    BY <1>1, <2>1, <2>2, BeforeBlock, Zenon
  <2> QED
    BY <2>2, <2>3, Zenon
<1>4. ASSUME NEW p \in 0..consumed(r) - 1
      PROVE  /\ p \in Nat /\ p \div BlockSize + 1 \in 1..Len(t)
             /\ p \div BlockSize < Len(t) /\ p % BlockSize \in Offsets
  <2>1. p \in Nat
    BY <1>1
  <2>2. PICK d \in Nat, o \in Offsets :
          p \div BlockSize = d /\ p % BlockSize = o /\ d < Len(t)
    BY <1>3
  <2>3. d + 1 \in 1..Len(t)
    BY <1>1, <2>2
  <2> QED
    BY <2>1, <2>2, <2>3
<1>5. ASSUME NEW p \in 0..consumed(r) - 1, NEW c \in 0..consumed(r) - 1,
             t[p \div BlockSize + 1] = t[c \div BlockSize + 1],
             p % BlockSize = c % BlockSize
      PROVE  p = c
  <2>1. PICK d \in Nat, o \in Offsets :
          p = d * BlockSize + o /\ p \div BlockSize = d /\ p % BlockSize = o /\ d < Len(t)
    BY <1>3
  <2>2. PICK e \in Nat, u \in Offsets :
          c = e * BlockSize + u /\ c \div BlockSize = e /\ c % BlockSize = u /\ e < Len(t)
    BY <1>3
  <2>3. t[d + 1] = t[e + 1] /\ o = u
    BY <1>5, <2>1, <2>2, Zenon
  <2>4. d + 1 \in 1..Len(t) /\ e + 1 \in 1..Len(t)
    BY <1>1, <2>1, <2>2
  <2>5. d + 1 = e + 1
    BY <1>1, <2>3, <2>4 DEF Distinct
  <2>6. d = e
    BY <2>1, <2>2, <2>5
  <2> QED
    BY <2>1, <2>2, <2>3, <2>6, Zenon
<1>6. ASSUME NEW p \in 0..consumed(r) - 1, NEW c \in num_cached_tokens[r]..(consumed(r) - 1)
      PROVE  c \in ChunkAt(r, t[p \div BlockSize + 1], p % BlockSize) <=> c = p
  <2>1. c \in 0..consumed(r) - 1
    BY <1>1
  <2>2. c \in ChunkAt(r, t[p \div BlockSize + 1], p % BlockSize)
          <=> t[c \div BlockSize + 1] = t[p \div BlockSize + 1] /\ c % BlockSize = p % BlockSize
    BY Zenon DEF ChunkAt
  <2> QED
    BY <1>5, <2>1, <2>2, Zenon
<1>7. ASSUME NEW b \in Blocks, NEW o \in Offsets, NEW p \in ChunkAt(r, b, o)
      PROVE  /\ hash[b] = NoHash
             /\ \A q \in Requests : b \in ToSet(block_table[q]) => q = r
  <2>1. p \in num_cached_tokens[r]..(consumed(r) - 1) /\ t[p \div BlockSize + 1] = b
    BY DEF ChunkAt
  <2>2. p \in 0..consumed(r) - 1 /\ num_cached_tokens[r] <= p
    BY <1>1, <2>1
  <2>3. PICK d \in Nat, u \in Offsets :
          p = d * BlockSize + u /\ p \div BlockSize = d /\ d < Len(t)
    BY <1>3, <2>2
  <2>4. d + 1 \in 1..Len(t) /\ t[d + 1] = b
    BY <1>1, <2>1, <2>3
  <2>5. ~((d + 1) * BlockSize <= num_cached_tokens[r])
    <3>1. (d + 1) * BlockSize = d * BlockSize + BlockSize /\ d * BlockSize \in Nat
      BY <2>3, Products
    <3> QED
      BY <1>1, <2>2, <2>3, <3>1, Offset
  <2> QED
    BY <1>1, <2>4, <2>5 DEF Chain
<1> QED
  BY <1>4, <1>6, <1>7

LEMMA ForwardStep ==
  ASSUME PrefixInv, Forward
  PROVE  PrefixInv'
<1>1. /\ PrefixTypesOK /\ RefCountsExact /\ IndexOK /\ LaunchOK /\ HashedKV
      /\ RequestTypes /\ PoolTypes /\ HashTypes /\ KVTypes
      /\ \A q \in Requests : Place(q) /\ Chain(q) /\ Written(q)
  BY InvParts
<1>0. launched # <<>> /\ Head(launched) \in Requests
  BY <1>1, PopLeftQueue DEF Forward, RequestTypes
<1> SUFFICES ASSUME NEW r \in Requests, r = Head(launched)
             PROVE  PrefixInv'
  BY <1>0
<1>2. /\ launched' = Tail(launched)
      /\ kv' = [b \in Blocks |-> [o \in Offsets |->
                 IF ChunkAt(r, b, o) = {} THEN kv[b][o]
                 ELSE SubSeq(token_ids[r], 1, 1 + CHOOSE p \in ChunkAt(r, b, o) : TRUE)]]
      /\ at' = at /\ token_ids' = token_ids /\ num_cached_tokens' = num_cached_tokens
      /\ num_scheduled_tokens' = num_scheduled_tokens /\ block_table' = block_table
      /\ ref_count' = ref_count /\ hash' = hash /\ hash_to_block_id' = hash_to_block_id
      /\ free_block_ids' = free_block_ids /\ used_block_ids' = used_block_ids
  BY DEF Forward, ChunkAt, consumed, seqVars, poolVars
<1>3. /\ r \in ToSet(launched) /\ r \notin ToSet(launched')
      /\ launched' \in Seq(Requests) /\ Distinct(launched')
      /\ ToSet(launched) = {r} \cup ToSet(launched')
  BY <1>0, <1>1, <1>2, PopLeftQueue DEF RequestTypes, LaunchOK
<1>4. at[r] = "in_flight"
  BY <1>1, <1>3 DEF LaunchOK
<1>5. ASSUME NEW b \in Blocks, NEW o \in Offsets
      PROVE  /\ ChunkAt(r, b, o) = {} => kv'[b][o] = kv[b][o]
             /\ \A p : ChunkAt(r, b, o) = {p} => kv'[b][o] = SubSeq(token_ids[r], 1, p + 1)
             /\ kv'[b][o] \in Seq(Tokens)
  <2>1. kv'[b][o] = IF ChunkAt(r, b, o) = {} THEN kv[b][o]
                    ELSE SubSeq(token_ids[r], 1, 1 + CHOOSE p \in ChunkAt(r, b, o) : TRUE)
    BY <1>2
  <2>2. ASSUME NEW p, ChunkAt(r, b, o) = {p}
        PROVE  kv'[b][o] = SubSeq(token_ids[r], 1, p + 1)
    <3>1. (CHOOSE c \in ChunkAt(r, b, o) : TRUE) = p /\ ChunkAt(r, b, o) # {}
      BY <2>2
    <3>2. p \in Nat
      <4>1. p \in num_cached_tokens[r]..(consumed(r) - 1)
        BY <2>2 DEF ChunkAt
      <4> QED
        BY <1>1, <4>1, RowTypes
    <3>3. kv'[b][o] = SubSeq(token_ids[r], 1, 1 + p)
      BY <2>1, <3>1
    <3> QED
      BY <3>2, <3>3
  <2>3. kv'[b][o] \in Seq(Tokens)
    <3>1. CASE ChunkAt(r, b, o) = {}
      BY <1>1, <2>1, <3>1 DEF KVTypes
    <3>2. CASE ChunkAt(r, b, o) # {}
      <4>1. PICK p \in ChunkAt(r, b, o) : p = CHOOSE c \in ChunkAt(r, b, o) : TRUE
        BY <3>2
      <4>2. /\ p \in Nat /\ p + 1 <= Len(token_ids[r]) /\ token_ids[r] \in Seq(Tokens)
            /\ Len(token_ids[r]) \in Nat
        BY <1>1, <1>3, <1>4, RowTypes DEF ChunkAt, Place
      <4>3. kv'[b][o] = SubSeq(token_ids[r], 1, p + 1)
        <5>1. kv'[b][o] = SubSeq(token_ids[r], 1, 1 + p)
          BY <2>1, <3>2, <4>1
        <5> QED
          BY <4>2, <5>1
      <4>4. p + 1 \in 0..Len(token_ids[r])
        BY <4>2
      <4> QED
        BY <4>2, <4>3, <4>4, TextPrefix
    <3> QED
      BY <3>1, <3>2
  <2> QED
    BY <2>1, <2>2, <2>3
<1>6. KVTypes' /\ \A b \in Blocks : kv[b] \in [Offsets -> Seq(Tokens)] /\ kv'[b] \in [Offsets -> Seq(Tokens)]
  <2>1. \A b \in Blocks : kv'[b] \in [Offsets -> Seq(Tokens)]
    BY <1>2, <1>5
  <2>2. kv' \in [Blocks -> [Offsets -> Seq(Tokens)]]
    BY <1>2, <2>1
  <2> QED
    BY <1>1, <2>1, <2>2 DEF KVTypes
<1>7. ASSUME NEW b \in Blocks,
             hash[b] # NoHash \/ \E q \in Requests \ {r} : b \in ToSet(block_table[q])
      PROVE  kv'[b] = kv[b]
  <2>1. \A o \in Offsets : ChunkAt(r, b, o) = {}
    BY <1>3, <1>4, <1>7, ChunkPlaces
  <2>2. \A o \in Offsets : kv'[b][o] = kv[b][o]
    BY <1>5, <2>1
  <2> QED
    BY <1>6, <2>2
<1>8. PrefixTypesOK' /\ RefCountsExact' /\ IndexOK' /\ HashedKV' /\ LaunchOK'
  <2>1. PrefixTypesOK'
    BY <1>1, <1>2, <1>3, <1>6 DEF PrefixTypesOK, RequestTypes, PoolTypes, HashTypes
  <2>2. RefCountsExact' /\ IndexOK'
    BY <1>1, <1>2 DEF RefCountsExact, IndexOK, NoHash
  <2>3. HashedKV'
    <3>1. \A b \in Blocks : hash[b] # NoHash => kv'[b] = kv[b]
      BY <1>7
    <3>2. HashedKV /\ hash' = hash
      BY <1>1, <1>2
    <3> QED
      BY <3>1, <3>2 DEF HashedKV, NoHash
  <2>4. LaunchOK'
    BY <1>1, <1>2, <1>3 DEF LaunchOK
  <2> QED
    BY <2>1, <2>2, <2>3, <2>4
<1>9. ASSUME NEW q \in Requests \ {r} PROVE Place(q)' /\ Chain(q)' /\ Written(q)'
  <2>1. \A b \in ToSet(block_table[q]) :
           /\ hash'[b] = hash[b] /\ kv'[b] = kv[b]
           /\ hash[b] = NoHash => \A s \in Requests :
                b \in ToSet(block_table'[s]) => b \in ToSet(block_table[s])
    <3>1. ToSet(block_table[q]) \subseteq Blocks
      BY <1>1, RowTypes
    <3> QED
      BY <1>2, <1>7, <3>1
  <2>2. q \in ToSet(launched') <=> q \in ToSet(launched)
    BY <1>3
  <2> QED
    BY <1>1, <1>2, <1>8, <2>1, <2>2, OtherRow
<1>10. Place(r)' /\ Chain(r)'
  <2>1. Place(r)'
    BY <1>1, <1>2, <1>3 DEF Place, num_tokens, consumed
  <2>2. Chain(r)'
    BY <1>1, <1>2, <1>3, SameChain
  <2> QED
    BY <2>1, <2>2
<1>11. Written(r)'
  <2>1. written(r)' = consumed(r) /\ written(r) = num_cached_tokens[r]
    BY <1>2, <1>3, <1>4 DEF written, consumed
  <2>2. ASSUME NEW p \in 0..consumed(r) - 1
        PROVE  /\ p \div BlockSize < Len(block_table[r])
               /\ kv'[block_table[r][p \div BlockSize + 1]][p % BlockSize]
                    = SubSeq(token_ids[r], 1, p + 1)
    <3> DEFINE C == num_cached_tokens[r]..(consumed(r) - 1)
    <3>1. PICK d, o : d = p \div BlockSize /\ o = p % BlockSize
      BY Zenon
    <3>2. /\ p \in Nat /\ d + 1 \in 1..Len(block_table[r])
          /\ d < Len(block_table[r]) /\ o \in Offsets
          /\ \A c \in C : c \in ChunkAt(r, block_table[r][d + 1], o) <=> c = p
      BY <1>3, <1>4, <3>1, ChunkPlaces, Zenon
    <3>3. block_table[r][d + 1] \in Blocks
      BY <1>1, <1>3, <3>2, RowTypes
    <3>4. num_cached_tokens[r] \in Nat /\ consumed(r) \in Nat
      BY <1>1, <1>3, RowTypes
    <3>5. ChunkAt(r, block_table[r][d + 1], o) \subseteq C
      BY DEF ChunkAt
    <3>6. CASE p < num_cached_tokens[r]
      <4>1. p \notin C
        BY <3>2, <3>4, <3>6
      <4> HIDE DEF C
      <4>2. ChunkAt(r, block_table[r][d + 1], o) = {}
        BY <3>2, <3>5, <4>1
      <4>3. kv'[block_table[r][d + 1]][o] = kv[block_table[r][d + 1]][o]
        BY <1>5, <3>2, <3>3, <4>2
      <4>4. p \in 0..written(r) - 1
        BY <2>1, <3>2, <3>4, <3>6
      <4>5. kv[block_table[r][d + 1]][o] = SubSeq(token_ids[r], 1, p + 1)
        BY <1>1, <1>3, <3>1, <4>4, Zenon DEF Written
      <4> QED
        BY <3>1, <3>2, <4>3, <4>5, Zenon
    <3>7. CASE ~(p < num_cached_tokens[r])
      <4>1. p \in C
        BY <3>2, <3>4, <3>7
      <4> HIDE DEF C
      <4>2. ChunkAt(r, block_table[r][d + 1], o) = {p}
        BY <3>2, <3>5, <4>1
      <4>3. kv'[block_table[r][d + 1]][o] = SubSeq(token_ids[r], 1, p + 1)
        BY <1>5, <3>2, <3>3, <4>2
      <4> QED
        BY <3>1, <3>2, <4>3, Zenon
    <3> QED
      BY <3>6, <3>7
  <2> QED
    BY <1>2, <2>1, <2>2 DEF Written
<1>12. Rows'
  BY <1>9, <1>10, <1>11 DEF Rows
<1> QED
  BY <1>8, <1>12 DEF PrefixInv

(* The blocks a chunk has filled.                                          *)
LEMMA FilledBlocks ==
  ASSUME PrefixInv, NEW r \in Requests, at[r] = "in_flight"
  PROVE  /\ \A i \in Nat : i \in Filled(r) <=>
              ~(i * BlockSize <= num_cached_tokens[r]) /\ i * BlockSize <= consumed(r)
         /\ \A i \in Filled(r) : /\ i \in Nat /\ i > 0 /\ i \in 1..Len(block_table[r])
                                 /\ i * BlockSize <= num_tokens(r)
<1>1. /\ PrefixTypesOK /\ Place(r) /\ Len(block_table[r]) \in Nat
      /\ consumed(r) \in Nat /\ num_cached_tokens[r] \in Nat /\ num_tokens(r) \in Nat
      /\ consumed(r) <= num_tokens(r) /\ num_tokens(r) <= Len(block_table[r]) * BlockSize
  BY InvParts, RowTypes DEF Place
<1>2. PICK c \in Nat, e \in Nat : /\ c = num_cached_tokens[r] \div BlockSize
                                  /\ e = consumed(r) \div BlockSize
  BY <1>1, BlockOfPosition, Zenon
<1>3. Filled(r) = c + 1..e
  BY <1>2, Zenon DEF Filled, consumed
<1>4. \A i \in Nat : /\ i <= c <=> i * BlockSize <= num_cached_tokens[r]
                     /\ i <= e <=> i * BlockSize <= consumed(r)
  BY <1>1, <1>2, FullBlocks, Zenon
<1>5. ASSUME NEW i \in Nat
      PROVE  i \in Filled(r) <=>
               ~(i * BlockSize <= num_cached_tokens[r]) /\ i * BlockSize <= consumed(r)
  <2>1. i \in Filled(r) <=> ~(i <= c) /\ i <= e
    BY <1>3
  <2> QED
    BY <1>4, <2>1
<1>6. ASSUME NEW i \in Filled(r)
      PROVE  /\ i \in Nat /\ i > 0 /\ i \in 1..Len(block_table[r])
             /\ i * BlockSize <= num_tokens(r)
  <2>1. i \in Nat /\ i > 0
    BY <1>3
  <2>2. i * BlockSize <= consumed(r) /\ i * BlockSize \in Nat
    BY <1>5, <2>1, Products
  <2>3. i * BlockSize <= num_tokens(r) /\ i * BlockSize <= Len(block_table[r]) * BlockSize
    <3>1. Len(block_table[r]) * BlockSize \in Nat
      BY <1>1, Products
    <3> QED
      BY <1>1, <2>2, <3>1
  <2>4. i <= Len(block_table[r])
    BY <1>1, <2>1, <2>3, BlockMonotone
  <2> QED
    BY <1>1, <2>1, <2>3, <2>4
<1> QED
  BY <1>5, <1>6

(* compute_hash() chained from the block before the chunk is the text of   *)
(* the request up to the end of the block.                                 *)
LEMMA NewHashIsPrefix ==
  ASSUME PrefixInv, NEW r \in Requests, at[r] = "in_flight", NEW i \in Filled(r)
  PROVE  new_hash(r, i) = prefix(r, i)
<1> DEFINE x == i * BlockSize
           c == num_cached_tokens[r] \div BlockSize
           y == c * BlockSize
           s == token_ids[r]
<1>1. /\ PrefixTypesOK /\ Chain(r) /\ Place(r) /\ RequestTypes
      /\ num_cached_tokens[r] \in Nat /\ s \in Seq(Tokens) /\ Len(s) \in Nat
      /\ num_tokens(r) = Len(s) /\ Len(block_table[r]) \in Nat
      /\ consumed(r) \in Nat
  BY InvParts, RowTypes
<1>2. /\ i \in Nat /\ i > 0 /\ x \in Nat /\ x <= Len(s)
      /\ ~(x <= num_cached_tokens[r]) /\ i \in 1..Len(block_table[r])
  BY <1>1, FilledBlocks, Products
<1>3. c \in Nat /\ y \in Nat /\ y <= num_cached_tokens[r]
  <2>1. PICK d \in Nat : d = num_cached_tokens[r] \div BlockSize
    BY <1>1, BlockOfPosition, Zenon
  <2>2. d <= d /\ d * BlockSize \in Nat
    BY <2>1, Products
  <2>3. d * BlockSize <= num_cached_tokens[r]
    BY <1>1, <2>1, <2>2, FullBlocks, Zenon
  <2> QED
    BY <2>1, <2>2, <2>3, Zenon
<1> HIDE DEF c
<1>4. new_hash(r, i) = (IF c > 0 THEN hash[block_table[r][c]] ELSE NoHash) \o SubSeq(s, y + 1, x)
  <2>1. new_hash(r, i) = (IF c > 0 THEN hash[block_table[r][c]] ELSE NoHash)
                           \o slice(s, y + 1, x)
    BY Zenon DEF new_hash, c
  <2>2. slice(s, y + 1, x) = SubSeq(s, y + 1, x)
    BY <1>2 DEF slice
  <2> QED
    BY <2>1, <2>2
<1>5. prefix(r, i) = SubSeq(s, 1, x)
  BY <1>2 DEF prefix, slice
<1>6. (IF c > 0 THEN hash[block_table[r][c]] ELSE NoHash) = SubSeq(s, 1, y)
  <2>1. CASE c > 0
    <3>1. c < i
      <4>1. ~(i * BlockSize <= c * BlockSize)
        BY <1>1, <1>2, <1>3
      <4> QED
        BY <1>2, <1>3, <4>1, BlockMonotone
    <3>2. c \in 1..Len(block_table[r]) /\ c * BlockSize <= num_cached_tokens[r]
      BY <1>1, <1>2, <1>3, <2>1, <3>1
    <3>3. hash[block_table[r][c]] = prefix(r, c)
      BY <1>1, <3>2 DEF Chain
    <3>4. prefix(r, c) = SubSeq(s, 1, y)
      <4>1. y <= Len(s)
        BY <1>1, <1>2, <1>3
      <4> QED
        BY <4>1 DEF prefix, slice
    <3> QED
      BY <2>1, <3>3, <3>4
  <2>2. CASE ~(c > 0)
    <3>1. c = 0 /\ y = 0
      BY <1>3, <2>2, PrefixAssumption
    <3>2. SubSeq(s, 1, 0) = <<>>
      BY <1>1
    <3> QED
      BY <2>2, <3>1, <3>2 DEF NoHash
  <2> QED
    BY <2>1, <2>2
<1> HIDE DEF x, y, s
<1>7. x \in 0..Len(s) /\ y \in 0..x
  BY <1>1, <1>2, <1>3
<1>8. SubSeq(s, 1, y) \o SubSeq(s, y + 1, x) = SubSeq(s, 1, x)
  BY <1>1, <1>7, JoinPrefix
<1> QED
  BY <1>4, <1>5, <1>6, <1>8

LEMMA FilledAreOwn ==
  ASSUME PrefixInv, NEW r \in Requests, at[r] = "in_flight", NEW i \in Filled(r)
  PROVE  /\ block_table[r][i] \in Blocks /\ hash[block_table[r][i]] = NoHash
         /\ \A q \in Requests : block_table[r][i] \in ToSet(block_table[q]) => q = r
         /\ new_hash(r, i) = prefix(r, i) /\ prefix(r, i) \in Seq(Tokens)
         /\ prefix(r, i) # NoHash /\ Len(prefix(r, i)) = i * BlockSize
         /\ \A j \in 1..Len(block_table[r]) : block_table[r][j] = block_table[r][i] => j = i
<1>1. /\ PrefixTypesOK /\ Chain(r) /\ RequestTypes /\ Distinct(block_table[r])
  BY InvParts DEF RefCountsExact
<1>2. /\ i \in Nat /\ i > 0 /\ i \in 1..Len(block_table[r])
      /\ i * BlockSize <= num_tokens(r) /\ ~(i * BlockSize <= num_cached_tokens[r])
  BY FilledBlocks
<1>3. /\ prefix(r, i) \in Seq(Tokens) /\ prefix(r, i) # NoHash
      /\ Len(prefix(r, i)) = i * BlockSize
  BY <1>1, <1>2, PrefixTypes
<1>4. block_table[r][i] \in Blocks
  BY <1>1, <1>2, RowTypes
<1>5. /\ hash[block_table[r][i]] = NoHash
      /\ \A q \in Requests : block_table[r][i] \in ToSet(block_table[q]) => q = r
  BY <1>1, <1>2 DEF Chain
<1>6. new_hash(r, i) = prefix(r, i)
  BY NewHashIsPrefix
<1>7. \A j \in 1..Len(block_table[r]) : block_table[r][j] = block_table[r][i] => j = i
  BY <1>1, <1>2 DEF Distinct
<1> QED
  BY <1>3, <1>4, <1>5, <1>6, <1>7

LEMMA HashBlocksFacts ==
  ASSUME PrefixInv, NEW r \in Requests, at[r] = "in_flight", r \notin ToSet(launched),
         hash_blocks(r), kv' = kv
  PROVE  /\ HashTypes' /\ IndexOK' /\ HashedKV'
         /\ \A i \in Filled(r) : hash'[block_table[r][i]] = prefix(r, i)
         /\ \A b \in Blocks :
              (\A i \in Filled(r) : block_table[r][i] # b) => hash'[b] = hash[b]
<1> DEFINE F == Filled(r)
           t == block_table[r]
           new == {new_hash(r, i) : i \in F}
<1>1. /\ PrefixTypesOK /\ IndexOK /\ HashedKV /\ Written(r) /\ HashTypes
      /\ t \in Seq(Blocks) /\ token_ids[r] \in Seq(Tokens) /\ consumed(r) \in Nat
      /\ num_tokens(r) = Len(token_ids[r]) /\ num_tokens(r) \in Nat
  BY InvParts, RowTypes
<1>2. \A i \in F :
        /\ t[i] \in Blocks /\ hash[t[i]] = NoHash /\ i \in 1..Len(t) /\ i \in Nat /\ i > 0
        /\ new_hash(r, i) = prefix(r, i) /\ prefix(r, i) \in Seq(Tokens)
        /\ prefix(r, i) # NoHash /\ Len(prefix(r, i)) = i * BlockSize
        /\ i * BlockSize <= num_tokens(r) /\ i * BlockSize <= consumed(r)
  BY FilledAreOwn, FilledBlocks
<1>3. \A i, j \in F : t[j] = t[i] => j = i
  BY FilledAreOwn, FilledBlocks
<1>4. /\ hash' = [b \in Blocks |->
                   IF \E i \in F : t[i] = b THEN new_hash(r, CHOOSE i \in F : t[i] = b)
                   ELSE hash[b]]
      /\ hash_to_block_id' =
           [h \in DOMAIN hash_to_block_id \cup new |->
              IF h \in new THEN t[CHOOSE i \in F : new_hash(r, i) = h]
              ELSE hash_to_block_id[h]]
  BY DEF hash_blocks
<1> HIDE DEF F, t
<1>5. ASSUME NEW i \in F PROVE hash'[t[i]] = prefix(r, i)
  <2>1. (CHOOSE j \in F : t[j] = t[i]) = i
    BY <1>3
  <2>2. hash'[t[i]] = new_hash(r, CHOOSE j \in F : t[j] = t[i])
    BY <1>2, <1>4
  <2>3. hash'[t[i]] = new_hash(r, i)
    BY <2>1, <2>2
  <2> QED
    BY <1>2, <2>3
<1>6. ASSUME NEW b \in Blocks, \A i \in F : t[i] # b PROVE hash'[b] = hash[b]
  BY <1>4, <1>6
<1>7. ASSUME NEW b \in Blocks PROVE hash'[b] \in Seq(Tokens)
  <2>1. CASE \E i \in F : t[i] = b
    BY <1>2, <1>5, <2>1
  <2>2. CASE \A i \in F : t[i] # b
    BY <1>1, <1>6, <2>2 DEF HashTypes
  <2> QED
    BY <2>1, <2>2
<1>8. ASSUME NEW h \in DOMAIN hash_to_block_id'
      PROVE  /\ hash_to_block_id'[h] \in Blocks
             /\ h # NoHash /\ hash'[hash_to_block_id'[h]] = h
  <2>1. CASE h \in new
    <3>1. PICK i \in F : i = (CHOOSE j \in F : new_hash(r, j) = h) /\ new_hash(r, i) = h
      BY <2>1
    <3>2. hash_to_block_id'[h] = t[i]
      BY <1>4, <2>1, <3>1
    <3> QED
      BY <1>2, <1>5, <3>1, <3>2
  <2>2. CASE h \notin new
    <3>1. h \in DOMAIN hash_to_block_id /\ hash_to_block_id'[h] = hash_to_block_id[h]
      BY <1>4, <2>2
    <3>2. /\ hash_to_block_id[h] \in Blocks /\ h # NoHash
          /\ hash[hash_to_block_id[h]] = h
      BY <1>1, <3>1 DEF HashTypes, IndexOK
    <3>3. \A i \in F : t[i] # hash_to_block_id[h]
      BY <1>2, <3>2
    <3> QED
      BY <1>6, <3>1, <3>2, <3>3
  <2> QED
    BY <2>1, <2>2
<1>9. HashTypes'
  <2>1. hash' \in [Blocks -> Seq(Tokens)]
    BY <1>4, <1>7
  <2>2. hash_to_block_id' \in [DOMAIN hash_to_block_id' -> Blocks]
    BY <1>4, <1>8
  <2> QED
    BY <2>1, <2>2 DEF HashTypes
<1>10. IndexOK'
  BY <1>8 DEF IndexOK, NoHash
<1>11. ASSUME NEW i \in F, NEW o \in Offsets
       PROVE  /\ i * BlockSize >= BlockSize
              /\ kv[t[i]][o] = SubSeq(prefix(r, i), 1, i * BlockSize - BlockSize + o + 1)
  <2>1. PICK d \in Nat : i = d + 1
    <3>1. i - 1 \in Nat /\ i = (i - 1) + 1
      BY <1>2
    <3> QED
      BY <3>1
  <2>2. i * BlockSize = d * BlockSize + BlockSize /\ d * BlockSize \in Nat
    BY <2>1, Products
  <2>3. o \in Nat /\ o < BlockSize /\ BlockSize \in Nat
    BY Offset
  <2>4. PICK p \in Nat : /\ p = d * BlockSize + o
                         /\ p \div BlockSize = d /\ p % BlockSize = o
    BY PositionInBlock, Zenon
  <2>5. /\ i * BlockSize - BlockSize + o + 1 = p + 1 /\ p + 1 \in 0..i * BlockSize
        /\ p \in 0..consumed(r) - 1
    <3> DEFINE x == i * BlockSize
               y == d * BlockSize
    <3>1. x = y + BlockSize /\ y \in Nat /\ p = y + o /\ x <= consumed(r)
      BY <1>2, <2>2, <2>4
    <3> HIDE DEF x, y
    <3>2. x - BlockSize + o + 1 = p + 1 /\ p + 1 \in 0..x /\ p \in 0..consumed(r) - 1
      BY <1>1, <2>3, <3>1
    <3> QED
      BY <3>2 DEF x
  <2>6. kv[t[i]][o] = SubSeq(token_ids[r], 1, p + 1)
    <3>1. written(r) = consumed(r)
      BY DEF written
    <3>2. kv[t[p \div BlockSize + 1]][p % BlockSize] = SubSeq(token_ids[r], 1, p + 1)
      BY <1>1, <2>5, <3>1, Zenon DEF Written, t
    <3> QED
      BY <2>1, <2>4, <3>2, Zenon
  <2>7. prefix(r, i) = SubSeq(token_ids[r], 1, i * BlockSize)
    BY <1>1, <1>2, PrefixTypes DEF PrefixTypesOK
  <2>8. i * BlockSize \in 0..Len(token_ids[r])
    BY <1>1, <1>2, <2>2, <2>3
  <2>9. SubSeq(prefix(r, i), 1, p + 1) = SubSeq(token_ids[r], 1, p + 1)
    BY <1>1, <2>5, <2>7, <2>8, PrefixOfPrefix
  <2>10. i * BlockSize >= BlockSize
    BY <2>2, <2>3
  <2> QED
    BY <2>5, <2>6, <2>9, <2>10
<1>12. HashedKV'
  <2>1. SUFFICES ASSUME NEW b \in Blocks, hash'[b] # NoHash
                 PROVE  /\ Len(hash'[b]) >= BlockSize
                        /\ \A o \in Offsets :
                             kv[b][o] = SubSeq(hash'[b], 1, Len(hash'[b]) - BlockSize + o + 1)
    BY DEF HashedKV, NoHash
  <2>2. CASE \E i \in F : t[i] = b
    <3>1. PICK i \in F : t[i] = b
      BY <2>2
    <3>2. hash'[b] = prefix(r, i) /\ Len(hash'[b]) = i * BlockSize
      BY <1>2, <1>5, <3>1
    <3>3. 0 \in Offsets
      BY Offset
    <3> QED
      BY <1>11, <3>1, <3>2, <3>3
  <2>3. CASE \A i \in F : t[i] # b
    <3>1. hash'[b] = hash[b]
      BY <1>6, <2>3
    <3> QED
      BY <1>1, <2>1, <3>1 DEF HashedKV
  <2> QED
    BY <2>2, <2>3
<1> QED
  BY <1>5, <1>6, <1>9, <1>10, <1>12 DEF F, t

(* What consuming a row keeps, however it ends.                            *)
LEMMA PostRowFacts ==
  ASSUME PrefixInv, NEW r \in Requests, PostRow(r),
         PoolTypes', RefCountsExact',
         at' \in [Requests -> {"waiting", "running", "in_flight", "finished"}],
         num_cached_tokens' \in [Requests -> Nat],
         token_ids' \in [Requests -> Seq(Tokens)],
         \A q \in Requests \ {r} :
           /\ at'[q] = at[q] /\ token_ids'[q] = token_ids[q]
           /\ num_cached_tokens'[q] = num_cached_tokens[q]
           /\ block_table'[q] = block_table[q],
         ToSet(block_table'[r]) \subseteq ToSet(block_table[r]),
         Place(r)' /\ Chain(r)' /\ Written(r)'
  PROVE  PrefixInv'
<1>1. /\ PrefixTypesOK /\ RefCountsExact /\ IndexOK /\ LaunchOK /\ HashedKV
      /\ RequestTypes /\ PoolTypes /\ HashTypes /\ KVTypes
      /\ \A q \in Requests : Place(q) /\ Chain(q) /\ Written(q)
  BY InvParts
<1>2. /\ at[r] = "in_flight" /\ hash_blocks(r) /\ launched' = launched /\ kv' = kv
      /\ num_scheduled_tokens' = [num_scheduled_tokens EXCEPT ![r] = 0]
      /\ r \notin ToSet(launched)
  <2>1. ~Contains(launched, r)
    BY DEF PostRow
  <2>2. r \notin ToSet(launched)
    <3>1. launched \in Seq(Requests)
      BY <1>1 DEF RequestTypes
    <3>2. ToSet(launched) = {launched[i] : i \in 1..Len(launched)}
      BY <3>1, ToSetDef
    <3> QED
      BY <2>1, <3>2 DEF Contains
  <2> QED
    BY <2>2 DEF PostRow
<1>3. /\ HashTypes' /\ IndexOK' /\ HashedKV'
      /\ \A b \in Blocks :
           (\A i \in Filled(r) : block_table[r][i] # b) => hash'[b] = hash[b]
  BY <1>2, HashBlocksFacts
<1>4. /\ num_scheduled_tokens' \in [Requests -> Nat]
      /\ \A q \in Requests \ {r} : num_scheduled_tokens'[q] = num_scheduled_tokens[q]
  BY <1>1, <1>2 DEF RequestTypes
<1>5. PrefixTypesOK'
  BY <1>1, <1>2, <1>3, <1>4 DEF PrefixTypesOK, RequestTypes, KVTypes
<1>6. LaunchOK'
  <2>1. ToSet(launched) \subseteq Requests
    BY <1>1, ToSetDef DEF RequestTypes
  <2> QED
    BY <1>1, <1>2, <2>1 DEF LaunchOK
<1>7. \A s \in Requests : ToSet(block_table'[s]) \subseteq ToSet(block_table[s])
  OBVIOUS
<1>8. ASSUME NEW q \in Requests \ {r} PROVE Place(q)' /\ Chain(q)' /\ Written(q)'
  <2>1. ASSUME NEW b \in ToSet(block_table[q]) PROVE hash'[b] = hash[b]
    <3>1. b \in Blocks
      BY <1>1, RowTypes
    <3>2. \A i \in Filled(r) : block_table[r][i] # b
      BY <1>2, FilledAreOwn
    <3> QED
      BY <1>3, <3>1, <3>2
  <2>2. \A b \in ToSet(block_table[q]) :
           /\ hash'[b] = hash[b] /\ kv'[b] = kv[b]
           /\ hash[b] = NoHash => \A s \in Requests :
                b \in ToSet(block_table'[s]) => b \in ToSet(block_table[s])
    BY <1>2, <1>7, <2>1
  <2> QED
    BY <1>1, <1>2, <1>4, <1>5, <2>2, OtherRow
<1>9. Rows'
  BY <1>8 DEF Rows
<1> QED
  BY <1>3, <1>5, <1>6, <1>9 DEF PrefixInv

(* A row that keeps its blocks counts what the forward has written, and    *)
(* its full blocks are hashed.                                             *)
LEMMA RowCounted ==
  ASSUME PrefixInv, NEW r \in Requests, PostRow(r),
         block_table' = block_table, num_cached_tokens'[r] = consumed(r),
         at'[r] # "in_flight",
         \/ token_ids'[r] = token_ids[r]
         \/ \E t \in Tokens : token_ids'[r] = Append(token_ids[r], t)
  PROVE  /\ Chain(r)' /\ Written(r)'
         /\ consumed(r) \in Nat /\ num_tokens(r) \in Nat /\ num_tokens(r) > 0
         /\ consumed(r) <= num_tokens(r) /\ num_tokens(r) <= Len(block_table[r]) * BlockSize
         /\ block_table[r] # <<>>
<1> DEFINE t == block_table[r]
<1>1. /\ PrefixTypesOK /\ RefCountsExact /\ LaunchOK /\ RequestTypes /\ PoolTypes
      /\ Place(r) /\ Chain(r) /\ Written(r)
      /\ t \in Seq(Blocks) /\ Len(t) \in Nat /\ Distinct(t)
      /\ consumed(r) \in Nat /\ num_tokens(r) \in Nat /\ num_cached_tokens[r] \in Nat
      /\ consumed(r) = num_cached_tokens[r] + num_scheduled_tokens[r]
      /\ num_scheduled_tokens[r] \in Nat
  BY InvParts, RowTypes DEF RefCountsExact
<1>2. at[r] = "in_flight" /\ hash_blocks(r) /\ kv' = kv /\ r \notin ToSet(launched)
  <2>1. ~Contains(launched, r)
    BY DEF PostRow
  <2>2. launched \in Seq(Requests)
    BY <1>1 DEF RequestTypes
  <2>3. ToSet(launched) = {launched[i] : i \in 1..Len(launched)}
    BY <2>2, ToSetDef
  <2>4. r \notin ToSet(launched)
    BY <2>1, <2>3 DEF Contains
  <2> QED
    BY <2>4 DEF PostRow
<1>3. /\ \A i \in Filled(r) : hash'[t[i]] = prefix(r, i)
      /\ \A b \in Blocks : (\A i \in Filled(r) : t[i] # b) => hash'[b] = hash[b]
  BY <1>2, HashBlocksFacts
<1>4. /\ consumed(r) <= num_tokens(r) /\ num_tokens(r) <= Len(t) * BlockSize
      /\ num_tokens(r) > 0
  BY <1>1, <1>2 DEF Place
<1>5. /\ \A i \in Nat : i * BlockSize <= num_tokens(r) => prefix(r, i)' = prefix(r, i)
      /\ \A m \in 0..num_tokens(r) :
           SubSeq(token_ids'[r], 1, m) = SubSeq(token_ids[r], 1, m)
  BY <1>1, PrefixStays
<1>6. t # <<>>
  <2>1. 0 * BlockSize = 0
    BY PrefixAssumption
  <2> QED
    BY <1>1, <1>4, <2>1
<1>7. Chain(r)'
  <2>1. ASSUME NEW i \in 1..Len(t)
        PROVE  IF i * BlockSize <= consumed(r)
               THEN hash'[t[i]] = prefix(r, i)'
               ELSE /\ hash'[t[i]] = NoHash
                    /\ \A q \in Requests : t[i] \in ToSet(block_table[q]) => q = r
    <3>1. /\ i \in Nat /\ t[i] \in Blocks /\ i * BlockSize \in Nat
          /\ i \in Filled(r) <=>
               ~(i * BlockSize <= num_cached_tokens[r]) /\ i * BlockSize <= consumed(r)
          /\ num_cached_tokens[r] <= consumed(r)
      <4>1. i \in Nat /\ t[i] \in Blocks
        BY <1>1, RowTypes
      <4>2. i * BlockSize \in Nat
        BY <4>1, Products
      <4>3. i \in Filled(r) <=>
               ~(i * BlockSize <= num_cached_tokens[r]) /\ i * BlockSize <= consumed(r)
        BY <1>2, <4>1, FilledBlocks
      <4>4. num_cached_tokens[r] <= consumed(r)
        BY <1>1
      <4> QED
        BY <4>1, <4>2, <4>3, <4>4
    <3>2. i \notin Filled(r) => hash'[t[i]] = hash[t[i]]
      <4>1. ASSUME i \notin Filled(r), NEW j \in Filled(r) PROVE t[j] # t[i]
        BY <1>2, <4>1, FilledAreOwn
      <4> QED
        BY <1>3, <3>1, <4>1
    <3>3. IF i * BlockSize <= num_cached_tokens[r]
          THEN hash[t[i]] = prefix(r, i)
          ELSE /\ hash[t[i]] = NoHash
               /\ \A q \in Requests : t[i] \in ToSet(block_table[q]) => q = r
      BY <1>1 DEF Chain
    <3>4. i * BlockSize <= num_cached_tokens[r] => i * BlockSize <= consumed(r)
      BY <1>1, <3>1
    <3>5. i * BlockSize <= consumed(r) => prefix(r, i)' = prefix(r, i)
      BY <1>1, <1>4, <1>5, <3>1
    <3> QED
      BY <1>3, <3>1, <3>2, <3>3, <3>4, <3>5, Zenon
  <2> QED
    BY <2>1 DEF Chain, NoHash
<1>8. Written(r)'
  <2>1. written(r)' = consumed(r) /\ written(r) = consumed(r)
    BY <1>2 DEF written
  <2>2. ASSUME NEW p \in 0..consumed(r) - 1
        PROVE  /\ p \div BlockSize < Len(t)
               /\ kv[t[p \div BlockSize + 1]][p % BlockSize] = SubSeq(token_ids'[r], 1, p + 1)
    <3>1. p + 1 \in 0..num_tokens(r)
      BY <1>1, <1>4
    <3>2. SubSeq(token_ids'[r], 1, p + 1) = SubSeq(token_ids[r], 1, p + 1)
      BY <1>5, <3>1
    <3> QED
      BY <1>1, <2>1, <3>2, Zenon DEF Written
  <2> QED
    BY <1>2, <2>1, <2>2, Zenon DEF Written
<1> QED
  BY <1>1, <1>4, <1>6, <1>7, <1>8

LEMMA PostPartialStep ==
  ASSUME PrefixInv, NEW r \in Requests, PostPartial(r)
  PROVE  PrefixInv'
<1>1. /\ RequestTypes /\ PoolTypes /\ RefCountsExact
  BY InvParts
<1>2. /\ PostRow(r) /\ consumed(r) < num_tokens(r)
      /\ num_cached_tokens' = [num_cached_tokens EXCEPT ![r] = consumed(r)]
      /\ at' = [at EXCEPT ![r] = "waiting"]
      /\ token_ids' = token_ids /\ block_table' = block_table /\ ref_count' = ref_count
      /\ free_block_ids' = free_block_ids /\ used_block_ids' = used_block_ids
  BY DEF PostPartial, IsPartial
<1>3. /\ at'[r] = "waiting" /\ num_cached_tokens'[r] = consumed(r)
      /\ \A q \in Requests \ {r} : at'[q] = at[q] /\ num_cached_tokens'[q] = num_cached_tokens[q]
      /\ at' \in [Requests -> {"waiting", "running", "in_flight", "finished"}]
  BY <1>1, <1>2 DEF RequestTypes
<1>4. /\ Chain(r)' /\ Written(r)' /\ consumed(r) \in Nat /\ num_tokens(r) > 0
      /\ num_tokens(r) <= Len(block_table[r]) * BlockSize /\ block_table[r] # <<>>
  BY <1>2, <1>3, RowCounted
<1>5. num_cached_tokens' \in [Requests -> Nat] /\ token_ids' \in [Requests -> Seq(Tokens)]
  BY <1>1, <1>2, <1>4 DEF RequestTypes
<1>6. Place(r)'
  BY <1>2, <1>3, <1>4 DEF Place, num_tokens
<1>7. PoolTypes' /\ RefCountsExact'
  BY <1>1, <1>2 DEF PoolTypes, RefCountsExact
<1> QED
  BY <1>2, <1>3, <1>4, <1>5, <1>6, <1>7, PostRowFacts

LEMMA PostContinueStep ==
  ASSUME PrefixInv, NEW r \in Requests, NEW t \in Tokens, PostContinue(r, t)
  PROVE  PrefixInv'
<1>1. /\ RequestTypes /\ PoolTypes /\ RefCountsExact
  BY InvParts
<1>2. /\ PostRow(r) /\ ~(consumed(r) < num_tokens(r))
      /\ token_ids' = [token_ids EXCEPT ![r] = Append(@, t)]
      /\ num_cached_tokens' = [num_cached_tokens EXCEPT ![r] = consumed(r)]
      /\ at' = [at EXCEPT ![r] = "running"]
      /\ block_table' = block_table /\ ref_count' = ref_count
      /\ free_block_ids' = free_block_ids /\ used_block_ids' = used_block_ids
  BY DEF PostContinue, IsPartial
<1>3. /\ at'[r] = "running" /\ num_cached_tokens'[r] = consumed(r)
      /\ token_ids'[r] = Append(token_ids[r], t) /\ token_ids[r] \in Seq(Tokens)
      /\ \A q \in Requests \ {r} : /\ at'[q] = at[q] /\ token_ids'[q] = token_ids[q]
                                   /\ num_cached_tokens'[q] = num_cached_tokens[q]
      /\ at' \in [Requests -> {"waiting", "running", "in_flight", "finished"}]
      /\ token_ids' \in [Requests -> Seq(Tokens)]
  BY <1>1, <1>2 DEF RequestTypes
<1>4. /\ Chain(r)' /\ Written(r)' /\ consumed(r) \in Nat
      /\ num_tokens(r) \in Nat /\ num_tokens(r) > 0 /\ consumed(r) <= num_tokens(r)
      /\ num_tokens(r) <= Len(block_table[r]) * BlockSize
  BY <1>2, <1>3, RowCounted
<1>5. num_cached_tokens' \in [Requests -> Nat]
  BY <1>1, <1>2, <1>4 DEF RequestTypes
<1>6. Place(r)'
  <2>1. num_tokens(r)' = num_tokens(r) + 1 /\ consumed(r) = num_tokens(r)
    BY <1>2, <1>3, <1>4 DEF num_tokens
  <2> QED
    BY <1>2, <1>3, <1>4, <2>1 DEF Place
<1>7. PoolTypes' /\ RefCountsExact'
  BY <1>1, <1>2 DEF PoolTypes, RefCountsExact
<1> QED
  BY <1>2, <1>3, <1>4, <1>5, <1>6, <1>7, PostRowFacts

LEMMA PostFinishStep ==
  ASSUME PrefixInv, NEW r \in Requests, NEW t \in Tokens, PostFinish(r, t)
  PROVE  PrefixInv'
<1>1. /\ RequestTypes /\ PoolTypes /\ RefCountsExact
  BY InvParts
<1>2. /\ PostRow(r) /\ deallocate(r)
      /\ token_ids' = [token_ids EXCEPT ![r] = Append(@, t)]
      /\ num_cached_tokens' = [num_cached_tokens EXCEPT ![r] = 0]
      /\ at' = [at EXCEPT ![r] = "finished"]
  BY DEF PostFinish
<1>3. /\ at'[r] = "finished" /\ num_cached_tokens'[r] = 0
      /\ token_ids'[r] = Append(token_ids[r], t) /\ token_ids[r] \in Seq(Tokens)
      /\ \A q \in Requests \ {r} : /\ at'[q] = at[q] /\ token_ids'[q] = token_ids[q]
                                   /\ num_cached_tokens'[q] = num_cached_tokens[q]
      /\ at' \in [Requests -> {"waiting", "running", "in_flight", "finished"}]
      /\ token_ids' \in [Requests -> Seq(Tokens)]
      /\ num_cached_tokens' \in [Requests -> Nat]
  BY <1>1, <1>2 DEF RequestTypes
<1>4. PoolTypes' /\ RefCountsExact'
  BY <1>1, <1>2, DropCounts
<1>5. /\ block_table'[r] = <<>>
      /\ \A q \in Requests \ {r} : block_table'[q] = block_table[q]
  BY <1>1, <1>2 DEF deallocate, PoolTypes
<1>6. Place(r)' /\ Chain(r)' /\ Written(r)'
  <2>1. num_tokens(r)' > 0
    BY <1>3 DEF num_tokens
  <2>2. written(r)' = 0
    BY <1>3 DEF written
  <2> QED
    BY <1>3, <1>5, <2>1, <2>2 DEF Place, Chain, Written
<1>7. ToSet(block_table'[r]) \subseteq ToSet(block_table[r])
  BY <1>5, EmptyQueue
<1> QED
  BY <1>2, <1>3, <1>4, <1>5, <1>6, <1>7, PostRowFacts

-----------------------------------------------------------------------------
LEMMA InitPrefixInv == Init => PrefixInv
<1> SUFFICES ASSUME Init PROVE PrefixInv
  OBVIOUS
<1>1. /\ at = [r \in Requests |-> "waiting"] /\ token_ids = Prompt
      /\ num_cached_tokens = [r \in Requests |-> 0]
      /\ num_scheduled_tokens = [r \in Requests |-> 0]
      /\ block_table = [r \in Requests |-> <<>>]
      /\ ref_count = [b \in Blocks |-> 0] /\ hash = [b \in Blocks |-> NoHash]
      /\ hash_to_block_id = <<>> /\ used_block_ids = {} /\ launched = <<>>
      /\ kv = [b \in Blocks |-> [o \in Offsets |-> NoHash]]
  BY DEF Init
<1>2. /\ free_block_ids \in Seq(Blocks) /\ Distinct(free_block_ids)
      /\ ToSet(free_block_ids) = Blocks
  <2>1. Cardinality(Blocks) \in Nat /\ IsFiniteSet(Blocks)
    BY PrefixAssumption, FS_CardinalityType
  <2>2. free_block_ids \in [1..Cardinality(Blocks) -> Blocks] /\ Distinct(free_block_ids)
    BY DEF Init
  <2>3. free_block_ids \in Seq(Blocks) /\ Len(free_block_ids) = Cardinality(Blocks)
    BY <2>1, <2>2, FunctionIsQueue
  <2>4. ToSet(free_block_ids) \in SUBSET Blocks /\ Cardinality(ToSet(free_block_ids)) = Cardinality(Blocks)
    BY <2>2, <2>3, ToSetDef, DistinctCardinality
  <2>5. ToSet(free_block_ids) = Blocks
    BY <2>1, <2>4, FS_Subset
  <2> QED
    BY <2>2, <2>3, <2>5
<1>3. NoHash \in Seq(Tokens) /\ NoHash = <<>> /\ ToSet(<<>>) = {} /\ Distinct(<<>>)
  BY EmptyQueue DEF NoHash
<1>4. PrefixTypesOK
  <2>1. RequestTypes
    BY <1>1, PrefixAssumption DEF RequestTypes
  <2>2. PoolTypes
    BY <1>1, <1>2 DEF PoolTypes
  <2>3. HashTypes
    BY <1>1, <1>3 DEF HashTypes
  <2>4. KVTypes
    BY <1>1, <1>3 DEF KVTypes
  <2> QED
    BY <2>1, <2>2, <2>3, <2>4 DEF PrefixTypesOK
<1>5. RefCountsExact
  <2>1. ASSUME NEW b \in Blocks
        PROVE  Cardinality({r \in Requests : b \in ToSet(block_table[r])}) = 0
    <3>1. {r \in Requests : b \in ToSet(block_table[r])} = {}
      BY <1>1, <1>3
    <3> QED
      BY <3>1, FS_EmptySet
  <2> QED
    BY <1>1, <1>2, <1>3, <2>1 DEF RefCountsExact
<1>6. IndexOK /\ LaunchOK /\ HashedKV
  BY <1>1, <1>3 DEF IndexOK, LaunchOK, HashedKV
<1>7. ASSUME NEW r \in Requests PROVE Place(r) /\ Chain(r) /\ Written(r)
  <2>1. num_tokens(r) > 0 /\ num_tokens(r) \in Nat
    BY <1>1, PrefixAssumption DEF num_tokens
  <2>2. written(r) = 0
    BY <1>1 DEF written
  <2> QED
    BY <1>1, <2>1, <2>2 DEF Place, Chain, Written
<1> QED
  BY <1>4, <1>5, <1>6, <1>7 DEF PrefixInv, Rows

LEMMA PrefixInvStep == PrefixInv /\ [Next]_vars => PrefixInv'
<1> SUFFICES ASSUME PrefixInv, [Next]_vars PROVE PrefixInv'
  OBVIOUS
<1>1. ASSUME NEW r \in Requests, Admit(r) PROVE PrefixInv'
  BY <1>1, AdmitStep
<1>2. ASSUME NEW r \in Requests, Continue(r) PROVE PrefixInv'
  BY <1>2, ContinueStep
<1>3. ASSUME NEW r \in Requests, Decode(r) PROVE PrefixInv'
  BY <1>3, DecodeStep
<1>4. ASSUME NEW r \in Requests, Preempt(r) PROVE PrefixInv'
  BY <1>4, PreemptStep
<1>5. ASSUME NEW r \in Requests, PostPartial(r) PROVE PrefixInv'
  BY <1>5, PostPartialStep
<1>6. ASSUME NEW r \in Requests, NEW t \in Tokens, PostFinish(r, t) PROVE PrefixInv'
  BY <1>6, PostFinishStep
<1>7. ASSUME NEW r \in Requests, NEW t \in Tokens, PostContinue(r, t) PROVE PrefixInv'
  BY <1>7, PostContinueStep
<1>8. CASE Forward
  BY <1>8, ForwardStep
<1>9. ASSUME UNCHANGED vars PROVE PrefixInv'
  <2>1. /\ at' = at /\ token_ids' = token_ids /\ num_cached_tokens' = num_cached_tokens
        /\ num_scheduled_tokens' = num_scheduled_tokens /\ block_table' = block_table
        /\ ref_count' = ref_count /\ hash' = hash /\ hash_to_block_id' = hash_to_block_id
        /\ free_block_ids' = free_block_ids /\ used_block_ids' = used_block_ids
        /\ launched' = launched /\ kv' = kv
    BY <1>9 DEF vars, seqVars, poolVars
  <2>2. PrefixTypesOK' /\ RefCountsExact' /\ IndexOK' /\ LaunchOK' /\ HashedKV'
    BY <2>1 DEF PrefixInv, PrefixTypesOK, RequestTypes, PoolTypes, HashTypes, KVTypes,
                RefCountsExact, IndexOK, LaunchOK, HashedKV, NoHash
  <2>3. Rows'
    BY <2>1 DEF PrefixInv, Rows, Place, Chain, Written, written, consumed, num_tokens,
                prefix, slice, NoHash
  <2> QED
    BY <2>2, <2>3 DEF PrefixInv
<1> QED
  BY <1>1, <1>2, <1>3, <1>4, <1>5, <1>6, <1>7, <1>8, <1>9 DEF Next, AllFinished

LEMMA PrefixInvCorrect == Spec => []PrefixInv
BY InitPrefixInv, PrefixInvStep, PTL DEF Spec

-----------------------------------------------------------------------------
(* The theorems                                                            *)

(* No block is leaked or freed twice, whatever is shared: its reference    *)
(* count is the number of tables that hold it.                             *)
THEOREM RefCountsAlways == Spec => []RefCountsExact
<1>1. PrefixInv => RefCountsExact
  BY DEF PrefixInv
<1> QED
  BY <1>1, PrefixInvCorrect, PTL

(* Every position counted as cached holds the KV of the request's own      *)
(* tokens, whoever computed it and whatever was evicted since.             *)
THEOREM CachedAlwaysComputed == Spec => []CachedIsComputed
<1>1. ASSUME PrefixInv PROVE CachedIsComputed
  <2> SUFFICES ASSUME NEW r \in Requests, NEW p \in 0..(num_cached_tokens[r] - 1)
               PROVE  /\ p \div BlockSize < Len(block_table[r])
                      /\ kv[block_table[r][p \div BlockSize + 1]][p % BlockSize]
                           = SubSeq(token_ids[r], 1, p + 1)
    BY Zenon DEF CachedIsComputed
  <2>1. /\ Written(r) /\ num_cached_tokens[r] \in Nat /\ written(r) \in Nat
        /\ consumed(r) = num_cached_tokens[r] + num_scheduled_tokens[r]
        /\ num_scheduled_tokens[r] \in Nat
    BY <1>1, InvParts, RowTypes
  <2>2. num_cached_tokens[r] <= written(r)
    BY <2>1 DEF written
  <2>3. p \in 0..written(r) - 1
    BY <2>1, <2>2
  <2> QED
    BY <2>1, <2>3, Zenon DEF Written
<1> QED
  BY <1>1, PrefixInvCorrect, PTL

(* A row in flight has something to compute, blocks for all its tokens,    *)
(* and writes to no block that another request reads.                      *)
THEOREM RowsOwnTheirWrites == Spec => []RowsOwnWhatTheyWrite
<1>1. ASSUME PrefixInv PROVE RowsOwnWhatTheyWrite
  <2> SUFFICES ASSUME NEW r \in Requests, at[r] = "in_flight"
               PROVE  /\ num_scheduled_tokens[r] > 0
                      /\ consumed(r) <= num_tokens(r)
                      /\ num_tokens(r) <= Len(block_table[r]) * BlockSize
                      /\ \A p \in num_cached_tokens[r]..(consumed(r) - 1) :
                           ref_count[block_table[r][p \div BlockSize + 1]] = 1
    BY Zenon DEF RowsOwnWhatTheyWrite
  <2>1. /\ PrefixTypesOK /\ PoolTypes /\ RefCountsExact /\ Place(r)
        /\ num_cached_tokens[r] \in Nat /\ consumed(r) \in Nat
        /\ \A i \in 1..Len(block_table[r]) :
             block_table[r][i] \in Blocks /\ block_table[r][i] \in ToSet(block_table[r])
    BY <1>1, InvParts, RowTypes
  <2>2. ASSUME NEW p \in num_cached_tokens[r]..(consumed(r) - 1)
        PROVE  ref_count[block_table[r][p \div BlockSize + 1]] = 1
    <3>1. p \in 0..consumed(r) - 1
      BY <2>1
    <3>2. PICK d, o : d = p \div BlockSize /\ o = p % BlockSize
      BY Zenon
    <3>3. d + 1 \in 1..Len(block_table[r]) /\ o \in Offsets
          /\ p \in ChunkAt(r, block_table[r][d + 1], o)
      BY <1>1, <3>1, <3>2, ChunkPlaces, Zenon
    <3>4. block_table[r][d + 1] \in Blocks /\ block_table[r][d + 1] \in ToSet(block_table[r])
      BY <2>1, <3>3
    <3>5. \A q \in Requests : block_table[r][d + 1] \in ToSet(block_table[q]) => q = r
      BY <1>1, <3>3, <3>4, ChunkPlaces
    <3>6. ref_count[block_table[r][d + 1]] = 1
      BY <2>1, <3>4, <3>5, CountsMean
    <3> QED
      BY <3>2, <3>6, Zenon
  <2> QED
    BY <2>1, <2>2 DEF Place
<1> QED
  BY <1>1, PrefixInvCorrect, PTL
=============================================================================
