---------------------------- MODULE QueueLemmas ----------------------------
(***************************************************************************)
(* What each queue operation does to the set of elements of a sequence and *)
(* to the absence of duplicates.  The invariant proofs cite these instead  *)
(* of reasoning about indices.                                             *)
(***************************************************************************)
EXTENDS Queues, SequenceTheorems, FiniteSetTheorems, WellFoundedInduction, TLAPS

(* The elements of a sequence are the values at its positions.             *)
LEMMA ToSetDef ==
  ASSUME NEW S, NEW s \in Seq(S)
  PROVE  /\ ToSet(s) = {s[i] : i \in 1..Len(s)}
         /\ ToSet(s) \subseteq S
         /\ s = <<>> <=> ToSet(s) = {}
         /\ s = <<>> <=> Len(s) = 0
         /\ Len(s) \in Nat
<1>1. DOMAIN s = 1..Len(s) /\ Len(s) \in Nat /\ s \in [1..Len(s) -> S]
  BY LenProperties
<1>2. s = <<>> <=> Len(s) = 0
  BY EmptySeq
<1>3. ToSet(s) = {s[i] : i \in 1..Len(s)}
  BY <1>1 DEF ToSet
<1>4. Len(s) = 0 <=> ToSet(s) = {}
  <2>1. CASE Len(s) = 0
    BY <2>1, <1>3
  <2>2. CASE Len(s) # 0
    <3>1. s[1] \in ToSet(s)
      BY <2>2, <1>1, <1>3
    <3> QED
      BY <3>1, <2>2
  <2> QED
    BY <2>1, <2>2
<1>5. ToSet(s) \subseteq S
  BY <1>1, <1>3
<1> QED
  BY <1>1, <1>2, <1>3, <1>4, <1>5

(* A function on 1..n is a sequence of length n.                           *)
LEMMA FunctionIsQueue ==
  ASSUME NEW S, NEW n \in Nat, NEW f \in [1..n -> S]
  PROVE  f \in Seq(S) /\ Len(f) = n
<1>1. f \in Seq(S)
  BY SeqDef
<1>2. DOMAIN f = 1..n /\ DOMAIN f = 1..Len(f) /\ Len(f) \in Nat
  BY <1>1, LenProperties
<1> QED
  BY <1>1, <1>2

LEMMA EmptyQueue == ToSet(<<>>) = {} /\ Distinct(<<>>)
BY DEF ToSet, Distinct

(* deque.append                                                            *)
LEMMA AppendQueue ==
  ASSUME NEW S, NEW s \in Seq(S), NEW e \in S
  PROVE  /\ Append(s, e) \in Seq(S) /\ Append(s, e) # <<>>
         /\ ToSet(Append(s, e)) = ToSet(s) \cup {e}
         /\ Distinct(s) /\ e \notin ToSet(s) => Distinct(Append(s, e))
<1> DEFINE t == Append(s, e)
<1>1. /\ t \in Seq(S) /\ Len(t) = Len(s) + 1
      /\ \A i \in 1..Len(s) : t[i] = s[i]
      /\ t[Len(s) + 1] = e
  BY AppendProperties
<1>2. Len(s) \in Nat /\ ToSet(s) = {s[i] : i \in 1..Len(s)}
  BY ToSetDef
<1> HIDE DEF t
<1>3. ToSet(t) = {t[i] : i \in 1..Len(t)}
  BY <1>1, ToSetDef
<1>4. ToSet(t) = ToSet(s) \cup {e}
  BY <1>1, <1>2, <1>3
<1>5. Distinct(s) /\ e \notin ToSet(s) => Distinct(t)
  BY <1>1, <1>2 DEF Distinct
<1>6. t # <<>>
  BY <1>1, <1>4, ToSetDef
<1> QED
  BY <1>1, <1>4, <1>5, <1>6 DEF t

(* deque.popleft                                                           *)
LEMMA PopLeftQueue ==
  ASSUME NEW S, NEW s \in Seq(S), s # <<>>
  PROVE  /\ Head(s) \in S /\ Head(s) \in ToSet(s)
         /\ Tail(s) \in Seq(S) /\ Len(Tail(s)) = Len(s) - 1
         /\ ToSet(s) = {Head(s)} \cup ToSet(Tail(s))
         /\ Distinct(s) => /\ Distinct(Tail(s))
                           /\ Head(s) \notin ToSet(Tail(s))
<1> DEFINE t == Tail(s)
<1>1. /\ t \in Seq(S) /\ Len(t) = Len(s) - 1 /\ Head(s) \in S
      /\ \A i \in 1..Len(t) : t[i] = s[i + 1]
  BY HeadTailProperties
<1>2. Len(s) \in Nat /\ Len(s) > 0 /\ Head(s) = s[1]
  BY ToSetDef
<1>3. ToSet(t) = {t[i] : i \in 1..Len(t)} /\ ToSet(s) = {s[i] : i \in 1..Len(s)}
  BY <1>1, ToSetDef
<1> HIDE DEF t
<1>4. Head(s) \in ToSet(s) /\ ToSet(t) \subseteq ToSet(s)
  BY <1>1, <1>2, <1>3
<1>5. ASSUME NEW x \in ToSet(s), x # Head(s) PROVE x \in ToSet(t)
  <2>1. PICK i \in 1..Len(s) : x = s[i]
    BY <1>3
  <2>2. i # 1 /\ i - 1 \in 1..Len(t) /\ t[i - 1] = s[i]
    BY <2>1, <1>1, <1>2, <1>5
  <2> QED
    BY <2>1, <2>2, <1>3
<1>6. Distinct(s) => Distinct(t) /\ Head(s) \notin ToSet(t)
  BY <1>1, <1>2, <1>3 DEF Distinct
<1> QED
  BY <1>1, <1>4, <1>5, <1>6 DEF t

(* deque.pop                                                               *)
LEMMA PopQueue ==
  ASSUME NEW S, NEW s \in Seq(S), s # <<>>
  PROVE  /\ Last(s) \in S /\ Last(s) \in ToSet(s)
         /\ Front(s) \in Seq(S) /\ Len(Front(s)) = Len(s) - 1
         /\ ToSet(s) = {Last(s)} \cup ToSet(Front(s))
         /\ Distinct(s) => /\ Distinct(Front(s))
                           /\ Last(s) \notin ToSet(Front(s))
<1> DEFINE t == SubSeq(s, 1, Len(s) - 1)
<1>1. Len(s) \in Nat /\ Len(s) > 0 /\ Last(s) = s[Len(s)]
      /\ ToSet(s) = {s[i] : i \in 1..Len(s)} /\ Last(s) \in S
  BY ToSetDef, ElementOfSeq DEF Last
<1>2. /\ t \in Seq(S) /\ Len(t) = Len(s) - 1
      /\ \A i \in 1..Len(t) : t[i] = s[i]
  <2>1. 1 \in Int /\ Len(s) - 1 \in Int /\ \A i \in 1..Len(s) - 1 : s[i] \in S
    BY <1>1, ElementOfSeq
  <2>2. /\ t \in Seq(S)
        /\ Len(t) = IF 1 <= Len(s) - 1 THEN (Len(s) - 1) - 1 + 1 ELSE 0
        /\ \A i \in 1..(Len(s) - 1) - 1 + 1 : t[i] = s[1 + i - 1]
    BY <2>1, SubSeqProperties
  <2> HIDE DEF t
  <2>3. Len(t) = Len(s) - 1
    <3>1. \A n \in Nat : n > 0 => (IF 1 <= n - 1 THEN (n - 1) - 1 + 1 ELSE 0) = n - 1
      OBVIOUS
    <3> QED
      BY <3>1, <2>2, <1>1
  <2>4. ASSUME NEW i \in 1..Len(s) - 1 PROVE t[i] = s[i]
    <3>1. i \in 1..(Len(s) - 1) - 1 + 1 /\ 1 + i - 1 = i
      BY <1>1
    <3> QED
      BY <2>2, <3>1
  <2> QED
    BY <2>2, <2>3, <2>4
<1> HIDE DEF t
<1>3. ToSet(t) = {t[i] : i \in 1..Len(t)}
  BY <1>2, ToSetDef
<1>4. Last(s) \in ToSet(s) /\ ToSet(s) = {Last(s)} \cup ToSet(t)
  <2>1. ASSUME NEW x \in ToSet(s), x # Last(s) PROVE x \in ToSet(t)
    <3>1. PICK i \in 1..Len(s) : x = s[i]
      BY <1>1
    <3> QED
      BY <3>1, <2>1, <1>1, <1>2, <1>3
  <2> QED
    BY <2>1, <1>1, <1>2, <1>3
<1>5. Distinct(s) => Distinct(t) /\ Last(s) \notin ToSet(t)
  BY <1>1, <1>2, <1>3 DEF Distinct
<1> QED
  BY <1>1, <1>2, <1>4, <1>5 DEF t, Front

(* Two deques end to end.                                                  *)
LEMMA ConcatQueue ==
  ASSUME NEW S, NEW s \in Seq(S), NEW t \in Seq(S)
  PROVE  /\ s \o t \in Seq(S) /\ Len(s \o t) = Len(s) + Len(t)
         /\ ToSet(s \o t) = ToSet(s) \cup ToSet(t)
         /\ Distinct(s) /\ Distinct(t) /\ ToSet(s) \cap ToSet(t) = {}
              => Distinct(s \o t)
<1> DEFINE u == s \o t
<1>1. /\ u \in Seq(S) /\ Len(u) = Len(s) + Len(t)
      /\ \A i \in 1..Len(s) + Len(t) :
           u[i] = IF i <= Len(s) THEN s[i] ELSE t[i - Len(s)]
  BY ConcatProperties
<1>2. /\ Len(s) \in Nat /\ Len(t) \in Nat
      /\ ToSet(s) = {s[i] : i \in 1..Len(s)}
      /\ ToSet(t) = {t[i] : i \in 1..Len(t)}
  BY ToSetDef
<1>3. ToSet(u) = {u[i] : i \in 1..Len(u)}
  BY <1>1, ToSetDef
<1> HIDE DEF u
<1>4. ASSUME NEW x \in ToSet(u) PROVE x \in ToSet(s) \cup ToSet(t)
  <2>1. PICK i \in 1..Len(u) : x = u[i]
    BY <1>3
  <2>2. CASE i <= Len(s)
    BY <2>1, <2>2, <1>1, <1>2
  <2>3. CASE i > Len(s)
    <3>1. i - Len(s) \in 1..Len(t) /\ u[i] = t[i - Len(s)]
      BY <2>3, <1>1, <1>2
    <3> QED
      BY <2>1, <3>1, <1>2
  <2> QED
    BY <2>2, <2>3, <1>1, <1>2
<1>5. ASSUME NEW x \in ToSet(s) PROVE x \in ToSet(u)
  <2>1. PICK i \in 1..Len(s) : x = s[i]
    BY <1>2
  <2>2. i \in 1..Len(u) /\ u[i] = s[i]
    BY <1>1, <1>2
  <2> QED
    BY <2>1, <2>2, <1>3
<1>6. ASSUME NEW x \in ToSet(t) PROVE x \in ToSet(u)
  <2>1. PICK i \in 1..Len(t) : x = t[i]
    BY <1>2
  <2>2. i + Len(s) \in 1..Len(u)
    BY <1>1, <1>2
  <2>3. u[i + Len(s)] = t[(i + Len(s)) - Len(s)]
    BY <2>2, <1>1, <1>2
  <2>4. (i + Len(s)) - Len(s) = i
    BY <1>2
  <2> QED
    BY <2>1, <2>2, <2>3, <2>4, <1>3
<1>7. Distinct(s) /\ Distinct(t) /\ ToSet(s) \cap ToSet(t) = {} => Distinct(u)
  <2> SUFFICES ASSUME Distinct(s), Distinct(t), ToSet(s) \cap ToSet(t) = {},
                      NEW i \in 1..Len(u), NEW j \in 1..Len(u), u[i] = u[j]
               PROVE  i = j
    BY DEF Distinct
  <2>1. CASE i <= Len(s) /\ j <= Len(s)
    BY <2>1, <1>1, <1>2 DEF Distinct
  <2>2. CASE i > Len(s) /\ j > Len(s)
    <3>1. i - Len(s) \in 1..Len(t) /\ j - Len(s) \in 1..Len(t)
          /\ t[i - Len(s)] = t[j - Len(s)]
      BY <2>2, <1>1, <1>2
    <3>2. i - Len(s) = j - Len(s)
      BY <3>1 DEF Distinct
    <3> QED
      BY <3>2, <1>1, <1>2
  <2>a. ASSUME NEW k \in 1..Len(u), k <= Len(s) PROVE u[k] \in ToSet(s)
    BY <2>a, <1>1, <1>2
  <2>b. ASSUME NEW k \in 1..Len(u), k > Len(s) PROVE u[k] \in ToSet(t)
    <3>1. k - Len(s) \in 1..Len(t) /\ u[k] = t[k - Len(s)]
      BY <2>b, <1>1, <1>2
    <3> QED
      BY <3>1, <1>2
  <2>3. CASE i <= Len(s) /\ j > Len(s)
    BY <2>3, <2>a, <2>b
  <2>4. CASE i > Len(s) /\ j <= Len(s)
    BY <2>4, <2>a, <2>b
  <2> QED
    BY <2>1, <2>2, <2>3, <2>4, <1>1, <1>2
<1> QED
  BY <1>1, <1>4, <1>5, <1>6, <1>7 DEF u

(* seq.block_table, read backwards when its blocks go back to the pool.    *)
LEMMA ReverseQueue ==
  ASSUME NEW S, NEW s \in Seq(S)
  PROVE  /\ Reverse(s) \in Seq(S) /\ Len(Reverse(s)) = Len(s)
         /\ ToSet(Reverse(s)) = ToSet(s)
         /\ Distinct(s) => Distinct(Reverse(s))
<1> DEFINE t == Reverse(s)
<1>1. /\ Len(s) \in Nat /\ ToSet(s) = {s[i] : i \in 1..Len(s)}
      /\ \A i \in 1..Len(s) : s[i] \in S
  BY ToSetDef, ElementOfSeq
<1>2. \A i \in 1..Len(s) : (Len(s) - i) + 1 \in 1..Len(s)
  BY <1>1
<1>3. t \in [1..Len(s) -> S] /\ \A i \in 1..Len(s) : t[i] = s[(Len(s) - i) + 1]
  BY <1>1, <1>2 DEF Reverse
<1> HIDE DEF t
<1>4. t \in Seq(S) /\ Len(t) = Len(s)
  <2>1. t \in Seq(S)
    BY <1>1, <1>3, SeqDef
  <2>2. DOMAIN t = 1..Len(s) /\ DOMAIN t = 1..Len(t) /\ Len(t) \in Nat
    BY <2>1, <1>3, LenProperties
  <2> QED
    BY <2>1, <2>2, <1>1
<1>5. ToSet(t) = {t[i] : i \in 1..Len(s)}
  BY <1>4, ToSetDef
<1>6. ToSet(t) \subseteq ToSet(s)
  BY <1>1, <1>2, <1>3, <1>5
<1>7. ASSUME NEW x \in ToSet(s) PROVE x \in ToSet(t)
  <2>1. PICK i \in 1..Len(s) : x = s[i]
    BY <1>1
  <2>2. (Len(s) - i) + 1 \in 1..Len(s) /\ (Len(s) - ((Len(s) - i) + 1)) + 1 = i
    BY <1>1
  <2>3. t[(Len(s) - i) + 1] = s[i]
    BY <2>2, <1>3
  <2> QED
    BY <2>1, <2>2, <2>3, <1>5
<1>8. Distinct(s) => Distinct(t)
  <2> SUFFICES ASSUME Distinct(s), NEW i \in 1..Len(s), NEW j \in 1..Len(s),
                      t[i] = t[j]
               PROVE  i = j
    BY <1>4 DEF Distinct
  <2>1. (Len(s) - i) + 1 = (Len(s) - j) + 1
    BY <1>2, <1>3 DEF Distinct
  <2> QED
    BY <2>1, <1>1
<1> QED
  BY <1>4, <1>6, <1>7, <1>8 DEF t

(* The first n elements and the rest.                                      *)
LEMMA SplitQueue ==
  ASSUME NEW S, NEW s \in Seq(S), NEW n \in Nat, n <= Len(s)
  PROVE  LET p == SubSeq(s, 1, n)
             q == SubSeq(s, n + 1, Len(s))
         IN  /\ p \in Seq(S) /\ q \in Seq(S)
             /\ Len(p) = n /\ Len(q) = Len(s) - n
             /\ ToSet(s) = ToSet(p) \cup ToSet(q)
             /\ Distinct(s) => /\ Distinct(p) /\ Distinct(q)
                               /\ ToSet(p) \cap ToSet(q) = {}
<1> DEFINE p == SubSeq(s, 1, n)
           q == SubSeq(s, n + 1, Len(s))
<1>1. /\ Len(s) \in Nat /\ ToSet(s) = {s[i] : i \in 1..Len(s)}
      /\ \A i \in 1..Len(s) : s[i] \in S
  BY ToSetDef, ElementOfSeq
<1>2. p \in Seq(S) /\ Len(p) = n /\ \A i \in 1..n : p[i] = s[i]
  <2>1. \A i \in 1..n : s[i] \in S
    BY <1>1
  <2>2. /\ p \in Seq(S) /\ Len(p) = IF 1 <= n THEN n - 1 + 1 ELSE 0
        /\ \A i \in 1..n - 1 + 1 : p[i] = s[1 + i - 1]
    BY <2>1, SubSeqProperties
  <2>3. ASSUME NEW i \in 1..n PROVE p[i] = s[i]
    <3>1. i \in 1..n - 1 + 1 /\ 1 + i - 1 = i
      OBVIOUS
    <3> QED
      BY <2>2, <3>1
  <2> QED
    BY <2>2, <2>3
<1>3. /\ q \in Seq(S) /\ Len(q) = Len(s) - n
      /\ \A i \in 1..Len(s) - n : q[i] = s[n + i]
  <2>1. \A i \in n + 1..Len(s) : s[i] \in S
    BY <1>1
  <2>2. /\ q \in Seq(S)
        /\ Len(q) = IF n + 1 <= Len(s) THEN Len(s) - (n + 1) + 1 ELSE 0
        /\ \A i \in 1..Len(s) - (n + 1) + 1 : q[i] = s[(n + 1) + i - 1]
    BY <2>1, <1>1, SubSeqProperties
  <2>3. ASSUME NEW i \in 1..Len(s) - n PROVE q[i] = s[n + i]
    <3>1. i \in 1..Len(s) - (n + 1) + 1 /\ (n + 1) + i - 1 = n + i
      BY <1>1
    <3> QED
      BY <2>2, <3>1
  <2> QED
    BY <2>2, <2>3, <1>1
<1> HIDE DEF p, q
<1>p. ToSet(p) = {p[i] : i \in 1..Len(p)}
  BY <1>2, ToSetDef
<1>q. ToSet(q) = {q[i] : i \in 1..Len(q)}
  BY <1>3, ToSetDef
<1>4. ToSet(p) = {p[i] : i \in 1..n} /\ ToSet(q) = {q[i] : i \in 1..Len(s) - n}
  BY <1>p, <1>q, <1>2, <1>3
<1>5. ASSUME NEW x \in ToSet(q) PROVE \E k \in n + 1..Len(s) : x = s[k]
  <2>1. PICK i \in 1..Len(s) - n : x = q[i]
    BY <1>4
  <2>2. n + i \in n + 1..Len(s)
    BY <1>1
  <2> QED
    BY <2>1, <2>2, <1>3
<1>6. ToSet(p) \subseteq ToSet(s) /\ ToSet(q) \subseteq ToSet(s)
  <2>1. n + 1..Len(s) \subseteq 1..Len(s)
    BY <1>1
  <2>2. ToSet(q) \subseteq ToSet(s)
    BY <2>1, <1>1, <1>5
  <2>3. ToSet(p) \subseteq ToSet(s)
    BY <1>1, <1>2, <1>4
  <2> QED
    BY <2>2, <2>3
<1>7. ASSUME NEW x \in ToSet(s) PROVE x \in ToSet(p) \cup ToSet(q)
  <2>1. PICK i \in 1..Len(s) : x = s[i]
    BY <1>1
  <2>2. CASE i <= n
    BY <2>1, <2>2, <1>1, <1>2, <1>4
  <2>3. CASE i > n
    <3>1. i - n \in 1..Len(s) - n /\ n + (i - n) = i
      BY <2>3, <1>1
    <3>2. q[i - n] = s[i]
      BY <3>1, <1>3
    <3> QED
      BY <2>1, <3>1, <3>2, <1>4
  <2> QED
    BY <2>2, <2>3, <1>1
<1>8. ASSUME Distinct(s)
      PROVE  Distinct(p) /\ Distinct(q) /\ ToSet(p) \cap ToSet(q) = {}
  <2>1. Distinct(p)
    BY <1>8, <1>1, <1>2 DEF Distinct
  <2>2. ASSUME NEW i \in 1..Len(s) - n, NEW j \in 1..Len(s) - n, q[i] = q[j]
        PROVE  i = j
    <3>1. n + i \in 1..Len(s) /\ n + j \in 1..Len(s) /\ s[n + i] = s[n + j]
      BY <2>2, <1>1, <1>3
    <3>2. n + i = n + j
      BY <3>1, <1>8 DEF Distinct
    <3> QED
      BY <3>2
  <2>3. Distinct(q)
    BY <2>2, <1>3 DEF Distinct
  <2>4. ASSUME NEW x \in ToSet(p), x \in ToSet(q) PROVE FALSE
    <3>1. PICK i \in 1..n : x = s[i]
      BY <1>2, <1>4
    <3>2. PICK k \in n + 1..Len(s) : x = s[k]
      BY <2>4, <1>5
    <3>3. i \in 1..Len(s) /\ k \in 1..Len(s) /\ i # k
      BY <1>1
    <3> QED
      BY <3>1, <3>2, <3>3, <1>8 DEF Distinct
  <2> QED
    BY <2>1, <2>3, <2>4
<1> QED
  BY <1>2, <1>3, <1>6, <1>7, <1>8 DEF p, q

(* del s[i]                                                                *)
LEMMA RemoveAtQueue ==
  ASSUME NEW S, NEW s \in Seq(S), NEW i \in 1..Len(s)
  PROVE  /\ RemoveAt(s, i) \in Seq(S) /\ s[i] \in S /\ s[i] \in ToSet(s)
         /\ ToSet(s) = ToSet(RemoveAt(s, i)) \cup {s[i]}
         /\ Distinct(s) => Distinct(RemoveAt(s, i)) /\ s[i] \notin ToSet(RemoveAt(s, i))
<1> DEFINE a == SubSeq(s, 1, i - 1)
           b == SubSeq(s, i, Len(s))
           c == SubSeq(s, i + 1, Len(s))
<1>1. Len(s) \in Nat /\ i - 1 \in Nat /\ i - 1 <= Len(s) /\ (i - 1) + 1 = i
      /\ i <= Len(s) /\ i \in Nat
  BY ToSetDef
<1>2. /\ a \in Seq(S) /\ b \in Seq(S) /\ Len(b) = Len(s) - (i - 1)
      /\ ToSet(s) = ToSet(a) \cup ToSet(b)
      /\ Distinct(s) => Distinct(a) /\ Distinct(b) /\ ToSet(a) \cap ToSet(b) = {}
  BY <1>1, SplitQueue
<1>3. i \in 1..Len(s) /\ Len(s) \in i..Len(s)
  BY <1>1
<1>4. Head(b) = s[i] /\ Tail(b) = c
  BY <1>3, HeadTailOfSubSeq
<1>5. b # <<>>
  <2>1. Len(b) # 0
    BY <1>1, <1>2
  <2> QED
    BY <2>1, <1>2, ToSetDef
<1> HIDE DEF a, b, c
<1>6. /\ s[i] \in S /\ c \in Seq(S) /\ ToSet(b) = {s[i]} \cup ToSet(c)
      /\ Distinct(b) => Distinct(c) /\ s[i] \notin ToSet(c)
  <2>1. /\ Head(b) \in S /\ Tail(b) \in Seq(S) /\ ToSet(b) = {Head(b)} \cup ToSet(Tail(b))
        /\ Distinct(b) => Distinct(Tail(b)) /\ Head(b) \notin ToSet(Tail(b))
    BY <1>2, <1>5, PopLeftQueue
  <2> QED
    BY <2>1, <1>4
<1>7. /\ a \o c \in Seq(S) /\ ToSet(a \o c) = ToSet(a) \cup ToSet(c)
      /\ Distinct(a) /\ Distinct(c) /\ ToSet(a) \cap ToSet(c) = {} => Distinct(a \o c)
  BY <1>2, <1>6, ConcatQueue
<1>8. RemoveAt(s, i) = a \o c
  BY DEF RemoveAt, a, c
<1> QED
  BY <1>2, <1>6, <1>7, <1>8

(* Where each element that is left came from.                              *)
LEMMA RemoveAtIndices ==
  ASSUME NEW S, NEW s \in Seq(S), NEW i \in 1..Len(s)
  PROVE  /\ RemoveAt(s, i) \in Seq(S)
         /\ Len(RemoveAt(s, i)) = Len(s) - 1
         /\ \A k \in 1..Len(s) - 1 :
              RemoveAt(s, i)[k] = IF k < i THEN s[k] ELSE s[k + 1]
<1> DEFINE a == SubSeq(s, 1, i - 1)
           c == SubSeq(s, i + 1, Len(s))
<1>1. Len(s) \in Nat /\ i \in Nat /\ i >= 1 /\ i <= Len(s)
      /\ \A k \in 1..Len(s) : s[k] \in S
  BY ToSetDef, ElementOfSeq
<1>2. /\ a \in Seq(S) /\ Len(a) = IF 1 <= i - 1 THEN (i - 1) - 1 + 1 ELSE 0
      /\ \A k \in 1..(i - 1) - 1 + 1 : a[k] = s[1 + k - 1]
  <2>1. \A k \in 1..i - 1 : s[k] \in S
    BY <1>1
  <2> QED
    BY <1>1, <2>1, SubSeqProperties
<1>3. /\ c \in Seq(S) /\ Len(c) = IF i + 1 <= Len(s) THEN Len(s) - (i + 1) + 1 ELSE 0
      /\ \A k \in 1..Len(s) - (i + 1) + 1 : c[k] = s[(i + 1) + k - 1]
  <2>1. \A k \in i + 1..Len(s) : s[k] \in S
    BY <1>1
  <2> QED
    BY <1>1, <2>1, SubSeqProperties
<1> HIDE DEF a, c
<1>4. Len(a) = i - 1 /\ \A k \in 1..i - 1 : a[k] = s[k]
  <2>1. \A n \in Nat : n >= 1 => (IF 1 <= n - 1 THEN (n - 1) - 1 + 1 ELSE 0) = n - 1
    OBVIOUS
  <2>2. ASSUME NEW k \in 1..i - 1 PROVE a[k] = s[k]
    <3>1. k \in 1..(i - 1) - 1 + 1 /\ 1 + k - 1 = k
      BY <1>1
    <3> QED
      BY <3>1, <1>2
  <2> QED
    BY <1>1, <1>2, <2>1, <2>2
<1>5. Len(c) = Len(s) - i /\ \A k \in 1..Len(s) - i : c[k] = s[i + k]
  <2>1. \A m, n \in Nat : m <= n =>
          (IF m + 1 <= n THEN n - (m + 1) + 1 ELSE 0) = n - m
    OBVIOUS
  <2>2. ASSUME NEW k \in 1..Len(s) - i PROVE c[k] = s[i + k]
    <3>1. k \in 1..Len(s) - (i + 1) + 1 /\ (i + 1) + k - 1 = i + k
      BY <1>1
    <3> QED
      BY <3>1, <1>3
  <2> QED
    BY <1>1, <1>3, <2>1, <2>2
<1>6. /\ a \o c \in Seq(S) /\ Len(a \o c) = Len(a) + Len(c)
      /\ \A k \in 1..Len(a) + Len(c) :
           (a \o c)[k] = IF k <= Len(a) THEN a[k] ELSE c[k - Len(a)]
  BY <1>2, <1>3, ConcatProperties
<1>7. Len(a) + Len(c) = Len(s) - 1
  BY <1>1, <1>4, <1>5
<1>8. ASSUME NEW k \in 1..Len(s) - 1
      PROVE  (a \o c)[k] = IF k < i THEN s[k] ELSE s[k + 1]
  <2>1. CASE k < i
    <3>1. k \in 1..i - 1 /\ k <= Len(a)
      BY <2>1, <1>1, <1>4
    <3> QED
      BY <2>1, <3>1, <1>4, <1>6, <1>7
  <2>2. CASE ~(k < i)
    <3>1. /\ k - (i - 1) \in 1..Len(s) - i /\ i + (k - (i - 1)) = k + 1
          /\ ~(k <= Len(a))
      BY <2>2, <1>1, <1>4
    <3>2. (a \o c)[k] = c[k - (i - 1)]
      BY <3>1, <1>4, <1>6, <1>7
    <3> QED
      BY <2>2, <3>1, <3>2, <1>5
  <2> QED
    BY <2>1, <2>2
<1>9. RemoveAt(s, i) = a \o c
  BY DEF RemoveAt, a, c
<1> QED
  BY <1>6, <1>7, <1>8, <1>9

(* deque.appendleft                                                        *)
LEMMA AppendLeftQueue ==
  ASSUME NEW S, NEW s \in Seq(S), NEW e \in S
  PROVE  /\ <<e>> \o s \in Seq(S) /\ <<e>> \o s # <<>>
         /\ ToSet(<<e>> \o s) = ToSet(s) \cup {e}
         /\ Distinct(s) /\ e \notin ToSet(s) => Distinct(<<e>> \o s)
<1> DEFINE h == <<e>>
           t == h \o s
<1>1. /\ h \in Seq(S) /\ ToSet(h) = {e} /\ Distinct(h)
  BY DEF ToSet, Distinct
<1> HIDE DEF h
<1>2. /\ t \in Seq(S) /\ ToSet(t) = ToSet(h) \cup ToSet(s)
      /\ Distinct(h) /\ Distinct(s) /\ ToSet(h) \cap ToSet(s) = {} => Distinct(t)
  BY <1>1, ConcatQueue
<1> HIDE DEF t
<1>3. ToSet(t) # {}
  BY <1>1, <1>2
<1>4. t # <<>>
  BY <1>2, <1>3, ToSetDef
<1> QED
  BY <1>1, <1>2, <1>4 DEF t, h

(* waiting.remove(x) then appendleft(x) only reorders the queue.           *)
LEMMA MoveToFrontQueue ==
  ASSUME NEW S, NEW s \in Seq(S), NEW i \in 1..Len(s)
  PROVE  /\ MoveToFront(s, i) \in Seq(S)
         /\ ToSet(MoveToFront(s, i)) = ToSet(s)
         /\ Distinct(s) => Distinct(MoveToFront(s, i))
<1> DEFINE t == RemoveAt(s, i)
<1>1. /\ t \in Seq(S) /\ s[i] \in S /\ ToSet(s) = ToSet(t) \cup {s[i]}
      /\ Distinct(s) => Distinct(t) /\ s[i] \notin ToSet(t)
  BY RemoveAtQueue
<1> HIDE DEF t
<1>2. /\ <<s[i]>> \o t \in Seq(S) /\ ToSet(<<s[i]>> \o t) = ToSet(t) \cup {s[i]}
      /\ Distinct(t) /\ s[i] \notin ToSet(t) => Distinct(<<s[i]>> \o t)
  BY <1>1, AppendLeftQueue
<1> QED
  BY <1>1, <1>2 DEF MoveToFront, t

(* Without duplicates, a sequence is as long as its set is big.            *)
LEMMA DistinctCardinality ==
  ASSUME NEW S, NEW s \in Seq(S), Distinct(s)
  PROVE  IsFiniteSet(ToSet(s)) /\ Cardinality(ToSet(s)) = Len(s)
<1>1. Len(s) \in Nat /\ s \in [1..Len(s) -> S] /\ ToSet(s) = {s[i] : i \in 1..Len(s)}
  BY LenProperties, ToSetDef
<1>2. s \in [1..Len(s) -> ToSet(s)]
  BY <1>1
<1>3. s \in Bijection(1..Len(s), ToSet(s))
  BY <1>1, <1>2 DEF Distinct, Bijection, Injection, IsInjective, Surjection
<1>4. IsFiniteSet(1..Len(s)) /\ Cardinality(1..Len(s)) = Len(s)
  BY <1>1, FS_Interval
<1> QED
  BY <1>3, <1>4, FS_Bijection DEF ExistsBijection

(* What makes induction available without a theorem over predicates: a set *)
(* of numbers that holds 0 and the successor of each of its elements below *)
(* n reaches n.                                                            *)
LEMMA CountUp ==
  ASSUME NEW n \in Nat, NEW P, 0 \in P,
         \A k \in 0..n - 1 : k \in P => k + 1 \in P
  PROVE  \A k \in 0..n : k \in P
<1> DEFINE R == {ss \in Nat \X Nat : ss[1] < ss[2]}
           T == {k \in 0..n : k \notin P}
<1>1. IsWellFoundedOn(R, Nat)
  BY NatLessThanWellFounded DEF OpToRel
<1>2. SUFFICES ASSUME T # {} PROVE FALSE
  OBVIOUS
<1>3. T \subseteq Nat
  OBVIOUS
<1>4. PICK x \in T : \A y \in T : ~(<<y, x>> \in R)
  BY <1>1, <1>2, <1>3, WFMin, Zenon
<1>5. x \in 1..n /\ x - 1 \in 0..n - 1 /\ x - 1 \in Nat /\ x - 1 < x /\ x \in Nat
  BY <1>4
<1>6. x - 1 \notin P
  BY <1>4, <1>5
<1>7. x - 1 \in T /\ <<x - 1, x>> \in R
  BY <1>5, <1>6
<1> QED
  BY <1>4, <1>7

(* The values Only goes through.                                           *)
OnlyRun(f, s, S) ==
  /\ f[0] = <<>>
  /\ \A k \in 1..Len(s) : f[k] = IF s[k] \in S THEN Append(f[k - 1], s[k]) ELSE f[k - 1]

(* The recursion behind Only has a solution, so Only computes it.          *)
LEMMA OnlySteps ==
  ASSUME NEW T, NEW s \in Seq(T), NEW S
  PROVE  \E f \in [0..Len(s) -> Seq(T)] : OnlyRun(f, s, S) /\ Only(s, S) = f[Len(s)]
<1> DEFINE N == Len(s)
           Step(q, k) == IF s[k] \in S THEN Append(q, s[k]) ELSE q
           Solves(g, n) == /\ g \in [0..n -> Seq(T)] /\ g[0] = <<>>
                           /\ \A k \in 1..n : g[k] = Step(g[k - 1], k)
           P == {n \in 0..N : \E g : Solves(g, n)}
<1>1. N \in Nat /\ <<>> \in Seq(T) /\ \A k \in 1..N : s[k] \in T
  BY LenProperties
<1>2. \A q \in Seq(T), k \in 1..N : Step(q, k) \in Seq(T)
  BY <1>1, AppendProperties
<1>3. 0 \in P
  <2>1. Solves([i \in 0..0 |-> <<>>], 0)
    BY <1>1
  <2> HIDE DEF Solves
  <2>2. 0 \in 0..N
    BY <1>1
  <2> QED
    BY <2>1, <2>2
<1> HIDE DEF Step
<1>4. ASSUME NEW n \in 0..N - 1, n \in P PROVE n + 1 \in P
  <2>1. PICK g : Solves(g, n)
    BY <1>4
  <2> DEFINE h == [i \in 0..n + 1 |-> IF i = n + 1 THEN Step(g[n], n + 1) ELSE g[i]]
  <2>2. n \in Nat /\ n + 1 \in 1..N /\ n + 1 \in 0..N
    BY <1>1
  <2>3. Step(g[n], n + 1) \in Seq(T)
    BY <1>2, <2>1, <2>2
  <2>4. h \in [0..n + 1 -> Seq(T)]
    BY <2>1, <2>2, <2>3
  <2>5. h[0] = <<>>
    BY <2>1, <2>2
  <2>6. ASSUME NEW k \in 1..n + 1 PROVE h[k] = Step(h[k - 1], k)
    <3>1. k - 1 \in 0..n + 1 /\ k - 1 # n + 1 /\ k \in 0..n + 1
      BY <2>2
    <3>2. h[k - 1] = g[k - 1]
      BY <3>1
    <3>3. CASE k = n + 1
      BY <3>2, <3>3, <2>2
    <3>4. CASE k # n + 1
      <4>1. k \in 1..n
        BY <3>4, <2>2
      <4>2. g[k] = Step(g[k - 1], k)
        BY <4>1, <2>1
      <4> QED
        BY <3>1, <3>2, <3>4, <4>2
    <3> QED
      BY <3>3, <3>4
  <2>7. Solves(h, n + 1)
    BY <2>4, <2>5, <2>6
  <2> QED
    BY <2>2, <2>7
<1>5. N \in P
  <2> HIDE DEF P, N
  <2>1. \A n \in 0..N : n \in P
    BY <1>1, <1>3, <1>4, CountUp
  <2>2. N \in 0..N
    BY <1>1
  <2> QED
    BY <2>1, <2>2
<1>6. PICK g : Solves(g, N)
  BY <1>5
<1> DEFINE Rec(f) == f = [n \in 0..Len(s) |->
                            IF n = 0 THEN <<>>
                            ELSE IF s[n] \in S THEN Append(f[n - 1], s[n]) ELSE f[n - 1]]
<1>7. Rec(g)
  <2>1. g = [n \in 0..N |-> g[n]]
    BY <1>6
  <2>2. ASSUME NEW n \in 0..N
        PROVE  g[n] = IF n = 0 THEN <<>>
                      ELSE IF s[n] \in S THEN Append(g[n - 1], s[n]) ELSE g[n - 1]
    <3>1. CASE n = 0
      BY <1>6, <3>1
    <3>2. CASE n # 0
      <4>1. n \in 1..N
        BY <1>1, <3>2
      <4>2. g[n] = Step(g[n - 1], n)
        BY <1>6, <4>1
      <4> QED
        BY <3>2, <4>2 DEF Step
    <3> QED
      BY <3>1, <3>2
  <2> QED
    BY <2>1, <2>2
<1>8. Only(s, S) = (CHOOSE f : Rec(f))[Len(s)]
  BY DEF Only
<1> DEFINE f == CHOOSE f : Rec(f)
<1>9. Rec(f)
  <2> HIDE DEF Rec
  <2> QED
    BY <1>7, Zenon
<1>10. f[0] = <<>> /\ \A k \in 1..N : f[k] = Step(f[k - 1], k)
  <2> HIDE DEF f, Solves
  <2>1. f[0] = <<>>
    BY <1>1, <1>9
  <2>2. ASSUME NEW k \in 1..N PROVE f[k] = Step(f[k - 1], k)
    <3>1. k \in 0..N /\ k # 0
      BY <1>1
    <3> QED
      BY <1>9, <3>1 DEF Step
  <2> QED
    BY <2>1, <2>2
<1> HIDE DEF f, Rec
<1>11. \A n \in 0..N : f[n] \in Seq(T)
  <2> DEFINE Q == {n \in 0..N : f[n] \in Seq(T)}
  <2>1. 0 \in Q
    <3>1. 0 \in 0..N /\ f[0] \in Seq(T)
      BY <1>1, <1>10
    <3> QED
      BY <3>1
  <2>2. ASSUME NEW n \in 0..N - 1, n \in Q PROVE n + 1 \in Q
    <3>1. n + 1 \in 1..N /\ (n + 1) - 1 = n /\ n + 1 \in 0..N
      BY <1>1
    <3>2. f[n + 1] = Step(f[n], n + 1)
      BY <1>10, <3>1
    <3> QED
      BY <1>2, <2>2, <3>1, <3>2
  <2> HIDE DEF Q, N
  <2>3. \A n \in 0..N : n \in Q
    BY <1>1, <2>1, <2>2, CountUp
  <2> QED
    BY <2>3 DEF Q
<1>12. f = [n \in 0..N |-> f[n]]
  <2>1. Rec(f)
    BY <1>9
  <2> QED
    BY <2>1 DEF Rec
<1>13. f \in [0..N -> Seq(T)]
  BY <1>11, <1>12
<1>14. Only(s, S) = f[Len(s)]
  BY <1>8 DEF f
<1> QED
  BY <1>10, <1>13, <1>14 DEF Step, OnlyRun
(* A list comprehension keeps the elements that pass, without doubling any *)
LEMMA OnlyQueue ==
  ASSUME NEW T, NEW s \in Seq(T), NEW S
  PROVE  /\ Only(s, S) \in Seq(T) /\ Len(Only(s, S)) <= Len(s)
         /\ ToSet(Only(s, S)) = ToSet(s) \cap S
         /\ Distinct(s) => Distinct(Only(s, S))
<1> DEFINE N == Len(s)
<1>0. PICK f \in [0..Len(s) -> Seq(T)] : OnlyRun(f, s, S) /\ Only(s, S) = f[Len(s)]
  BY OnlySteps
<1>1. /\ f \in [0..N -> Seq(T)] /\ Only(s, S) = f[N] /\ f[0] = <<>>
      /\ \A k \in 1..N : f[k] = IF s[k] \in S THEN Append(f[k - 1], s[k]) ELSE f[k - 1]
  BY <1>0 DEF OnlyRun
<1>2. /\ N \in Nat /\ ToSet(s) = {s[i] : i \in 1..N} /\ \A i \in 1..N : s[i] \in T
      /\ N \in 0..N /\ 0 \in 0..N
  BY ToSetDef, LenProperties
<1> DEFINE Kept(k) == {s[i] : i \in 1..k} \cap S
           P == {k \in 0..N : /\ ToSet(f[k]) = Kept(k) /\ Len(f[k]) <= k
                              /\ Distinct(s) => Distinct(f[k])}
<1>3. 0 \in P
  <2>1. ToSet(f[0]) = {} /\ Distinct(f[0]) /\ Len(f[0]) = 0
    BY <1>1, EmptyQueue
  <2>2. Kept(0) = {}
    OBVIOUS
  <2> QED
    BY <1>2, <2>1, <2>2
<1>4. ASSUME NEW k \in 0..N - 1, k \in P PROVE k + 1 \in P
  <2>1. k + 1 \in 1..N /\ k + 1 \in 0..N /\ (k + 1) - 1 = k /\ k \in Nat /\ k \in 0..N
    BY <1>2
  <2>2. f[k + 1] = IF s[k + 1] \in S THEN Append(f[k], s[k + 1]) ELSE f[k]
    BY <1>1, <2>1
  <2>3. /\ ToSet(f[k]) = Kept(k) /\ Len(f[k]) <= k /\ Len(f[k]) \in Nat
        /\ Distinct(s) => Distinct(f[k])
        /\ f[k] \in Seq(T)
    BY <1>4, <2>1, LenProperties
  <2>4. Kept(k + 1) = Kept(k) \cup ({s[k + 1]} \cap S)
    <3>1. 1..k + 1 = 1..k \cup {k + 1}
      BY <2>1
    <3> QED
      BY <3>1
  <2>5. Distinct(s) => s[k + 1] \notin Kept(k)
    BY <1>2, <2>1 DEF Distinct
  <2>6. s[k + 1] \in T
    BY <1>2, <2>1
  <2> HIDE DEF Kept
  <2>7. CASE s[k + 1] \in S
    <3>1. /\ ToSet(f[k + 1]) = ToSet(f[k]) \cup {s[k + 1]}
          /\ Len(f[k + 1]) = Len(f[k]) + 1
          /\ Distinct(f[k]) /\ s[k + 1] \notin ToSet(f[k]) => Distinct(f[k + 1])
      BY <2>2, <2>3, <2>6, <2>7, AppendQueue, AppendProperties
    <3>2. ToSet(f[k + 1]) = Kept(k + 1)
      BY <2>3, <2>4, <2>7, <3>1
    <3>3. Len(f[k + 1]) <= k + 1
      BY <2>1, <2>3, <3>1
    <3>4. Distinct(s) => Distinct(f[k + 1])
      BY <2>3, <2>5, <3>1
    <3> QED
      BY <2>1, <3>2, <3>3, <3>4
  <2>8. CASE s[k + 1] \notin S
    <3>1. f[k + 1] = f[k] /\ Kept(k + 1) = Kept(k)
      BY <2>2, <2>4, <2>8
    <3>2. Len(f[k + 1]) <= k + 1
      BY <2>1, <2>3, <3>1
    <3> QED
      BY <2>1, <2>3, <3>1, <3>2
  <2> QED
    BY <2>7, <2>8
<1>5. N \in P
  <2> HIDE DEF P, N
  <2>1. \A k \in 0..N : k \in P
    BY <1>2, <1>3, <1>4, CountUp
  <2> QED
    BY <1>2, <2>1
<1>6. f[N] \in Seq(T)
  BY <1>1, <1>2
<1> QED
  BY <1>1, <1>2, <1>5, <1>6

(* It distributes over concatenation.                                      *)
LEMMA OnlyConcat ==
  ASSUME NEW T, NEW s \in Seq(T), NEW t \in Seq(T), NEW S
  PROVE  Only(s \o t, S) = Only(s, S) \o Only(t, S)
<1> DEFINE u == s \o t
           M == Len(s)
           N == Len(t)
<1>1. /\ u \in Seq(T) /\ Len(u) = M + N /\ M \in Nat /\ N \in Nat
      /\ \A k \in 1..M : u[k] = s[k]
      /\ \A k \in 1..N : u[M + k] = t[k]
      /\ \A k \in 1..N : t[k] \in T
  BY ConcatProperties, LenProperties
<1>2. PICK f \in [0..Len(s) -> Seq(T)] : OnlyRun(f, s, S) /\ Only(s, S) = f[Len(s)]
  BY OnlySteps
<1>3. PICK g \in [0..Len(t) -> Seq(T)] : OnlyRun(g, t, S) /\ Only(t, S) = g[Len(t)]
  BY OnlySteps
<1>u. u \in Seq(T)
  BY <1>1
<1> HIDE DEF u
<1>4. PICK h \in [0..Len(u) -> Seq(T)] : OnlyRun(h, u, S) /\ Only(u, S) = h[Len(u)]
  BY <1>u, OnlySteps
<1>f. /\ f \in [0..M -> Seq(T)] /\ Only(s, S) = f[M] /\ f[0] = <<>>
      /\ \A k \in 1..M : f[k] = IF s[k] \in S THEN Append(f[k - 1], s[k]) ELSE f[k - 1]
  BY <1>2 DEF OnlyRun
<1>g. /\ g \in [0..N -> Seq(T)] /\ Only(t, S) = g[N] /\ g[0] = <<>>
      /\ \A k \in 1..N : g[k] = IF t[k] \in S THEN Append(g[k - 1], t[k]) ELSE g[k - 1]
  BY <1>3 DEF OnlyRun
<1>h. /\ Only(u, S) = h[Len(u)] /\ h[0] = <<>>
      /\ \A k \in 1..Len(u) : h[k] = IF u[k] \in S THEN Append(h[k - 1], u[k]) ELSE h[k - 1]
  BY <1>4 DEF OnlyRun
<1> HIDE DEF M, N
<1>5. h[M] = f[M]
  <2> DEFINE P == {k \in 0..M : h[k] = f[k]}
  <2>1. 0 \in P
    BY <1>1, <1>f, <1>h
  <2>2. ASSUME NEW k \in 0..M - 1, k \in P PROVE k + 1 \in P
    <3>1. k + 1 \in 1..M /\ k + 1 \in 1..Len(u) /\ (k + 1) - 1 = k /\ k + 1 \in 0..M
      BY <1>1
    <3>2. f[k + 1] = IF s[k + 1] \in S THEN Append(f[k], s[k + 1]) ELSE f[k]
      BY <1>f, <3>1
    <3>3. h[k + 1] = IF u[k + 1] \in S THEN Append(h[k], u[k + 1]) ELSE h[k]
      BY <1>h, <3>1
    <3> QED
      BY <1>1, <2>2, <3>1, <3>2, <3>3
  <2> HIDE DEF P
  <2>3. \A k \in 0..M : k \in P
    BY <1>1, <2>1, <2>2, CountUp
  <2>4. M \in 0..M
    BY <1>1
  <2> QED
    BY <2>3, <2>4 DEF P
<1>6. h[M + N] = f[M] \o g[N]
  <2> DEFINE P == {k \in 0..N : h[M + k] = f[M] \o g[k]}
  <2>0. f[M] \in Seq(T) /\ \A k \in 0..N : g[k] \in Seq(T)
    <3>1. M \in 0..M
      BY <1>1
    <3> QED
      BY <3>1, <1>f, <1>g
  <2>1. 0 \in P
    <3>1. M + 0 = M /\ 0 \in 0..N
      BY <1>1
    <3>2. f[M] \o <<>> = f[M]
      BY <2>0, ConcatEmptySeq
    <3> QED
      BY <1>g, <1>5, <3>1, <3>2
  <2>2. ASSUME NEW k \in 0..N - 1, k \in P PROVE k + 1 \in P
    <3>1. /\ k + 1 \in 1..N /\ M + (k + 1) \in 1..Len(u) /\ (k + 1) - 1 = k /\ k + 1 \in 0..N
          /\ (M + (k + 1)) - 1 = M + k /\ k \in 0..N
      BY <1>1
    <3>2. g[k + 1] = IF t[k + 1] \in S THEN Append(g[k], t[k + 1]) ELSE g[k]
      BY <1>g, <3>1
    <3>3. h[M + (k + 1)] = IF u[M + (k + 1)] \in S THEN Append(h[M + k], u[M + (k + 1)])
                                                   ELSE h[M + k]
      BY <1>h, <3>1
    <3>4. u[M + (k + 1)] = t[k + 1] /\ t[k + 1] \in T
      BY <1>1, <3>1
    <3>5. h[M + k] = f[M] \o g[k]
      BY <2>2
    <3>6. Append(f[M] \o g[k], t[k + 1]) = f[M] \o Append(g[k], t[k + 1])
      <4>1. f[M] \in Seq(T) /\ g[k] \in Seq(T)
        BY <2>0, <3>1
      <4> HIDE DEF P
      <4> DEFINE p == f[M]
                 q == g[k]
                 e == t[k + 1]
      <4>2. p \in Seq(T) /\ q \in Seq(T) /\ e \in T
        BY <3>4, <4>1
      <4> HIDE DEF p, q, e
      <4>3. <<e>> \in Seq(T) /\ p \o q \in Seq(T)
        BY <4>2, ConcatProperties
      <4>4. Append(p \o q, e) = (p \o q) \o <<e>> /\ Append(q, e) = q \o <<e>>
        BY <4>2, <4>3, AppendIsConcat
      <4>5. (p \o q) \o <<e>> = p \o (q \o <<e>>)
        BY <4>2, <4>3, ConcatAssociative
      <4> QED
        BY <4>4, <4>5 DEF p, q, e
    <3> QED
      BY <3>1, <3>2, <3>3, <3>4, <3>5, <3>6
  <2> HIDE DEF P
  <2>3. \A k \in 0..N : k \in P
    BY <1>1, <2>1, <2>2, CountUp
  <2>4. N \in 0..N
    BY <1>1
  <2> QED
    BY <2>3, <2>4 DEF P
<1> QED
  BY <1>1, <1>f, <1>g, <1>h, <1>6 DEF u

(* The concatenation of at most two sequences.                             *)
LEMMA FlattenTwo ==
  ASSUME NEW T, NEW b \in Seq(Seq(T)), Len(b) <= 2
  PROVE  /\ Len(b) = 0 => FlattenSeq(b) = <<>>
         /\ Len(b) = 1 => FlattenSeq(b) = b[1]
         /\ Len(b) = 2 => FlattenSeq(b) = b[1] \o b[2]
<1>1. ASSUME Len(b) = 0 PROVE FlattenSeq(b) = <<>>
  BY <1>1, EmptySeq DEF FlattenSeq
<1>2. ASSUME Len(b) = 1 PROVE FlattenSeq(b) = b[1]
  BY <1>2 DEF FlattenSeq
<1>3. ASSUME Len(b) = 2 PROVE FlattenSeq(b) = b[1] \o b[2]
  <2> DEFINE Rec(f) == f = [i \in 1..2 |-> IF i = 1 THEN b[i] ELSE f[i - 1] \o b[i]]
  <2>1. Rec([i \in 1..2 |-> IF i = 1 THEN b[1] ELSE b[1] \o b[2]])
    OBVIOUS
  <2>2. FlattenSeq(b) = (CHOOSE f : Rec(f))[2]
    BY <1>3 DEF FlattenSeq
  <2> DEFINE f == CHOOSE f : Rec(f)
  <2>3. Rec(f)
    <3> HIDE DEF Rec
    <3> QED
      BY <2>1, Zenon
  <2> HIDE DEF f
  <2>4. f[1] = b[1] /\ f[2] = b[1] \o b[2]
    <3>1. 1 \in 1..2 /\ 2 \in 1..2 /\ 2 # 1 /\ 2 - 1 = 1
      OBVIOUS
    <3>2. \A i \in 1..2 : f[i] = IF i = 1 THEN b[i] ELSE f[i - 1] \o b[i]
      BY <2>3, Zenon
    <3>3. f[2] = f[2 - 1] \o b[2]
      BY <3>1, <3>2, Zenon
    <3> QED
      BY <3>1, <3>2, <3>3
  <2> QED
    BY <2>2, <2>4 DEF f
<1> QED
  BY <1>1, <1>2, <1>3
=============================================================================
