-------------------------- MODULE CheckpointProofs --------------------------
(***************************************************************************)
(* Proofs about Checkpoint, for any weights: a directory that is taken for *)
(* a converted checkpoint is complete, and a quantised model that has been *)
(* loaded has every tensor set, with the value of its own scheme unless    *)
(* the directory was emptied during the copy itself.                       *)
(***************************************************************************)
EXTENDS Checkpoint, FiniteSetTheorems, TLAPS

Kept == Plain \cup Projections
Names == Kept \X {"weight", "weight_scale", "weight_scale_inv"}
Maps(V) == UNION {[S -> V] : S \in SUBSET Names}

ConvType ==
  conv \in [pc : {"idle", "shards", "saving", "config", "index", "marker"},
            scheme : Schemes \cup {"none"},
            source : SUBSET Kept, seen : SUBSET Kept,
            next : Seq(Names), pending : SUBSET Names, index : Maps(Nat)]

Shard == [whole : BOOLEAN, tensors : Maps(Schemes \cup {"kept"})]

DirType ==
  dir \in [shards : UNION {[S -> Shard] : S \in SUBSET Nat},
           config : {"absent", "partial", "plain", "fp8"},
           metadata : {"absent", "partial", "fp8"},
           index : [state : {"absent", "partial", "whole"}, map : Maps(Nat)]]

(* The tensors the weights read so far become, and where each one is: in a *)
(* shard the index names, among those collected, or still to be collected. *)
Due(seen) == {Weight(k) : k \in seen}
               \cup {<<k, scale_field(conv.scheme)>> : k \in seen \cap Projections}
Rest == {conv.next[i] : i \in DOMAIN conv.next}

Accounted ==
  /\ DOMAIN conv.index \cup conv.pending \cup Rest = Due(conv.seen)
  /\ DOMAIN conv.index \cap conv.pending = {}
  /\ Rest \cap (DOMAIN conv.index \cup conv.pending) = {}
  /\ \A i, j \in DOMAIN conv.next : conv.next[i] = conv.next[j] => i = j

(* Shards are numbered without gaps, and the index names all but the one   *)
(* being saved.                                                            *)
Numbered ==
  /\ next_shard \in Nat \ {0}
  /\ {conv.index[n] : n \in DOMAIN conv.index} = 1 .. next_shard - 1
  /\ DOMAIN dir.shards = IF conv.pc = "saving" THEN 1 .. next_shard ELSE 1 .. next_shard - 1

(* A shard holds what the index says it does.                              *)
Holds(shard, f, index, scheme) ==
  /\ shard.whole
  /\ DOMAIN shard.tensors = {n \in DOMAIN index : index[n] = f}
  /\ \A n \in DOMAIN shard.tensors : shard.tensors[n] = Converted(n, scheme)

Indexed ==
  \A f \in 1 .. next_shard - 1 : Holds(dir.shards[f], f, conv.index, conv.scheme)

(* The files around the shards, by the place the conversion is at.         *)
Files ==
  LET block == conv.scheme = "block_wise" IN
  /\ conv.pc \in {"shards", "saving"} =>
       dir.config = "absent" /\ dir.metadata = "absent"
  /\ conv.pc = "config" =>
       ~block /\ dir.config \in {"absent", "partial"} /\ dir.metadata = "absent"
  /\ conv.pc = "index" =>
       /\ dir.config = IF block THEN "absent" ELSE "plain"
       /\ dir.metadata = "absent"
  /\ conv.pc = "marker" =>
       /\ dir.index = [state |-> "whole", map |-> conv.index]
       /\ dir.config \in IF block THEN {"absent", "partial"} ELSE {"plain"}
       /\ dir.metadata \in IF block THEN {"absent"} ELSE {"absent", "partial"}

(* After the last shard nothing is left over.                              *)
AllStored ==
  conv.pc \in {"config", "index", "marker"} => DOMAIN conv.index = Due(Kept)

Writing ==
  conv.pc # "idle" =>
    /\ conv.scheme \in Schemes
    /\ conv.pc = "saving" => conv.pending # {}
    /\ Accounted /\ Numbered /\ Indexed /\ Files /\ AllStored

CheckpointInv == ConvType /\ DirType /\ Writing /\ RecognizedIsComplete
-----------------------------------------------------------------------------
LEMMA MapType ==
  ASSUME NEW V, NEW f
  PROVE  f \in Maps(V) <=> DOMAIN f \subseteq Names /\ f \in [DOMAIN f -> V]
BY DEF Maps

LEMMA NoTensorsType == NoTensors \in Maps(Nat) /\ NoTensors \in Maps(Schemes \cup {"kept"})
<1>1. DOMAIN NoTensors = {} /\ \A V : NoTensors \in [{} -> V]
  BY DEF NoTensors
<1> QED
  BY <1>1, MapType

LEMMA ConvertedType ==
  ASSUME NEW n, NEW s \in Schemes
  PROVE  Converted(n, s) \in Schemes \cup {"kept"}
BY DEF Converted

LEMMA TensorsType ==
  ASSUME NEW k \in Kept, NEW s \in Schemes
  PROVE  /\ tensors(k, s) \in Seq(Names)
         /\ Weight(k) \in Names /\ <<k, scale_field(s)>> \in Names
<1>1. Weight(k) \in Names /\ <<k, scale_field(s)>> \in Names
  BY DEF Weight, scale_field, Names
<1>2. \A a, b \in Names : <<a>> \in Seq(Names) /\ <<a, b>> \in Seq(Names)
  OBVIOUS
<1> QED
  BY <1>1, <1>2 DEF tensors

LEMMA EmptyDirType == EmptyDir.shards \in [{} -> Shard]
<1>1. \A V, f : DOMAIN f = {} /\ f = [x \in DOMAIN f |-> f[x]] => f \in [{} -> V]
  OBVIOUS
<1>2. EmptyDir.shards = [x \in DOMAIN EmptyDir.shards |-> EmptyDir.shards[x]]
  BY DEF EmptyDir
<1>3. DOMAIN EmptyDir.shards = {}
  BY DEF EmptyDir
<1> QED
  BY <1>1, <1>2, <1>3

LEMMA InitInv == Init => CheckpointInv
<1> SUFFICES ASSUME Init PROVE CheckpointInv
  OBVIOUS
<1> USE DEF Init
<1>1. ConvType
  BY NoTensorsType DEF ConvType, Idle
<1>2. DirType
  <2>1. EmptyDir.shards \in UNION {[S -> Shard] : S \in SUBSET Nat}
    BY EmptyDirType
  <2> QED
    BY <2>1, NoTensorsType DEF DirType, EmptyDir
<1>3. Writing
  BY DEF Writing, Idle
<1>4. RecognizedIsComplete
  BY DEF RecognizedIsComplete, Recognised, Schemes, EmptyDir
<1> QED
  BY <1>1, <1>2, <1>3, <1>4 DEF CheckpointInv

(***************************************************************************)
(* Types.                                                                  *)
(***************************************************************************)
Converts ==
  \/ \E scheme \in Schemes, source \in Sources : Start(scheme, source)
  \/ \E k \in Kept : Take(k)
  \/ Collect \/ Flush \/ Saved \/ ShardsDone
  \/ CopyConfig \/ WriteIndex \/ WriteMarker
  \/ Interrupted \/ Emptied

LEMMA OthersOnlyRead == Next => Converts \/ UNCHANGED <<dir, conv>>
BY DEF Next, Converts, Kept, ReadConfig, LoadModel, List, Validate, Validated, Copy,
       LoadPlain, Loaded, Ended

LEMMA ShardsAreFunction ==
  ASSUME DirType
  PROVE  /\ DOMAIN dir.shards \subseteq Nat
         /\ dir.shards \in [DOMAIN dir.shards -> Shard]
         /\ dir.index.map \in Maps(Nat)
BY DEF DirType

LEMMA IdleType == ASSUME conv' = Idle PROVE ConvType'
BY NoTensorsType DEF ConvType, Idle

LEMMA ConvTypeStep == ASSUME CheckpointInv, Converts PROVE ConvType'
<1> USE DEF CheckpointInv
<1>1. ASSUME NEW scheme \in Schemes, NEW source \in Sources, Start(scheme, source)
      PROVE  ConvType'
  <2>1. source \subseteq Kept
    BY DEF Sources, Kept
  <2>2. conv' = [pc |-> "shards", scheme |-> scheme, source |-> source, seen |-> {},
                 next |-> <<>>, pending |-> {}, index |-> NoTensors]
    BY <1>1 DEF Start, Idle
  <2>3. <<>> \in Seq(Names)
    OBVIOUS
  <2> QED
    BY <2>1, <2>2, <2>3, NoTensorsType DEF ConvType
<1>2. ASSUME NEW k \in Kept, Take(k) PROVE ConvType'
  <2>1. conv.scheme \in Schemes
    BY <1>2 DEF Take, Writing
  <2>2. tensors(k, conv.scheme) \in Seq(Names)
    BY <2>1, TensorsType
  <2> QED
    BY <1>2, <2>2 DEF Take, ConvType
<1>3. CASE Collect
  <2>1. \A s \in Seq(Names) : s # <<>> => Head(s) \in Names /\ Tail(s) \in Seq(Names)
    OBVIOUS
  <2>2. Head(conv.next) \in Names /\ Tail(conv.next) \in Seq(Names)
    BY <1>3, <2>1 DEF Collect, ConvType
  <2> QED
    BY <1>3, <2>2 DEF Collect, ConvType
<1>4. CASE Flush
  BY <1>4 DEF Flush, ConvType
<1>5. CASE Saved
  <2>1. next_shard \in Nat
    BY <1>5 DEF Saved, Writing, Numbered
  <2> DEFINE new == [n \in DOMAIN conv.index \cup conv.pending |->
                       IF n \in conv.pending THEN next_shard ELSE conv.index[n]]
  <2>2. conv.index \in Maps(Nat) /\ conv.pending \subseteq Names
    BY DEF ConvType
  <2>3. DOMAIN conv.index \subseteq Names /\ conv.index \in [DOMAIN conv.index -> Nat]
    BY <2>2, MapType
  <2>4. new \in [DOMAIN new -> Nat] /\ DOMAIN new \subseteq Names
    BY <2>1, <2>2, <2>3
  <2>5. new \in Maps(Nat)
    BY <2>4, MapType
  <2>6. conv' = [conv EXCEPT !.pc = "shards", !.pending = {}, !.index = new]
    BY <1>5 DEF Saved
  <2> QED
    BY <2>5, <2>6 DEF ConvType
<1>6. CASE ShardsDone
  BY <1>6 DEF ShardsDone, ConvType
<1>7. CASE CopyConfig
  BY <1>7 DEF CopyConfig, ConvType
<1>8. CASE WriteIndex
  BY <1>8 DEF WriteIndex, ConvType
<1>9. CASE WriteMarker
  BY <1>9, IdleType DEF WriteMarker, ConvType
<1>10. CASE Interrupted
  BY <1>10, IdleType DEF Interrupted
<1>11. CASE Emptied
  BY <1>11 DEF Emptied, ConvType
<1> QED
  BY <1>1, <1>2, <1>3, <1>4, <1>5, <1>6, <1>7, <1>8, <1>9, <1>10, <1>11 DEF Converts

LEMMA DirTypeStep == ASSUME CheckpointInv, Converts PROVE DirType'
<1> USE DEF CheckpointInv
<1>1. CASE UNCHANGED dir
  BY <1>1 DEF DirType
<1>2. CASE Flush
  <2> DEFINE new == With(dir.shards, next_shard, [whole |-> FALSE, tensors |-> NoTensors])
  <2>1. next_shard \in Nat
    BY <1>2 DEF Flush, Writing, Numbered
  <2>2. [whole |-> FALSE, tensors |-> NoTensors] \in Shard
    BY NoTensorsType DEF Shard
  <2>3. new \in [DOMAIN dir.shards \cup {next_shard} -> Shard]
    BY <2>2, ShardsAreFunction DEF With
  <2>4. DOMAIN dir.shards \cup {next_shard} \in SUBSET Nat
    BY <2>1, ShardsAreFunction
  <2>5. dir' = [dir EXCEPT !.shards = new]
    BY <1>2 DEF Flush
  <2> HIDE DEF new
  <2> QED
    BY <2>3, <2>4, <2>5 DEF DirType
<1>3. CASE Saved
  <2> DEFINE stored == [n \in conv.pending |-> Converted(n, conv.scheme)]
             new == [dir.shards EXCEPT ![next_shard] = [whole |-> TRUE, tensors |-> stored]]
  <2>1. conv.scheme \in Schemes
    BY <1>3 DEF Saved, Writing
  <2>2. stored \in [conv.pending -> Schemes \cup {"kept"}] /\ conv.pending \subseteq Names
    BY <2>1, ConvertedType DEF ConvType
  <2>3. stored \in Maps(Schemes \cup {"kept"})
    BY <2>2 DEF Maps
  <2>4. [whole |-> TRUE, tensors |-> stored] \in Shard
    BY <2>3 DEF Shard
  <2>5. new \in [DOMAIN dir.shards -> Shard]
    BY <2>4, ShardsAreFunction
  <2>6. dir' = [dir EXCEPT !.shards = new]
    BY <1>3 DEF Saved, DirType
  <2>7. DOMAIN dir.shards \in SUBSET Nat
    BY ShardsAreFunction
  <2> HIDE DEF new
  <2> QED
    BY <2>5, <2>6, <2>7 DEF DirType
<1>4. CASE CopyConfig
  BY <1>4 DEF CopyConfig, DirType
<1>5. CASE WriteIndex
  <2>1. conv.index \in Maps(Nat)
    BY DEF ConvType
  <2> QED
    BY <1>5, <2>1 DEF WriteIndex, DirType
<1>6. CASE WriteMarker
  <2> DEFINE file == IF conv.scheme = "block_wise" THEN "config" ELSE "metadata"
  <2>1. CASE file = "config"
    BY <1>6, <2>1 DEF WriteMarker, DirType
  <2>2. CASE file = "metadata"
    BY <1>6, <2>2 DEF WriteMarker, DirType
  <2> QED
    BY <2>1, <2>2
<1>7. CASE Emptied
  <2>1. EmptyDir.shards \in UNION {[S -> Shard] : S \in SUBSET Nat}
    BY EmptyDirType
  <2> QED
    BY <1>7, <2>1, NoTensorsType DEF Emptied, DirType, EmptyDir
<1> QED
  BY <1>1, <1>2, <1>3, <1>4, <1>5, <1>6, <1>7
  DEF Converts, Start, Take, Collect, ShardsDone, Interrupted

(***************************************************************************)
(* What is on disk while a conversion runs.                                *)
(***************************************************************************)
LEMMA NextShardIs ==
  ASSUME NEW N \in Nat
  PROVE  Cardinality(1 .. N) = N
<1>1. Cardinality(1 .. N) = IF 1 > N THEN 0 ELSE N - 1 + 1
  BY FS_Interval
<1> QED
  BY <1>1

\* A step that leaves the shards, what they hold and what is to come alone.
LEMMA SameShards ==
  ASSUME Writing, conv.pc # "idle", conv.pc # "saving", conv'.pc # "idle", conv'.pc # "saving",
         conv'.scheme = conv.scheme, conv'.seen = conv.seen, conv'.next = conv.next,
         conv'.pending = conv.pending, conv'.index = conv.index, dir'.shards = dir.shards
  PROVE  conv'.scheme \in Schemes /\ Accounted' /\ Numbered' /\ Indexed'
<1>1. Due(conv.seen)' = Due(conv.seen) /\ Rest' = Rest /\ next_shard' = next_shard
  BY DEF Due, Rest, next_shard
<1> QED
  BY <1>1 DEF Writing, Accounted, Numbered, Indexed

LEMMA WritingStart ==
  ASSUME NEW scheme \in Schemes, NEW source \in Sources, Start(scheme, source)
  PROVE  Writing'
<1>1. /\ conv' = [pc |-> "shards", scheme |-> scheme, source |-> source, seen |-> {},
                  next |-> <<>>, pending |-> {}, index |-> NoTensors]
      /\ dir' = EmptyDir
  BY DEF Start, Idle
<1>2. DOMAIN NoTensors = {} /\ DOMAIN EmptyDir.shards = {}
  BY DEF NoTensors, EmptyDir
<1>3. {conv'.index[n] : n \in DOMAIN conv'.index} = 1 .. 0
  BY <1>1, <1>2
<1>4. next_shard' = 1
  <2>1. Cardinality({conv'.index[n] : n \in DOMAIN conv'.index}) = 0
    BY <1>3, NextShardIs
  <2> QED
    BY <2>1 DEF next_shard
<1>5. Accounted'
  <2>1. Due(conv.seen)' = {} /\ Rest' = {}
    BY <1>1 DEF Due, Rest
  <2> QED
    BY <1>1, <1>2, <2>1 DEF Accounted
<1>6. Numbered'
  BY <1>1, <1>2, <1>3, <1>4 DEF Numbered
<1>7. Indexed'
  BY <1>4 DEF Indexed
<1>8. Files'
  BY <1>1 DEF Files, EmptyDir
<1>9. AllStored'
  BY <1>1 DEF AllStored
<1> QED
  BY <1>1, <1>5, <1>6, <1>7, <1>8, <1>9 DEF Writing

LEMMA WritingTake ==
  ASSUME CheckpointInv, NEW k \in Kept, Take(k)
  PROVE  Writing'
<1> DEFINE new == tensors(k, conv.scheme)
<1>1. /\ conv.pc = "shards" /\ conv'.pc = "shards" /\ conv.next = <<>>
      /\ conv'.seen = conv.seen \cup {k} /\ conv'.next = new
      /\ conv'.scheme = conv.scheme /\ conv'.pending = conv.pending
      /\ conv'.index = conv.index /\ dir' = dir /\ k \notin conv.seen
  BY DEF Take, CheckpointInv, ConvType
<1>2. conv.scheme \in Schemes /\ Accounted /\ Numbered /\ Indexed /\ Files
  BY <1>1 DEF CheckpointInv, Writing
<1>3. /\ Rest' = {Weight(k)} \cup IF k \in Projections THEN {<<k, scale_field(conv.scheme)>>} ELSE {}
      /\ \A i, j \in DOMAIN new : new[i] = new[j] => i = j
  <2>1. Weight(k) # <<k, scale_field(conv.scheme)>>
    BY DEF Weight, scale_field
  <2>2. CASE k \in Projections
    <3>1. new = <<Weight(k), <<k, scale_field(conv.scheme)>>>>
      BY <2>2 DEF tensors
    <3>2. DOMAIN new = {1, 2} /\ new[1] = Weight(k) /\ new[2] = <<k, scale_field(conv.scheme)>>
      BY <3>1
    <3>3. Rest' = {new[1], new[2]}
      BY <1>1, <3>2 DEF Rest
    <3> QED
      BY <2>1, <2>2, <3>2, <3>3
  <2>3. CASE k \notin Projections
    <3>1. new = <<Weight(k)>>
      BY <2>3 DEF tensors
    <3>2. DOMAIN new = {1} /\ new[1] = Weight(k)
      BY <3>1
    <3>3. Rest' = {new[1]}
      BY <1>1, <3>2 DEF Rest
    <3> QED
      BY <2>3, <3>2, <3>3
  <2> QED
    BY <2>2, <2>3
<1>4. Rest = {}
  BY <1>1 DEF Rest
<1>5. Due(conv.seen)' = Due(conv.seen) \cup Rest'
  BY <1>1, <1>3 DEF Due
<1>6. \A n \in Due(conv.seen) : n[1] \in conv.seen
  BY DEF Due, Weight
<1>7. \A n \in Rest' : n[1] = k
  BY <1>3 DEF Weight
<1>8. Accounted'
  <2>1. (DOMAIN conv.index \cup conv.pending \cup Rest = Due(conv.seen))'
    BY <1>1, <1>2, <1>4, <1>5 DEF Accounted
  <2>2. (DOMAIN conv.index \cap conv.pending = {})'
    BY <1>1, <1>2 DEF Accounted
  <2>3. (Rest \cap (DOMAIN conv.index \cup conv.pending) = {})'
    <3>1. \A n \in DOMAIN conv.index \cup conv.pending : n[1] # k
      BY <1>1, <1>2, <1>6 DEF Accounted
    <3> QED
      BY <1>1, <1>7, <3>1
  <2>4. (\A i, j \in DOMAIN conv.next : conv.next[i] = conv.next[j] => i = j)'
    BY <1>1, <1>3
  <2> QED
    BY <2>1, <2>2, <2>3, <2>4 DEF Accounted
<1>9. next_shard' = next_shard
  BY <1>1 DEF next_shard
<1>10. Numbered' /\ Indexed'
  BY <1>1, <1>2, <1>9 DEF Numbered, Indexed
<1>11. Files' /\ AllStored'
  BY <1>1, <1>2 DEF Files, AllStored
<1> QED
  BY <1>1, <1>2, <1>8, <1>10, <1>11 DEF Writing

LEMMA WritingCollect ==
  ASSUME CheckpointInv, Collect
  PROVE  Writing'
<1> DEFINE h == Head(conv.next)
           t == Tail(conv.next)
<1>1. /\ conv.pc = "shards" /\ conv'.pc = "shards" /\ conv.next # <<>>
      /\ conv'.pending = conv.pending \cup {h} /\ conv'.next = t
      /\ conv'.scheme = conv.scheme /\ conv'.seen = conv.seen
      /\ conv'.index = conv.index /\ dir' = dir
  BY DEF Collect, CheckpointInv, ConvType
<1>2. conv.scheme \in Schemes /\ Accounted /\ Numbered /\ Indexed /\ Files
  BY <1>1 DEF CheckpointInv, Writing
<1>3. conv.next \in Seq(Names)
  BY DEF CheckpointInv, ConvType
<1>4. /\ Len(conv.next) \in Nat /\ Len(conv.next) > 0 /\ DOMAIN conv.next = 1 .. Len(conv.next)
      /\ h = conv.next[1] /\ DOMAIN t = 1 .. Len(conv.next) - 1
      /\ \A i \in DOMAIN t : t[i] = conv.next[i + 1]
  BY <1>1, <1>3
<1>5. Rest = {h} \cup Rest' /\ h \notin Rest'
  <2>1. Rest' = {t[i] : i \in DOMAIN t}
    BY <1>1 DEF Rest
  <2>2. \A i \in DOMAIN t : t[i] \in Rest /\ t[i] # h
    BY <1>2, <1>4 DEF Rest, Accounted
  <2>3. h \in Rest
    BY <1>4 DEF Rest
  <2>4. \A i \in DOMAIN conv.next : i = 1 \/ (i - 1 \in DOMAIN t /\ t[i - 1] = conv.next[i])
    BY <1>4
  <2>5. \A n \in Rest : n = h \/ n \in {t[i] : i \in DOMAIN t}
    BY <1>4, <2>4 DEF Rest
  <2> HIDE DEF h, t
  <2> QED
    BY <2>1, <2>2, <2>3, <2>5
<1>6. \A i, j \in DOMAIN t : t[i] = t[j] => i = j
  BY <1>2, <1>4 DEF Accounted
<1>7. Due(conv.seen)' = Due(conv.seen) /\ next_shard' = next_shard
  BY <1>1 DEF Due, next_shard
<1>8. Accounted'
  BY <1>1, <1>2, <1>5, <1>6, <1>7 DEF Accounted
<1>9. Numbered' /\ Indexed'
  BY <1>1, <1>2, <1>7 DEF Numbered, Indexed
<1>10. Files' /\ AllStored'
  BY <1>1, <1>2 DEF Files, AllStored
<1> QED
  BY <1>1, <1>2, <1>8, <1>9, <1>10 DEF Writing

LEMMA WritingFlush ==
  ASSUME CheckpointInv, Flush
  PROVE  Writing'
<1>1. /\ conv.pc = "shards" /\ conv.pending # {} /\ conv' = [conv EXCEPT !.pc = "saving"]
      /\ dir' = [dir EXCEPT !.shards =
                     With(dir.shards, next_shard, [whole |-> FALSE, tensors |-> NoTensors])]
  BY DEF Flush
<1>2. /\ conv'.pc = "saving" /\ conv'.scheme = conv.scheme /\ conv'.seen = conv.seen
      /\ conv'.next = conv.next /\ conv'.pending = conv.pending /\ conv'.index = conv.index
      /\ dir'.config = dir.config /\ dir'.metadata = dir.metadata
      /\ dir'.shards = With(dir.shards, next_shard, [whole |-> FALSE, tensors |-> NoTensors])
  BY <1>1 DEF CheckpointInv, ConvType, DirType
<1>3. conv.scheme \in Schemes /\ Accounted /\ Numbered /\ Indexed /\ Files
  BY <1>1 DEF CheckpointInv, Writing
<1>4. Due(conv.seen)' = Due(conv.seen) /\ Rest' = Rest /\ next_shard' = next_shard
  BY <1>2 DEF Due, Rest, next_shard
<1>5. Accounted'
  BY <1>2, <1>3, <1>4 DEF Accounted
<1>6. DOMAIN dir'.shards = 1 .. next_shard
  <2>1. DOMAIN dir'.shards = DOMAIN dir.shards \cup {next_shard}
    BY <1>2 DEF With
  <2>2. DOMAIN dir.shards = 1 .. next_shard - 1 /\ next_shard \in Nat \ {0}
    BY <1>1, <1>3 DEF Numbered
  <2> QED
    BY <2>1, <2>2
<1>7. Numbered'
  BY <1>2, <1>3, <1>4, <1>6 DEF Numbered
<1>8. \A f \in 1 .. next_shard - 1 : dir'.shards[f] = dir.shards[f]
  <2>1. DOMAIN dir.shards = 1 .. next_shard - 1 /\ next_shard \in Nat \ {0}
    BY <1>1, <1>3 DEF Numbered
  <2> QED
    BY <1>2, <2>1 DEF With
<1>9. Indexed'
  BY <1>2, <1>3, <1>4, <1>8 DEF Indexed
<1>10. Files' /\ AllStored'
  BY <1>1, <1>2, <1>3 DEF Files, AllStored
<1> QED
  BY <1>1, <1>2, <1>3, <1>5, <1>7, <1>9, <1>10 DEF Writing

\* The shard that was being saved becomes one the index names.
LEMMA WritingSaved ==
  ASSUME CheckpointInv, Saved
  PROVE  Writing'
<1> DEFINE s == next_shard
           index == [n \in DOMAIN conv.index \cup conv.pending |->
                       IF n \in conv.pending THEN s ELSE conv.index[n]]
           stored == [n \in conv.pending |-> Converted(n, conv.scheme)]
<1>1. /\ conv.pc = "saving"
      /\ dir' = [dir EXCEPT !.shards[s] = [whole |-> TRUE, tensors |-> stored]]
      /\ conv' = [conv EXCEPT !.pc = "shards", !.pending = {}, !.index = index]
  BY DEF Saved
<1>2. /\ conv'.pc = "shards" /\ conv'.scheme = conv.scheme /\ conv'.seen = conv.seen
      /\ conv'.next = conv.next /\ conv'.pending = {} /\ conv'.index = index
      /\ dir'.config = dir.config /\ dir'.metadata = dir.metadata
      /\ dir'.shards = [dir.shards EXCEPT ![s] = [whole |-> TRUE, tensors |-> stored]]
  BY <1>1 DEF CheckpointInv, ConvType, DirType
<1>3. /\ conv.scheme \in Schemes /\ conv.pending # {}
      /\ Accounted /\ Numbered /\ Indexed /\ Files
  BY <1>1 DEF CheckpointInv, Writing
<1>4. Due(conv.seen)' = Due(conv.seen) /\ Rest' = Rest
  BY <1>2 DEF Due, Rest
<1>5. s \in Nat \ {0} /\ DOMAIN dir.shards = 1 .. s
      /\ {conv.index[n] : n \in DOMAIN conv.index} = 1 .. s - 1
  BY <1>1, <1>3 DEF Numbered
<1>6. /\ DOMAIN index = DOMAIN conv.index \cup conv.pending
      /\ \A n \in conv.pending : index[n] = s
      /\ \A n \in DOMAIN conv.index : index[n] = conv.index[n] /\ index[n] \in 1 .. s - 1
  <2>1. \A n \in DOMAIN conv.index : n \notin conv.pending /\ conv.index[n] \in 1 .. s - 1
    BY <1>3, <1>5 DEF Accounted
  <2> HIDE DEF s
  <2> QED
    BY <2>1
<1> HIDE DEF s, index
<1>7. Accounted'
  BY <1>2, <1>3, <1>4, <1>6 DEF Accounted
<1>8. {index[n] : n \in DOMAIN index} = 1 .. s
  <2>1. \A f \in 1 .. s : f \in 1 .. s - 1 \/ f = s
    BY <1>5
  <2>2. \A f \in 1 .. s - 1 : \E n \in DOMAIN index : index[n] = f
    BY <1>5, <1>6
  <2>3. \E n \in DOMAIN index : index[n] = s
    BY <1>3, <1>6
  <2>4. \A n \in DOMAIN index : index[n] \in 1 .. s
    BY <1>5, <1>6
  <2> QED
    BY <2>1, <2>2, <2>3, <2>4
<1>9. next_shard' = s + 1
  <2>1. {conv'.index[n] : n \in DOMAIN conv'.index} = 1 .. s
    BY <1>2, <1>8
  <2>2. Cardinality(1 .. s) = s
    BY <1>5, NextShardIs
  <2> QED
    BY <2>1, <2>2 DEF next_shard
<1>10. Numbered'
  <2>1. DOMAIN dir'.shards = 1 .. s
    BY <1>2, <1>5
  <2> QED
    BY <1>2, <1>5, <1>8, <1>9, <2>1 DEF Numbered
<1>11. Indexed'
  <2>1. ASSUME NEW f \in 1 .. s
        PROVE  Holds(dir'.shards[f], f, index, conv.scheme)
    <3>1. CASE f = s
      <4>1. dir'.shards[f] = [whole |-> TRUE, tensors |-> stored]
        BY <1>2, <1>5, <3>1
      <4>2. {n \in DOMAIN index : index[n] = f} = conv.pending
        BY <1>5, <1>6, <3>1
      <4> QED
        BY <4>1, <4>2 DEF Holds
    <3>2. CASE f # s
      <4>1. f \in 1 .. s - 1 /\ dir'.shards[f] = dir.shards[f]
        BY <1>2, <1>5, <3>2
      <4>2. {n \in DOMAIN index : index[n] = f} = {n \in DOMAIN conv.index : conv.index[n] = f}
        BY <1>6, <3>2
      <4>3. Holds(dir.shards[f], f, conv.index, conv.scheme)
        BY <1>3, <4>1 DEF Indexed, s
      <4> QED
        BY <4>1, <4>2, <4>3 DEF Holds
    <3> QED
      BY <3>1, <3>2
  <2>2. 1 .. next_shard' - 1 = 1 .. s
    BY <1>5, <1>9
  <2> QED
    BY <1>2, <2>1, <2>2 DEF Indexed
<1>12. Files' /\ AllStored'
  BY <1>1, <1>2, <1>3 DEF Files, AllStored
<1> QED
  BY <1>2, <1>3, <1>7, <1>10, <1>11, <1>12 DEF Writing

LEMMA WritingShardsDone ==
  ASSUME CheckpointInv, ShardsDone
  PROVE  Writing'
<1>1. /\ conv.pc = "shards" /\ conv.next = <<>> /\ missing = {} /\ conv.pending = {}
      /\ conv' = [conv EXCEPT !.pc = IF conv.scheme = "block_wise" THEN "index" ELSE "config"]
      /\ dir' = dir
  BY DEF ShardsDone, ReadAll
<1>2. /\ conv'.pc = IF conv.scheme = "block_wise" THEN "index" ELSE "config"
      /\ conv'.scheme = conv.scheme /\ conv'.seen = conv.seen /\ conv'.next = conv.next
      /\ conv'.pending = conv.pending /\ conv'.index = conv.index
  BY <1>1 DEF CheckpointInv, ConvType
<1>3. conv'.scheme \in Schemes /\ Accounted' /\ Numbered' /\ Indexed'
  BY <1>1, <1>2, SameShards DEF CheckpointInv
<1>4. Files'
  BY <1>1, <1>2 DEF Files, CheckpointInv, Writing
<1>5. AllStored'
  <2>1. conv.seen = Kept
    BY <1>1 DEF missing, Kept, CheckpointInv, ConvType
  <2>2. Due(conv.seen)' = Due(Kept)' /\ Rest' = {}
    BY <1>1, <1>2, <2>1 DEF Due, Rest
  <2> QED
    BY <1>1, <1>2, <1>3, <2>2 DEF AllStored, Accounted
<1> QED
  BY <1>2, <1>3, <1>4, <1>5 DEF Writing

LEMMA WritingCopyConfig ==
  ASSUME CheckpointInv, CopyConfig
  PROVE  Writing'
<1>1. /\ conv.pc = "config" /\ conv'.pc \in {"config", "index"} /\ dir'.shards = dir.shards
      /\ conv'.scheme = conv.scheme /\ conv'.seen = conv.seen /\ conv'.next = conv.next
      /\ conv'.pending = conv.pending /\ conv'.index = conv.index
      /\ dir'.metadata = dir.metadata
      /\ conv'.pc = "config" => dir'.config = "partial"
      /\ conv'.pc = "index" => dir'.config = "plain"
  BY DEF CopyConfig, CheckpointInv, ConvType, DirType
<1>2. conv'.scheme \in Schemes /\ Accounted' /\ Numbered' /\ Indexed'
  BY <1>1, SameShards DEF CheckpointInv
<1>3. Files'
  BY <1>1 DEF Files, CheckpointInv, Writing
<1>4. AllStored'
  BY <1>1 DEF AllStored, CheckpointInv, Writing, Due
<1> QED
  BY <1>1, <1>2, <1>3, <1>4 DEF Writing

LEMMA WritingIndex ==
  ASSUME CheckpointInv, WriteIndex
  PROVE  Writing'
<1>1. /\ conv.pc = "index" /\ conv'.pc \in {"index", "marker"} /\ dir'.shards = dir.shards
      /\ conv'.scheme = conv.scheme /\ conv'.seen = conv.seen /\ conv'.next = conv.next
      /\ conv'.pending = conv.pending /\ conv'.index = conv.index
      /\ dir'.config = dir.config /\ dir'.metadata = dir.metadata
      /\ conv'.pc = "marker" => dir'.index = [state |-> "whole", map |-> conv.index]
  BY DEF WriteIndex, CheckpointInv, ConvType, DirType
<1>2. conv'.scheme \in Schemes /\ Accounted' /\ Numbered' /\ Indexed'
  BY <1>1, SameShards DEF CheckpointInv
<1>3. Files'
  BY <1>1 DEF Files, CheckpointInv, Writing
<1>4. AllStored'
  BY <1>1 DEF AllStored, CheckpointInv, Writing, Due
<1> QED
  BY <1>1, <1>2, <1>3, <1>4 DEF Writing

LEMMA WritingMarker ==
  ASSUME CheckpointInv, WriteMarker
  PROVE  Writing'
<1>1. CASE conv' = Idle
  BY <1>1 DEF Writing, Idle
<1>2. CASE conv' = conv
  <2>1. /\ conv.pc = "marker" /\ dir'.shards = dir.shards /\ dir'.index = dir.index
        /\ IF conv.scheme = "block_wise"
           THEN dir'.config = "partial" /\ dir'.metadata = dir.metadata
           ELSE dir'.metadata = "partial" /\ dir'.config = dir.config
    <3>1. conv # Idle
      BY DEF WriteMarker, Idle
    <3>2. CASE conv.scheme = "block_wise"
      BY <1>2, <3>1, <3>2 DEF WriteMarker, CheckpointInv, DirType
    <3>3. CASE conv.scheme # "block_wise"
      BY <1>2, <3>1, <3>3 DEF WriteMarker, CheckpointInv, DirType
    <3> QED
      BY <3>2, <3>3
  <2>2. conv'.scheme \in Schemes /\ Accounted' /\ Numbered' /\ Indexed'
    BY <1>2, <2>1, SameShards DEF CheckpointInv
  <2>3. Files'
    BY <1>2, <2>1 DEF Files, CheckpointInv, Writing
  <2>4. AllStored'
    BY <1>2, <2>1 DEF AllStored, CheckpointInv, Writing, Due
  <2> QED
    BY <1>2, <2>1, <2>2, <2>3, <2>4 DEF Writing
<1> QED
  BY <1>1, <1>2 DEF WriteMarker

LEMMA WritingStep == ASSUME CheckpointInv, Converts PROVE Writing'
<1>1. ASSUME conv' = Idle \/ (conv' = conv /\ conv.pc = "idle") PROVE Writing'
  BY <1>1 DEF Writing, Idle
<1> QED
  BY <1>1, WritingStart, WritingTake, WritingCollect, WritingFlush, WritingSaved,
     WritingShardsDone, WritingCopyConfig, WritingIndex, WritingMarker
  DEF Converts, Interrupted, Emptied

(***************************************************************************)
(* Recognition.                                                            *)
(***************************************************************************)
\* When the marker is on disk, everything else is.
LEMMA MarkedIsComplete ==
  ASSUME CheckpointInv, WriteMarker, conv' = Idle
  PROVE  RecognizedIsComplete'
<1> DEFINE s == conv.scheme
<1>1. conv.pc = "marker" /\ conv # Idle
  BY DEF WriteMarker, Idle
<1>2. /\ s \in Schemes /\ Accounted /\ Numbered /\ Indexed /\ Files /\ AllStored
  BY <1>1 DEF CheckpointInv, Writing
<1>3. /\ dir'.shards = dir.shards /\ dir'.index = dir.index
      /\ IF s = "block_wise" THEN dir'.config = "fp8" /\ dir'.metadata = dir.metadata
                             ELSE dir'.metadata = "fp8" /\ dir'.config = dir.config
  <2>1. CASE s = "block_wise"
    BY <1>1, <2>1 DEF WriteMarker, CheckpointInv, DirType
  <2>2. CASE s # "block_wise"
    BY <1>1, <2>2 DEF WriteMarker, CheckpointInv, DirType
  <2> QED
    BY <2>1, <2>2
<1>4. dir.index.state = "whole" /\ dir.index.map = conv.index
  BY <1>1, <1>2 DEF Files
<1>5. Recognised' = s
  BY <1>1, <1>2, <1>3 DEF Files, Recognised, Schemes
<1>6. DOMAIN conv.index = checkpoint_spec(s)
  BY <1>1, <1>2 DEF AllStored, Due, checkpoint_spec, Kept
<1>7. DOMAIN dir.shards = 1 .. next_shard - 1
      /\ \A n \in DOMAIN conv.index : conv.index[n] \in DOMAIN dir.shards
  BY <1>1, <1>2 DEF Numbered
<1>8. ASSUME NEW n \in checkpoint_spec(s)
      PROVE  /\ conv.index[n] \in DOMAIN dir.shards /\ dir.shards[conv.index[n]].whole
             /\ \A f \in DOMAIN dir.shards :
                   n \in DOMAIN dir.shards[f].tensors <=> f = conv.index[n]
             /\ dir.shards[conv.index[n]].tensors[n] = Converted(n, s)
  <2>1. \A f \in DOMAIN dir.shards : Holds(dir.shards[f], f, conv.index, s)
    BY <1>2, <1>7 DEF Indexed
  <2>2. conv.index[n] \in DOMAIN dir.shards
    BY <1>6, <1>7
  <2>3. \A f \in DOMAIN dir.shards : n \in DOMAIN dir.shards[f].tensors <=> f = conv.index[n]
    BY <1>6, <2>1 DEF Holds
  <2>4. dir.shards[conv.index[n]].whole
        /\ dir.shards[conv.index[n]].tensors[n] = Converted(n, s)
    BY <2>1, <2>2, <2>3 DEF Holds
  <2> QED
    BY <2>2, <2>3, <2>4
<1>9. dir'.index.state = "whole" /\ dir'.index.map = conv.index
  BY <1>3, <1>4
<1> HIDE DEF s
<1> QED
  BY <1>3, <1>5, <1>6, <1>8, <1>9 DEF RecognizedIsComplete, Readable

LEMMA RecognizedStep == ASSUME CheckpointInv, Converts PROVE RecognizedIsComplete'
<1>1. CASE UNCHANGED dir
  BY <1>1 DEF CheckpointInv, RecognizedIsComplete, Recognised, Readable
<1>2. CASE conv'.pc # "idle"
  <2>1. ConvType' /\ Writing'
    BY ConvTypeStep, WritingStep
  <2>2. Files' /\ conv'.scheme \in Schemes
    BY <1>2, <2>1 DEF Writing
  <2>3. (Recognised \notin Schemes)'
    BY <1>2, <2>1, <2>2 DEF Files, Recognised, Schemes, ConvType
  <2> QED
    BY <2>3 DEF RecognizedIsComplete
<1>3. CASE Emptied
  BY <1>3 DEF Emptied, EmptyDir, RecognizedIsComplete, Recognised, Schemes
<1>4. CASE WriteMarker /\ conv' = Idle
  BY <1>4, MarkedIsComplete
<1>5. Flush \/ Saved \/ CopyConfig \/ WriteIndex \/ (WriteMarker /\ conv' = conv)
        => conv'.pc # "idle"
  BY DEF Flush, Saved, CopyConfig, WriteIndex, WriteMarker, CheckpointInv, ConvType
<1> QED
  BY <1>1, <1>2, <1>3, <1>4, <1>5
  DEF Converts, Start, Take, Collect, ShardsDone, Interrupted, WriteMarker

LEMMA StepInv == CheckpointInv /\ [Next]_vars => CheckpointInv'
<1> SUFFICES ASSUME CheckpointInv, [Next]_vars PROVE CheckpointInv'
  OBVIOUS
<1>1. CASE Converts
  BY <1>1, ConvTypeStep, DirTypeStep, WritingStep, RecognizedStep DEF CheckpointInv
<1>2. CASE UNCHANGED <<dir, conv>>
  <2>1. ConvType' /\ DirType'
    BY <1>2 DEF CheckpointInv, ConvType, DirType
  <2>2. next_shard' = next_shard /\ Rest' = Rest /\ \A seen : Due(seen)' = Due(seen)
    BY <1>2 DEF next_shard, Rest, Due
  <2>3. Accounted' = Accounted /\ Numbered' = Numbered /\ Indexed' = Indexed
    BY <1>2, <2>2 DEF Accounted, Numbered, Indexed
  <2>4. Files' = Files /\ AllStored' = AllStored
    BY <1>2, <2>2 DEF Files, AllStored
  <2>5. Writing'
    BY <1>2, <2>3, <2>4 DEF CheckpointInv, Writing
  <2>6. RecognizedIsComplete'
    BY <1>2 DEF CheckpointInv, RecognizedIsComplete, Recognised, Readable
  <2> QED
    BY <2>1, <2>5, <2>6 DEF CheckpointInv
<1> QED
  BY <1>1, <1>2, OthersOnlyRead DEF vars

\* convert.py:166: an incomplete conversion is not recognised as FP8.  For any
\* set of weights, wherever shards end and however often conversions into the
\* directory stop, a directory that is recognised as an FP8 checkpoint has
\* every tensor of its scheme, once, where the index says.
THEOREM RecognizedComplete == Spec => []RecognizedIsComplete
<1>1. Spec => []CheckpointInv
  BY InitInv, StepInv, PTL DEF Spec
<1>2. CheckpointInv => RecognizedIsComplete
  BY DEF CheckpointInv
<1> QED
  BY <1>1, <1>2, PTL
-----------------------------------------------------------------------------
(***************************************************************************)
(* The loading process.  A directory is filled by conversions of one       *)
(* scheme, and unless it is emptied, what has been copied out of it is     *)
(* still in it: so all that has been copied is of one scheme, and the      *)
(* names of the scales tell that it is the scheme of the model.  If it is  *)
(* emptied, each tensor is of a scheme that has its name (OfAScheme).      *)
(***************************************************************************)
InDir(n, v) ==
  \E f \in DOMAIN dir.shards :
    n \in DOMAIN dir.shards[f].tensors /\ dir.shards[f].tensors[n] = v

Filled(s) ==
  \A f \in DOMAIN dir.shards : \A n \in DOMAIN dir.shards[f].tensors :
    n \in checkpoint_spec(s) /\ dir.shards[f].tensors[n] = Converted(n, s)

OneScheme ==
  /\ \E s \in Schemes : Filled(s)
  /\ conv.pc # "idle" => Filled(conv.scheme)
  /\ conv.pc = "saving" => DOMAIN dir.shards[next_shard].tensors = {}

LoaderType ==
  /\ ld.pc \in {"idle", "built", "listing", "validating", "copying", "plain", "loaded"}
  /\ ld.pc # "idle" => ld.mode \in Schemes \cup {"unquantized"}
  /\ ld.pc \in {"validating", "copying"} => ld.mode \in Schemes
  /\ ld.pc = "plain" => ld.mode = "unquantized"
  /\ ld.pc \in {"built", "listing", "validating"} => DOMAIN ld.loaded = {}
  /\ ld.pc \in {"built", "listing"} => DOMAIN ld.entries = {}

Validating == ld.pc = "validating" => DOMAIN ld.entries \subseteq checkpoint_spec(ld.mode)

OfAScheme(n, v) == \E s \in Schemes : n \in checkpoint_spec(s) /\ v = Converted(n, s)

Copying ==
  ld.pc = "copying" =>
    /\ DOMAIN ld.loaded \cup ld.todo = checkpoint_spec(ld.mode)
    /\ \A n \in DOMAIN ld.loaded : OfAScheme(n, ld.loaded[n])
    /\ ~ld.torn => \A n \in DOMAIN ld.loaded : InDir(n, ld.loaded[n])

LoaderInv == OneScheme /\ LoaderType /\ Validating /\ Copying /\ LoadedIsConverted

LEMMA LoaderInit == Init => LoaderInv
<1> SUFFICES ASSUME Init PROVE LoaderInv
  OBVIOUS
<1>1. DOMAIN dir.shards = {} /\ conv.pc = "idle" /\ ld.pc = "idle"
  BY DEF Init, EmptyDir, Idle, NoLoader
<1>2. OneScheme
  BY <1>1 DEF OneScheme, Filled, Schemes
<1> QED
  BY <1>1, <1>2 DEF LoaderInv, LoaderType, Validating, Copying, LoadedIsConverted

(* What is collected for a shard are tensors of the scheme.                *)
LEMMA PendingIsOfScheme ==
  ASSUME CheckpointInv, conv.pc = "saving"
  PROVE  conv.pending \subseteq checkpoint_spec(conv.scheme)
<1>1. conv.scheme \in Schemes /\ conv.pending \subseteq Due(conv.seen)
  BY DEF CheckpointInv, Writing, Accounted
<1>2. conv.seen \subseteq Kept
  BY DEF CheckpointInv, ConvType
<1> QED
  BY <1>1, <1>2 DEF Due, checkpoint_spec, Kept

(* A conversion writes only tensors of its scheme, and nothing over a      *)
(* tensor; only an operator removes one.                                   *)
LEMMA DirKeepsTensors ==
  ASSUME CheckpointInv, OneScheme, Converts
  PROVE  OneScheme' /\ (Emptied \/ \A n, v : InDir(n, v) => InDir(n, v)')
<1> USE DEF CheckpointInv
<1>1. CASE dir'.shards = dir.shards /\ (conv'.pc = "idle" \/ (conv'.scheme = conv.scheme /\ conv.pc # "idle"))
           /\ conv'.pc # "saving"
  <2>1. \A s : Filled(s) => Filled(s)'
    BY <1>1 DEF Filled
  <2>2. OneScheme'
    BY <1>1, <2>1 DEF OneScheme
  <2> QED
    BY <1>1, <2>2 DEF InDir
<1>2. CASE \E scheme \in Schemes, source \in Sources : Start(scheme, source)
  <2>1. DOMAIN dir.shards = {} /\ dir' = dir /\ conv'.pc = "shards" /\ conv'.scheme \in Schemes
    BY <1>2 DEF Start, EmptyDir, Idle
  <2>2. \A s : Filled(s)'
    BY <2>1 DEF Filled
  <2> QED
    BY <2>1, <2>2 DEF OneScheme, InDir, Schemes
<1>3. CASE Flush
  <2>1. /\ conv.pc = "shards" /\ conv'.pc = "saving" /\ conv'.scheme = conv.scheme
        /\ conv'.index = conv.index
    BY <1>3 DEF Flush, ConvType
  <2>2. next_shard' = next_shard
    BY <2>1 DEF next_shard
  <2>3. next_shard \in Nat \ {0} /\ next_shard \notin DOMAIN dir.shards
    BY <2>1 DEF Writing, Numbered
  <2>4. dir'.shards = With(dir.shards, next_shard, [whole |-> FALSE, tensors |-> NoTensors])
    BY <1>3 DEF Flush, DirType
  <2>5. /\ DOMAIN dir'.shards = DOMAIN dir.shards \cup {next_shard}
        /\ \A f \in DOMAIN dir.shards : dir'.shards[f] = dir.shards[f]
        /\ DOMAIN dir'.shards[next_shard].tensors = {}
    BY <2>3, <2>4 DEF With, NoTensors
  <2>6. \A s : Filled(s) => Filled(s)'
    BY <2>5 DEF Filled
  <2>7. \A n, v : InDir(n, v) => InDir(n, v)'
    BY <2>5 DEF InDir
  <2>8. OneScheme'
    BY <2>1, <2>2, <2>5, <2>6 DEF OneScheme
  <2> QED
    BY <2>7, <2>8
<1>4. CASE Saved
  <2>1. conv.pc = "saving" /\ conv'.pc = "shards" /\ conv'.scheme = conv.scheme
    BY <1>4 DEF Saved, ConvType
  <2>2. conv.scheme \in Schemes /\ next_shard \in DOMAIN dir.shards
    BY <2>1 DEF Writing, Numbered
  <2>3. /\ DOMAIN dir'.shards = DOMAIN dir.shards
        /\ \A f \in DOMAIN dir.shards \ {next_shard} : dir'.shards[f] = dir.shards[f]
        /\ dir'.shards[next_shard].tensors = [n \in conv.pending |-> Converted(n, conv.scheme)]
    BY <1>4, <2>2 DEF Saved, DirType
  <2>4. DOMAIN dir.shards[next_shard].tensors = {} /\ Filled(conv.scheme)
    BY <2>1 DEF OneScheme
  <2>5. conv.pending \subseteq checkpoint_spec(conv.scheme)
    BY <2>1, PendingIsOfScheme
  <2> DEFINE sch == conv.scheme
  <2>6. Filled(conv.scheme)'
    <3>1. SUFFICES ASSUME NEW f \in DOMAIN dir'.shards, NEW n \in DOMAIN dir'.shards[f].tensors
                   PROVE  n \in checkpoint_spec(conv.scheme)
                          /\ dir'.shards[f].tensors[n] = Converted(n, conv.scheme)
      BY <2>1 DEF Filled
    <3>2. CASE f = next_shard
      BY <2>3, <2>5, <3>1, <3>2
    <3>3. CASE f # next_shard
      BY <2>3, <2>4, <3>1, <3>3 DEF Filled
    <3> QED
      BY <3>2, <3>3
  <2>7. \A n, v : InDir(n, v) => InDir(n, v)'
    BY <2>3, <2>4 DEF InDir
  <2>8. OneScheme'
    BY <2>1, <2>2, <2>6 DEF OneScheme
  <2> QED
    BY <2>7, <2>8
<1>5. CASE Emptied
  <2>1. DOMAIN dir'.shards = {} /\ conv'.pc = "idle"
    BY <1>5 DEF Emptied, EmptyDir
  <2>2. \A s : Filled(s)'
    BY <2>1 DEF Filled
  <2> QED
    BY <1>5, <2>1, <2>2 DEF OneScheme, Schemes
<1>6. CASE Interrupted
  BY <1>1, <1>6 DEF Interrupted, Idle
<1>7. CASE (\E k \in Plain \cup Projections : Take(k)) \/ Collect \/ ShardsDone
  BY <1>1, <1>7 DEF Take, Collect, ShardsDone, ConvType
<1>8. CASE CopyConfig \/ WriteIndex
  BY <1>1, <1>8 DEF CopyConfig, WriteIndex, ConvType, DirType
<1>9. CASE WriteMarker
  <2>1. dir'.shards = dir.shards
    BY <1>9 DEF WriteMarker, DirType
  <2>2. conv' = Idle \/ (conv' = conv /\ conv.pc = "marker")
    BY <1>9 DEF WriteMarker
  <2> QED
    BY <1>1, <2>1, <2>2 DEF Idle
<1> HIDE DEF CheckpointInv
<1> QED
  BY <1>2, <1>3, <1>4, <1>5, <1>6, <1>7, <1>8, <1>9 DEF Converts, Kept

(* Of the loader they change at most the record that the directory was     *)
(* emptied during its copy.                                                *)
LEMMA ConvertsKeepLoader ==
  Converts => ld' = ld \/ (Emptied /\ ld' = [ld EXCEPT !.torn = @ \/ ld.pc = "copying"])
BY DEF Converts, Start, Take, Collect, Flush, Saved, ShardsDone, CopyConfig, WriteIndex,
       WriteMarker, Interrupted, Emptied

(* The tensors of all names of a scheme that come from one directory have  *)
(* the values of that scheme.                                              *)
LEMMA AllOfOneScheme ==
  ASSUME OneScheme, NEW mode \in Schemes, NEW loaded,
         DOMAIN loaded = checkpoint_spec(mode),
         \A n \in DOMAIN loaded : InDir(n, loaded[n])
  PROVE  \A n \in DOMAIN loaded : loaded[n] = Converted(n, mode)
<1>1. PICK s \in Schemes : Filled(s)
  BY DEF OneScheme
<1>2. \A n \in DOMAIN loaded : n \in checkpoint_spec(s) /\ loaded[n] = Converted(n, s)
  BY <1>1 DEF InDir, Filled
<1>3. CASE Projections = {}
  <2>1. \A n \in checkpoint_spec(mode) : n[1] \in Plain
    BY <1>3 DEF checkpoint_spec, Weight
  <2> QED
    BY <1>2, <2>1 DEF Converted
<1>4. CASE Projections # {}
  <2>1. PICK k \in Projections : TRUE
    BY <1>4
  <2>2. <<k, scale_field(mode)>> \in checkpoint_spec(s)
    BY <1>2 DEF checkpoint_spec
  <2>3. scale_field(mode) = scale_field(s)
    BY <2>2 DEF checkpoint_spec, Weight, scale_field
  <2>4. mode = s
    BY <2>3 DEF scale_field, Schemes
  <2> QED
    BY <1>2, <2>4
<1> QED
  BY <1>3, <1>4

(* A tensor of a model's own names can be of the other scheme only if it   *)
(* is the weight of a projection: that name both schemes have.             *)
LEMMA OnlyWeightsDiffer ==
  ASSUME NEW mode \in Schemes, NEW n \in checkpoint_spec(mode), NEW v, OfAScheme(n, v)
  PROVE  v = Converted(n, mode) \/ n \in {Weight(k) : k \in Projections}
<1>1. PICK s \in Schemes : n \in checkpoint_spec(s) /\ v = Converted(n, s)
  BY DEF OfAScheme
<1>2. CASE \E k \in Projections : n = <<k, scale_field(mode)>>
  <2>1. PICK k \in Projections : n = <<k, scale_field(mode)>>
    BY <1>2
  <2>2. scale_field(mode) = scale_field(s)
    BY <1>1, <2>1 DEF checkpoint_spec, Weight, scale_field
  <2>3. mode = s
    BY <2>2 DEF scale_field, Schemes
  <2> QED
    BY <1>1, <2>3
<1>3. CASE \E k \in Plain : n = Weight(k)
  BY <1>1, <1>3 DEF Weight, Converted
<1> QED
  BY <1>2, <1>3 DEF checkpoint_spec

Loads ==
  \/ \E quantization \in {"none", "fp8"} : ReadConfig(quantization)
  \/ LoadModel \/ List \/ Validated \/ Loaded \/ Ended
  \/ \E f \in ld.todo : Validate(f)
  \/ \E f \in ld.todo : LoadPlain(f)
  \/ \E n \in ld.todo : Copy(n)

LEMMA LoaderStep == ASSUME LoaderInv, Loads, UNCHANGED <<dir, conv>> PROVE LoaderInv'
<1> USE DEF LoaderInv
<1>1. OneScheme'
  <2>1. next_shard' = next_shard /\ \A s : Filled(s)' = Filled(s)
    BY DEF next_shard, Filled
  <2> QED
    BY <2>1 DEF OneScheme
<1>2. \A n, v : InDir(n, v)' = InDir(n, v)
  BY DEF InDir
<1> DEFINE Goal == LoaderType' /\ Validating' /\ Copying' /\ LoadedIsConverted'
<1>3. DOMAIN NoTensors = {}
  BY DEF NoTensors
<1>4. /\ ld'.pc # "loaded" => LoadedIsConverted'
      /\ ld'.pc # "validating" => Validating'
      /\ ld'.pc # "copying" => Copying'
  BY DEF LoadedIsConverted, Validating, Copying
<1>5. ASSUME NEW quantization \in {"none", "fp8"}, ReadConfig(quantization) PROVE Goal
  <2>1. /\ ld'.pc = "built" /\ ld'.mode \in Schemes \cup {"unquantized"}
        /\ ld'.entries = NoTensors /\ ld'.loaded = NoTensors
    BY <1>5 DEF ReadConfig, Recognised, Schemes, NoLoader
  <2> QED
    BY <1>3, <1>4, <2>1 DEF LoaderType
<1>6. ASSUME Ended PROVE Goal
  <2>1. ld'.pc = "idle" /\ ld'.loaded = NoTensors
    BY <1>6 DEF Ended, NoLoader
  <2> QED
    BY <1>3, <1>4, <2>1 DEF LoaderType
<1>7. ASSUME LoadModel PROVE Goal
  <2>1. /\ ld.pc = "built" /\ ld'.pc = "listing" /\ ld'.mode = ld.mode
        /\ ld'.entries = ld.entries /\ ld'.loaded = ld.loaded
    BY <1>7 DEF LoadModel
  <2> QED
    BY <1>4, <2>1 DEF LoaderType
<1>8. ASSUME List PROVE Goal
  <2>1. /\ ld.pc = "listing" /\ ld'.mode = ld.mode
        /\ ld'.pc = IF ld.mode = "unquantized" THEN "plain" ELSE "validating"
        /\ ld'.entries = ld.entries /\ ld'.loaded = ld.loaded
    BY <1>8 DEF List
  <2>2. DOMAIN ld'.entries = {} /\ DOMAIN ld'.loaded = {}
    BY <2>1 DEF LoaderType
  <2>3. Validating'
    BY <2>2 DEF Validating
  <2> QED
    BY <1>4, <2>1, <2>2, <2>3 DEF LoaderType
<1>9. ASSUME NEW f \in ld.todo, Validate(f) PROVE Goal
  <2> DEFINE names == DOMAIN dir.shards[f].tensors
  <2>1. /\ ld.pc = "validating" /\ ld'.pc = "validating" /\ ld'.mode = ld.mode
        /\ ld'.loaded = ld.loaded
        /\ DOMAIN ld'.entries = DOMAIN ld.entries \cup names
        /\ names \subseteq checkpoint_spec(ld.mode)
    BY <1>9 DEF Validate
  <2>2. checkpoint_spec(ld'.mode) = checkpoint_spec(ld.mode)
    BY <2>1
  <2> HIDE DEF names
  <2>3. Validating'
    BY <2>1, <2>2 DEF Validating
  <2> QED
    BY <1>4, <2>1, <2>3 DEF LoaderType
<1>10. ASSUME Validated PROVE Goal
  <2>1. /\ ld.pc = "validating" /\ ld'.pc = "copying" /\ ld'.mode = ld.mode
        /\ ld'.loaded = ld.loaded /\ ld'.todo = DOMAIN ld.entries
        /\ checkpoint_spec(ld.mode) \subseteq DOMAIN ld.entries
    BY <1>10 DEF Validated
  <2>2. checkpoint_spec(ld'.mode) = DOMAIN ld.entries /\ DOMAIN ld'.loaded = {}
    BY <2>1 DEF Validating, LoaderType
  <2>3. Copying'
    BY <2>1, <2>2 DEF Copying
  <2> QED
    BY <1>4, <2>1, <2>3 DEF LoaderType
<1>11. ASSUME NEW n \in ld.todo, Copy(n) PROVE Goal
  <2> DEFINE v == dir.shards[ld.entries[n]].tensors[n]
  <2>1. /\ ld.pc = "copying" /\ ld'.pc = "copying" /\ ld'.mode = ld.mode
        /\ ld'.loaded = With(ld.loaded, n, v) /\ ld'.todo = ld.todo \ {n}
        /\ ld'.torn = ld.torn
    BY <1>11 DEF Copy
  <2>2. InDir(n, v)
    BY <1>11 DEF Copy, Readable, InDir
  <2>3. /\ DOMAIN ld'.loaded = DOMAIN ld.loaded \cup {n}
        /\ ld'.loaded[n] = v
        /\ \A x \in DOMAIN ld.loaded \ {n} : ld'.loaded[x] = ld.loaded[x]
    BY <2>1 DEF With
  <2>5. OfAScheme(n, v)
    BY <2>2 DEF OneScheme, InDir, Filled, OfAScheme
  <2> HIDE DEF v
  <2>4. Copying'
    <3>1. DOMAIN ld.loaded \cup ld.todo = checkpoint_spec(ld'.mode)
      BY <2>1 DEF Copying
    <3>2. ~ld.torn => \A x \in DOMAIN ld'.loaded : InDir(x, ld'.loaded[x])
      BY <2>1, <2>2, <2>3 DEF Copying
    <3>3. \A x \in DOMAIN ld'.loaded : OfAScheme(x, ld'.loaded[x])
      BY <2>1, <2>3, <2>5 DEF Copying
    <3> QED
      BY <1>2, <2>1, <2>3, <3>1, <3>2, <3>3 DEF Copying, OfAScheme
  <2> QED
    BY <1>4, <2>1, <2>3, <2>4 DEF LoaderType
<1>12. ASSUME NEW f \in ld.todo, LoadPlain(f) PROVE Goal
  <2>1. ld.pc = "plain" /\ ld'.pc = "plain" /\ ld'.mode = ld.mode
    BY <1>12 DEF LoadPlain
  <2> QED
    BY <1>4, <2>1 DEF LoaderType
<1>13. ASSUME Loaded PROVE Goal
  <2>1. /\ ld.pc \in {"copying", "plain"} /\ ld'.pc = "loaded" /\ ld'.mode = ld.mode
        /\ ld'.loaded = ld.loaded /\ ld'.torn = ld.torn /\ ld.todo = {}
    BY <1>13 DEF Loaded
  <2>2. LoaderType' /\ Validating' /\ Copying'
    BY <1>4, <2>1 DEF LoaderType
  <2>3. ASSUME ld.mode \in Schemes
        PROVE  /\ DOMAIN ld.loaded = checkpoint_spec(ld.mode)
               /\ \A n \in checkpoint_spec(ld.mode) :
                     \/ ld.loaded[n] = Converted(n, ld.mode)
                     \/ ld.torn /\ n \in {Weight(k) : k \in Projections}
    <3>1. ld.pc = "copying"
      BY <2>1, <2>3 DEF LoaderType, Schemes
    <3>2. /\ DOMAIN ld.loaded = checkpoint_spec(ld.mode)
          /\ \A n \in DOMAIN ld.loaded : OfAScheme(n, ld.loaded[n])
          /\ ~ld.torn => \A n \in DOMAIN ld.loaded : InDir(n, ld.loaded[n])
      BY <2>1, <3>1 DEF Copying
    <3>3. CASE ~ld.torn
      <4>1. \A n \in DOMAIN ld.loaded : ld.loaded[n] = Converted(n, ld.mode)
        BY <2>3, <3>2, <3>3, AllOfOneScheme
      <4> QED
        BY <3>2, <4>1
    <3>4. CASE ld.torn
      BY <2>3, <3>2, <3>4, OnlyWeightsDiffer
    <3> QED
      BY <3>3, <3>4
  <2> QED
    BY <2>1, <2>2, <2>3 DEF LoadedIsConverted
<1>14. Goal
  <2> HIDE DEF Goal, LoaderInv
  <2> QED
    BY <1>5, <1>6, <1>7, <1>8, <1>9, <1>10, <1>11, <1>12, <1>13 DEF Loads
<1> QED
  BY <1>1, <1>14

LEMMA LoaderInvStep ==
  ASSUME CheckpointInv, LoaderInv, [Next]_vars
  PROVE  LoaderInv'
<1>1. CASE Converts
  <2>1. OneScheme' /\ (Emptied \/ \A n, v : InDir(n, v) => InDir(n, v)')
    BY <1>1, DirKeepsTensors DEF LoaderInv
  <2>2. CASE ld' = ld /\ ~Emptied
    <3>1. LoaderType' /\ Validating' /\ LoadedIsConverted'
      BY <2>2 DEF LoaderInv, LoaderType, Validating, LoadedIsConverted
    <3>2. Copying'
      BY <2>1, <2>2 DEF LoaderInv, Copying, OfAScheme
    <3> QED
      BY <2>1, <3>1, <3>2 DEF LoaderInv
  <2>3. CASE Emptied
    <3>1. /\ ld'.pc = ld.pc /\ ld'.mode = ld.mode /\ ld'.todo = ld.todo
          /\ ld'.entries = ld.entries /\ ld'.loaded = ld.loaded
          /\ ld'.torn = (ld.torn \/ ld.pc = "copying")
      BY <2>3 DEF Emptied, LoaderInv, LoaderType
    <3>2. LoaderType' /\ Validating' /\ LoadedIsConverted'
      BY <3>1 DEF LoaderInv, LoaderType, Validating, LoadedIsConverted
    <3>3. Copying'
      BY <3>1 DEF LoaderInv, Copying, OfAScheme
    <3> QED
      BY <2>1, <3>2, <3>3 DEF LoaderInv
  <2> QED
    BY <1>1, <2>2, <2>3, ConvertsKeepLoader
<1>2. CASE Loads
  <2>1. UNCHANGED <<dir, conv>>
    BY <1>2 DEF Loads, ReadConfig, LoadModel, List, Validated, Loaded, Ended,
                Validate, LoadPlain, Copy
  <2> QED
    BY <1>2, <2>1, LoaderStep
<1>3. CASE UNCHANGED vars
  <2>1. next_shard' = next_shard /\ \A s : Filled(s)' = Filled(s)
    BY <1>3 DEF vars, next_shard, Filled
  <2>2. OneScheme' = OneScheme /\ \A n, v : InDir(n, v)' = InDir(n, v)
    BY <1>3, <2>1 DEF vars, OneScheme, InDir
  <2> QED
    BY <1>3, <2>2 DEF vars, LoaderInv, LoaderType, Validating, Copying, OfAScheme,
                      LoadedIsConverted
<1>4. Next => Converts \/ Loads
  BY DEF Next, Converts, Loads, Kept
<1> QED
  BY <1>1, <1>2, <1>3, <1>4

\* utils/loader.py and config.py: the directory is read by the configuration,
\* again by load_model, listed, validated, and opened once more for each tensor
\* that is copied, and at any of these places it may be emptied and converted
\* anew, with another scheme.  A quantised model that is loaded still has every
\* tensor set, with the value its scheme gives it; only if the directory was
\* emptied during the copy can the weight of a projection be of the other one.
THEOREM LoadedConverted == Spec => []LoadedIsConverted
<1>1. Spec => [](CheckpointInv /\ LoaderInv)
  <2>1. Init => CheckpointInv /\ LoaderInv
    BY InitInv, LoaderInit
  <2>2. CheckpointInv /\ LoaderInv /\ [Next]_vars => CheckpointInv' /\ LoaderInv'
    BY StepInv, LoaderInvStep
  <2> QED
    BY <2>1, <2>2, PTL DEF Spec
<1>2. LoaderInv => LoadedIsConverted
  BY DEF LoaderInv
<1> QED
  BY <1>1, <1>2, PTL
=============================================================================
