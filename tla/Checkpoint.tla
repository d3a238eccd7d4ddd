----------------------------- MODULE Checkpoint -----------------------------
(***************************************************************************)
(* The directory of a converted FP8 checkpoint: the converter that fills   *)
(* it (quantization/convert.py), which may die or raise between any two    *)
(* writes, and an engine that starts from it (config/config.py and         *)
(* utils/loader.py), possibly while it is being written or replaced.       *)
(*                                                                         *)
(* A file is absent, partial (created, its last byte not yet written) or   *)
(* whole.  A tensor is its name, a pair of a layer and a field, and the    *)
(* value it holds: of a quantised projection, the scheme it was quantised  *)
(* with.  Sizes are left out: a shard may end after any tensor.            *)
(***************************************************************************)
EXTENDS Naturals, FiniteSets, Sequences

CONSTANTS
    Plain,        \* the weights a conversion keeps in the compute dtype
    Projections   \* the weights a conversion quantises

ASSUME LayersAssumption == /\ IsFiniteSet(Plain)
                           /\ IsFiniteSet(Projections)
                           /\ Plain \cap Projections = {}

VARIABLES
    dir,    \* the destination directory
    conv,   \* the conversion that runs, or Idle
    ld      \* the process that loads a model from the directory

vars == <<dir, conv, ld>>
-----------------------------------------------------------------------------
Schemes == {"per_channel", "block_wise"}

\* The sources a conversion may be pointed at: complete, or short of a weight.
Sources == {Plain \cup Projections}
             \cup {(Plain \cup Projections) \ {k} : k \in Plain \cup Projections}

Weight(k) == <<k, "weight">>
scale_field(scheme) ==
    IF scheme = "block_wise" THEN "weight_scale_inv" ELSE "weight_scale"

\* The tensors of a checkpoint: what a model of that scheme has parameters for.
checkpoint_spec(scheme) ==
    {Weight(k) : k \in Plain \cup Projections}
      \cup IF scheme \in Schemes THEN {<<k, scale_field(scheme)>> : k \in Projections}
                                 ELSE {}

\* What a conversion stores under a name.
Converted(name, scheme) == IF name[1] \in Plain THEN "kept" ELSE scheme

\* The tensors one source weight becomes, in the order they are written.
tensors(k, scheme) ==
    IF k \in Projections THEN <<Weight(k), <<k, scale_field(scheme)>>>> ELSE <<Weight(k)>>

NoTensors == [n \in {} |-> "kept"]
EmptyDir == [shards   |-> [f \in {} |-> [whole |-> TRUE, tensors |-> NoTensors]],
             config   |-> "absent",
             metadata |-> "absent",
             index    |-> [state |-> "absent", map |-> NoTensors]]

Idle == [pc |-> "idle", scheme |-> "none", source |-> {}, seen |-> {},
         next |-> <<>>, pending |-> {}, index |-> NoTensors]
NoLoader == [pc |-> "idle", mode |-> "none", todo |-> {},
             entries |-> NoTensors, loaded |-> NoTensors,
             torn |-> FALSE]   \* history: the directory was emptied under the copy

Init == dir = EmptyDir /\ conv = Idle /\ ld = NoLoader

With(f, x, v) == [y \in DOMAIN f \cup {x} |-> IF y = x THEN v ELSE f[y]]
-----------------------------------------------------------------------------
(* The conversion.  A file is written in two steps, so that it may end     *)
(* partial.                                                                *)

\* A source is converted into an empty directory only.
Start(scheme, source) ==
    /\ conv.pc = "idle"
    /\ dir = EmptyDir
    /\ conv' = [Idle EXCEPT !.pc = "shards", !.scheme = scheme, !.source = source]
    /\ UNCHANGED <<dir, ld>>

\* One weight of the source is read and quantised.
Take(k) ==
    /\ conv.pc = "shards" /\ conv.next = <<>>
    /\ k \in conv.source \ conv.seen
    /\ conv' = [conv EXCEPT !.seen = @ \cup {k}, !.next = tensors(k, conv.scheme)]
    /\ UNCHANGED <<dir, ld>>

\* One of its tensors joins those collected for the next shard.
Collect ==
    /\ conv.pc = "shards" /\ conv.next # <<>>
    /\ conv' = [conv EXCEPT !.pending = @ \cup {Head(conv.next)}, !.next = Tail(@)]
    /\ UNCHANGED <<dir, ld>>

ReadAll == conv.next = <<>> /\ conv.seen = conv.source

\* The weights the model needs and the source does not have; one is an error.
missing == (Plain \cup Projections) \ conv.seen

\* The next shard's number: one more than the shards the index names.
next_shard == Cardinality({conv.index[n] : n \in DOMAIN conv.index}) + 1

\* flush(): before a tensor that does not fit, and once after the last one.
Flush ==
    /\ conv.pc = "shards" /\ conv.pending # {}
    /\ conv.next # <<>> \/ (ReadAll /\ missing = {})
    /\ conv' = [conv EXCEPT !.pc = "saving"]
    /\ dir' = [dir EXCEPT !.shards =
                  With(@, next_shard, [whole |-> FALSE, tensors |-> NoTensors])]
    /\ UNCHANGED ld

Saved ==
    /\ conv.pc = "saving"
    /\ dir' = [dir EXCEPT !.shards[next_shard] =
                  [whole |-> TRUE,
                   tensors |-> [n \in conv.pending |-> Converted(n, conv.scheme)]]]
    /\ conv' = [conv EXCEPT !.pc = "shards", !.pending = {},
                  !.index = [n \in DOMAIN @ \cup conv.pending |->
                                IF n \in conv.pending THEN next_shard ELSE @[n]]]
    /\ UNCHANGED ld

\* Mutant: the final flush() after the loop is forgotten.
Hasty_ShardsDone ==
    /\ conv.pc = "shards" /\ ReadAll /\ missing = {}
    /\ conv' = [conv EXCEPT !.pc = IF conv.scheme = "block_wise" THEN "index" ELSE "config"]
    /\ UNCHANGED <<dir, ld>>

\* The last shard is written and no weight is missing: the other files follow.
ShardsDone ==
    /\ conv.pc = "shards" /\ ReadAll /\ missing = {} /\ conv.pending = {}
    /\ conv' = [conv EXCEPT !.pc = IF conv.scheme = "block_wise" THEN "index" ELSE "config"]
    /\ UNCHANGED <<dir, ld>>

\* A per-channel checkpoint keeps the source's config.json; a block-wise one
\* gets its own, which is its marker, at the end.
CopyConfig ==
    /\ conv.pc = "config"
    /\ \/ dir.config = "absent" /\ dir' = [dir EXCEPT !.config = "partial"] /\ UNCHANGED conv
       \/ /\ dir.config = "partial"
          /\ dir' = [dir EXCEPT !.config = "plain"]
          /\ conv' = [conv EXCEPT !.pc = "index"]
    /\ UNCHANGED ld

WriteIndex ==
    /\ conv.pc = "index"
    /\ \/ dir.index.state = "absent" /\ dir' = [dir EXCEPT !.index.state = "partial"] /\ UNCHANGED conv
       \/ /\ dir.index.state = "partial"
          /\ dir' = [dir EXCEPT !.index = [state |-> "whole", map |-> conv.index]]
          /\ conv' = [conv EXCEPT !.pc = "marker"]
    /\ UNCHANGED ld

\* The success marker, last: config.json or the metadata file.
WriteMarker ==
    /\ conv.pc = "marker"
    /\ LET file == IF conv.scheme = "block_wise" THEN "config" ELSE "metadata"
       IN \/ dir[file] = "absent" /\ dir' = [dir EXCEPT ![file] = "partial"] /\ UNCHANGED conv
          \/ dir[file] = "partial" /\ dir' = [dir EXCEPT ![file] = "fp8"] /\ conv' = Idle
    /\ UNCHANGED ld

\* The process dies, or raises (a duplicate, invalid or missing tensor), and
\* leaves the directory as it is.
Interrupted == conv.pc # "idle" /\ conv' = Idle /\ UNCHANGED <<dir, ld>>

\* The operator empties the directory, as a conversion into it then demands.
\* Nothing keeps a process from reading it meanwhile, at any place.
Emptied ==
    /\ conv.pc = "idle" /\ dir # EmptyDir
    /\ dir' = EmptyDir
    /\ ld' = [ld EXCEPT !.torn = @ \/ ld.pc = "copying"]
    /\ UNCHANGED conv
-----------------------------------------------------------------------------
(* The loading process.                                                    *)

\* What read_quantization_metadata and read_hf_fp8_config make of the
\* directory; a partial file does not parse.
Recognised ==
    IF dir.metadata = "partial" THEN "raises"
    ELSE IF dir.metadata = "fp8" THEN "per_channel"
    ELSE IF dir.config = "partial" THEN "raises"
    ELSE IF dir.config = "fp8" THEN "block_wise"
    ELSE "unquantized"

\* Config.__post_init__: the kind of model to build, from the directory and
\* the quantization argument; it needs a config.json in any case.
ReadConfig(quantization) ==
    /\ ld.pc = "idle"
    /\ Recognised # "raises" /\ dir.config # "absent"
    /\ Recognised = "unquantized" => quantization = "none"
    /\ ld' = [NoLoader EXCEPT !.pc = "built", !.mode = Recognised]
    /\ UNCHANGED <<dir, conv>>

\* load_model reads the directory again: whether it still is a checkpoint of
\* the model that was built.
Matches == \/ Recognised = "block_wise"  /\ ld.mode = "block_wise"
           \/ Recognised = "per_channel" /\ ld.mode \in Schemes
           \/ Recognised = "unquantized" /\ ld.mode = "unquantized"

LoadModel ==
    /\ ld.pc = "built" /\ Matches
    /\ ld' = [ld EXCEPT !.pc = "listing"]
    /\ UNCHANGED <<dir, conv>>

\* glob("*.safetensors"): the shards there are, partial ones included.
List ==
    /\ ld.pc = "listing"
    /\ ld' = [ld EXCEPT !.todo = DOMAIN dir.shards,
                        !.pc = IF ld.mode = "unquantized" THEN "plain" ELSE "validating"]
    /\ UNCHANGED <<dir, conv>>

Readable(f) == f \in DOMAIN dir.shards /\ dir.shards[f].whole

\* A quantised model: every name of the shard must be one of its own, once.
Validate(f) ==
    /\ ld.pc = "validating" /\ f \in ld.todo /\ Readable(f)
    /\ LET names == DOMAIN dir.shards[f].tensors IN
        /\ names \subseteq checkpoint_spec(ld.mode) \ DOMAIN ld.entries
        /\ ld' = [ld EXCEPT !.todo = @ \ {f},
                    !.entries = [n \in DOMAIN @ \cup names |-> IF n \in names THEN f ELSE @[n]]]
    /\ UNCHANGED <<dir, conv>>

\* Mutant: the loader copies whatever it found.
Trusting_Validated ==
    /\ ld.pc = "validating" /\ ld.todo = {}
    /\ ld' = [ld EXCEPT !.pc = "copying", !.todo = DOMAIN ld.entries]
    /\ UNCHANGED <<dir, conv>>

\* No tensor may be missing before the first one is copied.
Validated ==
    /\ ld.pc = "validating" /\ ld.todo = {}
    /\ checkpoint_spec(ld.mode) \ DOMAIN ld.entries = {}
    /\ ld' = [ld EXCEPT !.pc = "copying", !.todo = DOMAIN ld.entries]
    /\ UNCHANGED <<dir, conv>>

\* A tensor is read again, from the shard it was seen in, into its parameter.
Copy(n) ==
    /\ ld.pc = "copying" /\ n \in ld.todo
    /\ Readable(ld.entries[n]) /\ n \in DOMAIN dir.shards[ld.entries[n]].tensors
    /\ ld' = [ld EXCEPT !.todo = @ \ {n},
                        !.loaded = With(@, n, dir.shards[ld.entries[n]].tensors[n])]
    /\ UNCHANGED <<dir, conv>>

\* An unquantised model takes the names it knows and needs none of them.
LoadPlain(f) ==
    /\ ld.pc = "plain" /\ f \in ld.todo /\ Readable(f)
    /\ LET shard == dir.shards[f].tensors
           names == DOMAIN shard \cap checkpoint_spec("unquantized")
       IN ld' = [ld EXCEPT !.todo = @ \ {f},
                   !.loaded = [n \in DOMAIN @ \cup names |->
                                  IF n \in names THEN shard[n] ELSE @[n]]]
    /\ UNCHANGED <<dir, conv>>

Loaded ==
    /\ ld.pc \in {"copying", "plain"} /\ ld.todo = {}
    /\ ld' = [ld EXCEPT !.pc = "loaded"]
    /\ UNCHANGED <<dir, conv>>

\* A check of the loader raises, or its process ends; another one starts.
Ended == ld.pc # "idle" /\ ld' = NoLoader /\ UNCHANGED <<dir, conv>>
-----------------------------------------------------------------------------
Next ==
    \/ \E scheme \in Schemes, source \in Sources : Start(scheme, source)
    \/ \E k \in Plain \cup Projections : Take(k)
    \/ Collect \/ Flush \/ Saved \/ ShardsDone
    \/ CopyConfig \/ WriteIndex \/ WriteMarker
    \/ Interrupted \/ Emptied
    \/ \E quantization \in {"none", "fp8"} : ReadConfig(quantization)
    \/ LoadModel \/ List \/ Validated \/ Loaded \/ Ended
    \/ \E f \in ld.todo : Validate(f)
    \/ \E f \in ld.todo : LoadPlain(f)
    \/ \E n \in ld.todo : Copy(n)

Spec == Init /\ [][Next]_vars
-----------------------------------------------------------------------------
(* Properties.                                                             *)

\* convert.py writes its success marker last so that an incomplete conversion
\* is not recognised as FP8: whenever one of the two readers recognises the
\* directory, every tensor of the scheme it recognises is in the one shard the
\* index gives for it, whole and with the value of that scheme - although a
\* shard may end between a weight and its scale, the source may lack a weight,
\* and earlier conversions into the directory may have stopped anywhere.
RecognizedIsComplete ==
    Recognised \in Schemes =>
        /\ dir.index.state = "whole"
        /\ DOMAIN dir.index.map = checkpoint_spec(Recognised)
        /\ \A n \in checkpoint_spec(Recognised) :
              /\ Readable(dir.index.map[n])
              /\ \A f \in DOMAIN dir.shards :
                    n \in DOMAIN dir.shards[f].tensors <=> f = dir.index.map[n]
              /\ dir.shards[dir.index.map[n]].tensors[n] = Converted(n, Recognised)

\* The configuration decides what model to build, load_model reads the
\* directory again, lists it, validates every shard, and opens the shards once
\* more to copy; at any of these places it may be emptied and converted anew,
\* with another scheme.  A quantised model that is loaded has every tensor of
\* its own scheme set, with the value of that scheme.  Only a directory that
\* is emptied during the copy itself can make a difference, and then only to
\* the weight of a projection, whose name and shape the two schemes share.
LoadedIsConverted ==
    ld.pc = "loaded" /\ ld.mode \in Schemes =>
        /\ DOMAIN ld.loaded = checkpoint_spec(ld.mode)
        /\ \A n \in checkpoint_spec(ld.mode) :
              \/ ld.loaded[n] = Converted(n, ld.mode)
              \/ ld.torn /\ n \in {Weight(k) : k \in Projections}
=============================================================================
