---------------------------- MODULE PrefixCache ----------------------------
(***************************************************************************)
(* The block manager with prefix caching on (engine/block_manager.py), as  *)
(* the serial scheduler uses it for attention-only models.  A block is     *)
(* shared by reference count, found again by the hash of everything up to  *)
(* its end, and keeps its hash and its KV after it was freed, until        *)
(* somebody takes it for something else.                                   *)
(*                                                                         *)
(* The scheduler is any policy: whatever can be admitted, continued,       *)
(* decoded or preempted may be, and a chunk may be cut anywhere, which     *)
(* covers Scheduler's queues, budget and slots.  A forward runs on the     *)
(* device some time after its dispatch, in the order of dispatch.          *)
(*                                                                         *)
(* The KV of a position is a function of the tokens up to it, and so is    *)
(* written down as those tokens.  Hashes are taken not to collide: the     *)
(* chained hash of blocks 0..i is the text of blocks 0..i.                 *)
(***************************************************************************)
EXTENDS Queues, Functions

CONSTANTS
  Requests, Blocks, BlockSize,
  Tokens, Eos,
  Prompt,      \* [Requests -> the tokens of the prompt]
  MaxTokens    \* [Requests -> sampling_params.max_tokens]

ASSUME PrefixAssumption ==
  /\ IsFiniteSet(Requests) /\ IsFiniteSet(Blocks)
  /\ BlockSize \in Nat /\ BlockSize > 1
  /\ Prompt \in [Requests -> Seq(Tokens) \ {<<>>}]
  /\ MaxTokens \in [Requests -> Nat \ {0}]

VARIABLES
  at,                                     \* who owns the request
  token_ids, num_cached_tokens,
  num_scheduled_tokens, block_table,      \* the fields of each Sequence
  ref_count, hash,                        \* the fields of each Block
  hash_to_block_id, free_block_ids, used_block_ids,
  launched,                               \* dispatched, forward not run yet
  kv                                      \* the KV cache on the device

seqVars == <<token_ids, num_cached_tokens, num_scheduled_tokens>>
poolVars == <<ref_count, hash, hash_to_block_id, free_block_ids, used_block_ids>>
vars == <<at, seqVars, block_table, poolVars, launched, kv>>

NoHash == <<>>
Offsets == 0..(BlockSize - 1)

-----------------------------------------------------------------------------
(* Sequence.  Blocks are counted from one here.                            *)

(* s[m - 1 : n]: a slice ends with the list it is taken from.              *)
slice(s, m, n) == SubSeq(s, m, IF n <= Len(s) THEN n ELSE Len(s))

num_tokens(r) == Len(token_ids[r])
num_blocks(r) == (num_tokens(r) + BlockSize - 1) \div BlockSize
block(r, i) == slice(token_ids[r], (i - 1) * BlockSize + 1, i * BlockSize)
num_completion_tokens(r) == num_tokens(r) - Len(Prompt[r])

(* The text of the first i blocks: the hash of block i in its chain.       *)
prefix(r, i) == slice(token_ids[r], 1, i * BlockSize)

(* Block.token_ids: update() sets it together with the hash, and reset()   *)
(* clears both.                                                            *)
block_tokens(b) ==
  IF hash[b] = NoHash THEN <<>>
  ELSE SubSeq(hash[b], Len(hash[b]) - BlockSize + 1, Len(hash[b]))

-----------------------------------------------------------------------------
(* Admission.                                                              *)

Hit(r, i) ==
  /\ prefix(r, i) \in DOMAIN hash_to_block_id
  /\ block_tokens(hash_to_block_id[prefix(r, i)]) = block(r, i)

(* The leading blocks that are there; the last one is always computed, so  *)
(* that there is a token to sample from.                                   *)
num_cached_blocks(r) ==
  CHOOSE n \in 0..(num_blocks(r) - 1) :
    /\ \A i \in 1..n : Hit(r, i)
    /\ n < num_blocks(r) - 1 => ~Hit(r, n + 1)

cached(r) == [i \in 1..num_cached_blocks(r) |-> hash_to_block_id[prefix(r, i)]]

(* Mutant: a cached block costs nothing, used or free.                     *)
Generous_num_new_blocks(r) == num_blocks(r) - num_cached_blocks(r)

num_new_blocks(r) ==
  num_blocks(r)
    - Cardinality({i \in 1..num_cached_blocks(r) : cached(r)[i] \in used_block_ids})

can_allocate(r) == Len(free_block_ids) >= num_new_blocks(r)

(* Mutant: the index keeps what the block no longer holds.                 *)
Keeping_Forgotten(taken) == hash_to_block_id

(* _allocate_block(): the index forgets a block that is taken for something*)
(* else, unless another one has replaced it there.                         *)
Forgotten(taken) ==
  Restrict(hash_to_block_id,
           {h \in DOMAIN hash_to_block_id :
              ~(hash_to_block_id[h] \in taken /\ hash[hash_to_block_id[h]] = h)})

TakeBlocks(taken) ==
  /\ hash' = [b \in Blocks |-> IF b \in taken THEN NoHash ELSE hash[b]]
  /\ hash_to_block_id' = Forgotten(taken)

(* Mutant: the free block that is found again is not counted.              *)
Uncounted_allocate(r) ==
  LET shared == ToSet(cached(r))
      free == Only(free_block_ids, Blocks \ shared)
      n == num_blocks(r) - num_cached_blocks(r)
      new == slice(free, 1, n)
  IN /\ block_table' = [block_table EXCEPT ![r] = cached(r) \o new]
     /\ free_block_ids' = SubSeq(free, n + 1, Len(free))
     /\ used_block_ids' = used_block_ids \cup shared \cup ToSet(new)
     /\ ref_count' = [b \in Blocks |->
                        IF b \in shared \cap used_block_ids THEN ref_count[b] + 1
                        ELSE IF b \in ToSet(new) THEN 1 ELSE ref_count[b]]
     /\ TakeBlocks(ToSet(new))

allocate(r) ==
  LET shared == ToSet(cached(r))
      free == Only(free_block_ids, Blocks \ shared)
      n == num_blocks(r) - num_cached_blocks(r)
      new == slice(free, 1, n)
  IN /\ block_table' = [block_table EXCEPT ![r] = cached(r) \o new]
     /\ free_block_ids' = SubSeq(free, n + 1, Len(free))
     /\ used_block_ids' = used_block_ids \cup shared \cup ToSet(new)
     /\ ref_count' = [b \in Blocks |->
                        IF b \in shared \cap used_block_ids THEN ref_count[b] + 1
                        ELSE IF b \in shared \cup ToSet(new) THEN 1
                        ELSE ref_count[b]]
     /\ TakeBlocks(ToSet(new))

deallocate(r) ==
  LET dropped == {b \in ToSet(block_table[r]) : ref_count[b] = 1}
  IN /\ block_table' = [block_table EXCEPT ![r] = <<>>]
     /\ ref_count' = [b \in Blocks |-> IF b \in ToSet(block_table[r])
                                       THEN ref_count[b] - 1 ELSE ref_count[b]]
     /\ used_block_ids' = used_block_ids \ dropped
     /\ free_block_ids' = free_block_ids \o
          Only(Reverse(block_table[r]), dropped)

needs_block(r) == num_tokens(r) % BlockSize = 1
can_append(r) == needs_block(r) => free_block_ids # <<>>

may_append(r) ==
  IF needs_block(r)
  THEN LET b == Head(free_block_ids) IN
       /\ block_table' = [block_table EXCEPT ![r] = Append(@, b)]
       /\ free_block_ids' = Tail(free_block_ids)
       /\ used_block_ids' = used_block_ids \cup {b}
       /\ ref_count' = [ref_count EXCEPT ![b] = 1]
       /\ TakeBlocks({b})
  ELSE UNCHANGED <<block_table, poolVars>>

(* The blocks that the chunk has filled.                                   *)
Filled(r) ==
  (num_cached_tokens[r] \div BlockSize + 1)
    ..((num_cached_tokens[r] + num_scheduled_tokens[r]) \div BlockSize)

(* compute_hash() of the i-th block, from the hash of the block before the *)
(* chunk and the text since.                                               *)
new_hash(r, i) ==
  LET start == num_cached_tokens[r] \div BlockSize
      h == IF start > 0 THEN hash[block_table[r][start]] ELSE NoHash
  IN h \o slice(token_ids[r], start * BlockSize + 1, i * BlockSize)

hash_blocks(r) ==
  /\ hash' = [b \in Blocks |->
                IF \E i \in Filled(r) : block_table[r][i] = b
                THEN new_hash(r, CHOOSE i \in Filled(r) : block_table[r][i] = b)
                ELSE hash[b]]
  /\ hash_to_block_id' =
       LET new == {new_hash(r, i) : i \in Filled(r)} IN
       [h \in DOMAIN hash_to_block_id \cup new |->
          IF h \in new
          THEN block_table[r][CHOOSE i \in Filled(r) : new_hash(r, i) = h]
          ELSE hash_to_block_id[h]]

-----------------------------------------------------------------------------
Init ==
  /\ at = [r \in Requests |-> "waiting"]
  /\ token_ids = Prompt
  /\ num_cached_tokens = [r \in Requests |-> 0]
  /\ num_scheduled_tokens = [r \in Requests |-> 0]
  /\ block_table = [r \in Requests |-> <<>>]
  /\ ref_count = [b \in Blocks |-> 0]
  /\ hash = [b \in Blocks |-> NoHash]
  /\ hash_to_block_id = <<>>
  /\ free_block_ids \in
       {s \in [1..Cardinality(Blocks) -> Blocks] : Distinct(s)}
  /\ used_block_ids = {}
  /\ launched = <<>>
  /\ kv = [b \in Blocks |-> [o \in Offsets |-> NoHash]]

Dispatch(r, n) ==
  /\ at' = [at EXCEPT ![r] = "in_flight"]
  /\ num_scheduled_tokens' = [num_scheduled_tokens EXCEPT ![r] = n]
  /\ launched' = Append(launched, r)
  /\ UNCHANGED <<token_ids, kv>>

(* schedule(): the first chunk of a request, or of its replay.             *)
Admit(r) ==
  /\ at[r] = "waiting" /\ block_table[r] = <<>> /\ can_allocate(r)
  /\ allocate(r)
  /\ num_cached_tokens' =
       [num_cached_tokens EXCEPT ![r] = num_cached_blocks(r) * BlockSize]
  /\ \E n \in 1..(num_tokens(r) - num_cached_blocks(r) * BlockSize) : Dispatch(r, n)

(* schedule(): a further chunk.                                            *)
Continue(r) ==
  /\ at[r] = "waiting" /\ block_table[r] # <<>>
  /\ \E n \in 1..(num_tokens(r) - num_cached_tokens[r]) : Dispatch(r, n)
  /\ UNCHANGED <<num_cached_tokens, block_table, poolVars>>

Decode(r) ==
  /\ at[r] = "running" /\ can_append(r)
  /\ may_append(r)
  /\ Dispatch(r, 1)
  /\ UNCHANGED num_cached_tokens

(* preempt(): a decode candidate q has no room, r makes some.              *)
Preempt(r) ==
  /\ at[r] = "running"
  /\ \E q \in Requests : at[q] = "running" /\ ~can_append(q)
  /\ at' = [at EXCEPT ![r] = "waiting"]
  /\ deallocate(r)
  /\ num_cached_tokens' = [num_cached_tokens EXCEPT ![r] = 0]
  /\ UNCHANGED <<token_ids, num_scheduled_tokens, hash, hash_to_block_id,
                 launched, kv>>

(* The device: the KV of the scheduled positions is stored.                *)
Forward ==
  LET r == Head(launched)
      lo == num_cached_tokens[r]
      hi == num_cached_tokens[r] + num_scheduled_tokens[r]
      position(b, o) == {p \in lo..(hi - 1) : /\ block_table[r][p \div BlockSize + 1] = b
                                              /\ p % BlockSize = o}
  IN /\ launched # <<>>
     /\ launched' = Tail(launched)
     /\ kv' = [b \in Blocks |-> [o \in Offsets |->
                 IF position(b, o) = {} THEN kv[b][o]
                 ELSE SubSeq(token_ids[r], 1, 1 + CHOOSE p \in position(b, o) : TRUE)]]
     /\ UNCHANGED <<at, seqVars, block_table, poolVars>>

-----------------------------------------------------------------------------
(* postprocess(), one row.                                                 *)

consumed(r) == num_cached_tokens[r] + num_scheduled_tokens[r]
IsPartial(r) == consumed(r) < num_tokens(r)
Stops(r, t) == t = Eos \/ num_completion_tokens(r) + 1 = MaxTokens[r]

PostRow(r) ==
  /\ at[r] = "in_flight" /\ ~Contains(launched, r)
  /\ hash_blocks(r)
  /\ num_scheduled_tokens' = [num_scheduled_tokens EXCEPT ![r] = 0]
  /\ UNCHANGED <<launched, kv>>

PostPartial(r) ==
  /\ IsPartial(r) /\ PostRow(r)
  /\ num_cached_tokens' = [num_cached_tokens EXCEPT ![r] = consumed(r)]
  /\ at' = [at EXCEPT ![r] = "waiting"]
  /\ UNCHANGED <<token_ids, block_table, ref_count, free_block_ids, used_block_ids>>

PostFinish(r, t) ==
  /\ ~IsPartial(r) /\ Stops(r, t) /\ PostRow(r)
  /\ token_ids' = [token_ids EXCEPT ![r] = Append(@, t)]
  /\ num_cached_tokens' = [num_cached_tokens EXCEPT ![r] = 0]
  /\ at' = [at EXCEPT ![r] = "finished"]
  /\ deallocate(r)

PostContinue(r, t) ==
  /\ ~IsPartial(r) /\ ~Stops(r, t) /\ PostRow(r)
  /\ token_ids' = [token_ids EXCEPT ![r] = Append(@, t)]
  /\ num_cached_tokens' = [num_cached_tokens EXCEPT ![r] = consumed(r)]
  /\ at' = [at EXCEPT ![r] = "running"]
  /\ UNCHANGED <<block_table, ref_count, free_block_ids, used_block_ids>>

-----------------------------------------------------------------------------
(* generate() has returned.                                                *)
AllFinished == (\A r \in Requests : at[r] = "finished") /\ UNCHANGED vars

Next ==
  \/ \E r \in Requests :
       \/ Admit(r) \/ Continue(r) \/ Decode(r) \/ Preempt(r) \/ PostPartial(r)
       \/ \E t \in Tokens : PostFinish(r, t) \/ PostContinue(r, t)
  \/ Forward
  \/ AllFinished

Spec == Init /\ [][Next]_vars

-----------------------------------------------------------------------------
(* Properties.                                                             *)

(* Sharing is invisible: whatever was reused, evicted, replayed or shared, *)
(* every position a request counts as cached has a block in its table that *)
(* holds the KV of exactly this request's tokens up to there.              *)
CachedIsComputed ==
  \A r \in Requests : \A p \in 0..(num_cached_tokens[r] - 1) :
    /\ p \div BlockSize < Len(block_table[r])
    /\ kv[block_table[r][p \div BlockSize + 1]][p % BlockSize]
         = SubSeq(token_ids[r], 1, p + 1)

(* A block's reference count is the number of tables it is in, once each;  *)
(* the blocks of no table are in the free deque, once, and no other.       *)
RefCountsExact ==
  /\ Distinct(free_block_ids)
  /\ ToSet(free_block_ids) = Blocks \ used_block_ids
  /\ \A r \in Requests : Distinct(block_table[r])
  /\ \A b \in Blocks :
       /\ ref_count[b] = Cardinality({r \in Requests : b \in ToSet(block_table[r])})
       /\ b \in used_block_ids <=> ref_count[b] > 0

(* A dispatched row has at least one token to compute, though its prompt   *)
(* be in the cache as a whole, and a block for each of its tokens, as the  *)
(* deque cannot be popped when it is empty.  The blocks it writes to no    *)
(* other request has in its table.                                         *)
RowsOwnWhatTheyWrite ==
  \A r \in Requests : at[r] = "in_flight" =>
    /\ num_scheduled_tokens[r] > 0
    /\ consumed(r) <= num_tokens(r)
    /\ num_tokens(r) <= Len(block_table[r]) * BlockSize
    /\ \A p \in num_cached_tokens[r]..(consumed(r) - 1) :
         ref_count[block_table[r][p \div BlockSize + 1]] = 1
=============================================================================
