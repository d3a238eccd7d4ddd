------------------------------ MODULE ChunkScan -----------------------------
(***************************************************************************)
(* The chunked prefill kernels of layers/fla: each operator is what one    *)
(* program of a kernel's grid computes, or what a launch stores.           *)
(*                                                                         *)
(* x is the packed batch of projected tokens and lens the lengths of its   *)
(* sequences (cu_seqlens).  A program is a pair <<n, t>>: chunk t of       *)
(* sequence n.  Indices are one-based here; BC is 16 in the code and a     *)
(* chunk has four sub-chunks of BC rows.  Splitting K into tiles and the   *)
(* heads, which never meet, are left out.                                  *)
(***************************************************************************)
EXTENDS DeltaRule

CONSTANT BC

ASSUME ChunkAssumption == BC \in {1, 2, 4, 8, 16}   \* CHUNK_SIZE is a power of two

CHUNK_SIZE == 4 * BC

least(a, b) == IF a <= b THEN a ELSE b
cdiv(a, b) == (a + b - 1) \div b
next_power_of_2(n) == CHOOSE p \in {2 ^ e : e \in 0..12} :
                        p >= n /\ (p = 1 \/ p \div 2 < n)

bos(lens, n) == IntSum(n - 1, LAMBDA i : lens[i])
Total(lens) == bos(lens, Len(lens) + 1)

prepare_chunk_indices(lens) ==
  FoldLeft(LAMBDA acc, n : acc \o Vec(cdiv(lens[n], CHUNK_SIZE), LAMBDA t : <<n, t>>),
           <<>>, Vec(Len(lens), LAMBDA n : n))

(* Where the chunks of sequence n start among all chunks.                  *)
prepare_chunk_offsets(lens, n) == IntSum(n - 1, LAMBDA i : cdiv(lens[i], CHUNK_SIZE))

-----------------------------------------------------------------------------
(* Block pointers with a boundary check: rows beyond the sequence load as  *)
(* zero and are not stored.                                                *)

Inside(lens, n, t, B, i) == (t - 1) * B + i <= lens[n]

Tile(X, lens, n, t, B, zero) ==
  Vec(B, LAMBDA i : IF Inside(lens, n, t, B, i)
                    THEN X[bos(lens, n) + (t - 1) * B + i] ELSE zero)

(* The tensor a launch leaves behind: the token at j gets its row of the   *)
(* tile of the program that covers it.  What no program covers stays zero  *)
(* (in a tensor that was not cleared, undefined: Launch covers every row). *)
Stored(lens, programs, tiles, B, zero) ==
  Vec(Total(lens), LAMBDA j :
    LET covers(c) ==
          LET n == programs[c][1]
              first == bos(lens, n) + (programs[c][2] - 1) * B
          IN  first < j /\ j <= first + B /\ j <= bos(lens, n) + lens[n]
    IN  IF \E c \in DOMAIN programs : covers(c)
        THEN LET c == CHOOSE c \in DOMAIN programs : covers(c)
             IN  tiles[c][j - bos(lens, programs[c][1]) - (programs[c][2] - 1) * B]
        ELSE zero)

Launch(lens, program(_,_), zero) ==
  LET programs == prepare_chunk_indices(lens)
      tiles == Vec(Len(programs), LAMBDA c : program(programs[c][1], programs[c][2]))
  IN  Stored(lens, programs, tiles, CHUNK_SIZE, zero)

-----------------------------------------------------------------------------
(* Kernel 1: gates become their cumulative sums within each chunk.         *)

(* Mutant: the sum runs on from the start of the sequence.                 *)
Global_chunk_local_cumsum(x, lens) ==
  Vec(Len(x), LAMBDA j :
    LET n == CHOOSE n \in DOMAIN lens : bos(lens, n) < j /\ j <= bos(lens, n) + lens[n]
    IN  IntSum(j - bos(lens, n), LAMBDA i : x[bos(lens, n) + i].g))

chunk_local_cumsum(x, lens) ==
  LET program(n, t) ==
        LET b_s == Tile(x, lens, n, t, CHUNK_SIZE, Padding)
            upto[i \in 0..CHUNK_SIZE] == IF i = 0 THEN 0 ELSE upto[i - 1] + b_s[i].g
        IN  Vec(CHUNK_SIZE, LAMBDA i : upto[i])
  IN  Launch(lens, program, 0)

-----------------------------------------------------------------------------
(* Kernel 2: A becomes (I + beta K K^T)^(-1) of each chunk.                *)

SubChunk(i) == (i - 1) \div BC      \* 0..3

(* Steps 1 and 2: the gated, scaled products.  The blocks on the diagonal  *)
(* are masked, the blocks below it rely on padding keys being zero.        *)
kkt(x, g, lens, n, t) ==
  LET b_x == Tile(x, lens, n, t, CHUNK_SIZE, Padding)
      b_g == Tile(g, lens, n, t, CHUNK_SIZE, 0)
      m(i) == Inside(lens, n, t, CHUNK_SIZE, i)
      kept(i, j) == \/ SubChunk(i) > SubChunk(j)
                    \/ SubChunk(i) = SubChunk(j) /\ i > j /\ m(i) /\ m(j)
  IN  Mat(CHUNK_SIZE, CHUNK_SIZE, LAMBDA i, j :
        IF kept(i, j)
        THEN (Dot(b_x[i].k, b_x[j].k) * safe_exp(b_g[i] - b_g[j]) * b_x[i].beta) % P
        ELSE 0)

Block(A, r, c) == Mat(BC, BC, LAMBDA i, j : A[r * BC + i][c * BC + j])

(* Step 3: forward substitution, row by row from the third, of the rows    *)
(* that are inside the sequence.                                           *)
(* Mutant: the last row of the block is left out.                          *)
Short_forward_substitution(A, rows) ==
  LET substitute(Ai, i) ==
        [Ai EXCEPT ![i] = Vec(BC, LAMBDA c :
           (LET a(j) == IF j < i THEN -A[i][j] ELSE 0
            IN  a(c) + Sum(BC, LAMBDA j : a(j) * Ai[j][c])) % P)]
      I == Mat(BC, BC, LAMBDA i, j : IF i = j THEN 1 ELSE 0)
      todo == SubSeq(Vec(BC, LAMBDA i : i), 3, least(BC, rows) - 1)
  IN  MatAdd(FoldLeft(substitute, Neg(A), todo), I)

forward_substitution(A, rows) ==
  LET substitute(Ai, i) ==
        [Ai EXCEPT ![i] = Vec(BC, LAMBDA c :
           (LET a(j) == IF j < i THEN -A[i][j] ELSE 0
            IN  a(c) + Sum(BC, LAMBDA j : a(j) * Ai[j][c])) % P)]
      I == Mat(BC, BC, LAMBDA i, j : IF i = j THEN 1 ELSE 0)
      todo == SubSeq(Vec(BC, LAMBDA i : i), 3, least(BC, rows))
  IN  MatAdd(FoldLeft(substitute, Neg(A), todo), I)

(* Step 4: the blocks below the diagonal, those next to it first.          *)
merge(A, D) ==
  LET B(r, c) == Block(A, r, c)
      Ai10 == Neg(MatMul(MatMul(D[2], B(1, 0)), D[1]))
      Ai21 == Neg(MatMul(MatMul(D[3], B(2, 1)), D[2]))
      Ai32 == Neg(MatMul(MatMul(D[4], B(3, 2)), D[3]))
      Ai20 == Neg(MatMul(D[3], MatAdd(MatMul(B(2, 0), D[1]), MatMul(B(2, 1), Ai10))))
      Ai31 == Neg(MatMul(D[4], MatAdd(MatMul(B(3, 1), D[2]), MatMul(B(3, 2), Ai21))))
      Ai30 == Neg(MatMul(D[4], MatAdd(MatAdd(MatMul(B(3, 0), D[1]), MatMul(B(3, 1), Ai10)),
                                      MatMul(B(3, 2), Ai20))))
      Zero == Mat(BC, BC, LAMBDA i, j : 0)
  IN  << <<D[1], Zero, Zero, Zero>>,
         <<Ai10, D[2], Zero, Zero>>,
         <<Ai20, Ai21, D[3], Zero>>,
         <<Ai30, Ai31, Ai32, D[4]>> >>

(* Step 5: the store, in the dtype of k.                                   *)
kkt_solve(x, g, lens) ==
  LET program(n, t) ==
        LET A == kkt(x, g, lens, n, t)
            D == Vec(4, LAMBDA r : forward_substitution(Block(A, r - 1, r - 1),
                       lens[n] - (t - 1) * CHUNK_SIZE - (r - 1) * BC))
            blocks == merge(A, D)
        IN  Mat(CHUNK_SIZE, CHUNK_SIZE, LAMBDA i, j :
              ToKey(blocks[SubChunk(i) + 1][SubChunk(j) + 1]
                          [i - SubChunk(i) * BC][j - SubChunk(j) * BC]))
  IN  Launch(lens, program, ZeroVec(CHUNK_SIZE))

-----------------------------------------------------------------------------
(* Kernel 3: w and u, the keys and values with the earlier writes of the   *)
(* chunk taken out.                                                        *)

recompute_w(x, g, A, lens) ==
  LET program(n, t) ==
        LET b_x == Tile(x, lens, n, t, CHUNK_SIZE, Padding)
            b_g == Tile(g, lens, n, t, CHUNK_SIZE, 0)
            b_kb == Mat(CHUNK_SIZE, KDim, LAMBDA i, k :
                      ToKey((b_x[i].k[k] * b_x[i].beta * exp(b_g[i])) % P))
        IN  MapMat(ToKey, MatMul(Tile(A, lens, n, t, CHUNK_SIZE, ZeroVec(CHUNK_SIZE)), b_kb))
  IN  Launch(lens, program, ZeroVec(KDim))

recompute_u(x, A, lens) ==
  LET program(n, t) ==
        LET b_x == Tile(x, lens, n, t, CHUNK_SIZE, Padding)
            b_vb == Mat(CHUNK_SIZE, VDim, LAMBDA i, v : ToKey((b_x[i].v[v] * b_x[i].beta) % P))
        IN  MapMat(ToKey, MatMul(Tile(A, lens, n, t, CHUNK_SIZE, ZeroVec(CHUNK_SIZE)), b_vb))
  IN  Launch(lens, program, ZeroVec(VDim))

-----------------------------------------------------------------------------
(* Kernel 4: one chunk of the recurrence over chunks, on the register      *)
(* state S.  It yields the chunk's new values and the next state, rounded  *)
(* to the pool's dtype when round_state_each_chunk is set.                 *)

NewValues(S, w, u, lens, n, t) ==
  LET b_w == Tile(w, lens, n, t, CHUNK_SIZE, ZeroVec(KDim))
      b_u == Tile(u, lens, n, t, CHUNK_SIZE, ZeroVec(VDim))
  IN  Mat(CHUNK_SIZE, VDim, LAMBDA i, v :
        (b_u[i][v] - Sum(KDim, LAMBDA k : b_w[i][k] * ToKey(S[v][k]))) % P)

(* Mutant: the gate of the last row of the tile, inside or not.            *)
Unclipped_last_idx(lens, n, t) ==
  bos(lens, n) + least(t * CHUNK_SIZE, Total(lens) - bos(lens, n))

last_idx(lens, n, t) == bos(lens, n) + least(t * CHUNK_SIZE, lens[n])

(* Mutant: the persisted state alone is rounded.                           *)
Late_RoundedState(S, round_state_each_chunk) == S

RoundedState(S, round_state_each_chunk) ==
  IF round_state_each_chunk THEN MapMat(ToPool, S) ELSE S

NextState(S, b_v, x, g, lens, n, t, round_state_each_chunk) ==
  LET b_x == Tile(x, lens, n, t, CHUNK_SIZE, Padding)
      b_g == Tile(g, lens, n, t, CHUNK_SIZE, 0)
      g_last == g[last_idx(lens, n, t)]
      decayed == Mat(CHUNK_SIZE, VDim, LAMBDA i, v :
                   ToKey((b_v[i][v] * safe_exp(g_last - b_g[i])) % P))
  IN  RoundedState(
        Mat(VDim, KDim, LAMBDA v, k :
          (S[v][k] * exp(g_last) + Sum(CHUNK_SIZE, LAMBDA i : b_x[i].k[k] * decayed[i][v])) % P),
        round_state_each_chunk)

-----------------------------------------------------------------------------
(* Kernel 5: the outputs, from the state entering the chunk and the new    *)
(* values inside it.  Its tile may be smaller than a chunk when the whole  *)
(* batch is.                                                               *)

(* Mutant: a token does not see its own write.                             *)
Strict_Sees(i, j) == i > j

Sees(i, j) == i >= j

(* Mutant: the tile is made for the first sequence.                        *)
FirstOnly_OutputTile(lens) == least(CHUNK_SIZE, LET p == next_power_of_2(lens[1])
                                                IN  IF p < BC THEN BC ELSE p)

OutputTile(lens) == least(CHUNK_SIZE, LET p == next_power_of_2(Total(lens))
                                      IN  IF p < BC THEN BC ELSE p)

chunk_fwd_o(x, g, h, v_new, lens) ==
  LET BT == OutputTile(lens)
      programs == prepare_chunk_indices(lens)
      program(c) ==
        LET n == programs[c][1]
            t == programs[c][2]
            b_x == Tile(x, lens, n, t, BT, Padding)
            b_g == Tile(g, lens, n, t, BT, 0)
            b_v == Tile(v_new, lens, n, t, BT, ZeroVec(VDim))
            b_A == Mat(BT, BT, LAMBDA i, j :
                     IF Sees(i, j)
                     THEN ToKey((Dot(b_x[i].q, b_x[j].k) * safe_exp(b_g[i] - b_g[j])) % P)
                     ELSE 0)
        IN  Mat(BT, VDim, LAMBDA i, v :
              ToKey((Scale * (Dot(b_x[i].q, h[c][v]) * exp(b_g[i])
                              + Sum(BT, LAMBDA j : b_A[i][j] * b_v[j][v]))) % P))
  IN  Stored(lens, programs, Vec(Len(programs), program), BT, ZeroVec(VDim))
=============================================================================
