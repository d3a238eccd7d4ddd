------------------------------ MODULE DeltaRule -----------------------------
(***************************************************************************)
(* The gated delta rule, token by token: what a GatedDeltaNet layer        *)
(* promises about one head of one request.  Numbers are residues modulo a  *)
(* prime, so that "equal" means equal; log-space gates are integers <= 0.  *)
(*                                                                         *)
(* A token is what the layer sees of it: its hidden state.  The causal     *)
(* convolution looks at a window of ConvKernel tokens; Query, Key and      *)
(* Value are its silu-ed, split and normalised output for a window.  The   *)
(* gates G and Beta depend on the token alone.                             *)
(***************************************************************************)
EXTENDS Integers, Sequences, SequencesExt

CONSTANTS
  P,            \* the prime
  DecayRoot,    \* exp(-1)
  KDim, VDim,   \* head_k_dim, head_v_dim
  ConvKernel,   \* conv_kernel_size
  Scale,        \* the attention scale
  Query(_), Key(_), Value(_),  \* of a window
  G(_), Beta(_),               \* of a token
  ToPool(_),    \* cast to the dtype of the recurrent state pool
  ToKey(_)      \* cast to the dtype of q, k and v

ASSUME DeltaRuleAssumption ==
  /\ P \in Nat /\ P > 2 /\ \A d \in 2..(P - 1) : P % d # 0
  /\ DecayRoot \in 1..(P - 1)
  /\ {KDim, VDim} \subseteq Nat \ {0}
  /\ ConvKernel \in Nat /\ ConvKernel >= 2
  /\ \A x \in 0..(P - 1) : /\ ToPool(ToPool(x)) = ToPool(x)
                           /\ ToKey(ToKey(x)) = ToKey(x)

Number == 0..(P - 1)
NoInput == 0    \* the zero a cleared convolution state holds

-----------------------------------------------------------------------------
(* A tensor is a sequence, a matrix a sequence of rows.  SubSeq turns the  *)
(* function into a tuple, whose elements are computed once.                *)

Vec(n, f(_)) == SubSeq([i \in 1..n |-> f(i)], 1, n)
Mat(m, n, f(_,_)) == Vec(m, LAMBDA i : Vec(n, LAMBDA j : f(i, j)))

IntSum(n, f(_)) ==
  LET upto[i \in 0..n] == IF i = 0 THEN 0 ELSE upto[i - 1] + f(i)
  IN  upto[n]

Sum(n, f(_)) == IntSum(n, f) % P

Dot(x, y) == Sum(Len(x), LAMBDA i : x[i] * y[i])
MatMul(X, Y) == Mat(Len(X), Len(Y[1]), LAMBDA i, j : Sum(Len(Y), LAMBDA l : X[i][l] * Y[l][j]))
MatAdd(X, Y) == Mat(Len(X), Len(X[1]), LAMBDA i, j : (X[i][j] + Y[i][j]) % P)
Neg(X) == Mat(Len(X), Len(X[1]), LAMBDA i, j : (-X[i][j]) % P)
MapMat(f(_), X) == Mat(Len(X), Len(X[1]), LAMBDA i, j : f(X[i][j]))
ZeroVec(n) == Vec(n, LAMBDA i : 0)
ZeroState == Mat(VDim, KDim, LAMBDA v, k : 0)

(* exp(n): by Fermat the exponent counts modulo P - 1.                     *)
exp(n) == (DecayRoot ^ ((-n) % (P - 1))) % P

safe_exp(n) == IF n <= 0 THEN exp(n) ELSE 0

-----------------------------------------------------------------------------
(* A projected token, and the padding a load out of bounds returns.        *)
Project(window) ==
  LET x == Last(window) IN
  [q |-> Query(window), k |-> Key(window), v |-> Value(window), g |-> G(x), beta |-> Beta(x)]

Padding == [q |-> ZeroVec(KDim), k |-> ZeroVec(KDim), v |-> ZeroVec(VDim), g |-> 0, beta |-> 0]

(* The decode kernel: one token on one state.  Its arithmetic is float32;  *)
(* the state is stored in the pool and the output in the dtype of q.       *)
decode_gated_delta_rule(S, x) ==
  LET decayed == MapMat(LAMBDA s : (s * exp(x.g)) % P, S)
      delta == Vec(VDim, LAMBDA v : (x.beta * (x.v[v] - Dot(decayed[v], x.k))) % P)
      next == Mat(VDim, KDim, LAMBDA v, k : (decayed[v][k] + delta[v] * x.k[k]) % P)
  IN [state |-> MapMat(ToPool, next),
      out |-> Vec(VDim, LAMBDA v : ToKey((Scale * Dot(next[v], x.q)) % P))]

(* The states and outputs of a sequence of projected tokens, from S.       *)
Recurrence(S, xs) ==
  FoldLeft(LAMBDA acc, x : LET r == decode_gated_delta_rule(acc.state, x)
                           IN  [state |-> r.state, out |-> Append(acc.out, r.out)],
           [state |-> S, out |-> <<>>], xs)

(* The windows of a text read from a cleared convolution state.            *)
Cleared == Vec(ConvKernel - 1, LAMBDA i : NoInput)
Projected(tokens) ==
  LET all == Cleared \o tokens
  IN  Vec(Len(tokens), LAMBDA i : Project(SubSeq(all, i, i + ConvKernel - 1)))

(* What a request that has been fed these tokens must have in its slot.    *)
ExpectedState(tokens) == Recurrence(ZeroState, Projected(tokens)).state
ExpectedOutputs(tokens) == Recurrence(ZeroState, Projected(tokens)).out
ExpectedConv(tokens) ==
  LET all == Cleared \o tokens
  IN  SubSeq(all, Len(all) - ConvKernel + 2, Len(all))
=============================================================================
