----------------------------- MODULE MCHandoff -----------------------------
EXTENDS Handoff

CONSTANTS p1, c1, c2, k1, x1

ReadersSymmetry == Permutations(Consumers)
=============================================================================
