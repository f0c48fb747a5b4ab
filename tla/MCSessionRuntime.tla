--------------------------- MODULE MCSessionRuntime --------------------------
EXTENDS SessionRuntime, TLC

CONSTANTS c1, c2, b1, b2

Symmetry == Permutations({c1, c2}) \cup Permutations({b1, b2})
=============================================================================
