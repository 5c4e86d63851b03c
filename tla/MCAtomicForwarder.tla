-------------------------- MODULE MCAtomicForwarder --------------------------
EXTENDS AtomicForwarder, TLC

CONSTANTS c1, c2, tp1, tp2

Symmetry == Permutations({c1, c2}) \cup Permutations({tp1, tp2})
NoFirstOffset == None
=============================================================================
