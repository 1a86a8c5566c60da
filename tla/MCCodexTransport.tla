-------------------------- MODULE MCCodexTransport --------------------------
EXTENDS CodexTransport, TLC
Symmetry == Permutations(Calls)
=============================================================================
