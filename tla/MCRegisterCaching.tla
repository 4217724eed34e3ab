-------------------------- MODULE MCRegisterCaching --------------------------
EXTENDS RegisterCaching, TLC

Symmetry == Permutations(Threads)
==============================================================================
