-------------------------- MODULE MCProviderSessions --------------------------
EXTENDS ProviderSessions, TLC

Symmetry == Permutations(Threads)
=============================================================================
