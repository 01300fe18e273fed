----------------------------- MODULE MCSettings -----------------------------
EXTENDS Settings, TLC
Alike == Permutations(Procs) \union Permutations(Tastes)
=============================================================================
