----------------------------- MODULE MCSecrets -----------------------------
EXTENDS Secrets, TLC
Alike == Permutations(Requests)
=============================================================================
