----------------------------- MODULE MCSession -----------------------------
EXTENDS Session, TLC
Alike == Permutations(Keys) \union Permutations(Prints) \union Permutations(Execs)
=============================================================================
