-------------------------------- MODULE MCGc --------------------------------
EXTENDS Gc, TLC

MCReuseAges == {-1, 0, 1}
Symmetry == Permutations(Ids) \cup Permutations(Writers)
=============================================================================
