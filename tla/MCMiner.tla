------------------------------ MODULE MCMiner ------------------------------
EXTENDS Miner, TLC

CONSTANTS c1, c2, c3, l1, l2

MCCallers == {c1, c2, c3}

MCLoops == {l1, l2}

MCSymmetry == Permutations(MCCallers) \cup Permutations(MCLoops)
=============================================================================
