----------------------------- MODULE MCHistory ------------------------------
EXTENDS History, TLC

CONSTANTS i1, i2

MCKinds == <<"fills", "closed">>
Symmetry == Permutations(Insts)
=============================================================================
