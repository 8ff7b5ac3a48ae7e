----------------------------- MODULE MCFileSys -----------------------------
EXTENDS FileSys, TLC

Symmetry == Permutations(Names)
=============================================================================
