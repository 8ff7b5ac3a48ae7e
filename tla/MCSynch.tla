------------------------------ MODULE MCSynch ------------------------------
(* Synch for TLC.                                                          *)
EXTENDS Synch, TLC

Symmetry == Permutations(Threads)
=============================================================================
