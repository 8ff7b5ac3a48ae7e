----------------------------- MODULE MCTSQueue -----------------------------
(* TSQueue with any number of calls per thread.                            *)
EXTENDS TSQueue, TLC

Symmetry == Permutations(Enqueuers) \cup Permutations(Dequeuers)
=============================================================================
