------------------------- MODULE MCConcurrentBitset -------------------------
(* Model-checking instance of ConcurrentBitset: the threads are model      *)
(* values given in each .cfg, the remaining constants are ordinary values. *)
EXTENDS ConcurrentBitset, TLC

MCThreadSymmetry == Permutations(Threads)
=============================================================================
