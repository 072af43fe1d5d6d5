---------------------------- MODULE MCMutexCond ----------------------------
(***************************************************************************)
(* MutexCond for TLC: the vthreads are interchangeable, and so are the     *)
(* workers and the raw threads.                                            *)
(***************************************************************************)
EXTENDS MutexCond, TLC

Symmetry ==
  Permutations(VThreads) \cup Permutations(Workers) \cup Permutations(RawThreads)

=============================================================================
