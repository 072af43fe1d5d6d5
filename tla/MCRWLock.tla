------------------------------ MODULE MCRWLock ------------------------------
(***************************************************************************)
(* RWLock for TLC: the vthreads are interchangeable.                       *)
(***************************************************************************)
EXTENDS RWLock, TLC

Symmetry == Permutations(VThreads)

=============================================================================
