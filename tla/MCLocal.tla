------------------------------ MODULE MCLocal ------------------------------
(* LocalRwLock for model checking.                                          *)
EXTENDS LocalRwLock, TLC

\* State objects of the same kind are interchangeable.
Symmetry == Permutations(TryReadLocks) \cup Permutations(TryWriteLocks)
=============================================================================
