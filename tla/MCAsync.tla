------------------------------ MODULE MCAsync ------------------------------
(* AsyncRwLock with two tasks.                                             *)
EXTENDS AsyncRwLock, TLC

Symmetry == Permutations(ReadLocks) \cup Permutations(WriteLocks) \cup Permutations(Tasks)
=============================================================================
