------------------------------- MODULE MCCore -------------------------------
(* RbTreeCore for model checking.                                           *)
EXTENDS RbTreeCore, TLC

\* State objects of the same kind are interchangeable.
Symmetry == Permutations(ReadLocks) \cup Permutations(WriteLocks)
=============================================================================
