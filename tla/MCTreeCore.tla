----------------------------- MODULE MCTreeCore -----------------------------
(* TreeCore for model checking.                                             *)
EXTENDS TreeCore, TLC

\* State objects of the same kind are interchangeable: the trees compare
\* indices and priorities, never the nodes themselves.
Symmetry == Permutations(ReadLocks) \cup Permutations(WriteLocks)
              \cup Permutations(TryWriteLocks)
=============================================================================
