------------------------------- MODULE MCSync -------------------------------
(* SyncRwLock with one state object, or two, for every thread.             *)
EXTENDS SyncRwLock, TLC

\* Every state object has a thread of its own.
MCThreads == Locks
MCOwner   == [l \in Locks |-> l]

\* One thread reads blockingly and tries to write, the other the other way
\* around: either may try with one state object while the other one is locked.
SharedThreads == {"a", "b"}
SharedOwner   == [l \in Locks |-> IF l \in ReadLocks \cup TryWriteLocks THEN "a" ELSE "b"]

Symmetry == Permutations(ReadLocks) \cup Permutations(WriteLocks)
=============================================================================
