----------------------------- MODULE MCSyncLive -----------------------------
(***************************************************************************)
(* SyncRwLock under a finite workload: MaxCalls lock calls, each by a      *)
(* thread that holds no other lock, and every guard is dropped some time.  *)
(***************************************************************************)
EXTENDS SyncRwLock

CONSTANT MaxCalls

VARIABLE calls

MCThreads == Locks
MCOwner   == [l \in Locks |-> l]

LiveInit == SyncInit /\ calls = 0

LiveNext == \/ calls < MaxCalls /\ Request /\ calls' = calls + 1
            \/ Progress /\ UNCHANGED calls

LiveSpec == /\ LiveInit /\ [][LiveNext]_<<syncVars, calls>>
            /\ SyncFairness
            /\ \A l \in Locks : WF_syncVars(SyncUnlock(l))

\* Every thread that waits in lock_read or lock_write gets its lock: the chain
\* of borrows it waits for is undone link by link.
EveryWaiterGetsIn == \A l \in Locks : phase[l] = "check" ~> phase[l] = "in"
=============================================================================
