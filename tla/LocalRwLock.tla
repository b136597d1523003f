---------------------------- MODULE LocalRwLock ----------------------------
(***************************************************************************)
(* The single-threaded lock, `LocalRawIntervalRwLock` of raw/local.rs: the *)
(* core in a PinCell, used through its fallible methods only.  A blocking  *)
(* method that cannot have its lock at once could never get it, because    *)
(* the only thread there is would be waiting: it panics ("deadlocked").    *)
(* The panic leaves the PinCell unborrowed, and the lock can still be      *)
(* used.                                                                   *)
(*                                                                         *)
(* No callback runs a client inside a method (the callbacks are `()`), so  *)
(* the only re-entrant calls are those of an Index that calls back while   *)
(* it is compared; those panic before they touch the core.                 *)
(***************************************************************************)
EXTENDS RbTreeCore

\* InProgress = !: nothing can be pending, so only the Try kinds of state
\* object are used, by the blocking methods, too.
ASSUME LocalAssumption == Blocking = {}

VARIABLE refused   \* the request the last call turned down and how, or None

lvars == <<vars, refused>>

LocalInit == Init /\ refused = None

\* try_lock_read, try_lock_write, and lock_read and lock_write with the same
\* state objects: the core has the lock at once.
LocalLock(l, r) ==
  /\ TryLock(l, r)
  /\ refused' = None

\* The call passes the assertion on its range.  Whether l is in use is looked at
\* only where there is no conflict.
MayRefuse(l, r) == op = None /\ (DebugAssertions \/ l \in Writers => r.start < r.end)

\* Mutant of Refuse: a lock that ends where the range begins is in the way.
BugRefuseTouching(l, r, how) ==
  /\ MayRefuse(l, r)
  /\ \E k \in Locks \ {l} : /\ l \in Writers \/ k \in Writers
                            /\ borrow[k] # None
                            /\ borrow[k].start < r.end /\ r.start <= borrow[k].end
  /\ refused' = [lock |-> l, range |-> r, how |-> how]
  /\ UNCHANGED vars

\* The core has not: the fallible methods return false, the blocking ones panic.
\* If l is in use, the conflict may be with what l itself has locked.
Refuse(l, r, how) ==
  /\ MayRefuse(l, r)
  /\ FirstConflict(l, r) # None
  /\ refused' = [lock |-> l, range |-> r, how |-> how]
  /\ UNCHANGED vars

LocalUnlock(l) ==
  /\ Unlock(l)
  /\ refused' = None

\* The unlock loop has nobody to resume.
LocalFinish ==
  /\ FinishUnlock
  /\ refused' = None

LocalNext ==
  \/ \E l \in Locks, r \in Ranges :
       LocalLock(l, r) \/ Refuse(l, r, "WouldBlock") \/ Refuse(l, r, "deadlocked")
  \/ \E l \in Locks : LocalUnlock(l)
  \/ LocalFinish

LocalSpec == LocalInit /\ [][LocalNext]_lvars

-----------------------------------------------------------------------------
(* Properties *)

\* A call is turned down only on account of a conflicting lock that the caller
\* holds completely, so that waiting would really never end: the "deadlocked"
\* panic is never raised for a free range or because of a lock that is itself
\* waiting.
RefusedForHeldLock ==
  refused # None =>
    \E k \in Locks : /\ refused.lock \in Writers \/ k \in Writers
                     /\ client[k] = "granted"
                     /\ Overlap(guard[k], refused.range)
=============================================================================
