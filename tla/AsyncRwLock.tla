---------------------------- MODULE AsyncRwLock ----------------------------
(***************************************************************************)
(* The `Future`-oriented lock: `AsyncRawIntervalRwLock` of raw/future.rs,  *)
(* with the futures and guards of hl/slice.rs that are its clients.  The   *)
(* core starts locking when the future is created; polling it looks up     *)
(* whether the lock is complete and, if not, leaves the waker of the task  *)
(* in the core.  Dropping the future before that gives up what is locked.  *)
(*                                                                         *)
(* Every method holds the mutex from its first core step to its last, so   *)
(* the mutex is taken exactly when `op` is not None or within one step.    *)
(* A future may be polled by one task now and by another one later; a task *)
(* awaits one future at a time.                                            *)
(***************************************************************************)
EXTENDS RbTreeCore

CONSTANT Tasks

ASSUME TaskAssumption == None \notin Tasks

VARIABLES
  future,  \* future[l]: what the client has got of the lock l
  waker,   \* waker[l]: the task that InProgress.waker of l wakes, or None
  poller,  \* poller[l]: the task that l's future last told to wait, or None
  woken    \* woken[t]: t is scheduled to be polled

asyncVars == <<vars, future, waker, poller, woken>>

\* "pending": a future that contains the guard; "ready": the guard itself.
FutureStates == {"none", "pending", "ready"}

AsyncTypeOK ==
  /\ TypeOK
  /\ future \in [Locks -> FutureStates]
  /\ waker \in [Locks -> Tasks \cup {None}]
  /\ poller \in [Locks -> Tasks \cup {None}]
  /\ woken \in [Tasks -> BOOLEAN]

AsyncInit ==
  /\ Init
  /\ future = [l \in Locks |-> "none"]
  /\ waker = [l \in Locks |-> None]
  /\ poller = [l \in Locks |-> None]
  /\ woken = [t \in Tasks |-> FALSE]

-----------------------------------------------------------------------------
\* async_read and async_write: start_lock_read or start_lock_write, with an
\* InProgress that has no waker yet.
StartLock(l, r, priority) ==
  /\ future[l] = "none"
  /\ lock_read(l, r, priority) \/ lock_write(l, r, priority)
  /\ future' = [future EXCEPT ![l] = "pending"]
  /\ waker' = [waker EXCEPT ![l] = None]
  /\ UNCHANGED <<poller, woken>>

\* Mutant of PollPending: set_waker keeps the waker of an earlier poll.
BugKeepOldWaker(l, t) ==
  /\ op = None
  /\ future[l] = "pending"
  /\ pending[l] # None
  /\ waker' = [waker EXCEPT ![l] = IF @ = None THEN t ELSE @]
  /\ poller' = [poller EXCEPT ![l] = t]
  /\ woken' = [woken EXCEPT ![t] = FALSE]
  /\ UNCHANGED <<vars, future>>

\* Future::poll of a lock that is in progress: set_waker.
PollPending(l, t) ==
  /\ op = None
  /\ future[l] = "pending"
  /\ pending[l] # None
  /\ waker' = [waker EXCEPT ![l] = t]
  /\ poller' = [poller EXCEPT ![l] = t]
  /\ woken' = [woken EXCEPT ![t] = FALSE]
  /\ UNCHANGED <<vars, future>>

\* Mutant of PollReady: a lock that has borrowed something is taken as complete.
BugPollReadyPartly(l, t) ==
  /\ op = None
  /\ future[l] = "pending"
  /\ borrow[l] # None
  /\ future' = [future EXCEPT ![l] = "ready"]
  /\ poller' = [poller EXCEPT ![l] = None]
  /\ woken' = [woken EXCEPT ![t] = FALSE]
  /\ UNCHANGED <<vars, waker>>

\* Future::poll of a lock that is complete: the guard leaves the future.
PollReady(l, t) ==
  /\ op = None
  /\ future[l] = "pending"
  /\ pending[l] = None
  /\ future' = [future EXCEPT ![l] = "ready"]
  /\ poller' = [poller EXCEPT ![l] = None]
  /\ woken' = [woken EXCEPT ![t] = FALSE]
  /\ UNCHANGED <<vars, waker>>

\* poll_lock_read and poll_lock_write, for a task that awaits no other future.
Poll(l, t) ==
  /\ l \in Blocking
  /\ \A k \in Locks \ {l} : poller[k] # t
  /\ PollPending(l, t) \/ PollReady(l, t)

\* try_lock_read and try_lock_write.
AsyncTryLock(l, r) ==
  /\ try_lock_read(l, r) \/ try_lock_write(l, r)
  /\ future' = [future EXCEPT ![l] = "ready"]
  /\ UNCHANGED <<waker, poller, woken>>

\* Dropping a future that has not resolved, or a guard: unlock_read or
\* unlock_write enters the core's loop, and the InProgress that a cancelled
\* lock leaves is dropped with its waker.
Drop(l) ==
  /\ future[l] # "none"
  /\ \/ unlock_read(l) \/ unlock_write(l)
     \/ unlock_try_read(l) \/ unlock_try_write(l)
  /\ future' = [future EXCEPT ![l] = "none"]
  /\ waker' = [waker EXCEPT ![l] = None]
  /\ poller' = [poller EXCEPT ![l] = None]
  /\ UNCHANGED woken

\* Mutant of WakeOwner: the waker is dropped without a call.
BugDropWaker(l) == waker' = [waker EXCEPT ![l] = None] /\ UNCHANGED woken

\* UnlockCallback::complete consumes the InProgress and wakes its waker.
WakeOwner(l) ==
  /\ woken' = [t \in Tasks |-> woken[t] \/ t = waker[l]]
  /\ waker' = [waker EXCEPT ![l] = None]

\* The unlock loop, under the mutex.
AsyncUnlockInner ==
  /\ \/ (Truncate \/ FinishUnlock) /\ UNCHANGED <<waker, woken>>
     \/ resume_borrow /\ client' = client /\ UNCHANGED <<waker, woken>>
     \/ resume_borrow /\ client' # client /\ WakeOwner(op.cur)
  /\ UNCHANGED <<future, poller>>

AsyncNext ==
  \/ \E l \in Locks, r \in Ranges, p \in Priorities : StartLock(l, r, p)
  \/ \E l \in Locks, r \in Ranges : AsyncTryLock(l, r)
  \/ \E l \in Locks, t \in Tasks : Poll(l, t)
  \/ \E l \in Locks : Drop(l)
  \/ AsyncUnlockInner

AsyncSpec == AsyncInit /\ [][AsyncNext]_asyncVars

\* The executor polls every task that has been woken, and an operation that
\* holds the mutex runs to its end.  Nobody has to drop anything.
FairAsyncSpec ==
  /\ AsyncSpec
  /\ WF_asyncVars(AsyncUnlockInner)
  /\ \A t \in Tasks :
       SF_asyncVars(woken[t] /\ \E l \in Blocking : poller[l] = t /\ Poll(l, t))

-----------------------------------------------------------------------------
(* Properties *)

\* No wakeup is lost: the task that a future last told to wait is scheduled as
\* soon as the lock is complete, also if another task polled the future first
\* or the lock completed between the creation of the future and its first poll.
NoLostWakeup ==
  \A l \in Locks :
    future[l] = "pending" /\ poller[l] # None /\ pending[l] = None => woken[poller[l]]

\* The lock wakes nobody but the task whose future has just been completed:
\* not a task that polled it earlier, and not one that has dropped it.
WakesOnlyPoller ==
  [][\A t \in Tasks :
       ~woken[t] /\ woken'[t]
         => \E l \in Locks : poller[l] = t /\ pending[l] # None /\ pending'[l] = None]_asyncVars

\* Guards that have left their futures do not let one task write what another
\* reads or writes, however many futures are dropped while they wait.
ReadyExclusive ==
  \A l, k \in Locks :
    Conflict(l, k) /\ future[l] = "ready" /\ future[k] = "ready"
      => client[l] = "granted" /\ ~Overlap(guard[l], guard[k])

\* A task that waits for a lock which becomes complete gets the guard, unless
\* the future is dropped.
CompletedResolves ==
  \A l \in Blocking :
    (poller[l] # None /\ pending[l] = None) ~> (future[l] # "pending")

-----------------------------------------------------------------------------
(* The inductive invariant behind the safety properties *)

\* What the client has got of l and what the core knows of it.
FutureMatches ==
  \A l \in Locks : /\ future[l] = "none" <=> client[l] = "idle"
                   /\ future[l] = "ready" => client[l] = "granted"
                   /\ poller[l] # None => future[l] = "pending"

\* A task awaits one future at a time.
OneAwait ==
  \A l, k \in Locks : l # k /\ poller[l] # None => poller[k] # poller[l]

\* The waker in the core is the one of the last poll.
WakerIsPoller ==
  \A l \in Locks : pending[l] # None => waker[l] = poller[l]

AsyncIInv == AsyncTypeOK /\ FutureMatches /\ OneAwait /\ WakerIsPoller /\ NoLostWakeup
=============================================================================
