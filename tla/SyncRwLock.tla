----------------------------- MODULE SyncRwLock -----------------------------
(***************************************************************************)
(* The thread-safe, blocking lock: `SyncRawIntervalRwLock` of raw/sync.rs, *)
(* which protects the core of RbTreeCore by a mutex.  A thread whose lock  *)
(* cannot complete at once leaves the address of a flag on its stack and a *)
(* handle to itself in the core, and parks until another thread's unlock   *)
(* has set the flag.                                                       *)
(*                                                                         *)
(* Every method holds the mutex from its first core step to its last, so   *)
(* the mutex is taken exactly when `op` is not None or within one step.    *)
(* The flag is loaded and stored with Ordering::Relaxed.  What a thread    *)
(* may therefore fail to see is kept in the last four variables: the       *)
(* memory locations whose last write happens-before the thread's next      *)
(* step, respectively its acquisition of the mutex or of its park token.   *)
(***************************************************************************)
EXTENDS RbTreeCore

CONSTANTS
  Threads,
  Owner     \* Owner[l]: the thread that uses the state object l

ASSUME ThreadAssumption == Owner \in [Locks -> Threads] /\ None \notin Threads

Elements == 0..(N - 1)

VARIABLES
  phase,      \* phase[l]: where Owner[l] is in its use of l
  complete,   \* complete[l]: the flag InProgress.complete of l points to
  token,      \* token[t]: t's park token
  unparking,  \* the lock whose owner UnlockCallback has yet to unpark, or None
  seen,       \* seen[t]: the elements whose last write happens-before t
  mutexSeen,  \* ... happens-before the next acquisition of the mutex
  tokenSeen,  \* ... happens-before t's consumption of its token
  flagSeen    \* flagSeen[l]: who is ordered after the last write of complete[l]

memory   == <<seen, mutexSeen, tokenSeen, flagSeen>>
syncVars == <<vars, phase, complete, token, unparking, memory>>

\* "out": not locked; "check", "park": in the waiting loop of lock_read or
\* lock_write; "in": the lock method has returned and l's guard exists.
Phases == {"out", "check", "park", "in"}

SyncTypeOK ==
  /\ TypeOK
  /\ phase \in [Locks -> Phases]
  /\ complete \in [Locks -> BOOLEAN]
  /\ token \in [Threads -> BOOLEAN]
  /\ unparking \in Locks \cup {None}
  /\ seen \in [Threads -> SUBSET Elements]
  /\ mutexSeen \in SUBSET Elements
  /\ tokenSeen \in [Threads -> SUBSET Elements]
  /\ flagSeen \in [Locks -> {"nobody", "token", "owner"}]

SyncInit ==
  /\ Init
  /\ phase = [l \in Locks |-> "out"]
  /\ complete = [l \in Locks |-> FALSE]
  /\ token = [t \in Threads |-> FALSE]
  /\ unparking = None
  /\ seen = [t \in Threads |-> Elements]
  /\ mutexSeen = Elements
  /\ tokenSeen = [t \in Threads |-> {}]
  /\ flagSeen = [l \in Locks |-> "owner"]

-----------------------------------------------------------------------------
(* Memory *)

\* t acquires the mutex.
AcquireMutex(t) ==
  /\ seen' = [seen EXCEPT ![t] = @ \cup mutexSeen]
  /\ UNCHANGED <<mutexSeen, tokenSeen>>

\* Mutant of ReleaseMutex: releasing the mutex publishes nothing.
BugReleaseNothing(t) == UNCHANGED <<seen, mutexSeen, tokenSeen>>

\* t releases the mutex.
ReleaseMutex(t) ==
  /\ mutexSeen' = mutexSeen \cup seen[t]
  /\ UNCHANGED <<seen, tokenSeen>>

\* t acquires and releases the mutex.
PassMutex(t) ==
  /\ seen' = [seen EXCEPT ![t] = @ \cup mutexSeen]
  /\ mutexSeen' = mutexSeen \cup seen[t]
  /\ UNCHANGED tokenSeen

-----------------------------------------------------------------------------
(* Locking *)

\* t executes code of its own: it is in none of the methods of the lock.
Running(t) ==
  /\ op # None => Owner[op.lock] # t
  /\ \A l \in Locks : Owner[l] = t => phase[l] \notin {"check", "park"}

\* lock_read and lock_write, up to the release of the mutex.
SyncLock(l, r, priority) ==
  /\ Running(Owner[l])
  /\ phase[l] = "out"
  /\ lock_read(l, r, priority) \/ lock_write(l, r, priority)
  /\ complete' = [complete EXCEPT ![l] = FALSE]
  /\ phase' = [phase EXCEPT ![l] = IF client'[l] = "granted" THEN "in" ELSE "check"]
  /\ PassMutex(Owner[l])
  /\ flagSeen' = [flagSeen EXCEPT ![l] = "owner"]
  /\ UNCHANGED <<token, unparking>>

\* `while !complete.load(Relaxed)`: nothing makes the load return the latest
\* value unless its store happens-before the load.
CheckComplete(l) ==
  /\ phase[l] = "check"
  /\ \/ complete[l] /\ phase' = [phase EXCEPT ![l] = "in"]
     \/ /\ ~complete[l] \/ flagSeen[l] # "owner"
        /\ phase' = [phase EXCEPT ![l] = "park"]
  /\ UNCHANGED <<vars, complete, token, unparking, memory>>

\* Mutant of Park: the flag is not checked again after parking.
BugParkNoRecheck(l) ==
  /\ phase[l] = "park"
  /\ token[Owner[l]]
  /\ token' = [token EXCEPT ![Owner[l]] = FALSE]
  /\ phase' = [phase EXCEPT ![l] = "in"]
  /\ UNCHANGED <<vars, complete, unparking, memory>>

\* std::thread::park returns after consuming the token ...
Park(l) ==
  LET t == Owner[l]
  IN  /\ phase[l] = "park"
      /\ token[t]
      /\ token' = [token EXCEPT ![t] = FALSE]
      /\ seen' = [seen EXCEPT ![t] = @ \cup tokenSeen[t]]
      /\ tokenSeen' = [tokenSeen EXCEPT ![t] = {}]
      /\ flagSeen' = [flagSeen EXCEPT ![l] = IF @ = "token" THEN "owner" ELSE @]
      /\ phase' = [phase EXCEPT ![l] = "check"]
      /\ UNCHANGED <<vars, complete, unparking, mutexSeen>>

\* ... or for no reason at all.
SpuriousWakeup(l) ==
  /\ phase[l] = "park"
  /\ ~token[Owner[l]]
  /\ phase' = [phase EXCEPT ![l] = "check"]
  /\ UNCHANGED <<vars, complete, token, unparking, memory>>

\* try_lock_read and try_lock_write, returning true ...
SyncTryLock(l, r) ==
  /\ Running(Owner[l])
  /\ try_lock_read(l, r) \/ try_lock_write(l, r)
  /\ phase' = [phase EXCEPT ![l] = "in"]
  /\ PassMutex(Owner[l])
  /\ UNCHANGED <<complete, token, unparking, flagSeen>>

\* ... or false, which still orders t after earlier holders of the mutex.
SyncTryLockFails(l, r) ==
  /\ Running(Owner[l])
  /\ l \notin Blocking
  /\ MayLock(l, r)
  /\ FirstConflict(l, r) # None
  /\ PassMutex(Owner[l])
  /\ UNCHANGED <<vars, phase, complete, token, unparking, flagSeen>>

\* The holder of a writer's guard writes the elements it covers: whoever is not
\* ordered after this may miss it.
UseGuard(l) ==
  LET span == {i \in Elements : guard[l].start <= i /\ i < guard[l].end}
  IN  /\ Running(Owner[l])
      /\ l \in Writers
      /\ phase[l] = "in"
      /\ seen' = [t \in Threads |-> IF t = Owner[l] THEN seen[t] \cup span ELSE seen[t] \ span]
      /\ mutexSeen' = mutexSeen \ span
      /\ tokenSeen' = [t \in Threads |-> tokenSeen[t] \ span]
      /\ UNCHANGED <<vars, phase, complete, token, unparking, flagSeen>>

-----------------------------------------------------------------------------
(* Unlocking *)

\* Dropping the guard: unlock_read, unlock_write and the `try` variants, which
\* acquire the mutex and enter the core's loop.
SyncUnlock(l) ==
  /\ Running(Owner[l])
  /\ phase[l] = "in"
  /\ \/ unlock_read(l) \/ unlock_write(l)
     \/ unlock_try_read(l) \/ unlock_try_write(l)
  /\ phase' = [phase EXCEPT ![l] = "out"]
  /\ AcquireMutex(Owner[l])
  /\ UNCHANGED <<complete, token, unparking, flagSeen>>

\* The steps of the loop that call nobody back.
SyncUnlockInner ==
  /\ unparking = None
  /\ \/ Truncate /\ UNCHANGED memory
     \/ resume_borrow /\ client' = client /\ UNCHANGED memory
     \/ FinishUnlock /\ ReleaseMutex(Owner[op.lock]) /\ UNCHANGED flagSeen
  /\ UNCHANGED <<phase, complete, token, unparking>>

\* Mutant of StoreComplete: a waiter is reported complete when it moves on.
BugStoreEarly ==
  /\ unparking = None
  /\ resume_borrow
  /\ borrow' # borrow
  /\ complete' = [complete EXCEPT ![op.cur] = TRUE]
  /\ flagSeen' = [flagSeen EXCEPT ![op.cur] = "nobody"]
  /\ unparking' = op.cur
  /\ UNCHANGED <<phase, token, seen, mutexSeen, tokenSeen>>

\* UnlockCallback::complete sets the flag of the waiter ...
StoreComplete ==
  /\ unparking = None
  /\ resume_borrow
  /\ client' # client
  /\ complete' = [complete EXCEPT ![op.cur] = TRUE]
  /\ flagSeen' = [flagSeen EXCEPT ![op.cur] = "nobody"]
  /\ unparking' = op.cur
  /\ UNCHANGED <<phase, token, seen, mutexSeen, tokenSeen>>

\* Mutant of Unpark: the waiter is not unparked.
BugNoUnpark ==
  /\ unparking # None
  /\ unparking' = None
  /\ UNCHANGED <<vars, phase, complete, token, memory>>

\* ... and then unparks it.  The thread may have returned from its lock method
\* in between, and will find the token when it parks the next time.
Unpark ==
  LET t == Owner[unparking]
  IN  /\ unparking # None
      /\ token' = [token EXCEPT ![t] = TRUE]
      /\ tokenSeen' = [tokenSeen EXCEPT ![t] = @ \cup seen[Owner[op.lock]]]
      /\ flagSeen' = [flagSeen EXCEPT ![unparking] = "token"]
      /\ unparking' = None
      /\ UNCHANGED <<vars, phase, complete, seen, mutexSeen>>

-----------------------------------------------------------------------------
\* A thread asks for a lock ...
Request ==
  \/ \E l \in Locks, r \in Ranges, p \in Priorities : SyncLock(l, r, p)
  \/ \E l \in Locks, r \in Ranges : SyncTryLock(l, r) \/ SyncTryLockFails(l, r)

\* ... waits for it, has it, or gives it back.
Progress ==
  \/ \E l \in Locks : \/ CheckComplete(l) \/ Park(l) \/ SpuriousWakeup(l)
                      \/ UseGuard(l) \/ SyncUnlock(l)
  \/ SyncUnlockInner
  \/ StoreComplete
  \/ Unpark

SyncNext == Request \/ Progress

SyncSpec == SyncInit /\ [][SyncNext]_syncVars

\* The scheduler runs every thread that can run.  Nobody has to ask for a lock
\* or give one back.
SyncFairness ==
  /\ \A l \in Locks : WF_syncVars(CheckComplete(l)) /\ WF_syncVars(Park(l))
  /\ WF_syncVars(SyncUnlockInner \/ StoreComplete \/ Unpark)

FairSyncSpec == SyncSpec /\ SyncFairness

-----------------------------------------------------------------------------
(* Properties *)

\* A lock method returns only when the core has granted the lock: neither a
\* token left over from an earlier lock nor a spurious wakeup lets a thread
\* through, and dropping the guard never cancels a borrow in progress, which
\* unlock_read and unlock_write assert.
GuardIsGranted == \A l \in Locks : phase[l] = "in" => client[l] = "granted"

\* No two threads hold guards that let one of them write what the other reads
\* or writes.
GuardsExclusive ==
  \A l, k \in Locks :
    Conflict(l, k) /\ phase[l] = "in" /\ phase[k] = "in" => ~Overlap(guard[l], guard[k])

\* InProgress.complete points into the stack frame of the waiting thread: as
\* long as the core has the pointer, the thread is still in that frame.
FlagOutlivesBorrow ==
  \A l \in Locks : pending[l] # None => phase[l] \in {"check", "park"}

\* A parked thread whose flag is set has a token, or is about to get one: it
\* cannot have used up the unpark meant for this flag without noticing.
NoLostUnpark ==
  \A l \in Locks :
    phase[l] = "park" /\ complete[l] => token[Owner[l]] \/ unparking = l

\* Whoever got the lock at once, or noticed its completion through the park
\* token, comes after everybody who wrote these elements before.
OrderedAfterWriters ==
  \A l \in Locks :
    phase[l] = "in" /\ flagSeen[l] = "owner"
      => \A i \in Elements : Covers(guard[l], i) => i \in seen[Owner[l]]

\* The same of every guard.
GuardsSeeWrites ==
  \A l \in Locks :
    phase[l] = "in" => \A i \in Elements : Covers(guard[l], i) => i \in seen[Owner[l]]

\* A lock that has been granted is eventually returned to its client.
GrantedReturns == \A l \in Locks : client[l] = "granted" ~> phase[l] = "in"

-----------------------------------------------------------------------------
(* The inductive invariant behind the safety properties *)

Waiting(l) == phase[l] \in {"check", "park"}

\* A thread waits for one lock at a time, and not while it unlocks another.
OneAtATime ==
  \A l \in Locks : Waiting(l) =>
    /\ \A k \in Locks \ {l} : Waiting(k) => Owner[k] # Owner[l]
    /\ op # None => Owner[op.lock] # Owner[l]

\* What the thread knows of l and what the core knows of it.
PhaseMatches ==
  \A l \in Locks : /\ phase[l] = "out" <=> client[l] = "idle"
                   /\ phase[l] = "in" => client[l] = "granted"
                   /\ Waiting(l) => (complete[l] <=> client[l] = "granted")

\* Where the notification of a completed lock is on its way to the waiter: not
\* yet sent, in the token, or received and about to be found in the flag.
NotificationSomewhere ==
  /\ \A l \in Locks : Waiting(l) /\ complete[l] =>
       \/ unparking = l
       \/ flagSeen[l] = "token" /\ token[Owner[l]]
       \/ flagSeen[l] = "owner" /\ phase[l] = "check"
  /\ unparking # None => op # None

\* Where the writes of an element are on their way to its next holder: with who
\* holds it for writing, otherwise with the mutex or who has the mutex.
WritesWithMutex ==
  \A i \in Elements :
    \/ IF op = None THEN i \in mutexSeen ELSE i \in seen[Owner[op.lock]]
    \/ \E k \in Writers : /\ phase[k] = "in" /\ Covers(guard[k], i)
                          /\ i \in seen[Owner[k]]

\* The same once the lock has been granted to a thread that still waits.
WritesWithWaiter ==
  /\ \A l \in Locks : Waiting(l) /\ complete[l] =>
       \A i \in Elements : Covers(guard[l], i) =>
         /\ flagSeen[l] = "nobody" => op # None /\ i \in seen[Owner[op.lock]]
         /\ flagSeen[l] = "token" => i \in tokenSeen[Owner[l]]
         /\ flagSeen[l] = "owner" => i \in seen[Owner[l]]
  /\ unparking # None => flagSeen[unparking] = "nobody"

MemoryIInv == WritesWithMutex /\ WritesWithWaiter /\ OrderedAfterWriters

SyncIInv == SyncTypeOK /\ OneAtATime /\ PhaseMatches /\ NotificationSomewhere
=============================================================================
