---------------------------- MODULE ClientProofs ----------------------------
(***************************************************************************)
(* Proofs about the clients of the core: SyncRwLock, AsyncRwLock and       *)
(* SliceLock.  A client takes only steps of the core, so what              *)
(* RbTreeCoreProofs shows of the core holds of it; each part adds what     *)
(* relates the client's own state to the core's.  The parts are            *)
(* independent of each other.  (LocalProofs has the fourth client, whose   *)
(* assumption that nobody waits is not to be made here.)                   *)
(***************************************************************************)
EXTENDS SyncRwLock, AsyncRwLock, SliceLock, RbTreeCoreProofs

-----------------------------------------------------------------------------
(***************************************************************************)
(* The blocking lock: SyncIInv relates what the threads know to what the   *)
(* core knows, MemoryIInv what they have written to what they must see.    *)
(***************************************************************************)

\* A step of a thread is a step of the core or leaves the core alone.
LEMMA SyncStep == ASSUME [SyncNext]_syncVars PROVE [Next]_vars
<1>1. CASE Request
  BY <1>1 DEF Request, SyncLock, SyncTryLock, SyncTryLockFails, Next
<1>2. CASE Progress
  <2>1. ASSUME NEW l \in Locks, CheckComplete(l) \/ Park(l) \/ SpuriousWakeup(l) \/ UseGuard(l)
        PROVE  UNCHANGED vars
    BY <2>1 DEF CheckComplete, Park, SpuriousWakeup, UseGuard
  <2>2. ASSUME NEW l \in Locks, SyncUnlock(l)
        PROVE  Next
    BY <2>2 DEF SyncUnlock, Next
  <2>3. SyncUnlockInner \/ StoreComplete => Next
    BY DEF SyncUnlockInner, StoreComplete, Next, unlock_inner
  <2>4. Unpark => UNCHANGED vars
    BY DEF Unpark
  <2>. QED BY <1>2, <2>1, <2>2, <2>3, <2>4 DEF Progress
<1>3. CASE UNCHANGED syncVars
  BY <1>3 DEF syncVars
<1>. QED BY <1>1, <1>2, <1>3 DEF SyncNext

\* The mutex, the flags and the park tokens add no behaviour to the core.
THEOREM SyncImplementsCore == SyncSpec => Spec
<1>1. SyncInit => Init
  BY DEF SyncInit
<1>2. [SyncNext]_syncVars => [Next]_vars
  BY SyncStep
<1>. QED BY <1>1, <1>2, PTL DEF SyncSpec, Spec

\* The core's invariant holds under the mutex.
LEMMA SyncCoreInvariance == ASSUME DebugAssertions PROVE SyncSpec => []IInv
BY SyncImplementsCore, Invariance, PTL

-----------------------------------------------------------------------------
\* No thread waits at first.
LEMMA SyncInitIInv == SyncInit => SyncIInv
<1>. SUFFICES ASSUME SyncInit PROVE SyncIInv
  OBVIOUS
<1>1. TypeOK
  BY InitIInv DEF SyncInit, IInv
<1>2. SyncTypeOK
  BY <1>1 DEF SyncInit, SyncTypeOK, Phases
<1>3. \A l \in Locks : ~Waiting(l) /\ phase[l] = "out" /\ client[l] = "idle"
  BY DEF SyncInit, Init, Waiting
<1>. QED BY <1>2, <1>3 DEF SyncIInv, OneAtATime, PhaseMatches, NotificationSomewhere, SyncInit

\* A pending borrow belongs to a thread that waits for it.
LEMMA PendingWaits ==
  ASSUME IInv, SyncIInv, NEW l \in Locks, pending[l] # None
  PROVE  Waiting(l)
BY WaitingShape DEF SyncIInv, PhaseMatches, Waiting, SyncTypeOK, Phases

\* Asking for a lock.
LEMMA SyncLockIInv ==
  ASSUME SyncIInv, TypeOK', NEW l \in Locks, NEW r \in Ranges, NEW p, SyncLock(l, r, p)
  PROVE  SyncIInv'
<1>1. SyncTypeOK /\ OneAtATime /\ PhaseMatches /\ NotificationSomewhere
  BY DEF SyncIInv
<1>2. Lock(l, r, p) /\ op = None /\ op' = None
  BY DEF SyncLock, lock_read, lock_write, Lock, LockAt, MayLock
<1>3. PICK c \in {"granted", "waiting"} : client' = [client EXCEPT ![l] = c]
  BY <1>2 DEF Lock, LockAt
<1>4. client'[l] = c
  BY <1>1, <1>3 DEF SyncTypeOK, TypeOK
<1>5. /\ phase' = [phase EXCEPT ![l] = IF c = "granted" THEN "in" ELSE "check"]
      /\ complete' = [complete EXCEPT ![l] = FALSE]
      /\ UNCHANGED <<token, unparking>>
  BY <1>4 DEF SyncLock
<1>6. /\ \A k \in Locks \ {l} : /\ phase'[k] = phase[k] /\ client'[k] = client[k]
                                /\ complete'[k] = complete[k] /\ flagSeen'[k] = flagSeen[k]
      /\ phase'[l] = IF c = "granted" THEN "in" ELSE "check"
      /\ ~complete'[l]
  BY <1>1, <1>3, <1>5 DEF SyncLock, SyncTypeOK, TypeOK
<1>7. \A k \in Locks : Owner[k] = Owner[l] => ~Waiting(k)
  BY DEF SyncLock, Running, Waiting
<1>8. SyncTypeOK'
  <2>1. Owner[l] \in Threads
    BY ThreadAssumption
  <2>2. /\ seen' \in [Threads -> SUBSET Elements] /\ mutexSeen' \in SUBSET Elements
        /\ tokenSeen' = tokenSeen
        /\ flagSeen' \in [Locks -> {"nobody", "token", "owner"}]
    BY <1>1, <2>1 DEF SyncLock, PassMutex, SyncTypeOK
  <2>3. phase' \in [Locks -> Phases] /\ complete' \in [Locks -> BOOLEAN]
    BY <1>1, <1>5 DEF SyncTypeOK, Phases
  <2>. QED BY <1>1, <1>5, <2>2, <2>3 DEF SyncTypeOK
<1>9. OneAtATime'
  BY <1>1, <1>2, <1>6, <1>7 DEF OneAtATime, Waiting
<1>10. PhaseMatches'
  BY <1>1, <1>4, <1>6 DEF PhaseMatches, Waiting
<1>11. NotificationSomewhere'
  BY <1>1, <1>2, <1>5, <1>6 DEF NotificationSomewhere, Waiting
<1>. QED BY <1>8, <1>9, <1>10, <1>11 DEF SyncIInv

\* A try that succeeds or fails.
LEMMA SyncTryIInv ==
  ASSUME SyncIInv, TypeOK', NEW l \in Locks, NEW r \in Ranges,
         SyncTryLock(l, r) \/ SyncTryLockFails(l, r)
  PROVE  SyncIInv'
<1>1. SyncTypeOK /\ OneAtATime /\ PhaseMatches /\ NotificationSomewhere
  BY DEF SyncIInv
<1>2. Owner[l] \in Threads
  BY ThreadAssumption
<1>3. /\ seen' \in [Threads -> SUBSET Elements] /\ mutexSeen' \in SUBSET Elements
      /\ UNCHANGED <<complete, token, unparking, tokenSeen, flagSeen>>
  BY <1>1, <1>2 DEF SyncTryLock, SyncTryLockFails, PassMutex, SyncTypeOK
<1>4. CASE SyncTryLock(l, r)
  <2>1. /\ TryLock(l, r) /\ op = None /\ op' = None
        /\ client' = [client EXCEPT ![l] = "granted"]
        /\ phase' = [phase EXCEPT ![l] = "in"]
    BY <1>4 DEF SyncTryLock, try_lock_read, try_lock_write, TryLock, Grant, MayLock
  <2>2. /\ \A k \in Locks \ {l} : phase'[k] = phase[k] /\ client'[k] = client[k]
        /\ phase'[l] = "in" /\ client'[l] = "granted"
    BY <1>1, <2>1 DEF SyncTypeOK, TypeOK
  <2>3. SyncTypeOK'
    BY <1>1, <1>3, <2>1 DEF SyncTypeOK, Phases
  <2>4. OneAtATime'
    BY <1>1, <2>1, <2>2 DEF OneAtATime, Waiting
  <2>5. PhaseMatches'
    BY <1>1, <1>3, <2>2 DEF PhaseMatches, Waiting
  <2>6. NotificationSomewhere'
    BY <1>1, <1>3, <2>1, <2>2 DEF NotificationSomewhere, Waiting
  <2>. QED BY <2>3, <2>4, <2>5, <2>6 DEF SyncIInv
<1>5. CASE SyncTryLockFails(l, r)
  <2>1. UNCHANGED <<vars, phase>>
    BY <1>5 DEF SyncTryLockFails
  <2>. QED BY <1>1, <1>3, <2>1
           DEF SyncIInv, SyncTypeOK, OneAtATime, PhaseMatches, NotificationSomewhere, Waiting,
               vars
<1>. QED BY <1>4, <1>5

\* The waiting loop: the flag is loaded, and the thread is let in or parks.
LEMMA CheckIInv ==
  ASSUME SyncIInv, NEW l \in Locks, CheckComplete(l)
  PROVE  SyncIInv'
<1>1. SyncTypeOK /\ OneAtATime /\ PhaseMatches /\ NotificationSomewhere
  BY DEF SyncIInv
<1>2. UNCHANGED <<vars, complete, token, unparking, memory>> /\ phase[l] = "check"
  BY DEF CheckComplete
<1>3. PICK ph \in {"in", "park"} :
        /\ phase' = [phase EXCEPT ![l] = ph]
        /\ ph = "in" => complete[l]
        /\ ph = "park" => ~complete[l] \/ flagSeen[l] # "owner"
  BY DEF CheckComplete
<1>4. phase'[l] = ph /\ \A k \in Locks \ {l} : phase'[k] = phase[k]
  BY <1>1, <1>3 DEF SyncTypeOK
<1>5. SyncTypeOK'
  BY <1>1, <1>2, <1>3 DEF SyncTypeOK, TypeOK, Phases, vars, memory
<1>6. OneAtATime'
  BY <1>1, <1>2, <1>4 DEF OneAtATime, Waiting, vars
<1>7. PhaseMatches'
  BY <1>1, <1>2, <1>3, <1>4 DEF PhaseMatches, Waiting, vars
<1>8. NotificationSomewhere'
  BY <1>1, <1>2, <1>3, <1>4 DEF NotificationSomewhere, Waiting, vars, memory
<1>. QED BY <1>5, <1>6, <1>7, <1>8 DEF SyncIInv

\* ... and parking returns, with the token or without.  The token is not meant
\* for another lock of the same thread, which waits for one lock at a time.
LEMMA ParkIInv ==
  ASSUME SyncIInv, NEW l \in Locks, Park(l) \/ SpuriousWakeup(l)
  PROVE  SyncIInv'
<1>1. SyncTypeOK /\ OneAtATime /\ PhaseMatches /\ NotificationSomewhere
  BY DEF SyncIInv
<1>2. /\ UNCHANGED <<vars, complete, unparking, mutexSeen>>
      /\ phase[l] = "park" /\ phase' = [phase EXCEPT ![l] = "check"]
  BY DEF Park, SpuriousWakeup, memory
<1>3. phase'[l] = "check" /\ \A k \in Locks \ {l} : phase'[k] = phase[k]
  BY <1>1, <1>2 DEF SyncTypeOK
<1>4. Owner[l] \in Threads
  BY ThreadAssumption
<1>5. SyncTypeOK'
  <2>1. CASE Park(l)
    <3>1. /\ token' \in [Threads -> BOOLEAN] /\ seen' \in [Threads -> SUBSET Elements]
          /\ tokenSeen' \in [Threads -> SUBSET Elements]
          /\ flagSeen' \in [Locks -> {"nobody", "token", "owner"}]
      BY <1>1, <1>4, <2>1 DEF Park, SyncTypeOK
    <3>. QED BY <1>1, <1>2, <3>1 DEF SyncTypeOK, TypeOK, Phases, vars
  <2>2. CASE SpuriousWakeup(l)
    BY <1>1, <1>2, <2>2 DEF SpuriousWakeup, SyncTypeOK, TypeOK, Phases, vars, memory
  <2>. QED BY <2>1, <2>2
<1>6. OneAtATime'
  BY <1>1, <1>2, <1>3 DEF OneAtATime, Waiting, vars
<1>7. PhaseMatches'
  BY <1>1, <1>2, <1>3 DEF PhaseMatches, Waiting, vars
<1>8. NotificationSomewhere'
  <2>1. \A k \in Locks \ {l} : Waiting(k) => Owner[k] # Owner[l]
    BY <1>1, <1>2 DEF OneAtATime, Waiting
  <2>2. /\ \A k \in Locks \ {l} : /\ flagSeen'[k] = flagSeen[k]
                                  /\ Waiting(k) => token'[Owner[k]] = token[Owner[k]]
        /\ flagSeen[l] = "token" /\ token[Owner[l]] => flagSeen'[l] = "owner"
    <3>1. CASE Park(l)
      BY <1>1, <1>4, <2>1, <3>1, ThreadAssumption DEF Park, SyncTypeOK
    <3>2. CASE SpuriousWakeup(l)
      BY <3>2 DEF SpuriousWakeup, memory
    <3>. QED BY <3>1, <3>2
  <2>. QED BY <1>1, <1>2, <1>3, <2>2 DEF NotificationSomewhere, Waiting, vars
<1>. QED BY <1>5, <1>6, <1>7, <1>8 DEF SyncIInv

\* Writing the elements of a guard concerns the memory only.
LEMMA UseGuardIInv ==
  ASSUME SyncIInv, NEW l \in Locks, UseGuard(l)
  PROVE  SyncIInv'
<1>1. /\ seen' \in [Threads -> SUBSET Elements] /\ mutexSeen' \in SUBSET Elements
      /\ tokenSeen' \in [Threads -> SUBSET Elements]
  BY DEF UseGuard, SyncIInv, SyncTypeOK
<1>2. UNCHANGED <<vars, phase, complete, token, unparking, flagSeen>>
  BY DEF UseGuard
<1>. QED BY <1>1, <1>2 DEF SyncIInv, SyncTypeOK, TypeOK, OneAtATime, PhaseMatches,
                           NotificationSomewhere, Waiting, vars

\* Dropping a guard.
LEMMA SyncUnlockIInv ==
  ASSUME IInv, SyncIInv, TypeOK', NEW l \in Locks, SyncUnlock(l)
  PROVE  SyncIInv'
<1>1. SyncTypeOK /\ OneAtATime /\ PhaseMatches /\ NotificationSomewhere
  BY DEF SyncIInv
<1>2. /\ Unlock(l) /\ op = None /\ client' = [client EXCEPT ![l] = "idle"]
      /\ phase[l] = "in" /\ phase' = [phase EXCEPT ![l] = "out"]
      /\ UNCHANGED <<complete, token, unparking, flagSeen>>
  BY DEF SyncUnlock, unlock_read, unlock_write, unlock_try_read, unlock_try_write, Unlock, UnlockAt
<1>3. /\ \A k \in Locks \ {l} : phase'[k] = phase[k] /\ client'[k] = client[k]
      /\ phase'[l] = "out" /\ client'[l] = "idle"
  BY <1>1, <1>2 DEF SyncTypeOK, TypeOK
<1>4. op' # None => op'.lock = l
  BY <1>2 DEF Unlock, UnlockAt
<1>5. \A k \in Locks : Owner[k] = Owner[l] => ~Waiting(k)
  BY DEF SyncUnlock, Running, Waiting
<1>6. SyncTypeOK'
  <2>1. /\ seen' \in [Threads -> SUBSET Elements] /\ UNCHANGED <<mutexSeen, tokenSeen>>
    BY <1>1, ThreadAssumption DEF SyncUnlock, AcquireMutex, SyncTypeOK
  <2>. QED BY <1>1, <1>2, <2>1 DEF SyncTypeOK, Phases
<1>7. OneAtATime'
  BY <1>1, <1>3, <1>4, <1>5 DEF OneAtATime, Waiting
<1>8. PhaseMatches'
  BY <1>1, <1>2, <1>3 DEF PhaseMatches, Waiting
<1>9. NotificationSomewhere'
  BY <1>1, <1>2, <1>3 DEF NotificationSomewhere, Waiting
<1>. QED BY <1>6, <1>7, <1>8, <1>9 DEF SyncIInv

\* The steps of the unlock loop that notify nobody.
LEMMA SyncUnlockInnerIInv ==
  ASSUME IInv, SyncIInv, TypeOK', SyncUnlockInner
  PROVE  SyncIInv'
<1>1. SyncTypeOK /\ OneAtATime /\ PhaseMatches /\ NotificationSomewhere /\ TypeOK
  BY DEF SyncIInv, SyncTypeOK
<1>2. UNCHANGED <<client, phase, complete, token, unparking, flagSeen, tokenSeen>>
  BY DEF SyncUnlockInner, Truncate, FinishUnlock, ReleaseMutex, memory
<1>3. op # None /\ op \in Frames /\ unparking = None
  BY <1>1 DEF SyncUnlockInner, Truncate, resume_borrow, ResumeAt, InLoop, FinishUnlock, TypeOK
<1>4. op' # None => op'.lock = op.lock
  BY <1>3 DEF SyncUnlockInner, Truncate, resume_borrow, ResumeAt, FinishUnlock, Frames
<1>5. SyncTypeOK'
  <2>1. Owner[op.lock] \in Threads
    BY <1>3, ThreadAssumption DEF Frames
  <2>2. seen' \in [Threads -> SUBSET Elements] /\ mutexSeen' \in SUBSET Elements
    BY <1>1, <2>1 DEF SyncUnlockInner, ReleaseMutex, SyncTypeOK, memory
  <2>. QED BY <1>1, <1>2, <2>2 DEF SyncTypeOK
<1>6. OneAtATime'
  BY <1>1, <1>2, <1>3, <1>4 DEF OneAtATime, Waiting
<1>7. PhaseMatches'
  BY <1>1, <1>2 DEF PhaseMatches, Waiting
<1>8. NotificationSomewhere'
  BY <1>1, <1>2, <1>3 DEF NotificationSomewhere, Waiting
<1>. QED BY <1>5, <1>6, <1>7, <1>8 DEF SyncIInv

\* The flag is set while its owner is still in the waiting loop.
LEMMA StoreCompleteIInv ==
  ASSUME IInv, SyncIInv, TypeOK', StoreComplete
  PROVE  SyncIInv'
<1>1. SyncTypeOK /\ OneAtATime /\ PhaseMatches /\ NotificationSomewhere /\ TypeOK /\ FrameOK
  BY DEF IInv, SyncIInv, SyncTypeOK
<1>2. op # None /\ op \in Frames /\ op.cur # None
  BY <1>1 DEF StoreComplete, resume_borrow, ResumeAt, InLoop, TypeOK
<1>3. PICK l \in Locks : l = op.cur
  BY <1>2 DEF Frames
<1>4. Waiting(l)
  <2>1. pending[l] # None
    BY <1>1, <1>2, <1>3 DEF FrameOK, ToVisit
  <2>. QED BY <2>1, PendingWaits
<1>5. client' = [client EXCEPT ![l] = "granted"]
  BY <1>3 DEF StoreComplete, resume_borrow, ResumeAt
<1>6. /\ unparking = None /\ unparking' = l
      /\ complete' = [complete EXCEPT ![l] = TRUE]
      /\ flagSeen' = [flagSeen EXCEPT ![l] = "nobody"]
      /\ UNCHANGED <<phase, token, seen, mutexSeen, tokenSeen>>
  BY <1>3 DEF StoreComplete
<1>7. /\ \A k \in Locks \ {l} : /\ client'[k] = client[k] /\ complete'[k] = complete[k]
                                /\ flagSeen'[k] = flagSeen[k]
      /\ client'[l] = "granted" /\ complete'[l]
  BY <1>1, <1>5, <1>6 DEF SyncTypeOK, TypeOK
<1>8. op' # None /\ op'.lock = op.lock
  BY <1>2, NoneAssumption DEF StoreComplete, resume_borrow, ResumeAt, Frames
<1>9. SyncTypeOK'
  BY <1>1, <1>6 DEF SyncTypeOK
<1>10. OneAtATime'
  BY <1>1, <1>2, <1>6, <1>8 DEF OneAtATime, Waiting
<1>11. PhaseMatches'
  BY <1>1, <1>4, <1>6, <1>7 DEF PhaseMatches, Waiting
<1>12. NotificationSomewhere'
  BY <1>1, <1>6, <1>7, <1>8, NoneAssumption DEF NotificationSomewhere, Waiting
<1>. QED BY <1>9, <1>10, <1>11, <1>12 DEF SyncIInv

\* Unparking puts the notification into the token, where it stays even if the
\* thread does not need it any more.
LEMMA UnparkIInv ==
  ASSUME SyncIInv, Unpark
  PROVE  SyncIInv'
<1>1. SyncTypeOK /\ OneAtATime /\ PhaseMatches /\ NotificationSomewhere /\ TypeOK
  BY DEF SyncIInv, SyncTypeOK
<1>2. PICK l \in Locks : l = unparking
  BY <1>1 DEF Unpark, SyncTypeOK
<1>3. op # None /\ op \in Frames
  BY <1>1 DEF Unpark, NotificationSomewhere, TypeOK
<1>4. Owner[op.lock] \in Threads /\ Owner[l] \in Threads /\ \A k \in Locks : Owner[k] \in Threads
  BY <1>3, ThreadAssumption DEF Frames
<1>5. /\ token' = [token EXCEPT ![Owner[l]] = TRUE]
      /\ flagSeen' = [flagSeen EXCEPT ![l] = "token"]
      /\ unparking' = None
      /\ UNCHANGED <<vars, phase, complete, seen, mutexSeen>>
  BY <1>2 DEF Unpark
<1>6. /\ \A k \in Locks \ {l} : flagSeen'[k] = flagSeen[k]
      /\ flagSeen'[l] = "token" /\ token'[Owner[l]]
      /\ \A k \in Locks : token[Owner[k]] => token'[Owner[k]]
  BY <1>1, <1>4, <1>5 DEF SyncTypeOK
<1>7. SyncTypeOK'
  <2>1. tokenSeen' \in [Threads -> SUBSET Elements]
    BY <1>1, <1>2, <1>4 DEF Unpark, SyncTypeOK
  <2>. QED BY <1>1, <1>4, <1>5, <2>1 DEF SyncTypeOK, TypeOK, vars
<1>8. OneAtATime'
  BY <1>1, <1>5 DEF OneAtATime, Waiting, vars
<1>9. PhaseMatches'
  BY <1>1, <1>5 DEF PhaseMatches, Waiting, vars
<1>10. NotificationSomewhere'
  BY <1>1, <1>2, <1>5, <1>6 DEF NotificationSomewhere, Waiting, vars
<1>. QED BY <1>7, <1>8, <1>9, <1>10 DEF SyncIInv

\* Every step of every thread keeps the invariant.
LEMMA SyncNextIInv ==
  ASSUME IInv, TypeOK', SyncIInv, [SyncNext]_syncVars
  PROVE  SyncIInv'
<1>1. CASE Request
  BY <1>1, SyncLockIInv, SyncTryIInv DEF Request
<1>2. CASE Progress
  BY <1>2, CheckIInv, ParkIInv, UseGuardIInv, SyncUnlockIInv, SyncUnlockInnerIInv,
     StoreCompleteIInv, UnparkIInv DEF Progress
<1>3. CASE UNCHANGED syncVars
  BY <1>3 DEF syncVars, vars, memory, SyncIInv, SyncTypeOK, TypeOK, OneAtATime, PhaseMatches,
              NotificationSomewhere, Waiting
<1>. QED BY <1>1, <1>2, <1>3 DEF SyncNext

\* What the waiting threads know agrees with the core at all times.
THEOREM SyncInvariance == ASSUME DebugAssertions PROVE SyncSpec => []SyncIInv
<1>1. IInv => TypeOK
  BY DEF IInv
<1>2. IInv /\ TypeOK' /\ SyncIInv /\ [SyncNext]_syncVars => SyncIInv'
  BY SyncNextIInv
<1>. QED BY <1>1, <1>2, SyncInitIInv, SyncCoreInvariance, PTL DEF SyncSpec

\* A lock method returns only when the core has granted the lock.
THEOREM GuardIsGrantedHolds == ASSUME DebugAssertions PROVE SyncSpec => []GuardIsGranted
<1>1. SyncIInv => GuardIsGranted
  BY DEF SyncIInv, PhaseMatches, GuardIsGranted
<1>. QED BY <1>1, SyncInvariance, PTL

\* Guards of different threads, or of one thread, never overlap in conflict.
THEOREM GuardsExclusiveHolds == ASSUME DebugAssertions PROVE SyncSpec => []GuardsExclusive
<1>1. GuardIsGranted /\ MutualExclusion => GuardsExclusive
  BY DEF GuardIsGranted, MutualExclusion, GuardsExclusive
<1>. QED BY <1>1, GuardIsGrantedHolds, SyncImplementsCore, MutualExclusionHolds, PTL

\* The core never stores to the flag of a stack frame that is gone.
THEOREM FlagOutlivesBorrowHolds == ASSUME DebugAssertions PROVE SyncSpec => []FlagOutlivesBorrow
<1>1. IInv /\ SyncIInv => FlagOutlivesBorrow
  BY PendingWaits DEF FlagOutlivesBorrow, Waiting
<1>. QED BY <1>1, SyncCoreInvariance, SyncInvariance, PTL

\* A thread does not sleep through the completion of its lock.
THEOREM NoLostUnparkHolds == ASSUME DebugAssertions PROVE SyncSpec => []NoLostUnpark
<1>1. SyncIInv => NoLostUnpark
  BY DEF SyncIInv, NotificationSomewhere, Waiting, NoLostUnpark
<1>. QED BY <1>1, SyncInvariance, PTL

\* The variables of the blocking lock keep their types.
THEOREM SyncTypeCorrect == ASSUME DebugAssertions PROVE SyncSpec => []SyncTypeOK
<1>1. SyncIInv => SyncTypeOK
  BY DEF SyncIInv
<1>. QED BY <1>1, SyncInvariance, PTL

-----------------------------------------------------------------------------
(* The memory: MemoryIInv says where the writes of an element are on their   *)
(* way to its next holder.                                                   *)

\* Ranges that share an element overlap.
LEMMA SharedElement ==
  ASSUME NEW r \in Ranges, NEW s \in Ranges, NEW i \in Elements, Covers(r, i), Covers(s, i)
  PROVE  Overlap(r, s)
BY IndexAssumption DEF Ranges, Indices, Elements, Covers, Overlap

\* While l is granted, no other thread has a writer's guard on its elements.
LEMMA OneWriter ==
  ASSUME IInv', SyncIInv', NEW l \in Locks, NEW k \in Writers, l # k,
         client'[l] = "granted", phase'[k] = "in",
         NEW i \in Elements, Covers(guard'[l], i)
  PROVE  ~Covers(guard'[k], i)
<1>1. k \in Locks /\ Conflict(l, k)
  BY DEF Locks, Conflict
<1>2. client'[k] = "granted"
  BY <1>1 DEF SyncIInv, PhaseMatches
<1>3. /\ borrow'[l] = guard'[l] /\ borrow'[l] # None
      /\ borrow'[k] = guard'[k] /\ borrow'[k] # None
  BY <1>1, <1>2 DEF IInv, BorrowIsPrefix
<1>4. guard'[l] \in Ranges /\ guard'[k] \in Ranges
  BY <1>1, <1>3 DEF IInv, TypeOK
<1>5. ~Overlap(guard'[l], guard'[k])
  BY <1>1, <1>3 DEF IInv, BorrowsExclusive
<1>. QED BY <1>4, <1>5, SharedElement

\* At first every thread has seen everything.
LEMMA MemoryInit == SyncInit => MemoryIInv
<1>. SUFFICES ASSUME SyncInit PROVE MemoryIInv
  OBVIOUS
<1>1. \A l \in Locks : ~Waiting(l) /\ phase[l] = "out"
  BY DEF SyncInit, Waiting
<1>. QED BY <1>1 DEF SyncInit, Init, MemoryIInv, WritesWithMutex, WritesWithWaiter,
                     OrderedAfterWriters

\* Passing through the mutex only adds to what is seen.
LEMMA PassMutexGrows ==
  ASSUME SyncTypeOK, NEW t \in Threads, PassMutex(t)
  PROVE  /\ \A u \in Threads : seen[u] \subseteq seen'[u]
         /\ mutexSeen \subseteq seen'[t] /\ mutexSeen \subseteq mutexSeen'
         /\ tokenSeen' = tokenSeen
BY DEF PassMutex, SyncTypeOK

\* A lock that is granted at once comes after all writes, which the mutex
\* carries, since no writer is left on its elements.
LEMMA GrantMemory ==
  ASSUME IInv, IInv', SyncIInv, SyncIInv', MemoryIInv, NEW l \in Locks, NEW r \in Ranges,
         \/ \E p : SyncLock(l, r, p)
         \/ SyncTryLock(l, r)
  PROVE  MemoryIInv'
<1>1. SyncTypeOK /\ NotificationSomewhere /\ WritesWithMutex /\ WritesWithWaiter /\ OrderedAfterWriters
  BY DEF SyncIInv, MemoryIInv
<1>2. Owner \in [Locks -> Threads] /\ Owner[l] \in Threads
  BY ThreadAssumption
<1>3. /\ op = None /\ op' = None /\ unparking' = unparking
      /\ guard' = [guard EXCEPT ![l] = r]
      /\ \A k \in Locks \ {l} : /\ phase'[k] = phase[k] /\ guard'[k] = guard[k]
                                /\ complete'[k] = complete[k] /\ flagSeen'[k] = flagSeen[k]
      /\ PassMutex(Owner[l])
  BY <1>1 DEF SyncLock, SyncTryLock, lock_read, lock_write, Lock, LockAt, try_lock_read, try_lock_write,
              TryLock, Grant, MayLock, SyncTypeOK, TypeOK
<1>4. phase[l] = "out"
  <2>1. ~claimed[l]
    BY DEF SyncLock, SyncTryLock, lock_read, lock_write, Lock, LockAt, try_lock_read, try_lock_write,
           TryLock, Grant, MayLock
  <2>2. client[l] = "idle"
    BY <2>1 DEF IInv, TypeOK, ClientStates, BorrowIsPrefix
  <2>. QED BY <2>2 DEF SyncIInv, PhaseMatches
<1>5. ~(Waiting(l)' /\ complete'[l])
  BY <1>1 DEF SyncLock, SyncTryLock, SyncTypeOK, Waiting
<1>6. /\ \A u \in Threads : seen[u] \subseteq seen'[u]
      /\ mutexSeen \subseteq seen'[Owner[l]] /\ mutexSeen \subseteq mutexSeen'
      /\ tokenSeen' = tokenSeen
  BY <1>1, <1>2, <1>3, PassMutexGrows
<1>7. WritesWithMutex'
  <2>. SUFFICES ASSUME NEW i \in Elements, i \notin mutexSeen
                PROVE  \E k \in Writers : /\ phase'[k] = "in" /\ Covers(guard'[k], i)
                                          /\ i \in seen'[Owner[k]]
    BY <1>3, <1>6 DEF WritesWithMutex
  <2>1. PICK k \in Writers : phase[k] = "in" /\ Covers(guard[k], i) /\ i \in seen[Owner[k]]
    BY <1>1, <1>3 DEF WritesWithMutex
  <2>2. k \in Locks \ {l}
    BY <1>4, <2>1 DEF Locks
  <2>. QED BY <1>2, <1>3, <1>6, <2>1, <2>2
<1>8. WritesWithWaiter'
  <2>1. unparking = None
    BY <1>1, <1>3 DEF NotificationSomewhere
  <2>2. \A k \in Locks : Waiting(k)' /\ complete'[k] => k \in Locks \ {l} /\ Waiting(k)
    BY <1>3, <1>5 DEF Waiting
  <2>. QED BY <1>1, <1>2, <1>3, <1>6, <2>1, <2>2 DEF WritesWithWaiter
<1>9. OrderedAfterWriters'
  <2>. SUFFICES ASSUME NEW k \in Locks, phase'[k] = "in", flagSeen'[k] = "owner",
                       NEW i \in Elements, Covers(guard'[k], i)
                PROVE  i \in seen'[Owner[k]]
    BY DEF OrderedAfterWriters
  <2>1. CASE k # l
    BY <1>1, <1>2, <1>3, <1>6, <2>1 DEF OrderedAfterWriters
  <2>2. CASE k = l
    <3>1. client'[l] = "granted"
      BY <2>2 DEF SyncIInv, PhaseMatches
    <3>2. ASSUME NEW w \in Writers, phase[w] = "in", Covers(guard[w], i)
          PROVE  FALSE
      <4>1. w \in Locks \ {l}
        BY <1>4, <3>2 DEF Locks
      <4>2. phase'[w] = "in" /\ Covers(guard'[w], i)
        BY <1>3, <3>2, <4>1
      <4>. QED BY <2>2, <3>1, <4>1, <4>2, OneWriter
    <3>. QED BY <1>1, <1>3, <1>6, <2>2, <3>2 DEF WritesWithMutex
  <2>. QED BY <2>1, <2>2
<1>. QED BY <1>7, <1>8, <1>9 DEF MemoryIInv

\* A failed try passes through the mutex too.
LEMMA TryFailsMemory ==
  ASSUME SyncIInv, MemoryIInv, NEW l \in Locks, NEW r \in Ranges, SyncTryLockFails(l, r)
  PROVE  MemoryIInv'
<1>1. SyncTypeOK /\ WritesWithMutex /\ WritesWithWaiter /\ OrderedAfterWriters
  BY DEF SyncIInv, MemoryIInv
<1>2. Owner \in [Locks -> Threads] /\ Writers \subseteq Locks
  BY ThreadAssumption DEF Locks
<1>3. UNCHANGED <<vars, phase, complete, unparking, flagSeen>> /\ op = None
  BY DEF SyncTryLockFails, MayLock
<1>4. /\ \A u \in Threads : seen[u] \subseteq seen'[u]
      /\ mutexSeen \subseteq mutexSeen' /\ tokenSeen' = tokenSeen
  BY <1>1, <1>2, PassMutexGrows DEF SyncTryLockFails
<1>5. WritesWithMutex'
  BY <1>1, <1>2, <1>3, <1>4 DEF WritesWithMutex, vars
<1>6. WritesWithWaiter'
  BY <1>1, <1>2, <1>3, <1>4 DEF WritesWithWaiter, Waiting, vars
<1>7. OrderedAfterWriters'
  BY <1>1, <1>2, <1>3, <1>4 DEF OrderedAfterWriters, vars
<1>. QED BY <1>5, <1>6, <1>7 DEF MemoryIInv

\* A thread that finds its flag set and is ordered after the store has seen the
\* writes.
LEMMA CheckMemory ==
  ASSUME SyncIInv, MemoryIInv, NEW l \in Locks, CheckComplete(l)
  PROVE  MemoryIInv'
<1>1. SyncTypeOK /\ WritesWithMutex /\ WritesWithWaiter /\ OrderedAfterWriters
  BY DEF SyncIInv, MemoryIInv
<1>2. /\ UNCHANGED <<vars, complete, unparking, memory>> /\ phase[l] = "check" /\ Waiting(l)
      /\ phase'[l] \in {"in", "park"} /\ phase'[l] = "in" => complete[l]
      /\ \A k \in Locks \ {l} : phase'[k] = phase[k]
  BY <1>1 DEF CheckComplete, SyncTypeOK, Waiting
<1>3. \A k \in Locks : (phase[k] = "in" => phase'[k] = "in") /\ (Waiting(k)' => Waiting(k))
  BY <1>2 DEF Waiting
<1>4. WritesWithMutex'
  BY <1>1, <1>2, <1>3 DEF WritesWithMutex, vars, memory, Locks
<1>5. WritesWithWaiter'
  BY <1>1, <1>2, <1>3 DEF WritesWithWaiter, vars, memory
<1>6. OrderedAfterWriters'
  BY <1>1, <1>2, <1>3 DEF OrderedAfterWriters, WritesWithWaiter, vars, memory
<1>. QED BY <1>4, <1>5, <1>6 DEF MemoryIInv

\* The token hands what it carries to the thread it wakes, and no other waiter
\* relies on that token.
LEMMA ParkMemory ==
  ASSUME SyncIInv, MemoryIInv, NEW l \in Locks, Park(l) \/ SpuriousWakeup(l)
  PROVE  MemoryIInv'
<1>1. SyncTypeOK /\ OneAtATime /\ WritesWithMutex /\ WritesWithWaiter /\ OrderedAfterWriters
  BY DEF SyncIInv, MemoryIInv
<1>2. Owner \in [Locks -> Threads] /\ Owner[l] \in Threads
  BY ThreadAssumption
<1>3. /\ UNCHANGED <<vars, complete, unparking, mutexSeen>>
      /\ phase[l] = "park" /\ phase' = [phase EXCEPT ![l] = "check"]
  BY DEF Park, SpuriousWakeup, memory
<1>4. /\ phase'[l] = "check" /\ \A k \in Locks \ {l} : phase'[k] = phase[k]
      /\ Waiting(l) /\ \A k \in Locks : Waiting(k)' <=> Waiting(k)
  BY <1>1, <1>3 DEF SyncTypeOK, Waiting
<1>5. \A k \in Locks \ {l} : Waiting(k) => Owner[k] # Owner[l]
  BY <1>1, <1>4 DEF OneAtATime
<1>6. /\ \A u \in Threads : seen[u] \subseteq seen'[u]
      /\ \A u \in Threads \ {Owner[l]} : tokenSeen'[u] = tokenSeen[u]
      /\ \A k \in Locks \ {l} : flagSeen'[k] = flagSeen[k]
      /\ \/ flagSeen'[l] = flagSeen[l] /\ flagSeen[l] # "token"
         \/ /\ flagSeen[l] = "token" /\ flagSeen'[l] = "owner"
            /\ tokenSeen[Owner[l]] \subseteq seen'[Owner[l]]
         \/ flagSeen'[l] = flagSeen[l] /\ tokenSeen' = tokenSeen
  <2>1. CASE Park(l)
    BY <1>1, <1>2, <2>1 DEF Park, SyncTypeOK
  <2>2. CASE SpuriousWakeup(l)
    BY <2>2 DEF SpuriousWakeup, memory
  <2>. QED BY <2>1, <2>2
<1>7. op # None => op.lock \in Locks
  BY <1>1 DEF SyncTypeOK, TypeOK, Frames
<1>8. WritesWithMutex'
  <2>1. \A k \in Writers : k \in Locks /\ (phase[k] = "in" => phase'[k] = "in")
    BY <1>3, <1>4 DEF Locks
  <2>. QED BY <1>1, <1>2, <1>3, <1>6, <1>7, <2>1 DEF WritesWithMutex, vars
<1>9. WritesWithWaiter'
  <2>1. ASSUME NEW k \in Locks, Waiting(k)', complete'[k],
               NEW i \in Elements, Covers(guard'[k], i)
        PROVE  /\ flagSeen'[k] = "nobody" => op' # None /\ i \in seen'[Owner[op'.lock]]
               /\ flagSeen'[k] = "token" => i \in tokenSeen'[Owner[k]]
               /\ flagSeen'[k] = "owner" => i \in seen'[Owner[k]]
    <3>1. /\ flagSeen[k] = "nobody" => op # None /\ i \in seen[Owner[op.lock]]
          /\ flagSeen[k] = "token" => i \in tokenSeen[Owner[k]]
          /\ flagSeen[k] = "owner" => i \in seen[Owner[k]]
      BY <1>1, <1>3, <1>4, <2>1 DEF WritesWithWaiter, vars
    <3>2. CASE k # l
      BY <1>2, <1>3, <1>4, <1>5, <1>6, <1>7, <2>1, <3>1, <3>2 DEF vars
    <3>3. CASE k = l
      BY <1>2, <1>3, <1>6, <1>7, <3>1, <3>3 DEF vars
    <3>. QED BY <3>2, <3>3
  <2>2. unparking' # None => flagSeen'[unparking'] = "nobody"
    BY <1>1, <1>3, <1>6 DEF WritesWithWaiter, SyncTypeOK
  <2>. QED BY <2>1, <2>2 DEF WritesWithWaiter
<1>10. OrderedAfterWriters'
  BY <1>1, <1>2, <1>3, <1>4, <1>6 DEF OrderedAfterWriters, vars
<1>. QED BY <1>8, <1>9, <1>10 DEF MemoryIInv

\* A write is unknown to all but its writer, but nobody else holds or has been
\* granted the elements.
LEMMA UseGuardMemory ==
  ASSUME IInv', SyncIInv, SyncIInv', MemoryIInv, NEW l \in Locks, UseGuard(l)
  PROVE  MemoryIInv'
<1>. DEFINE span == {i \in Elements : guard[l].start <= i /\ i < guard[l].end}
<1>1. SyncTypeOK /\ WritesWithMutex /\ WritesWithWaiter /\ OrderedAfterWriters
  BY DEF SyncIInv, MemoryIInv
<1>2. Owner \in [Locks -> Threads] /\ Owner[l] \in Threads /\ Writers \subseteq Locks
  BY ThreadAssumption DEF Locks
<1>3. /\ UNCHANGED <<vars, phase, complete, unparking, flagSeen>>
      /\ l \in Writers /\ phase[l] = "in"
  BY DEF UseGuard
<1>4. /\ \A u \in Threads : seen[u] \ span \subseteq seen'[u]
      /\ seen[Owner[l]] \cup span \subseteq seen'[Owner[l]]
      /\ \A u \in Threads : tokenSeen[u] \ span \subseteq tokenSeen'[u]
      /\ mutexSeen \ span \subseteq mutexSeen'
  BY <1>1, <1>2 DEF UseGuard, SyncTypeOK
<1>5. ASSUME NEW k \in Locks, k # l, client[k] = "granted",
             NEW i \in Elements, Covers(guard[k], i)
      PROVE  i \notin span
  <2>1. ~Covers(guard'[l], i)
    BY <1>3, <1>5, OneWriter DEF vars
  <2>. QED BY <1>3, <2>1 DEF Covers, vars
<1>6. op # None => op.lock \in Locks
  BY <1>1 DEF SyncTypeOK, TypeOK, Frames
<1>7. WritesWithMutex'
  <2>. SUFFICES ASSUME NEW i \in Elements
                PROVE  \/ IF op' = None THEN i \in mutexSeen' ELSE i \in seen'[Owner[op'.lock]]
                       \/ \E k \in Writers : /\ phase'[k] = "in" /\ Covers(guard'[k], i)
                                             /\ i \in seen'[Owner[k]]
    BY DEF WritesWithMutex
  <2>1. CASE i \in span
    <3>1. phase'[l] = "in" /\ Covers(guard'[l], i) /\ i \in seen'[Owner[l]]
      BY <1>3, <1>4, <2>1 DEF Covers, vars
    <3>. QED BY <1>3, <3>1
  <2>2. CASE i \notin span
    <3>1. \A u \in Threads : i \in seen[u] => i \in seen'[u]
      BY <1>4, <2>2
    <3>2. i \in mutexSeen => i \in mutexSeen'
      BY <1>4, <2>2
    <3>. QED BY <1>1, <1>2, <1>3, <1>6, <3>1, <3>2 DEF WritesWithMutex, vars
  <2>. QED BY <2>1, <2>2
<1>8. WritesWithWaiter'
  <2>1. ASSUME NEW k \in Locks, Waiting(k), complete[k], NEW i \in Elements, Covers(guard[k], i)
        PROVE  i \notin span
    <3>1. client[k] = "granted" /\ k # l
      BY <1>3, <2>1 DEF SyncIInv, PhaseMatches, Waiting
    <3>. QED BY <1>5, <2>1, <3>1
  <2>. QED BY <1>1, <1>2, <1>3, <1>4, <1>6, <2>1 DEF WritesWithWaiter, Waiting, vars
<1>9. OrderedAfterWriters'
  <2>1. ASSUME NEW k \in Locks, phase[k] = "in", k # l, NEW i \in Elements, Covers(guard[k], i)
        PROVE  i \notin span
    <3>1. client[k] = "granted"
      BY <2>1 DEF SyncIInv, PhaseMatches
    <3>. QED BY <1>5, <2>1, <3>1
  <2>. QED BY <1>1, <1>2, <1>3, <1>4, <2>1 DEF OrderedAfterWriters, vars
<1>. QED BY <1>7, <1>8, <1>9 DEF MemoryIInv

\* Who unlocks takes over what the mutex carries and adds what it wrote.
LEMMA UnlockMemory ==
  ASSUME IInv, SyncIInv, MemoryIInv, NEW l \in Locks, SyncUnlock(l)
  PROVE  MemoryIInv'
<1>1. /\ SyncTypeOK /\ PhaseMatches /\ NotificationSomewhere
      /\ WritesWithMutex /\ WritesWithWaiter /\ OrderedAfterWriters
  BY DEF SyncIInv, MemoryIInv
<1>2. Owner \in [Locks -> Threads] /\ Owner[l] \in Threads /\ Writers \subseteq Locks
  BY ThreadAssumption DEF Locks
<1>3. /\ Unlock(l) /\ op = None /\ guard' = [guard EXCEPT ![l] = None]
      /\ phase[l] = "in" /\ phase' = [phase EXCEPT ![l] = "out"]
      /\ UNCHANGED <<complete, unparking, flagSeen>> /\ AcquireMutex(Owner[l])
  BY DEF SyncUnlock, unlock_read, unlock_write, unlock_try_read, unlock_try_write, Unlock, UnlockAt
<1>4. /\ \A k \in Locks \ {l} : phase'[k] = phase[k] /\ guard'[k] = guard[k]
      /\ phase'[l] = "out"
  BY <1>1, <1>3 DEF SyncTypeOK, TypeOK
<1>5. op' # None /\ op'.lock = l
  <2>1. borrow[l] # None
    BY <1>1, <1>3 DEF PhaseMatches, IInv, BorrowIsPrefix
  <2>2. PICK cur \in Locks \cup {None} :
          op' = [lock |-> l, start |-> borrow[l].start, cur |-> cur]
    BY <1>3, <2>1 DEF Unlock, UnlockAt
  <2>3. borrow[l].start \in Indices
    BY <2>1 DEF IInv, TypeOK, Ranges
  <2>4. op' \in Frames
    BY <2>2, <2>3 DEF Frames
  <2>. QED BY <2>2, <2>4, NoneAssumption
<1>6. /\ \A u \in Threads : seen[u] \subseteq seen'[u]
      /\ mutexSeen \subseteq seen'[Owner[l]]
      /\ UNCHANGED <<mutexSeen, tokenSeen>>
  BY <1>1, <1>2, <1>3 DEF AcquireMutex, SyncTypeOK
<1>7. WritesWithMutex'
  <2>. SUFFICES ASSUME NEW i \in Elements, i \notin seen'[Owner[l]]
                PROVE  \E k \in Writers : /\ phase'[k] = "in" /\ Covers(guard'[k], i)
                                          /\ i \in seen'[Owner[k]]
    BY <1>5 DEF WritesWithMutex
  <2>1. PICK k \in Writers : phase[k] = "in" /\ Covers(guard[k], i) /\ i \in seen[Owner[k]]
    BY <1>1, <1>3, <1>6 DEF WritesWithMutex
  <2>2. k \in Locks \ {l}
    BY <1>2, <1>6, <2>1
  <2>. QED BY <1>2, <1>4, <1>6, <2>1, <2>2
<1>8. WritesWithWaiter'
  <2>1. unparking = None
    BY <1>1, <1>3 DEF NotificationSomewhere
  <2>2. \A k \in Locks : Waiting(k)' => k \in Locks \ {l} /\ Waiting(k)
    BY <1>4 DEF Waiting
  <2>. QED BY <1>1, <1>2, <1>3, <1>4, <1>6, <2>1, <2>2 DEF WritesWithWaiter
<1>9. OrderedAfterWriters'
  BY <1>1, <1>2, <1>3, <1>4, <1>6 DEF OrderedAfterWriters
<1>. QED BY <1>7, <1>8, <1>9 DEF MemoryIInv

\* The loop keeps the mutex, and its end leaves everything with the mutex.
LEMMA UnlockInnerMemory ==
  ASSUME SyncIInv, MemoryIInv, SyncUnlockInner
  PROVE  MemoryIInv'
<1>1. /\ SyncTypeOK /\ NotificationSomewhere /\ TypeOK
      /\ WritesWithMutex /\ WritesWithWaiter /\ OrderedAfterWriters
  BY DEF SyncIInv, SyncTypeOK, MemoryIInv
<1>2. /\ op # None /\ op \in Frames /\ unparking = None
      /\ UNCHANGED <<guard, phase, complete, unparking, flagSeen, tokenSeen, seen>>
  BY <1>1 DEF SyncUnlockInner, Truncate, resume_borrow, ResumeAt, InLoop, FinishUnlock, ReleaseMutex,
              memory, TypeOK
<1>3. OrderedAfterWriters'
  BY <1>1, <1>2 DEF OrderedAfterWriters
<1>4. CASE FinishUnlock /\ ReleaseMutex(Owner[op.lock])
  <2>1. op' = None /\ mutexSeen' = mutexSeen \cup seen[Owner[op.lock]]
    BY <1>4 DEF FinishUnlock, ReleaseMutex
  <2>2. WritesWithMutex'
    BY <1>1, <1>2, <2>1 DEF WritesWithMutex
  <2>3. \A k \in Locks : Waiting(k) /\ complete[k] => flagSeen[k] # "nobody"
    BY <1>1, <1>2, NoneAssumption DEF NotificationSomewhere
  <2>4. WritesWithWaiter'
    BY <1>1, <1>2, <2>3 DEF WritesWithWaiter, Waiting
  <2>. QED BY <1>3, <2>2, <2>4 DEF MemoryIInv
<1>5. CASE (Truncate \/ resume_borrow) /\ UNCHANGED memory
  <2>1. op' # None /\ op'.lock = op.lock /\ mutexSeen' = mutexSeen
    BY <1>2, <1>5, NoneAssumption DEF Truncate, resume_borrow, ResumeAt, Frames, memory
  <2>2. WritesWithMutex'
    BY <1>1, <1>2, <2>1 DEF WritesWithMutex
  <2>3. WritesWithWaiter'
    BY <1>1, <1>2, <2>1 DEF WritesWithWaiter, Waiting
  <2>. QED BY <1>3, <2>2, <2>3 DEF MemoryIInv
<1>. QED BY <1>4, <1>5 DEF SyncUnlockInner

\* When the core grants a lock to a waiter, no writer is left on its elements,
\* so the thread that unlocks has seen the last writes.
LEMMA StoreMemory ==
  ASSUME IInv, IInv', SyncIInv, SyncIInv', MemoryIInv, StoreComplete
  PROVE  MemoryIInv'
<1>1. /\ SyncTypeOK /\ TypeOK /\ FrameOK
      /\ WritesWithMutex /\ WritesWithWaiter /\ OrderedAfterWriters
  BY DEF IInv, SyncIInv, MemoryIInv
<1>2. op # None /\ op \in Frames /\ op.cur # None
  BY <1>1 DEF StoreComplete, resume_borrow, ResumeAt, InLoop, TypeOK
<1>3. PICK l \in Locks : l = op.cur
  BY <1>2 DEF Frames
<1>4. Waiting(l)
  <2>1. pending[l] # None
    BY <1>1, <1>2, <1>3 DEF FrameOK, ToVisit
  <2>. QED BY <2>1, PendingWaits
<1>5. /\ client' = [client EXCEPT ![l] = "granted"] /\ guard' = guard
      /\ unparking' = l
      /\ complete' = [complete EXCEPT ![l] = TRUE]
      /\ flagSeen' = [flagSeen EXCEPT ![l] = "nobody"]
      /\ UNCHANGED <<phase, seen, mutexSeen, tokenSeen>>
  BY <1>3 DEF StoreComplete, resume_borrow, ResumeAt
<1>6. /\ \A k \in Locks \ {l} : complete'[k] = complete[k] /\ flagSeen'[k] = flagSeen[k]
      /\ client'[l] = "granted" /\ flagSeen'[l] = "nobody"
  BY <1>1, <1>5 DEF SyncTypeOK, TypeOK
<1>7. op' # None /\ op'.lock = op.lock
  BY <1>2, NoneAssumption DEF StoreComplete, resume_borrow, ResumeAt, Frames
<1>8. WritesWithMutex'
  BY <1>1, <1>2, <1>5, <1>7 DEF WritesWithMutex
<1>9. WritesWithWaiter'
  <2>1. ASSUME NEW i \in Elements, Covers(guard[l], i)
        PROVE  i \in seen[Owner[op.lock]]
    <3>1. ASSUME NEW w \in Writers, phase[w] = "in", Covers(guard[w], i)
          PROVE  FALSE
      <4>1. w # l
        BY <1>4, <3>1 DEF Waiting
      <4>. QED BY <1>5, <1>6, <2>1, <3>1, <4>1, OneWriter
    <3>. QED BY <1>1, <1>2, <3>1 DEF WritesWithMutex
  <2>2. \A k \in Locks \ {l} : Waiting(k)' /\ complete'[k] => Waiting(k) /\ complete[k]
    BY <1>5, <1>6 DEF Waiting
  <2>. QED BY <1>1, <1>2, <1>5, <1>6, <1>7, <2>1, <2>2 DEF WritesWithWaiter
<1>10. OrderedAfterWriters'
  BY <1>1, <1>4, <1>5, <1>6 DEF OrderedAfterWriters, Waiting
<1>. QED BY <1>8, <1>9, <1>10 DEF MemoryIInv

\* Unparking puts the writes into the token.
LEMMA UnparkMemory ==
  ASSUME SyncIInv, MemoryIInv, Unpark
  PROVE  MemoryIInv'
<1>1. /\ SyncTypeOK /\ WritesWithMutex /\ WritesWithWaiter /\ OrderedAfterWriters
  BY DEF SyncIInv, MemoryIInv
<1>2. PICK l \in Locks : l = unparking
  BY <1>1 DEF Unpark, SyncTypeOK
<1>3. Owner \in [Locks -> Threads] /\ Owner[l] \in Threads
  BY ThreadAssumption
<1>4. /\ flagSeen' = [flagSeen EXCEPT ![l] = "token"] /\ unparking' = None
      /\ flagSeen[l] = "nobody"
      /\ UNCHANGED <<vars, phase, complete, seen, mutexSeen>>
  BY <1>1, <1>2 DEF Unpark, WritesWithWaiter
<1>5. /\ \A k \in Locks \ {l} : flagSeen'[k] = flagSeen[k]
      /\ flagSeen'[l] = "token"
      /\ \A u \in Threads : tokenSeen[u] \subseteq tokenSeen'[u]
      /\ seen[Owner[op.lock]] \subseteq tokenSeen'[Owner[l]]
  BY <1>1, <1>2, <1>3, <1>4 DEF Unpark, SyncTypeOK
<1>6. WritesWithMutex'
  BY <1>1, <1>4 DEF WritesWithMutex, vars
<1>7. WritesWithWaiter'
  BY <1>1, <1>3, <1>4, <1>5 DEF WritesWithWaiter, Waiting, vars
<1>8. OrderedAfterWriters'
  BY <1>1, <1>4, <1>5 DEF OrderedAfterWriters, vars
<1>. QED BY <1>6, <1>7, <1>8 DEF MemoryIInv

\* Every step hands the writes on.
LEMMA NextMemory ==
  ASSUME IInv, IInv', SyncIInv, SyncIInv', MemoryIInv, [SyncNext]_syncVars
  PROVE  MemoryIInv'
<1>1. CASE Request
  BY <1>1, GrantMemory, TryFailsMemory DEF Request
<1>2. CASE Progress
  BY <1>2, CheckMemory, ParkMemory, UseGuardMemory, UnlockMemory, UnlockInnerMemory,
     StoreMemory, UnparkMemory DEF Progress
<1>3. CASE UNCHANGED syncVars
  BY <1>3 DEF syncVars, vars, memory, MemoryIInv, WritesWithMutex, WritesWithWaiter,
              OrderedAfterWriters, Waiting
<1>. QED BY <1>1, <1>2, <1>3 DEF SyncNext

\* Who got a lock at once, or was woken by the park token, has seen every write
\* to the elements of its guard: the relaxed flag loses nothing on those paths.
THEOREM OrderedAfterWritersHolds ==
  ASSUME DebugAssertions PROVE SyncSpec => []OrderedAfterWriters
<1>1. IInv /\ IInv' /\ SyncIInv /\ SyncIInv' /\ MemoryIInv /\ [SyncNext]_syncVars => MemoryIInv'
  BY NextMemory
<1>2. MemoryIInv => OrderedAfterWriters
  BY DEF MemoryIInv
<1>. QED BY <1>1, <1>2, MemoryInit, SyncCoreInvariance, SyncInvariance, PTL DEF SyncSpec

-----------------------------------------------------------------------------
(***************************************************************************)
(* The asynchronous lock: no wakeup is lost, and the guards that leave the *)
(* futures exclude each other as the core's borrows do.                    *)
(***************************************************************************)

\* A step of a task is a step of the core or leaves the core alone.
LEMMA AsyncStep == ASSUME [AsyncNext]_asyncVars PROVE [Next]_vars
<1>1. ASSUME NEW l \in Locks, NEW r \in Ranges, NEW p \in Priorities, StartLock(l, r, p)
      PROVE  Next
  BY <1>1 DEF StartLock, Next
<1>2. ASSUME NEW l \in Locks, NEW r \in Ranges, AsyncTryLock(l, r)
      PROVE  Next
  BY <1>2 DEF AsyncTryLock, Next
<1>3. ASSUME NEW l \in Locks, NEW t \in Tasks, Poll(l, t)
      PROVE  UNCHANGED vars
  BY <1>3 DEF Poll, PollPending, PollReady
<1>4. ASSUME NEW l \in Locks, Drop(l)
      PROVE  Next
  BY <1>4 DEF Drop, Next
<1>5. AsyncUnlockInner => Next
  BY DEF AsyncUnlockInner, Next, unlock_inner
<1>6. UNCHANGED asyncVars => UNCHANGED vars
  BY DEF asyncVars
<1>. QED BY <1>1, <1>2, <1>3, <1>4, <1>5, <1>6 DEF AsyncNext

\* Futures and wakers add no behaviour to the core.
THEOREM AsyncImplementsCore == AsyncSpec => Spec
<1>1. AsyncInit => Init
  BY DEF AsyncInit
<1>2. [AsyncNext]_asyncVars => [Next]_vars
  BY AsyncStep
<1>. QED BY <1>1, <1>2, PTL DEF AsyncSpec, Spec

\* No future exists at first.
LEMMA AsyncInitIInv == AsyncInit => AsyncIInv
<1>. SUFFICES ASSUME AsyncInit PROVE AsyncIInv
  OBVIOUS
<1>1. TypeOK
  BY InitIInv DEF AsyncInit, IInv
<1>2. AsyncTypeOK
  BY <1>1 DEF AsyncInit, AsyncTypeOK, FutureStates
<1>3. \A l \in Locks : /\ future[l] = "none" /\ client[l] = "idle" /\ poller[l] = None
                       /\ waker[l] = None
  BY DEF AsyncInit, Init
<1>. QED BY <1>2, <1>3 DEF AsyncIInv, FutureMatches, OneAwait, WakerIsPoller, NoLostWakeup

\* Creating a future, with a lock that may be complete at once.
LEMMA StartLockIInv ==
  ASSUME IInv, AsyncIInv, TypeOK', NEW l \in Locks, NEW r \in Ranges, NEW p, StartLock(l, r, p)
  PROVE  AsyncIInv'
<1>1. AsyncTypeOK /\ FutureMatches /\ OneAwait /\ WakerIsPoller /\ NoLostWakeup /\ TypeOK
  BY DEF AsyncIInv, AsyncTypeOK
<1>2. /\ Lock(l, r, p) /\ future[l] = "none"
      /\ future' = [future EXCEPT ![l] = "pending"]
      /\ waker' = [waker EXCEPT ![l] = None]
      /\ UNCHANGED <<poller, woken>>
  BY DEF StartLock, lock_read, lock_write
<1>3. client'[l] # "idle" /\ \A k \in Locks \ {l} : client'[k] = client[k] /\ pending'[k] = pending[k]
  BY <1>1, <1>2 DEF Lock, LockAt, TypeOK
<1>4. /\ \A k \in Locks \ {l} : future'[k] = future[k] /\ waker'[k] = waker[k]
      /\ future'[l] = "pending" /\ waker'[l] = None /\ poller[l] = None
  BY <1>1, <1>2 DEF AsyncTypeOK, FutureMatches
<1>5. AsyncTypeOK'
  BY <1>1, <1>2 DEF AsyncTypeOK, FutureStates
<1>6. FutureMatches'
  BY <1>1, <1>2, <1>3, <1>4 DEF FutureMatches
<1>7. OneAwait'
  BY <1>1, <1>2 DEF OneAwait
<1>8. WakerIsPoller'
  BY <1>1, <1>2, <1>3, <1>4 DEF WakerIsPoller
<1>9. NoLostWakeup'
  BY <1>1, <1>2, <1>3, <1>4 DEF NoLostWakeup
<1>. QED BY <1>5, <1>6, <1>7, <1>8, <1>9 DEF AsyncIInv

\* Taking a lock without waiting for it.
LEMMA AsyncTryIInv ==
  ASSUME IInv, AsyncIInv, TypeOK', NEW l \in Locks, NEW r \in Ranges, AsyncTryLock(l, r)
  PROVE  AsyncIInv'
<1>1. AsyncTypeOK /\ FutureMatches /\ OneAwait /\ WakerIsPoller /\ NoLostWakeup /\ TypeOK
  BY DEF AsyncIInv, AsyncTypeOK
<1>2. /\ TryLock(l, r) /\ client' = [client EXCEPT ![l] = "granted"] /\ ~claimed[l]
      /\ future' = [future EXCEPT ![l] = "ready"]
      /\ UNCHANGED <<pending, waker, poller, woken>>
  BY DEF AsyncTryLock, try_lock_read, try_lock_write, TryLock, Grant, MayLock
<1>3. client[l] = "idle"
  BY <1>1, <1>2 DEF IInv, BorrowIsPrefix, TypeOK, ClientStates
<1>4. /\ \A k \in Locks \ {l} : future'[k] = future[k] /\ client'[k] = client[k]
      /\ future'[l] = "ready" /\ client'[l] = "granted" /\ poller[l] = None
  BY <1>1, <1>2, <1>3 DEF AsyncTypeOK, TypeOK, FutureMatches
<1>5. AsyncTypeOK'
  BY <1>1, <1>2 DEF AsyncTypeOK, FutureStates
<1>6. FutureMatches'
  BY <1>1, <1>2, <1>4 DEF FutureMatches
<1>7. OneAwait' /\ WakerIsPoller'
  BY <1>1, <1>2 DEF OneAwait, WakerIsPoller
<1>8. NoLostWakeup'
  BY <1>1, <1>2, <1>4 DEF NoLostWakeup
<1>. QED BY <1>5, <1>6, <1>7, <1>8 DEF AsyncIInv

\* Polling: the waker that is left in the core is the one of this poll.
LEMMA PollIInv ==
  ASSUME IInv, AsyncIInv, NEW l \in Locks, NEW t \in Tasks, Poll(l, t)
  PROVE  AsyncIInv'
<1>1. AsyncTypeOK /\ FutureMatches /\ OneAwait /\ WakerIsPoller /\ NoLostWakeup /\ TypeOK
  BY DEF AsyncIInv, AsyncTypeOK
<1>2. /\ future[l] = "pending" /\ woken' = [woken EXCEPT ![t] = FALSE]
      /\ UNCHANGED vars
      /\ \A k \in Locks \ {l} : poller[k] # t
  BY DEF Poll, PollPending, PollReady
<1>3. TypeOK' /\ t # None /\ UNCHANGED <<client, pending>>
  BY <1>1, <1>2, TaskAssumption DEF TypeOK, vars
<1>4. CASE PollPending(l, t)
  <2>1. /\ pending[l] # None /\ UNCHANGED future
        /\ \A k \in Locks \ {l} : waker'[k] = waker[k] /\ poller'[k] = poller[k]
        /\ waker'[l] = t /\ poller'[l] = t
    BY <1>1, <1>4 DEF PollPending, AsyncTypeOK
  <2>2. AsyncTypeOK'
    BY <1>1, <1>3, <1>4 DEF PollPending, AsyncTypeOK
  <2>3. FutureMatches'
    BY <1>1, <1>2, <1>3, <2>1 DEF FutureMatches
  <2>4. OneAwait'
    BY <1>1, <1>2, <2>1 DEF OneAwait
  <2>5. WakerIsPoller'
    BY <1>1, <1>3, <2>1 DEF WakerIsPoller
  <2>6. NoLostWakeup'
    BY <1>1, <1>2, <1>3, <2>1 DEF NoLostWakeup, AsyncTypeOK
  <2>. QED BY <2>2, <2>3, <2>4, <2>5, <2>6 DEF AsyncIInv
<1>5. CASE PollReady(l, t)
  <2>1. /\ pending[l] = None /\ UNCHANGED waker
        /\ \A k \in Locks \ {l} : future'[k] = future[k] /\ poller'[k] = poller[k]
        /\ future'[l] = "ready" /\ poller'[l] = None
    BY <1>1, <1>5 DEF PollReady, AsyncTypeOK
  <2>2. client[l] = "granted"
    <3>1. client[l] # "idle"
      BY <1>1, <1>2 DEF FutureMatches
    <3>2. client[l] # "waiting"
      BY <2>1 DEF IInv, BorrowIsPrefix
    <3>. QED BY <1>1, <3>1, <3>2 DEF TypeOK, ClientStates
  <2>3. AsyncTypeOK'
    BY <1>1, <1>3, <1>5 DEF PollReady, AsyncTypeOK, FutureStates
  <2>4. FutureMatches'
    BY <1>1, <1>3, <2>1, <2>2 DEF FutureMatches
  <2>5. OneAwait'
    BY <1>1, <2>1 DEF OneAwait
  <2>6. WakerIsPoller'
    BY <1>1, <1>3, <2>1 DEF WakerIsPoller
  <2>7. NoLostWakeup'
    BY <1>1, <1>2, <1>3, <2>1 DEF NoLostWakeup, AsyncTypeOK
  <2>. QED BY <2>3, <2>4, <2>5, <2>6, <2>7 DEF AsyncIInv
<1>. QED BY <1>4, <1>5 DEF Poll

\* Dropping a future or a guard.
LEMMA DropIInv ==
  ASSUME IInv, AsyncIInv, TypeOK', NEW l \in Locks, Drop(l)
  PROVE  AsyncIInv'
<1>1. AsyncTypeOK /\ FutureMatches /\ OneAwait /\ WakerIsPoller /\ NoLostWakeup /\ TypeOK
  BY DEF AsyncIInv, AsyncTypeOK
<1>2. Unlock(l) /\ UNCHANGED woken
  BY DEF Drop, unlock_read, unlock_write, unlock_try_read, unlock_try_write
<1>3. /\ \A k \in Locks \ {l} : /\ future'[k] = future[k] /\ waker'[k] = waker[k]
                                /\ poller'[k] = poller[k] /\ client'[k] = client[k]
                                /\ pending'[k] = pending[k]
      /\ future'[l] = "none" /\ waker'[l] = None /\ poller'[l] = None
      /\ client'[l] = "idle" /\ pending'[l] = None
  BY <1>1, <1>2 DEF Drop, Unlock, UnlockAt, AsyncTypeOK, TypeOK
<1>4. AsyncTypeOK'
  BY <1>1, <1>2 DEF Drop, AsyncTypeOK, FutureStates
<1>5. FutureMatches'
  BY <1>1, <1>3 DEF FutureMatches
<1>6. OneAwait'
  BY <1>1, <1>3 DEF OneAwait
<1>7. WakerIsPoller'
  BY <1>1, <1>3 DEF WakerIsPoller
<1>8. NoLostWakeup'
  BY <1>1, <1>2, <1>3 DEF NoLostWakeup
<1>. QED BY <1>4, <1>5, <1>6, <1>7, <1>8 DEF AsyncIInv

\* The unlock loop: who completes is woken in the same step.
LEMMA AsyncUnlockInnerIInv ==
  ASSUME IInv, IInv', AsyncIInv, AsyncUnlockInner
  PROVE  AsyncIInv'
<1>1. AsyncTypeOK /\ FutureMatches /\ OneAwait /\ WakerIsPoller /\ NoLostWakeup /\ TypeOK
  BY DEF AsyncIInv, AsyncTypeOK
<1>t. TypeOK'
  BY DEF IInv
<1>2. UNCHANGED <<future, poller>>
  BY DEF AsyncUnlockInner
<1>3. CASE Truncate \/ FinishUnlock
  <2>1. UNCHANGED <<pending, client, waker, woken>>
    BY <1>3 DEF AsyncUnlockInner, Truncate, FinishUnlock, resume_borrow, ResumeAt, InLoop
  <2>. QED BY <1>1, <1>t, <1>2, <2>1 DEF AsyncIInv, AsyncTypeOK, FutureMatches, OneAwait, WakerIsPoller,
                                   NoLostWakeup
<1>4. CASE resume_borrow
  <2>1. PICK l \in Locks : l = op.cur
    BY <1>1, <1>4 DEF resume_borrow, ResumeAt, InLoop, TypeOK, Frames
  <2>2. pending[l] # None
    BY <1>4, <2>1 DEF IInv, FrameOK, ToVisit, resume_borrow, ResumeAt, InLoop
  <2>3. client[l] = "waiting"
    BY <2>2, WaitingShape
  <2>4. \A k \in Locks \ {l} : pending'[k] = pending[k]
    BY <1>1, <1>4, <2>1 DEF resume_borrow, ResumeAt, TypeOK
  <2>5. CASE client' = client
    <3>1. UNCHANGED <<waker, woken>>
      BY <1>4, <2>5 DEF AsyncUnlockInner, resume_borrow, ResumeAt, Truncate, FinishUnlock, InLoop
    <3>2. pending'[l] # None
      BY <2>3, <2>5 DEF IInv, BorrowIsPrefix
    <3>. QED BY <1>1, <1>t, <1>2, <2>2, <2>4, <2>5, <3>1, <3>2
             DEF AsyncIInv, AsyncTypeOK, FutureMatches, OneAwait, WakerIsPoller, NoLostWakeup
  <2>6. CASE client' # client
    <3>1. /\ woken' = [t \in Tasks |-> woken[t] \/ t = waker[l]]
          /\ waker' = [waker EXCEPT ![l] = None]
      BY <2>1, <2>6 DEF AsyncUnlockInner, WakeOwner, Truncate, FinishUnlock
    <3>2. pending' = [pending EXCEPT ![l] = None] /\ client' = [client EXCEPT ![l] = "granted"]
      BY <1>4, <2>1, <2>6 DEF resume_borrow, ResumeAt
    <3>3. /\ \A k \in Locks \ {l} : waker'[k] = waker[k] /\ client'[k] = client[k]
          /\ pending'[l] = None /\ client'[l] = "granted"
      BY <1>1, <3>1, <3>2 DEF AsyncTypeOK, TypeOK
    <3>4. AsyncTypeOK'
      <4>1. woken' \in [Tasks -> BOOLEAN]
        BY <1>1, <3>1 DEF AsyncTypeOK
      <4>. QED BY <1>1, <1>t, <1>2, <3>1, <4>1 DEF AsyncTypeOK
    <3>5. FutureMatches' /\ OneAwait'
      BY <1>1, <1>2, <2>3, <3>3 DEF FutureMatches, OneAwait
    <3>6. WakerIsPoller'
      BY <1>1, <1>2, <2>4, <3>3 DEF WakerIsPoller
    <3>7. NoLostWakeup'
      <4>1. \A t \in Tasks : woken[t] \/ t = poller[l] => woken'[t]
        BY <1>1, <2>2, <3>1 DEF WakerIsPoller
      <4>. QED BY <1>1, <1>2, <2>4, <4>1 DEF NoLostWakeup, AsyncTypeOK
    <3>. QED BY <3>4, <3>5, <3>6, <3>7 DEF AsyncIInv
  <2>. QED BY <2>5, <2>6
<1>. QED BY <1>3, <1>4 DEF AsyncUnlockInner

\* Every step keeps the invariant.
LEMMA AsyncNextIInv ==
  ASSUME IInv, IInv', AsyncIInv, [AsyncNext]_asyncVars
  PROVE  AsyncIInv'
<1>t. TypeOK'
  BY DEF IInv
<1>1. CASE AsyncNext
  BY <1>1, <1>t, StartLockIInv, AsyncTryIInv, PollIInv, DropIInv, AsyncUnlockInnerIInv DEF AsyncNext
<1>2. CASE UNCHANGED asyncVars
  BY <1>2 DEF asyncVars, vars, AsyncIInv, AsyncTypeOK, TypeOK, FutureMatches, OneAwait,
              WakerIsPoller, NoLostWakeup
<1>. QED BY <1>1, <1>2

\* What the futures and wakers say agrees with the core at all times.
THEOREM AsyncInvariance == ASSUME DebugAssertions PROVE AsyncSpec => []AsyncIInv
<1>1. IInv /\ IInv' /\ AsyncIInv /\ [AsyncNext]_asyncVars => AsyncIInv'
  BY AsyncNextIInv
<1>. QED BY <1>1, AsyncInitIInv, AsyncImplementsCore, Invariance, PTL DEF AsyncSpec

\* The variables of the futures keep their types.
THEOREM AsyncTypeCorrect == ASSUME DebugAssertions PROVE AsyncSpec => []AsyncTypeOK
<1>1. AsyncIInv => AsyncTypeOK
  BY DEF AsyncIInv
<1>. QED BY <1>1, AsyncInvariance, PTL

\* Whoever was told to wait is scheduled when its lock completes.
THEOREM NoLostWakeupHolds == ASSUME DebugAssertions PROVE AsyncSpec => []NoLostWakeup
<1>1. AsyncIInv => NoLostWakeup
  BY DEF AsyncIInv
<1>. QED BY <1>1, AsyncInvariance, PTL

\* Guards that have left their futures never overlap in conflict.
THEOREM ReadyExclusiveHolds == ASSUME DebugAssertions PROVE AsyncSpec => []ReadyExclusive
<1>1. AsyncIInv /\ MutualExclusion => ReadyExclusive
  BY DEF AsyncIInv, FutureMatches, MutualExclusion, ReadyExclusive
<1>. QED BY <1>1, AsyncInvariance, AsyncImplementsCore, MutualExclusionHolds, PTL

\* A wakeup goes to the last poller of the lock that completes, to nobody else.
THEOREM WakesOnlyPollerHolds == ASSUME DebugAssertions PROVE AsyncSpec => WakesOnlyPoller
<1>1. IInv /\ AsyncIInv /\ [AsyncNext]_asyncVars =>
        [\A t \in Tasks :
           ~woken[t] /\ woken'[t]
             => \E l \in Locks : poller[l] = t /\ pending[l] # None /\ pending'[l] = None]_asyncVars
  <2>. SUFFICES ASSUME IInv, AsyncIInv, [AsyncNext]_asyncVars, NEW t \in Tasks,
                       ~woken[t], woken'[t]
                PROVE  \E l \in Locks : poller[l] = t /\ pending[l] # None /\ pending'[l] = None
    OBVIOUS
  <2>1. TypeOK /\ woken \in [Tasks -> BOOLEAN] /\ WakerIsPoller /\ FrameOK
    BY DEF IInv, AsyncIInv, AsyncTypeOK
  <2>2. AsyncUnlockInner
    <3>1. ~UNCHANGED woken
      OBVIOUS
    <3>2. \A l \in Locks, x \in Tasks : ~Poll(l, x)
      BY <2>1 DEF Poll, PollPending, PollReady
    <3>. QED BY <3>1, <3>2 DEF AsyncNext, StartLock, AsyncTryLock, Drop, asyncVars
  <2>3. resume_borrow /\ client' # client /\ WakeOwner(op.cur)
    BY <2>2 DEF AsyncUnlockInner
  <2>4. PICK l \in Locks : l = op.cur
    BY <2>1, <2>3 DEF resume_borrow, ResumeAt, InLoop, TypeOK, Frames
  <2>5. pending[l] # None
    BY <2>1, <2>3, <2>4 DEF FrameOK, ToVisit, resume_borrow, ResumeAt, InLoop
  <2>6. pending'[l] = None
    BY <2>1, <2>3, <2>4 DEF resume_borrow, ResumeAt, TypeOK
  <2>7. poller[l] = t
    BY <2>1, <2>3, <2>4, <2>5 DEF WakeOwner, WakerIsPoller
  <2>. QED BY <2>5, <2>6, <2>7
<1>. QED BY <1>1, AsyncInvariance, AsyncImplementsCore, Invariance, PTL
         DEF AsyncSpec, WakesOnlyPoller

-----------------------------------------------------------------------------
(***************************************************************************)
(* Lifetimes, for any number of state objects and containers.  Where a     *)
(* panic ends the program, the core's inductive invariant outlives all     *)
(* clients do, forgetting guards included; where guards are not forgotten, *)
(* a panic may be survived.  The pointer in a guard needs neither, but a   *)
(* panic of deref_mut must end the program.                                *)
(***************************************************************************)

\* The setting of a program never changes.
LEMMA SameSetting ==
  ASSUME [SliceNext]_sliceVars
  PROVE  PanicAborts' = PanicAborts /\ Forgetting' = Forgetting /\ DerefPanics' = DerefPanics
  BY DEF SliceNext, sliceVars, PanicAborts, Forgetting, DerefPanics

-----------------------------------------------------------------------------
(* Where a panic ends the program *)

\* Nothing but a state object that exists is claimed.
LifeIInv == running =>
  /\ IInv
  /\ storage \in [Locks -> Storages]
  /\ \A l \in Locks : claimed[l] => Alive(l)

\* A node in a tree belongs to a claimed state object.
LEMMA LinkedIsClaimed ==
  ASSUME IInv, NEW l \in Locks, Linked(l)
  PROVE  claimed[l]
<1>1. TypeOK /\ BorrowIsPrefix
  BY DEF IInv
<1>. QED BY <1>1 DEF BorrowIsPrefix, Linked, TypeOK, ClientStates

\* A claimed state object is in a tree, unless it is being unlocked.
LEMMA ClaimedIsLinked ==
  ASSUME IInv, op = None, NEW l \in Locks, claimed[l]
  PROVE  Linked(l)
<1>1. TypeOK /\ BorrowIsPrefix
  BY DEF IInv
<1>. QED BY <1>1 DEF BorrowIsPrefix, Linked, TypeOK, ClientStates

\* Locking claims one state object, which has its inner object by then.
LEMMA AcquireLife ==
  ASSUME LifeIInv, running, IInv', NEW l \in Locks,
         claimed' = [claimed EXCEPT ![l] = TRUE], storage' = get_or_insert(l)
  PROVE  LifeIInv'
<1>1. IInv /\ TypeOK /\ storage \in [Locks -> Storages] /\ \A k \in Locks : claimed[k] => Alive(k)
  BY DEF LifeIInv, IInv
<1>2. storage' \in [Locks -> Storages]
  BY <1>1 DEF get_or_insert, Storages
<1>3. ASSUME NEW k \in Locks, claimed'[k]
      PROVE  Alive(k)'
  BY <1>1, <1>3 DEF Alive, get_or_insert, TypeOK
<1>. QED BY <1>2, <1>3 DEF LifeIInv

\* The other steps claim nothing and drop nothing that is claimed.
LEMMA ReleaseLife ==
  ASSUME LifeIInv, running, IInv', storage' \in [Locks -> Storages],
         \A k \in Locks : claimed'[k] => claimed[k],
         \A k \in Locks : Alive(k) /\ claimed'[k] => Alive(k)'
  PROVE  LifeIInv'
  BY DEF LifeIInv

\* What leaves the core alone keeps its invariant.
LEMMA SameCore == ASSUME IInv, DebugAssertions, UNCHANGED vars PROVE IInv'
  BY NextIInv

\* A core whose trees are empty is as good as new when its roots are gone.
LEMMA DropLockIInv ==
  ASSUME IInv, DropLock, \A l \in Locks : ~Linked(l)
  PROVE  IInv' /\ claimed' = claimed
<1>1. op = None /\ op' = None /\ claimed' = claimed
  BY DEF DropLock, Unborrowed
<1>2. \A l \in Locks : ~claimed[l]
  BY <1>1, ClaimedIsLinked
<1>3. TypeOK
  BY DEF IInv
<1>4. claimed = [l \in Locks |-> FALSE]
  BY <1>2, <1>3 DEF TypeOK
<1>5. Init'
  BY <1>1, <1>4 DEF Init, DropLock
<1>6. Init' => IInv'
  BY InitIInv, PTL
<1>. QED BY <1>1, <1>5, <1>6

LEMMA SliceNextLife ==
  ASSUME LifeIInv, DebugAssertions, PanicAborts, [SliceNext]_sliceVars
  PROVE  LifeIInv'
<1>. SUFFICES ASSUME running'
              PROVE  LifeIInv'
  BY DEF LifeIInv
<1>0. CASE UNCHANGED sliceVars
  <2>1. UNCHANGED vars /\ storage' = storage /\ running
    BY <1>0 DEF sliceVars, lifeVars
  <2>2. IInv /\ storage \in [Locks -> Storages]
    BY <2>1 DEF LifeIInv
  <2>3. IInv'
    BY <2>1, <2>2, SameCore
  <2>. QED BY <2>1, <2>2, <2>3, ReleaseLife DEF Alive, vars
<1>a. CASE SliceNext
  <2>0. running
    BY <1>a DEF SliceNext, SliceStep, NewState, DropState, DropGuard, ForgetGuard, Holds, try_acquire,
                try_refused, LockPanics, acquire, MayEnter, Available, Unlocking, DropLock,
                NewLock, replace_container, update_container
  <2>i. /\ IInv /\ TypeOK /\ storage \in [Locks -> Storages]
        /\ \A l \in Locks : claimed[l] => Alive(l)
    BY <2>0 DEF LifeIInv, IInv
  <2>1. ASSUME NEW l \in Locks, NewState(l)
        PROVE  LifeIInv'
    <3>1. ~claimed[l]
      BY <2>1, <2>i DEF NewState, Alive
    <3>2. claimed' = claimed
      BY <2>1, <2>i, <3>1 DEF NewState, TypeOK
    <3>3. IInv'
      BY <2>1, <2>i, <3>2, SameCore DEF NewState, vars
    <3>4. storage' = [storage EXCEPT ![l] = "empty"]
      BY <2>1 DEF NewState
    <3>. QED BY <2>0, <2>i, <3>1, <3>2, <3>3, <3>4, ReleaseLife DEF Alive, Storages
  <2>2. ASSUME NEW l \in Locks, DropState(l)
        PROVE  LifeIInv'
    <3>1. ~EarlyDropPanics(l) /\ UNCHANGED vars /\ storage' = [storage EXCEPT ![l] = "none"]
      BY <2>2 DEF DropState, Panic
    <3>2. ~claimed[l]
      BY <2>2, <2>i, <3>1 DEF DropState, EarlyDropPanics, Alive
    <3>3. IInv'
      BY <2>i, <3>1, SameCore
    <3>4. claimed' = claimed
      BY <3>1 DEF vars
    <3>. QED BY <2>0, <2>i, <3>1, <3>2, <3>3, <3>4, ReleaseLife DEF Alive, Storages
  <2>3. ASSUME NEW l \in Locks, DropGuard(l)
        PROVE  LifeIInv'
    <3>1. Unlock(l) /\ storage' = storage
      BY <2>3 DEF DropGuard
    <3>2. IInv'
      BY <2>i, <3>1, UnlockIInv
    <3>3. \A k \in Locks : claimed'[k] => claimed[k]
      BY <2>i, <3>1 DEF Unlock, UnlockAt, TypeOK
    <3>. QED BY <2>0, <2>i, <3>1, <3>2, <3>3, ReleaseLife DEF Alive
  <2>4. ASSUME NEW l \in Locks, ForgetGuard(l)
        PROVE  LifeIInv'
    <3>1. UNCHANGED vars /\ storage' \in {storage, [storage EXCEPT ![l] = "leaked"]}
      BY <2>4 DEF ForgetGuard
    <3>2. IInv' /\ claimed' = claimed
      BY <2>i, <3>1, SameCore DEF vars
    <3>3. storage' \in [Locks -> Storages]
      BY <2>i, <3>1 DEF Storages
    <3>4. \A k \in Locks : Alive(k) => Alive(k)'
      BY <2>i, <3>1 DEF Alive
    <3>. QED BY <2>0, <3>2, <3>3, <3>4, ReleaseLife
  <2>5. ASSUME NEW l \in Locks, NEW r \in Ranges, try_acquire(l, r)
        PROVE  LifeIInv'
    <3>1. TryLock(l, r) /\ storage' = get_or_insert(l)
      BY <2>5 DEF try_acquire, MakeGuard
    <3>2. IInv' /\ claimed' = [claimed EXCEPT ![l] = TRUE]
      BY <2>i, <3>1, TryLockIInv DEF TryLock, Grant
    <3>. QED BY <2>0, <3>1, <3>2, AcquireLife
  <2>6. ASSUME NEW l \in Locks, NEW r \in Ranges, try_refused(l, r)
        PROVE  LifeIInv'
    <3>1. UNCHANGED vars /\ storage' \in {storage, [storage EXCEPT ![l] = "inner"]}
      BY <2>6 DEF try_refused, get_or_insert
    <3>2. IInv' /\ claimed' = claimed
      BY <2>i, <3>1, SameCore DEF vars
    <3>3. storage' \in [Locks -> Storages]
      BY <2>i, <3>1 DEF Storages
    <3>4. \A k \in Locks : Alive(k) => Alive(k)'
      BY <2>i, <3>1 DEF Alive
    <3>. QED BY <2>0, <3>2, <3>3, <3>4, ReleaseLife
  <2>7. ASSUME NEW l \in Locks, NEW r \in Ranges, LockPanics(l, r)
        PROVE  LifeIInv'
    BY <2>7 DEF LockPanics, Panic
  <2>8. ASSUME NEW l \in Locks, NEW r \in Ranges, NEW p \in Priorities, acquire(l, r, p)
        PROVE  LifeIInv'
    <3>1. l \in Blocking /\ Lock(l, r, p) /\ storage' = get_or_insert(l)
      BY <2>8 DEF acquire, MakeGuard
    <3>2. IInv' /\ claimed' = [claimed EXCEPT ![l] = TRUE]
      BY <2>i, <3>1, LockIInv DEF Lock, LockAt
    <3>. QED BY <2>0, <3>1, <3>2, AcquireLife
  <2>9. ASSUME Unlocking
        PROVE  LifeIInv'
    <3>1. unlock_inner /\ storage' = storage
      BY <2>9 DEF Unlocking, lifeVars
    <3>2. IInv'
      BY <2>i, <3>1, NextIInv DEF Next
    <3>3. \A k \in Locks : claimed'[k] => claimed[k]
      BY <2>i, <3>1 DEF unlock_inner, Truncate, resume_borrow, ResumeAt, FinishUnlock, TypeOK
    <3>. QED BY <2>0, <2>i, <3>1, <3>2, <3>3, ReleaseLife DEF Alive
  <2>10. ASSUME DropLock
         PROVE  LifeIInv'
    <3>1. (\A l \in Locks : ~Linked(l)) /\ storage' = storage
      BY <2>10 DEF DropLock, Panic
    <3>2. IInv' /\ claimed' = claimed
      BY <2>i, <2>10, <3>1, DropLockIInv
    <3>. QED BY <2>0, <2>i, <3>1, <3>2, ReleaseLife DEF Alive
  <2>11. ASSUME NewLock \/ replace_container \/ update_container
         PROVE  LifeIInv'
    <3>1. UNCHANGED vars /\ storage' = storage
      BY <2>11 DEF NewLock, replace_container, update_container
    <3>2. IInv' /\ claimed' = claimed
      BY <2>i, <3>1, SameCore DEF vars
    <3>. QED BY <2>0, <2>i, <3>1, <3>2, ReleaseLife DEF Alive
  <2>. QED BY <1>a, <2>1, <2>2, <2>3, <2>4, <2>5, <2>6, <2>7, <2>8, <2>9, <2>10, <2>11
              DEF SliceNext, SliceStep
<1>. QED BY <1>0, <1>a

LEMMA LifeInvariance ==
  ASSUME DebugAssertions PROVE SliceSpec /\ PanicAborts => []LifeIInv
<1>1. SliceInit => LifeIInv
  BY InitIInv DEF SliceInit, LifeIInv, Storages, Init
<1>2. PanicAborts /\ LifeIInv /\ [SliceNext]_sliceVars => LifeIInv'
  BY SliceNextLife
<1>3. PanicAborts /\ [SliceNext]_sliceVars => PanicAborts'
  BY SameSetting
<1>. QED BY <1>1, <1>2, <1>3, PTL DEF SliceSpec

\* With panic = "abort", a state object's parent pointer never stands for a
\* lock that has been replaced by another one at the same address.
THEOREM OriginCorrectHolds ==
  ASSUME DebugAssertions PROVE SliceSpec => []OriginCorrect
<1>1. LifeIInv => OriginCorrect
  BY ClaimedIsLinked DEF LifeIInv, OriginCorrect, EarlyDropPanics
<1>2. ~PanicAborts => OriginCorrect
  BY DEF OriginCorrect
<1>3. ~PanicAborts /\ [SliceNext]_sliceVars => (~PanicAborts)'
  BY SameSetting
<1>. QED BY <1>1, <1>2, <1>3, LifeInvariance, PTL DEF SliceSpec

-----------------------------------------------------------------------------
(* The pointers of guards *)

ContainerOK == container \in Containers

\* The cached pointer is up to date, and what guards hold is a part of it.
PtrIInv == running =>
  /\ ptr = container
  /\ guard \in [Locks -> Ranges \cup {None}]
  /\ view \in [Locks -> Containers \cup {None}]
  /\ \A l \in Locks : view[l] # None =>
       place = "lock" /\ view[l] = ptr /\ guard[l].end <= ptr.len

\* Locking: the range has been checked against the pointer that is kept.
LEMMA AcquirePtr ==
  ASSUME PtrIInv, running, place = "lock", container \in Containers,
         NEW l \in Locks, NEW r \in Ranges, slice(r),
         guard' = [guard EXCEPT ![l] = r], MakeGuard(l)
  PROVE  PtrIInv'
<1>1. /\ ptr = container /\ ptr' = ptr /\ container' = container /\ place' = place
      /\ view' = [view EXCEPT ![l] = ptr]
      /\ guard \in [Locks -> Ranges \cup {None}]
      /\ view \in [Locks -> Containers \cup {None}]
  BY DEF PtrIInv, MakeGuard
<1>2. guard' \in [Locks -> Ranges \cup {None}] /\ view' \in [Locks -> Containers \cup {None}]
  BY <1>1
<1>3. ASSUME NEW k \in Locks, view'[k] # None
      PROVE  place' = "lock" /\ view'[k] = ptr' /\ guard'[k].end <= ptr'.len
  <2>1. CASE k = l
    BY <1>1, <2>1 DEF slice
  <2>2. CASE k # l
    BY <1>1, <1>3, <2>2 DEF PtrIInv
  <2>. QED BY <2>1, <2>2
<1>. QED BY <1>1, <1>2, <1>3 DEF PtrIInv

\* Nobody is looking: the container and the lock may change.
LEMMA UnborrowedPtr ==
  ASSUME PtrIInv, running, Unborrowed, view' = view, ptr' = container',
         guard' \in [Locks -> Ranges \cup {None}]
  PROVE  PtrIInv'
  BY DEF PtrIInv, Unborrowed

\* The other steps leave the pointers alone and may end guards.
LEMMA OtherPtr ==
  ASSUME PtrIInv, running, UNCHANGED <<container, ptr, place>>,
         guard' \in [Locks -> Ranges \cup {None}], view' \in [Locks -> Containers \cup {None}],
         \A k \in Locks : view'[k] # None => view'[k] = view[k] /\ guard'[k] = guard[k]
  PROVE  PtrIInv'
  BY DEF PtrIInv

LEMMA SliceNextPtr ==
  ASSUME PtrIInv, DerefPanicIsFatal, container \in Containers, [SliceNext]_sliceVars
  PROVE  PtrIInv' /\ container' \in Containers
<1>0. CASE UNCHANGED sliceVars
  BY <1>0 DEF sliceVars, lifeVars, vars, PtrIInv
<1>a. CASE SliceNext
  <2>0. running
    BY <1>a DEF SliceNext, SliceStep, NewState, DropState, DropGuard, ForgetGuard, Holds, try_acquire,
                try_refused, LockPanics, acquire, MayEnter, Available, Unlocking, DropLock,
                NewLock, replace_container, update_container
  <2>i. /\ guard \in [Locks -> Ranges \cup {None}] /\ view \in [Locks -> Containers \cup {None}]
        /\ \A l \in Locks : view[l] # None => place = "lock"
    BY <2>0 DEF PtrIInv
  <2>1. ASSUME NEW l \in Locks, NewState(l) \/ DropState(l)
        PROVE  PtrIInv' /\ container' \in Containers
    <3>1. UNCHANGED <<guard, view, container, ptr, place>>
      BY <2>1 DEF NewState, DropState, vars
    <3>. QED BY <2>0, <2>i, <3>1, OtherPtr
  <2>2. ASSUME NEW l \in Locks, DropGuard(l) \/ ForgetGuard(l)
        PROVE  PtrIInv' /\ container' \in Containers
    <3>1. /\ UNCHANGED <<container, ptr, place>> /\ view' = [view EXCEPT ![l] = None]
          /\ guard' \in {guard, [guard EXCEPT ![l] = None]}
      BY <2>2 DEF DropGuard, ForgetGuard, Unlock, UnlockAt, vars
    <3>. QED BY <2>0, <2>i, <3>1, OtherPtr
  <2>3. ASSUME NEW l \in Locks, NEW r \in Ranges, try_refused(l, r) \/ LockPanics(l, r)
        PROVE  PtrIInv' /\ container' \in Containers
    <3>1. UNCHANGED <<guard, view, container, ptr, place>>
      BY <2>3 DEF try_refused, LockPanics, vars
    <3>. QED BY <2>0, <2>i, <3>1, OtherPtr
  <2>4. ASSUME NEW l \in Locks, NEW r \in Ranges,
               try_acquire(l, r) \/ (\E p \in Priorities : acquire(l, r, p))
        PROVE  PtrIInv' /\ container' \in Containers
    <3>1. /\ slice(r) /\ place = "lock" /\ MakeGuard(l)
          /\ guard' = [guard EXCEPT ![l] = r] /\ container' = container
      BY <2>4 DEF try_acquire, acquire, MayEnter, Available, TryLock, Grant, Lock, LockAt, MakeGuard
    <3>. QED BY <2>0, <3>1, AcquirePtr
  <2>5. ASSUME Unlocking
        PROVE  PtrIInv' /\ container' \in Containers
    <3>1. UNCHANGED <<guard, view, container, ptr, place>>
      BY <2>5 DEF Unlocking, unlock_inner, Truncate, resume_borrow, ResumeAt, FinishUnlock, lifeVars
    <3>. QED BY <2>0, <2>i, <3>1, OtherPtr
  <2>6. ASSUME DropLock
        PROVE  PtrIInv' /\ container' \in Containers
    <3>1. /\ Unborrowed /\ view' = view /\ ptr' = ptr /\ container' = container
          /\ guard' = [l \in Locks |-> None]
      BY <2>6 DEF DropLock
    <3>2. ptr' = container'
      BY <2>0, <3>1 DEF PtrIInv
    <3>. QED BY <2>0, <3>1, <3>2, UnborrowedPtr
  <2>7. ASSUME NewLock
        PROVE  PtrIInv' /\ container' \in Containers
    <3>1. /\ place = "free" /\ ptr' = container' /\ container' \in Containers
          /\ view' = view /\ guard' = guard
      BY <2>7 DEF NewLock, Fresh, vars
    <3>2. \A l \in Locks : view'[l] = None
      BY <2>i, <3>1
    <3>. QED BY <2>i, <3>1, <3>2 DEF PtrIInv
  <2>8. ASSUME replace_container \/ update_container
        PROVE  PtrIInv' /\ container' \in Containers
    <3>1. /\ Unborrowed /\ view' = view /\ guard' = guard
      BY <2>8 DEF replace_container, update_container, vars
    <3>2. container' \in Containers
      BY <2>8 DEF replace_container, update_container, Fresh, Updated
    <3>3. CASE ~running'
      BY <3>2, <3>3 DEF PtrIInv
    <3>4. CASE running'
      <4>1. DerefPanics => ~Panic
        BY <3>4 DEF DerefPanicIsFatal, Panic
      <4>2. ptr' = container'
        BY <2>0, <2>8, <3>4, <4>1 DEF replace_container, update_container
      <4>. QED BY <2>0, <2>i, <3>1, <3>2, <4>2, UnborrowedPtr
    <3>. QED BY <3>3, <3>4
  <2>. QED BY <1>a, <2>1, <2>2, <2>3, <2>4, <2>5, <2>6, <2>7, <2>8 DEF SliceNext, SliceStep
<1>. QED BY <1>0, <1>a

\* Guards point into the present container, whatever panics, is forgotten or
\* is poisoned, if a panic of Container::deref_mut ends the program.
THEOREM GuardsPointIntoContainerHolds == SliceSpec => []GuardsPointIntoContainer
<1>1. SliceInit => PtrIInv /\ ContainerOK
  BY DEF SliceInit, Init, PtrIInv, ContainerOK
<1>2. DerefPanicIsFatal /\ PtrIInv /\ ContainerOK /\ [SliceNext]_sliceVars
        => PtrIInv' /\ ContainerOK'
  BY SliceNextPtr DEF ContainerOK
<1>3. [SliceNext]_sliceVars => (DerefPanicIsFatal' <=> DerefPanicIsFatal)
  BY SameSetting DEF DerefPanicIsFatal
<1>4. PtrIInv => GuardsPointIntoContainer
  BY DEF PtrIInv, GuardsPointIntoContainer
<1>5. ~DerefPanicIsFatal => GuardsPointIntoContainer
  BY DEF GuardsPointIntoContainer
<1>. QED BY <1>1, <1>2, <1>3, <1>4, <1>5, PTL DEF SliceSpec

-----------------------------------------------------------------------------
(* Where guards are not forgotten *)

\* What the cells and the frame hold, with no more than the walks need.
CellsOK ==
  /\ borrow \in [Locks -> [start : Indices, end : Indices] \cup {None}]
  /\ pending \in [Locks -> [start : Indices, end : Indices, priority : Priorities] \cup {None}]
  /\ op \in Frames \cup {None}

\* A search for a conflict returns an index, if anything.
LEMMA FirstConflictIndex ==
  ASSUME CellsOK, NEW l \in Locks, NEW r, r.start \in Indices, r.end \in Indices
  PROVE  FirstConflict(l, r) \in Indices \cup {None}
<1>0. /\ \A k \in Locks : borrow[k] # None => borrow[k].start \in Indices /\ borrow[k].end \in Indices
      /\ Indices \subseteq Nat
      /\ Writes \subseteq Locks /\ Reads \subseteq Locks
      /\ \A k \in Writes \cup Reads : borrow[k] # None
  BY IndexAssumption DEF CellsOK, Indices, Writes, Reads, Locks
<1>1. first_write_borrow_in_range(r) \in Indices \cup {None}
  <2>. DEFINE after == {k \in Writes : borrow[k].end > r.start}
              first == CHOOSE k \in after : \A j \in after : borrow[k].start <= borrow[j].start
  <2>1. CASE after = {}
    BY <2>1 DEF first_write_borrow_in_range
  <2>2. CASE after # {}
    <3>. DEFINE S == {borrow[k].start : k \in after}
    <3>1. S \in SUBSET Nat /\ S # {}
      BY <1>0, <2>2
    <3>2. PICK m \in S : \A i \in S : m <= i
      BY <3>1, NatMin
    <3>3. PICK k \in after : \A j \in after : borrow[k].start <= borrow[j].start
      BY <3>2
    <3>4. first \in after
      BY <3>3
    <3>5. borrow[first].start \in Indices
      BY <1>0, <3>4
    <3>. HIDE DEF first
    <3>6. MaxOf(borrow[first].start, r.start) \in Indices
      BY <3>5 DEF MaxOf
    <3>. QED BY <3>6 DEF first_write_borrow_in_range, first
  <2>. QED BY <2>1, <2>2
<1>2. first_read_borrow_in_range(r) \in Indices \cup {None}
  <2>. DEFINE after == {i \in Endpoints : i > r.start}
              first == CHOOSE i \in after : \A j \in after : i <= j
  <2>0. Endpoints \subseteq Indices
    BY <1>0 DEF Endpoints
  <2>1. CASE after = {}
    BY <2>1 DEF first_read_borrow_in_range
  <2>2. CASE after # {}
    <3>1. after \in SUBSET Nat
      BY <1>0, <2>0
    <3>2. PICK m \in after : \A i \in after : m <= i
      BY <2>2, <3>1, NatMin
    <3>3. first \in after
      BY <3>2
    <3>4. first \in Indices
      BY <2>0, <3>3
    <3>. HIDE DEF first
    <3>. QED BY <2>2, <3>4 DEF first_read_borrow_in_range, first
  <2>. QED BY <2>1, <2>2
<1>. QED BY <1>1, <1>2 DEF FirstConflict, first_conflict_for_write, MinOf

\* While the mutex is not poisoned, whatever is linked has a guard or is being
\* unlocked; a lock that is gone has no guards and no trees.
WalkIInv ==
  /\ CellsOK
  /\ DOMAIN view = Locks /\ DOMAIN storage = Locks
  /\ container \in Containers /\ ptr \in Containers
  /\ op # None => /\ pending[op.lock] = None
                  /\ op.cur # None => pending[op.cur] # None
  /\ poisoned => op = None
  /\ place = "free" => Unborrowed /\ \A l \in Locks : ~Linked(l)
  /\ ~poisoned => \A l \in Locks : Linked(l) =>
       Alive(l) /\ (view[l] # None \/ (op # None /\ op.lock = l))

\* Locking links one state object, which its new guard borrows.
LEMMA AcquireWalk ==
  ASSUME WalkIInv, NEW l \in Locks, NEW r \in Ranges, MayEnter(l, r), MakeGuard(l),
         TryLock(l, r) \/ \E p \in Priorities : Lock(l, r, p)
  PROVE  WalkIInv'
<1>1. /\ ~poisoned /\ place = "lock" /\ poisoned' = poisoned /\ place' = place
      /\ view' = [view EXCEPT ![l] = ptr] /\ storage' = [storage EXCEPT ![l] = "inner"]
      /\ UNCHANGED <<container, ptr>>
  BY DEF MayEnter, Available, MakeGuard, get_or_insert
<1>2. r.start \in Indices /\ r.end \in Indices /\ CellsOK /\ op = None /\ op' = None
  BY DEF Ranges, WalkIInv, TryLock, Grant, Lock, LockAt, MayLock
<1>3. FirstConflict(l, r) \in Indices \cup {None}
  BY <1>2, FirstConflictIndex
<1>4. CellsOK'
  <2>1. CASE TryLock(l, r)
    BY <1>2, <2>1 DEF TryLock, Grant, CellsOK, Ranges
  <2>2. ASSUME NEW p \in Priorities, Lock(l, r, p)
        PROVE  CellsOK'
    BY <1>2, <1>3, <2>2 DEF Lock, LockAt, CellsOK, Ranges, BorrowUpTo
  <2>. QED BY <2>1, <2>2
<1>5. \A k \in Locks \ {l} : borrow'[k] = borrow[k] /\ pending'[k] = pending[k]
  BY <1>2 DEF TryLock, Grant, Lock, LockAt, CellsOK
<1>6. ASSUME NEW k \in Locks, Linked(k)'
      PROVE  Alive(k)' /\ view'[k] # None
  <2>1. CASE k = l
    BY <1>1, <2>1, SliceAssumption DEF Alive, WalkIInv
  <2>2. CASE k # l
    <3>1. Linked(k)
      BY <1>5, <1>6, <2>2 DEF Linked
    <3>. QED BY <1>1, <1>2, <2>2, <3>1 DEF WalkIInv, Alive
  <2>. QED BY <2>1, <2>2
<1>. QED BY <1>1, <1>2, <1>4, <1>6 DEF WalkIInv

\* Unlocking: the state object passes from its guard to the unlock loop.
LEMMA UnlockWalk ==
  ASSUME WalkIInv, NEW l \in Locks, DropGuard(l), ~poisoned
  PROVE  WalkIInv'
<1>1. /\ op = None /\ place # "free" /\ borrow' = borrow /\ CellsOK
      /\ pending' = [pending EXCEPT ![l] = None] /\ view' = [view EXCEPT ![l] = None]
      /\ UNCHANGED <<storage, container, ptr, place, poisoned>>
  BY DEF DropGuard, Holds, Unlock, UnlockAt, WalkIInv, Unborrowed
<1>2. \/ borrow[l] = None /\ op' = op
      \/ /\ op' \in Frames /\ op' # None /\ op'.lock = l
         /\ op'.cur # None => op'.cur \in Locks \ {l} /\ pending[op'.cur] # None
  <2>1. CASE borrow[l] = None
    BY <2>1 DEF DropGuard, Unlock, UnlockAt
  <2>2. CASE borrow[l] # None
    <3>1. PICK cur \in Locks \cup {None} :
             /\ IsMax(cur, WaitersInside(l))
             /\ op' = [lock |-> l, start |-> borrow[l].start, cur |-> cur]
      BY <2>2 DEF DropGuard, Unlock, UnlockAt
    <3>2. cur # None => cur \in WaitersInside(l)
      BY <3>1 DEF IsMax
    <3>3. cur # None => cur \in Locks \ {l} /\ pending[cur] # None
      BY <3>1, <3>2 DEF WaitersInside, Waits
    <3>4. op' \in Frames
      BY <1>1, <2>2, <3>1 DEF CellsOK, Frames
    <3>. QED BY <3>1, <3>3, <3>4, NoneAssumption
  <2>. QED BY <2>1, <2>2
<1>3. CellsOK'
  BY <1>1, <1>2 DEF CellsOK
<1>4. ASSUME NEW k \in Locks, Linked(k)'
      PROVE  Alive(k)' /\ (view'[k] # None \/ (op' # None /\ op'.lock = k))
  <2>1. Linked(k)
    BY <1>1, <1>4 DEF Linked, CellsOK
  <2>2. CASE k = l
    BY <1>1, <1>2, <1>4, <2>1, <2>2 DEF Linked, WalkIInv, Alive, CellsOK
  <2>3. CASE k # l
    BY <1>1, <2>1, <2>3 DEF WalkIInv, Alive
  <2>. QED BY <2>2, <2>3
<1>5. op' # None => /\ pending'[op'.lock] = None
                    /\ op'.cur # None => pending'[op'.cur] # None
  BY <1>1, <1>2 DEF CellsOK
<1>. QED BY <1>1, <1>3, <1>4, <1>5 DEF WalkIInv

\* The loop moves nodes of linked state objects only.
LEMMA UnlockingWalk ==
  ASSUME WalkIInv, Unlocking
  PROVE  WalkIInv'
<1>0. op # None /\ CellsOK
  BY DEF Unlocking, unlock_inner, Truncate, resume_borrow, ResumeAt, FinishUnlock, InLoop, WalkIInv
<1>1. /\ ~poisoned /\ place # "free"
      /\ op.lock \in Locks /\ op.start \in Indices /\ pending[op.lock] = None
      /\ op.cur # None => op.cur \in Locks /\ pending[op.cur] # None
      /\ UNCHANGED <<storage, view, container, ptr, place, poisoned>>
  BY <1>0 DEF Unlocking, lifeVars, WalkIInv, Unborrowed, CellsOK, Frames
<1>2. CASE Truncate
  <2>1. UNCHANGED <<pending, op>> /\ op.cur # None /\ borrow[op.lock] # None
    BY <1>2 DEF Truncate, InLoop, MustTruncate
  <2>2. pending[op.cur].start \in Indices
    BY <1>0, <1>1, <2>1 DEF CellsOK
  <2>3. CellsOK' /\ \A k \in Locks : k # op.lock => borrow'[k] = borrow[k]
    BY <1>0, <1>1, <1>2, <2>1, <2>2 DEF Truncate, CellsOK, BorrowUpTo
  <2>4. \A k \in Locks : Linked(k)' => Linked(k)
    BY <2>1, <2>3 DEF Linked
  <2>. QED BY <1>1, <2>1, <2>3, <2>4 DEF WalkIInv, Alive
<1>3. CASE resume_borrow
  <2>1. PICK next \in Locks \cup {None} :
           IsMax(next, WaitersBefore(op.cur)) /\ op' = [op EXCEPT !.cur = next]
    BY <1>3 DEF resume_borrow, ResumeAt
  <2>2. /\ op.cur # None /\ op.cur \in Locks /\ pending[op.cur] # None
        /\ pending[op.cur] \in [start : Indices, end : Indices, priority : Priorities]
    BY <1>0, <1>1, <1>3 DEF resume_borrow, ResumeAt, InLoop, CellsOK
  <2>3. next # None => next \in Locks \ {op.cur} /\ pending[next] # None
    BY <2>1 DEF IsMax, WaitersBefore, Waits
  <2>4. op' \in Frames /\ op' # None /\ op'.lock = op.lock /\ op'.cur = next
    <3>1. op \in Frames
      BY <1>0 DEF CellsOK
    <3>2. op' \in Frames /\ op'.lock = op.lock /\ op'.cur = next
      BY <2>1, <3>1 DEF Frames
    <3>. QED BY <3>2, NoneAssumption
  <2>5. FirstConflict(op.cur, pending[op.cur]) \in Indices \cup {None}
    BY <1>0, <2>2, FirstConflictIndex
  <2>6. /\ borrow' \in [Locks -> [start : Indices, end : Indices] \cup {None}]
        /\ \A k \in Locks : k # op.cur => borrow'[k] = borrow[k]
    BY <1>0, <1>3, <2>2, <2>5 DEF resume_borrow, ResumeAt, Expand, CellsOK
  <2>7. /\ pending' \in [Locks -> [start : Indices, end : Indices, priority : Priorities] \cup {None}]
        /\ \A k \in Locks : k # op.cur => pending'[k] = pending[k]
    BY <1>0, <1>3, <2>2, <2>5 DEF resume_borrow, ResumeAt, CellsOK
  <2>8. \A k \in Locks : Linked(k)' => Linked(k)
    BY <2>2, <2>6, <2>7 DEF Linked
  <2>9. CellsOK'
    BY <2>4, <2>6, <2>7 DEF CellsOK
  <2>10. pending'[op'.lock] = None /\ (op'.cur # None => pending'[op'.cur] # None)
    BY <1>1, <2>2, <2>3, <2>4, <2>7
  <2>. QED BY <1>0, <1>1, <2>4, <2>8, <2>9, <2>10 DEF WalkIInv, Alive
<1>4. CASE FinishUnlock
  <2>1. op' = None /\ pending' = pending /\ borrow' = [borrow EXCEPT ![op.lock] = None]
    BY <1>4 DEF FinishUnlock
  <2>2. CellsOK'
    BY <1>0, <2>1 DEF CellsOK
  <2>3. \A k \in Locks : Linked(k)' => Linked(k) /\ k # op.lock
    BY <1>0, <1>1, <2>1 DEF Linked, CellsOK
  <2>. QED BY <1>0, <1>1, <2>1, <2>2, <2>3 DEF WalkIInv, Alive
<1>. QED BY <1>2, <1>3, <1>4 DEF Unlocking, unlock_inner

LEMMA SliceNextWalk ==
  ASSUME WalkIInv, ~Forgetting, [SliceNext]_sliceVars
  PROVE  WalkIInv'
<1>i. /\ CellsOK /\ DOMAIN view = Locks /\ DOMAIN storage = Locks
      /\ place = "free" => Unborrowed /\ \A l \in Locks : ~Linked(l)
  BY DEF WalkIInv
<1>0. CASE UNCHANGED sliceVars
  BY <1>0 DEF sliceVars, lifeVars, vars, WalkIInv, CellsOK, Unborrowed, Linked, Alive
<1>1. ASSUME NEW l \in Locks, NewState(l)
      PROVE  WalkIInv'
  <2>1. /\ ~Linked(l) /\ storage' = [storage EXCEPT ![l] = "empty"]
        /\ UNCHANGED <<borrow, pending, op, view, container, ptr, place, poisoned>>
    BY <1>1 DEF NewState
  <2>2. \A k \in Locks : Linked(k) = Linked(k)'
    BY <2>1 DEF Linked
  <2>3. \A k \in Locks : Linked(k) => (Alive(k) <=> Alive(k)')
    BY <1>i, <2>1 DEF Alive
  <2>. QED BY <2>1, <2>2, <2>3 DEF WalkIInv, CellsOK, Unborrowed
<1>2. ASSUME NEW l \in Locks, DropState(l)
      PROVE  WalkIInv'
  <2>1. /\ view[l] = None /\ Released(l) /\ storage' = [storage EXCEPT ![l] = "none"]
        /\ UNCHANGED <<borrow, pending, op, view, container, ptr, place, poisoned>>
    BY <1>2 DEF DropState, vars
  <2>2. ~poisoned => ~Linked(l)
    BY <2>1 DEF WalkIInv, Released
  <2>3. \A k \in Locks : Linked(k) = Linked(k)'
    BY <2>1 DEF Linked
  <2>4. \A k \in Locks : k # l => (Alive(k) <=> Alive(k)')
    BY <1>i, <2>1 DEF Alive
  <2>. QED BY <2>1, <2>2, <2>3, <2>4 DEF WalkIInv, CellsOK, Unborrowed
<1>3. ASSUME NEW l \in Locks, DropGuard(l)
      PROVE  WalkIInv'
  <2>1. CASE ~poisoned
    BY <1>3, <2>1, UnlockWalk
  <2>2. CASE poisoned
    <3>1. /\ view' = [view EXCEPT ![l] = None] /\ view[l] # None
          /\ UNCHANGED <<borrow, pending, op, storage, container, ptr, place, poisoned>>
      BY <1>3, <2>2 DEF DropGuard, Holds, vars
    <3>2. place # "free"
      BY <1>i, <3>1 DEF Unborrowed
    <3>. QED BY <2>2, <3>1, <3>2 DEF WalkIInv, CellsOK
  <2>. QED BY <2>1, <2>2
<1>4. ASSUME NEW l \in Locks, ForgetGuard(l)
      PROVE  WalkIInv'
  BY <1>4 DEF ForgetGuard
<1>5. ASSUME NEW l \in Locks, NEW r \in Ranges, try_acquire(l, r)
      PROVE  WalkIInv'
  BY <1>5, AcquireWalk DEF try_acquire
<1>6. ASSUME NEW l \in Locks, NEW r \in Ranges, try_refused(l, r) \/ LockPanics(l, r)
      PROVE  WalkIInv'
  <2>1. /\ storage' \in {storage, [storage EXCEPT ![l] = "inner"]}
        /\ UNCHANGED <<borrow, pending, op, view, container, ptr, place>>
        /\ poisoned' = poisoned \/ (op = None /\ ~poisoned)
    BY <1>6 DEF try_refused, LockPanics, CorePanics, MayEnter, get_or_insert, vars
  <2>2. \A k \in Locks : Linked(k) = Linked(k)' /\ (Alive(k) => Alive(k)')
    BY <1>i, <2>1 DEF Linked, Alive
  <2>3. DOMAIN storage' = Locks
    BY <1>i, <2>1
  <2>. QED BY <2>1, <2>2, <2>3 DEF WalkIInv, CellsOK, Unborrowed
<1>7. ASSUME NEW l \in Locks, NEW r \in Ranges, NEW p \in Priorities, acquire(l, r, p)
      PROVE  WalkIInv'
  BY <1>7, AcquireWalk DEF acquire
<1>8. ASSUME Unlocking
      PROVE  WalkIInv'
  BY <1>8, UnlockingWalk
<1>9. ASSUME DropLock
      PROVE  WalkIInv'
  <2>1. /\ Unborrowed /\ place' = "free"
        /\ borrow' = [l \in Locks |-> None] /\ pending' = [l \in Locks |-> None]
        /\ UNCHANGED <<op, storage, view, container, ptr, poisoned>>
    BY <1>9 DEF DropLock
  <2>2. CellsOK' /\ Unborrowed' /\ op' = None
    BY <1>i, <2>1 DEF CellsOK, Unborrowed
  <2>3. \A l \in Locks : ~Linked(l)'
    BY <2>1 DEF Linked
  <2>. QED BY <2>1, <2>2, <2>3 DEF WalkIInv
<1>10. ASSUME NewLock
       PROVE  WalkIInv'
  <2>1. /\ Unborrowed /\ (\A l \in Locks : ~Linked(l)) /\ place' = "lock" /\ poisoned' = FALSE
        /\ container' \in Containers /\ ptr' = container'
        /\ UNCHANGED <<borrow, pending, op, storage, view>>
    BY <1>i, <1>10 DEF NewLock, Fresh, vars
  <2>2. op' = None /\ CellsOK' /\ \A l \in Locks : ~Linked(l)'
    BY <1>i, <2>1 DEF CellsOK, Unborrowed, Linked
  <2>. QED BY <2>1, <2>2 DEF WalkIInv
<1>11. ASSUME replace_container \/ update_container
       PROVE  WalkIInv'
  <2>1. /\ container' \in Containers /\ ptr' \in Containers
        /\ UNCHANGED <<borrow, pending, op, storage, view, place, poisoned>>
    BY <1>11 DEF replace_container, update_container, Fresh, Updated, WalkIInv, vars
  <2>2. \A k \in Locks : Linked(k) = Linked(k)' /\ (Alive(k) <=> Alive(k)')
    BY <2>1 DEF Linked, Alive
  <2>. QED BY <2>1, <2>2 DEF WalkIInv, CellsOK, Unborrowed
<1>. QED BY <1>0, <1>1, <1>2, <1>3, <1>4, <1>5, <1>6, <1>7, <1>8, <1>9, <1>10, <1>11
            DEF SliceNext, SliceStep

LEMMA WalkInvariance == SliceSpec /\ ~Forgetting => []WalkIInv
<1>1. SliceInit => WalkIInv
  BY DEF SliceInit, Init, WalkIInv, CellsOK, Linked, Unborrowed
<1>2. ~Forgetting /\ WalkIInv /\ [SliceNext]_sliceVars => WalkIInv'
  BY SliceNextWalk
<1>3. ~Forgetting /\ [SliceNext]_sliceVars => (~Forgetting)'
  BY SameSetting
<1>. QED BY <1>1, <1>2, <1>3, PTL DEF SliceSpec

\* No panic, caught or not, no poisoned mutex and no sequence of forgotten
\* guards, dropped state objects and replaced locks leaves a dangling node in a
\* tree that can be used, if guards are forgotten only where panics abort.
THEOREM NoDanglingNodeHolds ==
  ASSUME DebugAssertions PROVE SliceSpec => []NoDanglingNode
<1>1. LifeIInv => NoDanglingNode
  BY LinkedIsClaimed DEF LifeIInv, NoDanglingNode
<1>2. WalkIInv => NoDanglingNode
  BY DEF WalkIInv, NoDanglingNode
<1>3. Forgetting /\ ~PanicAborts => NoDanglingNode
  BY DEF NoDanglingNode, ForgettingIsFatal
<1>4. [SliceNext]_sliceVars => (PanicAborts' <=> PanicAborts) /\ (Forgetting' <=> Forgetting)
  BY SameSetting
<1>. QED BY <1>1, <1>2, <1>3, <1>4, LifeInvariance, WalkInvariance, PTL DEF SliceSpec

\* Under the same condition, no operation ever walks over a node that is gone.
THEOREM NoWalkOverDeadHolds ==
  ASSUME DebugAssertions PROVE SliceSpec => NoWalkOverDead
<1>. DEFINE Walk == ForgettingIsFatal /\ place = "lock" /\ place' = "lock"
                      /\ <<borrow, pending>>' # <<borrow, pending>> =>
                    \A l \in Locks : Linked(l) => Alive(l)
<1>1. ASSUME SliceNext, place' = "lock", <<borrow, pending>>' # <<borrow, pending>>
      PROVE  running /\ (poisoned => op # None)
  BY <1>1 DEF SliceNext, SliceStep, NewState, DropState, DropGuard, Holds, ForgetGuard, try_acquire,
              try_refused, LockPanics, acquire, MayEnter, Available, Unlocking, unlock_inner,
              Truncate, resume_borrow, ResumeAt, FinishUnlock, InLoop, DropLock, NewLock,
              replace_container, update_container, vars
<1>2. WalkIInv /\ [SliceNext]_sliceVars => [Walk]_sliceVars
  BY <1>1 DEF WalkIInv
<1>3. LifeIInv /\ [SliceNext]_sliceVars => [Walk]_sliceVars
  BY <1>1, LinkedIsClaimed DEF LifeIInv
<1>4. Forgetting /\ ~PanicAborts => [Walk]_sliceVars
  BY DEF ForgettingIsFatal
<1>5. [SliceNext]_sliceVars => (PanicAborts' <=> PanicAborts) /\ (Forgetting' <=> Forgetting)
  BY SameSetting
<1>. QED BY <1>2, <1>3, <1>4, <1>5, LifeInvariance, WalkInvariance, PTL
         DEF SliceSpec, NoWalkOverDead
-----------------------------------------------------------------------------
(* Type correctness, in every setting *)

\* The type invariant and what keeps the core's cells in their types, in
\* whatever order guards, state objects and locks end.
SliceCells == CellsIInv /\ SliceTypeOK

\* A step that leaves the core alone.
LEMMA SameCells == ASSUME CellsIInv, UNCHANGED vars PROVE CellsIInv'
  BY DEF CellsIInv, TypeOK, vars

\* The steps of the guards, the futures and the unlock loop.
LEMMA ClientCells ==
  ASSUME SliceCells, UNCHANGED setting,
         \/ Unlocking
         \/ \E l \in Locks : DropGuard(l) \/ ForgetGuard(l)
         \/ \E l \in Locks, r \in Ranges :
              \/ try_acquire(l, r) \/ try_refused(l, r) \/ LockPanics(l, r)
              \/ \E p \in Priorities : acquire(l, r, p)
  PROVE  SliceCells'
<1>0. /\ CellsIInv /\ storage \in [Locks -> Storages] /\ view \in [Locks -> Containers \cup {None}]
      /\ container \in Containers /\ ptr \in Containers
      /\ place \in {"lock", "free"} /\ setting \in Settings
      /\ poisoned \in BOOLEAN /\ running \in BOOLEAN
  BY DEF SliceCells, SliceTypeOK
<1>1. Poisoning \in BOOLEAN /\ PanicAborts \in BOOLEAN
  BY <1>0, SliceAssumption DEF Poisoning, PanicAborts
<1>2. CellsIInv'
  <2>1. CASE Unlocking
    BY <1>0, <2>1, LoopCells DEF Unlocking
  <2>2. ASSUME NEW l \in Locks, Unlock(l) PROVE CellsIInv'
    BY <1>0, <2>2, UnlockCells
  <2>3. ASSUME NEW l \in Locks, NEW r \in Ranges,
               TryLock(l, r) \/ \E p \in Priorities : Lock(l, r, p)
        PROVE  CellsIInv'
    BY <1>0, <2>3, LockCells
  <2>4. CASE UNCHANGED vars
    BY <1>0, <2>4, SameCells
  <2>. QED BY <2>1, <2>2, <2>3, <2>4
              DEF DropGuard, ForgetGuard, try_acquire, try_refused, LockPanics, acquire
<1>3. storage' \in [Locks -> Storages]
  <2>1. \A l \in Locks : /\ [storage EXCEPT ![l] = "inner"] \in [Locks -> Storages]
                         /\ [storage EXCEPT ![l] = "leaked"] \in [Locks -> Storages]
    BY <1>0 DEF Storages
  <2>. QED BY <1>0, <2>1 DEF Unlocking, lifeVars, DropGuard, ForgetGuard, try_acquire, try_refused,
                LockPanics, acquire, MakeGuard, get_or_insert
<1>4. view' \in [Locks -> Containers \cup {None}]
  <2>1. \A l \in Locks, v \in Containers \cup {None} :
          [view EXCEPT ![l] = v] \in [Locks -> Containers \cup {None}]
    BY <1>0
  <2>. QED BY <1>0, <2>1 DEF Unlocking, lifeVars, DropGuard, ForgetGuard, try_acquire, try_refused,
                LockPanics, acquire, MakeGuard
<1>5. UNCHANGED <<container, ptr, place, setting>>
  BY DEF Unlocking, lifeVars, DropGuard, ForgetGuard, try_acquire, try_refused, LockPanics, acquire, MakeGuard
<1>6. poisoned' \in BOOLEAN /\ running' \in BOOLEAN
  BY <1>0, <1>1, ZenonT(30) DEF Unlocking, lifeVars, DropGuard, ForgetGuard, try_acquire, try_refused, LockPanics,
       acquire, MakeGuard, Panic
<1>. QED BY <1>0, <1>2, <1>3, <1>4, <1>5, <1>6 DEF SliceCells, SliceTypeOK, CellsIInv

\* The steps of the state objects, the lock and its container.
LEMMA OwnerCells ==
  ASSUME SliceCells, UNCHANGED setting,
         \/ \E l \in Locks : NewState(l) \/ DropState(l)
         \/ DropLock \/ NewLock \/ replace_container \/ update_container
  PROVE  SliceCells'
<1>0. /\ CellsIInv /\ TypeOK /\ storage \in [Locks -> Storages] /\ view \in [Locks -> Containers \cup {None}]
      /\ container \in Containers /\ ptr \in Containers
      /\ place \in {"lock", "free"} /\ setting \in Settings
      /\ poisoned \in BOOLEAN /\ running \in BOOLEAN
  BY DEF SliceCells, SliceTypeOK
<1>1. PanicAborts \in BOOLEAN
  BY <1>0, SliceAssumption DEF PanicAborts
<1>2. CellsIInv'
  <2>1. ASSUME NEW l \in Locks, NewState(l) PROVE CellsIInv'
    <3>1. /\ ~Linked(l) /\ claimed' = [claimed EXCEPT ![l] = FALSE]
          /\ UNCHANGED <<borrow, pending, older, op, client, guard>>
      BY <2>1 DEF NewState
    <3>2. claimed' \in [Locks -> BOOLEAN] /\ \A k \in Locks \ {l} : claimed'[k] = claimed[k]
      BY <1>0, <3>1 DEF TypeOK
    <3>3. TypeOK'
      BY <1>0, <3>1, <3>2 DEF TypeOK
    <3>. QED BY <1>0, <3>1, <3>2, <3>3 DEF CellsIInv, Linked
  <2>2. CASE DropLock
    BY <1>0, <2>2 DEF DropLock, Unborrowed, CellsIInv, TypeOK, ClientStates
  <2>3. CASE UNCHANGED vars
    BY <1>0, <2>3, SameCells
  <2>. QED BY <2>1, <2>2, <2>3 DEF DropState, NewLock, replace_container, update_container
<1>3. storage' \in [Locks -> Storages]
  <2>1. \A l \in Locks : /\ [storage EXCEPT ![l] = "empty"] \in [Locks -> Storages]
                         /\ [storage EXCEPT ![l] = "none"] \in [Locks -> Storages]
    BY <1>0 DEF Storages
  <2>. QED BY <1>0, <2>1 DEF NewState, DropState, DropLock, NewLock, replace_container, update_container
<1>4. container' \in Containers /\ ptr' \in Containers
  BY <1>0 DEF NewState, DropState, DropLock, NewLock, replace_container, update_container, Fresh, Updated
<1>5. /\ view' = view /\ place' \in {"lock", "free"}
      /\ poisoned' \in BOOLEAN /\ running' \in BOOLEAN
  BY <1>0, <1>1 DEF NewState, DropState, DropLock, NewLock, replace_container, update_container, Panic
<1>. QED BY <1>0, <1>2, <1>3, <1>4, <1>5 DEF SliceCells, SliceTypeOK, CellsIInv

\* Everything keeps its type, whatever is forgotten, dropped in whatever order
\* and unwound: in particular the core's ranges are never inverted, although
\* panics leave claimed state objects and nodes behind.
THEOREM SliceTypeCorrect == SliceSpec => []SliceTypeOK
<1>1. SliceInit => SliceCells
  BY ZenonT(30) DEF SliceInit, Init, SliceCells, SliceTypeOK, CellsIInv, TypeOK, ClientStates, Storages
<1>2. SliceCells /\ [SliceNext]_sliceVars => SliceCells'
  <2>1. ASSUME SliceCells, UNCHANGED sliceVars PROVE SliceCells'
    BY <2>1, SameCells DEF sliceVars, lifeVars, SliceCells, SliceTypeOK, CellsIInv
  <2>2. ASSUME SliceCells, SliceNext PROVE SliceCells'
    BY <2>2, ClientCells, OwnerCells DEF SliceNext, SliceStep
  <2>. QED BY <2>1, <2>2
<1>3. SliceCells => SliceTypeOK
  BY DEF SliceCells
<1>. QED BY <1>1, <1>2, <1>3, PTL DEF SliceSpec
=============================================================================
