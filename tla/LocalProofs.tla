---------------------------- MODULE LocalProofs ----------------------------
(***************************************************************************)
(* Proofs about the single-threaded lock.  A step of it is a step of the   *)
(* core or leaves the core alone, so the core's inductive invariant is its *)
(* invariant, too.                                                         *)
(***************************************************************************)
EXTENDS LocalRwLock, RbTreeCoreProofs

LocalIInv == IInv /\ RefusedForHeldLock

\* What a conflict search finds when nobody can be waiting: a lock somebody
\* holds completely.
LEMMA ConflictIsHeld ==
  ASSUME IInv, DebugAssertions, NEW l \in Locks, NEW r \in Ranges,
         MayRefuse(l, r), FirstConflict(l, r) # None
  PROVE  \E k \in Locks : /\ l \in Writers \/ k \in Writers
                          /\ client[k] = "granted"
                          /\ Overlap(guard[k], r)
<1>1. TypeOK /\ NonEmpty /\ OnlyBlockingWait /\ BorrowIsPrefix
  BY DEF IInv
<1>2. r.start \in Indices /\ r.end \in Indices /\ r.start < r.end /\ op = None
  BY DEF MayRefuse, Ranges
<1>3. PICK S \in {Reads, Writes} : /\ Lowest(S, r, FirstConflict(l, r))
                                   /\ l \notin Writers => S = Writes
  <2>1. Lowest(Writes, r, first_write_borrow_in_range(r))
    BY <1>1, <1>2, FirstWriteCorrect
  <2>2. Lowest(Reads, r, first_read_borrow_in_range(r))
    BY <1>1, <1>2, FirstReadCorrect
  <2>3. \/ /\ FirstConflict(l, r) = first_read_borrow_in_range(r)
           /\ l \in Writers
        \/ FirstConflict(l, r) = first_write_borrow_in_range(r)
    BY DEF FirstConflict, first_conflict_for_write, MinOf
  <2>. QED BY <2>1, <2>2, <2>3
<1>4. Writes \subseteq Writers
  BY DEF Writes
<1>5. PICK k \in Locks : /\ l \in Writers \/ k \in Writers
                         /\ borrow[k] # None
                         /\ Covers(borrow[k], FirstConflict(l, r))
                         /\ FirstConflict(l, r) \in Nat
                         /\ r.start <= FirstConflict(l, r) /\ FirstConflict(l, r) < r.end
  BY <1>2, <1>3, <1>4, IndexAssumption DEF Lowest, Indices, Reads, Writes, Locks
<1>6. client[k] = "granted"
  <2>1. pending[k] = None
    BY <1>1, LocalAssumption DEF OnlyBlockingWait
  <2>2. client[k] # "waiting"
    BY <1>1, <2>1 DEF BorrowIsPrefix
  <2>3. client[k] # "idle"
    BY <1>1, <1>2, <1>5 DEF BorrowIsPrefix
  <2>. QED BY <1>1, <2>2, <2>3 DEF TypeOK, ClientStates
<1>7. guard[k] = borrow[k]
  BY <1>1, <1>6 DEF BorrowIsPrefix
<1>8. borrow[k].start \in Nat /\ borrow[k].end \in Nat /\ r.start \in Nat /\ r.end \in Nat
  BY <1>1, <1>2, <1>5, BorrowType, IndexAssumption DEF Indices
<1>9. Overlap(borrow[k], r)
  BY <1>5, <1>8 DEF Covers, Overlap
<1>. QED BY <1>5, <1>6, <1>7, <1>9

LEMMA LocalNextIInv ==
  ASSUME LocalIInv, DebugAssertions, [LocalNext]_lvars
  PROVE  LocalIInv'
<1>1. IInv /\ RefusedForHeldLock
  BY DEF LocalIInv
<1>2. ASSUME NEW l \in Locks, NEW r \in Ranges, LocalLock(l, r)
      PROVE  LocalIInv'
  BY <1>1, <1>2, TryLockIInv DEF LocalLock, LocalIInv, RefusedForHeldLock
<1>3. ASSUME NEW l \in Locks, NEW r \in Ranges, NEW how, Refuse(l, r, how)
      PROVE  LocalIInv'
  <2>1. UNCHANGED vars /\ refused' = [lock |-> l, range |-> r, how |-> how]
    BY <1>3 DEF Refuse
  <2>2. IInv'
    BY <1>1, <2>1, NextIInv
  <2>3. PICK k \in Locks : /\ l \in Writers \/ k \in Writers
                           /\ client[k] = "granted"
                           /\ Overlap(guard[k], r)
    BY <1>1, <1>3, ConflictIsHeld DEF Refuse
  <2>4. client' = client /\ guard' = guard
    BY <2>1 DEF vars
  <2>5. RefusedForHeldLock'
    BY <2>1, <2>3, <2>4 DEF RefusedForHeldLock
  <2>. QED BY <2>2, <2>5 DEF LocalIInv
<1>4. ASSUME NEW l \in Locks, LocalUnlock(l)
      PROVE  LocalIInv'
  BY <1>1, <1>4, UnlockIInv DEF LocalUnlock, LocalIInv, RefusedForHeldLock
<1>5. ASSUME LocalFinish
      PROVE  LocalIInv'
  BY <1>1, <1>5, FinishIInv DEF LocalFinish, LocalIInv, RefusedForHeldLock
<1>6. ASSUME UNCHANGED lvars
      PROVE  LocalIInv'
  <2>1. UNCHANGED vars /\ refused' = refused
    BY <1>6 DEF lvars
  <2>2. IInv'
    BY <1>1, <2>1, NextIInv
  <2>3. client' = client /\ guard' = guard
    BY <2>1 DEF vars
  <2>. QED BY <1>1, <2>1, <2>2, <2>3 DEF LocalIInv, RefusedForHeldLock
<1>. QED BY <1>2, <1>3, <1>4, <1>5, <1>6 DEF LocalNext

\* The "deadlocked" panic and the WouldBlock error are raised only when the
\* caller itself holds a conflicting lock: for any number of locks, any ranges.
THEOREM RefusalJustified == ASSUME DebugAssertions PROVE LocalSpec => []RefusedForHeldLock
<1>1. LocalInit => LocalIInv
  BY InitIInv DEF LocalInit, LocalIInv, RefusedForHeldLock
<1>2. LocalIInv /\ [LocalNext]_lvars => LocalIInv'
  BY LocalNextIInv
<1>3. LocalIInv => RefusedForHeldLock
  BY DEF LocalIInv
<1>. QED BY <1>1, <1>2, <1>3, PTL DEF LocalSpec

\* Guards of the single-threaded lock exclude each other as those of the core
\* do, after any number of refused calls and panics.
THEOREM LocalExclusion == ASSUME DebugAssertions PROVE LocalSpec => []MutualExclusion
<1>1. LocalInit => LocalIInv
  BY InitIInv DEF LocalInit, LocalIInv, RefusedForHeldLock
<1>2. LocalIInv /\ [LocalNext]_lvars => LocalIInv'
  BY LocalNextIInv
<1>3. LocalIInv => MutualExclusion
  BY DEF LocalIInv, IInv, BorrowIsPrefix, BorrowsExclusive, MutualExclusion
<1>. QED BY <1>1, <1>2, <1>3, PTL DEF LocalSpec
=============================================================================
