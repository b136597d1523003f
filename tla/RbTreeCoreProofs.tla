-------------------------- MODULE RbTreeCoreProofs --------------------------
(***************************************************************************)
(* Theorems about RbTreeCore, for every set of lock-state objects, every   *)
(* number of indices and every set of priorities.                          *)
(***************************************************************************)
EXTENDS RbTreeCore, FiniteSetTheorems, WellFoundedInduction, TLAPS

-----------------------------------------------------------------------------
(* Searching for conflicts *)

\* A non-empty set of natural numbers has a least element; the searches in the
\* trees take one.
LEMMA NatMin ==
  ASSUME NEW S \in SUBSET Nat, S # {}
  PROVE  \E m \in S : \A i \in S : m <= i
<1>. DEFINE R == OpToRel(<, Nat)
<1>1. IsWellFoundedOn(R, Nat)
  BY NatLessThanWellFounded, Zenon
<1>2. \A x, y \in Nat : x < y => <<x, y>> \in R
  BY DEF OpToRel
<1>. HIDE DEF R
<1>3. PICK m \in S : \A y \in S : ~ (<<y, m>> \in R)
  BY <1>1, WFMin, Zenon
<1>4. \A y \in S : ~ (y < m)
  BY <1>2, <1>3
<1>5. \A i \in S : m <= i
  BY <1>4
<1>. QED BY <1>5

\* Indices i..j-1 are borrowed by nobody that l conflicts with.
Free(l, i, j) ==
  \A k \in Locks : Conflict(l, k) /\ borrow[k] # None
    => borrow[k].end <= i \/ j <= borrow[k].start

\* What a search for the first conflict of l in r must return.
SearchResult(l, r, c) ==
  \/ c = None /\ Free(l, r.start, r.end)
  \/ /\ c \in Indices /\ r.start <= c /\ c < r.end
     /\ \E k \in Locks : Conflict(l, k) /\ borrow[k] # None /\ Covers(borrow[k], c)
     /\ c # r.start => Free(l, r.start, c)

\* c is the lowest index of r that a borrow of the locks in S covers.
Lowest(S, r, c) ==
  \/ /\ c = None
     /\ \A k \in S : borrow[k].end <= r.start \/ r.end <= borrow[k].start
  \/ /\ c \in Indices /\ r.start <= c /\ c < r.end
     /\ \E k \in S : Covers(borrow[k], c)
     /\ c # r.start => \A k \in S : borrow[k].end <= r.start \/ c <= borrow[k].start

\* The state objects of all four kinds together are finitely many.
LEMMA LocksFinite == IsFiniteSet(Locks)
  BY LocksAssumption, FS_Union DEF Locks, Readers, Writers

\* The value of a borrow cell that is not None.
LEMMA BorrowType ==
  ASSUME TypeOK, NEW l \in Locks, borrow[l] # None
  PROVE  /\ borrow[l] \in [start : Indices, end : Indices]
         /\ borrow[l].start \in Nat /\ borrow[l].end \in Nat
         /\ borrow[l].start <= N /\ borrow[l].end <= N
  BY IndexAssumption DEF TypeOK, Ranges, Indices

\* first_write_borrow_in_range finds the lowest index of r that a write node
\* covers, although it looks at one node only.
LEMMA FirstWriteCorrect ==
  ASSUME TypeOK, NonEmpty,
         NEW STATE r, r.start \in Indices, r.end \in Indices, r.start < r.end
  PROVE  Lowest(Writes, r, first_write_borrow_in_range(r))
<1>. DEFINE c == first_write_borrow_in_range(r)
            after == {l \in Writes : borrow[l].end > r.start}
            first == CHOOSE l \in after : \A k \in after : borrow[l].start <= borrow[k].start
<1>0. /\ c = IF after # {} /\ borrow[first].start < r.end
               THEN MaxOf(borrow[first].start, r.start) ELSE None
      /\ r.start \in Nat /\ r.end \in Nat /\ r.end <= N
  BY IndexAssumption DEF first_write_borrow_in_range, Indices
<1>. HIDE DEF c
<1>. SUFFICES Lowest(Writes, r, c)
  BY DEF c
<1>1. \A k \in Writes : /\ k \in Locks /\ borrow[k] # None
                        /\ borrow[k].start \in Nat /\ borrow[k].end \in Nat
                        /\ borrow[k].end <= N /\ borrow[k].start < borrow[k].end
  BY BorrowType DEF Writes, Locks, NonEmpty
<1>2. CASE after = {}
  <2>1. \A k \in Writes : borrow[k].end <= r.start
    BY <1>0, <1>1, <1>2
  <2>. QED BY <1>0, <1>2, <2>1 DEF Lowest
<1>3. CASE after # {}
  <2>. DEFINE starts == {borrow[l].start : l \in after}
  <2>1. starts \in SUBSET Nat /\ starts # {}
    BY <1>1, <1>3
  <2>2. \E m \in starts : \A i \in starts : m <= i
    BY <2>1, NatMin
  <2>3. \E l \in after : \A k \in after : borrow[l].start <= borrow[k].start
    BY <2>2
  <2>4. first \in after /\ \A k \in after : borrow[first].start <= borrow[k].start
    BY <2>3
  <2>. HIDE DEF first
  <2>5. first \in Writes /\ borrow[first].end > r.start
    BY <2>4
  <2>6. \A k \in Writes : borrow[k].end <= r.start \/ borrow[first].start <= borrow[k].start
    BY <1>0, <1>1, <2>4
  <2>7. CASE borrow[first].start < r.end
    <3>1. c = MaxOf(borrow[first].start, r.start)
      BY <1>0, <1>3, <2>7
    <3>2. c \in Indices /\ r.start <= c /\ c < r.end /\ Covers(borrow[first], c)
      BY <1>0, <1>1, <2>5, <2>7, <3>1, IndexAssumption DEF MaxOf, Covers, Indices
    <3>3. c # r.start => \A k \in Writes : borrow[k].end <= r.start \/ c <= borrow[k].start
      BY <1>0, <1>1, <2>5, <2>6, <3>1 DEF MaxOf
    <3>. QED BY <2>5, <3>2, <3>3 DEF Lowest
  <2>8. CASE ~(borrow[first].start < r.end)
    <3>1. c = None
      BY <1>0, <2>8
    <3>2. \A k \in Writes : borrow[k].end <= r.start \/ r.end <= borrow[k].start
      BY <1>0, <1>1, <2>5, <2>6, <2>8
    <3>. QED BY <3>1, <3>2 DEF Lowest
  <2>. QED BY <2>7, <2>8
<1>. QED BY <1>2, <1>3

\* The sum of the endpoints up to an index tells whether a read covers it.
LEMMA PrefixSumCorrect ==
  ASSUME TypeOK, NonEmpty, NEW i \in Indices
  PROVE  (prefix_sum(i) > 0) <=> \E k \in Reads : Covers(borrow[k], i)
<1>. DEFINE S == {l \in Reads : borrow[l].start <= i}
            E == {l \in Reads : borrow[l].end <= i}
<1>1. \A k \in Reads : /\ borrow[k].start \in Nat /\ borrow[k].end \in Nat
                       /\ borrow[k].start < borrow[k].end
  BY BorrowType DEF Reads, Locks, NonEmpty
<1>2. i \in Nat
  BY IndexAssumption DEF Indices
<1>3. IsFiniteSet(S) /\ E \subseteq S
  <2>1. S \subseteq Locks
    BY DEF Reads, Locks
  <2>2. IsFiniteSet(S)
    BY <2>1, LocksFinite, FS_Subset
  <2>. QED BY <1>1, <1>2, <2>2
<1>4. /\ IsFiniteSet(E) /\ Cardinality(E) <= Cardinality(S)
      /\ Cardinality(E) = Cardinality(S) => E = S
  BY <1>3, FS_Subset
<1>5. Cardinality(S) \in Nat /\ Cardinality(E) \in Nat
  BY <1>3, <1>4, FS_CardinalityType
<1>6. prefix_sum(i) = Cardinality(S) - Cardinality(E)
  BY DEF prefix_sum
<1>. HIDE DEF S, E
<1>7. prefix_sum(i) > 0 <=> E # S
  BY <1>4, <1>5, <1>6
<1>8. E # S <=> \E k \in Reads : Covers(borrow[k], i)
  BY <1>1, <1>2, <1>3 DEF S, E, Covers
<1>. QED BY <1>7, <1>8

\* first_read_borrow_in_range finds the lowest index of r that a read covers,
\* from the sum of the endpoints up to r.start and the next endpoint.
LEMMA FirstReadCorrect ==
  ASSUME TypeOK, NonEmpty,
         NEW STATE r, r.start \in Indices, r.end \in Indices, r.start < r.end
  PROVE  Lowest(Reads, r, first_read_borrow_in_range(r))
<1>. DEFINE c == first_read_borrow_in_range(r)
            after == {i \in Endpoints : i > r.start}
            first == CHOOSE i \in after : \A j \in after : i <= j
<1>0. c = IF after = {} THEN None
              ELSE IF prefix_sum(r.start) > 0 THEN r.start
              ELSE IF first < r.end THEN first
              ELSE None
  BY DEF first_read_borrow_in_range
<1>a. r.start \in Nat /\ r.end \in Nat /\ r.end <= N
  BY IndexAssumption DEF Indices
<1>. HIDE DEF c
<1>. SUFFICES Lowest(Reads, r, c)
  BY DEF c
<1>1. \A k \in Reads : /\ k \in Locks /\ borrow[k] # None
                       /\ borrow[k].start \in Nat /\ borrow[k].end \in Nat
                       /\ borrow[k].end <= N /\ borrow[k].start < borrow[k].end
                       /\ borrow[k].start \in Endpoints /\ borrow[k].end \in Endpoints
  BY BorrowType DEF Reads, Locks, NonEmpty, Endpoints
<1>2. CASE after = {}
  <2>1. \A k \in Reads : borrow[k].end <= r.start
    BY <1>0, <1>a, <1>1, <1>2
  <2>. QED BY <1>0, <1>2, <2>1 DEF Lowest
<1>3. CASE after # {} /\ prefix_sum(r.start) > 0
  <2>1. c = r.start /\ \E k \in Reads : Covers(borrow[k], c)
    BY <1>0, <1>3, PrefixSumCorrect
  <2>2. c \in Indices /\ r.start <= c /\ c < r.end
    BY <1>a, <2>1
  <2>. QED BY <2>1, <2>2 DEF Lowest
<1>4. CASE after # {} /\ ~(prefix_sum(r.start) > 0)
  <2>1. \A k \in Reads : borrow[k].end <= r.start \/ r.start < borrow[k].start
    BY <1>0, <1>a, <1>1, <1>4, PrefixSumCorrect DEF Covers
  <2>2. after \in SUBSET Nat
    BY <1>1 DEF Endpoints
  <2>3. \E m \in after : \A j \in after : m <= j
    BY <1>4, <2>2, NatMin
  <2>4. first \in after /\ \A j \in after : first <= j
    BY <2>3
  <2>. HIDE DEF first
  <2>5. first \in Nat /\ first > r.start
    BY <2>2, <2>4
  <2>6. \A k \in Reads : borrow[k].end <= r.start \/ first <= borrow[k].start
    BY <1>0, <1>a, <1>1, <2>1, <2>4
  <2>7. CASE first < r.end
    <3>1. c = first
      BY <1>0, <1>4, <2>7
    <3>2. \E k \in Reads : Covers(borrow[k], first)
      <4>1. PICK k \in Reads : borrow[k].start = first \/ borrow[k].end = first
        BY <2>4 DEF Endpoints
      <4>2. borrow[k].start = first
        BY <1>0, <1>a, <1>1, <2>5, <2>6, <4>1
      <4>. QED BY <1>1, <4>2 DEF Covers
    <3>. QED BY <1>a, <2>5, <2>6, <2>7, <3>1, <3>2, IndexAssumption DEF Lowest, Indices
  <2>8. CASE ~(first < r.end)
    <3>1. c = None
      BY <1>0, <1>4, <2>8
    <3>2. \A k \in Reads : borrow[k].end <= r.start \/ r.end <= borrow[k].start
      BY <1>0, <1>a, <1>1, <2>5, <2>6, <2>8
    <3>. QED BY <3>1, <3>2 DEF Lowest
  <2>. QED BY <2>7, <2>8
<1>. QED BY <1>2, <1>3, <1>4

\* A search for the first conflict returns the lowest index of the range that
\* a conflicting borrow covers, provided l itself has borrowed none of it.
LEMMA FirstConflictCorrect ==
  ASSUME TypeOK, NonEmpty, NEW STATE l, l \in Locks,
         NEW STATE r, r.start \in Indices, r.end \in Indices, r.start < r.end,
         borrow[l] # None => borrow[l].end <= r.start
  PROVE  SearchResult(l, r, FirstConflict(l, r))
<1>. DEFINE w == first_write_borrow_in_range(r)
            i == first_read_borrow_in_range(r)
            c == FirstConflict(l, r)
<1>1. Lowest(Writes, r, w) /\ Lowest(Reads, r, i)
  BY FirstWriteCorrect, FirstReadCorrect
<1>2. c = IF l \in Writers THEN (IF w = None THEN i ELSE IF i = None THEN w ELSE MinOf(w, i))
                           ELSE w
  BY DEF FirstConflict, first_conflict_for_write
<1>. HIDE DEF w, i, c
<1>. SUFFICES SearchResult(l, r, c)
  BY DEF c
<1>3. /\ \A k \in Locks : borrow[k] # None => k \in Writes \/ k \in Reads
      /\ \A k \in Writes : k \in Writers /\ k \in Locks /\ borrow[k] # None
      /\ \A k \in Reads : k \in Readers /\ k \in Locks /\ borrow[k] # None
      /\ \A k \in Locks : k \in Writers <=> k \notin Readers
  BY LocksAssumption DEF Writes, Reads, Locks
<1>4. \A j : r.start <= j /\ j \in Indices /\ borrow[l] # None => ~Covers(borrow[l], j)
  BY BorrowType, IndexAssumption DEF Covers, Indices
<1>5. CASE l \notin Writers
  <2>1. \A k \in Locks : Conflict(l, k) /\ borrow[k] # None <=> k \in Writes
    BY <1>3, <1>5 DEF Conflict
  <2>. QED BY <1>1, <1>2, <1>5, <2>1, <1>3 DEF Lowest, SearchResult, Free
<1>6. CASE l \in Writers
  <2>. DEFINE S == {k \in Locks : borrow[k] # None}
  <2>1. Lowest(S, r, c)
    <3>1. \A k : k \in S <=> k \in Writes \/ k \in Reads
      BY <1>3
    <3>. HIDE DEF S
    <3>2. None \notin Indices
      BY NoneAssumption
    <3>a. /\ r.start \in Nat /\ r.end \in Nat
          /\ \A j \in Indices : j \in Nat
          /\ \A k \in S : borrow[k].start \in Nat /\ borrow[k].end \in Nat
      BY BorrowType, IndexAssumption DEF Indices, S
    <3>3. CASE w = None
      BY <1>1, <1>2, <1>6, <3>1, <3>2, <3>a, <3>3 DEF Lowest
    <3>4. CASE w # None /\ i = None
      BY <1>1, <1>2, <1>6, <3>1, <3>2, <3>a, <3>4 DEF Lowest
    <3>5. CASE w # None /\ i # None
      BY <1>1, <1>2, <1>6, <3>1, <3>2, <3>a, <3>5 DEF Lowest, MinOf
    <3>. QED BY <3>3, <3>4, <3>5
  <2>2. \A k \in Locks : Conflict(l, k) /\ borrow[k] # None <=> k \in S /\ k # l
    BY <1>3, <1>6 DEF Conflict
  <2>3. CASE c = None
    BY <2>1, <2>2, <2>3, NoneAssumption DEF Lowest, SearchResult, Free
  <2>4. CASE c # None
    <3>1. PICK k \in S : Covers(borrow[k], c)
      BY <2>1, <2>4 DEF Lowest
    <3>2. k # l
      BY <1>4, <2>1, <2>4, <3>1 DEF Lowest
    <3>. QED BY <2>1, <2>2, <2>4, <3>1, <3>2 DEF Lowest, SearchResult, Free
  <2>. QED BY <2>3, <2>4
<1>. QED BY <1>5, <1>6

-----------------------------------------------------------------------------
(* The inductive invariant *)

\* The value of a pending cell that is not None.
LEMMA PendingType ==
  ASSUME TypeOK, NEW l \in Locks, pending[l] # None
  PROVE  /\ pending[l] \in [start : Indices, end : Indices, priority : Priorities]
         /\ pending[l].start \in Nat /\ pending[l].end \in Nat
         /\ pending[l].start <= N /\ pending[l].end <= N
         /\ pending[l].priority \in Nat
<1>1. pending[l] \in [start : Indices, end : Indices, priority : Priorities]
  BY DEF TypeOK, Pendings
<1>2. /\ pending[l].start \in Indices /\ pending[l].end \in Indices
      /\ pending[l].priority \in Priorities
  BY <1>1
<1>3. pending[l].priority \in Nat
  BY <1>2, PriorityAssumption
<1>. QED BY <1>1, <1>2, <1>3, IndexAssumption DEF Indices

\* Inserting a node into, or removing it from, the tree of pending borrows
\* keeps the insertion order of the others.
LEMMA InsertOlderOrder ==
  ASSUME TypeOK, OlderOrder, NEW l \in Blocking,
         Waits' = Waits \cup {l}, older' = InsertOlder(l)
  PROVE  OlderOrder'
<1>0. \A k \in Locks : older'[k] = IF k = l THEN Waits \ {l} ELSE older[k] \ {l}
  BY DEF InsertOlder
<1>1. \A k \in Locks : \A m : m \in older'[k] <=>
        /\ m # l
        /\ IF k = l THEN m \in Waits ELSE m \in older[k]
  BY <1>0
<1>2. \A k \in Waits : k \in Locks
  BY DEF Waits, Blocking, Locks, Readers, Writers
<1>. SUFFICES ASSUME NEW j \in Locks
              PROVE  /\ older'[j] \subseteq Waits' \ {j}
                     /\ j \in Waits' =>
                          \A k \in Waits' \ {j} : (k \in older'[j]) <=> (j \notin older'[k])
  BY DEF OlderOrder
<1>3. older'[j] \subseteq Waits' \ {j}
  BY <1>1 DEF OlderOrder
<1>4. ASSUME j \in Waits', NEW k \in Waits' \ {j}
      PROVE  (k \in older'[j]) <=> (j \notin older'[k])
  BY <1>1, <1>2, <1>4 DEF OlderOrder, Blocking, Locks, Readers, Writers
<1>. QED BY <1>3, <1>4

\* Removing a node keeps the insertion order of the others.
LEMMA RemoveOlderOrder ==
  ASSUME TypeOK, OlderOrder, NEW l \in Locks,
         Waits' = Waits \ {l}, older' = RemoveOlder(l)
  PROVE  OlderOrder'
<1>0. \A k \in Locks : older'[k] = IF k = l THEN {} ELSE older[k] \ {l}
  BY DEF RemoveOlder
<1>1. \A k \in Locks : \A m : m \in older'[k] <=> k # l /\ m # l /\ m \in older[k]
  BY <1>0
<1>2. \A k \in Waits : k \in Locks
  BY DEF Waits, Blocking, Locks, Readers, Writers
<1>. SUFFICES ASSUME NEW j \in Locks
              PROVE  /\ older'[j] \subseteq Waits' \ {j}
                     /\ j \in Waits' =>
                          \A k \in Waits' \ {j} : (k \in older'[j]) <=> (j \notin older'[k])
  BY DEF OlderOrder
<1>3. older'[j] \subseteq Waits' \ {j}
  BY <1>1 DEF OlderOrder
<1>4. ASSUME j \in Waits', NEW k \in Waits' \ {j}
      PROVE  (k \in older'[j]) <=> (j \notin older'[k])
  BY <1>1, <1>2, <1>4 DEF OlderOrder, Blocking, Locks, Readers, Writers
<1>. QED BY <1>3, <1>4

\* The empty core.
LEMMA InitIInv == Init => IInv
  BY DEF Init, IInv, TypeOK, NonEmpty, OnlyBlockingWait, OlderOrder, BorrowIsPrefix,
         FrameOK, BorrowsExclusive, LoopSkipsNobody, ClientStates, Waits

\* Locking: what can be borrowed is borrowed, and what cannot waits for a
\* borrow that is really there.  A successful try is a lock with no conflict.
LEMMA LockIInv ==
  ASSUME IInv, DebugAssertions,
         NEW l \in Locks, NEW r \in Ranges, NEW p, Lock(l, r, p),
         FirstConflict(l, r) # None => l \in Blocking /\ p \in Priorities
  PROVE  IInv'
<1>. DEFINE c == FirstConflict(l, r)
<1>0. c # None => l \in Blocking /\ p \in Priorities
  OBVIOUS
<1>1. /\ TypeOK /\ NonEmpty /\ OnlyBlockingWait /\ OlderOrder /\ BorrowIsPrefix
      /\ FrameOK /\ BorrowsExclusive /\ LoopSkipsNobody
  BY DEF IInv
<1>2. /\ l \in Locks /\ op = None /\ op' = None /\ r.start < r.end
      /\ r.start \in Indices /\ r.end \in Indices /\ r \in [start : Indices, end : Indices]
      /\ client[l] = "idle" /\ pending[l] = None /\ borrow[l] = None
  <2>1. op = None /\ op' = None /\ r.start < r.end /\ ~claimed[l]
    BY DEF Lock, LockAt, MayLock
  <2>2. client[l] \in ClientStates
    BY <1>1, <2>1 DEF TypeOK
  <2>. QED BY <1>1, <2>1, <2>2 DEF BorrowIsPrefix, ClientStates, Ranges
<1>3. SearchResult(l, r, c)
  BY <1>1, <1>2, FirstConflictCorrect
<1>4. /\ claimed' = [claimed EXCEPT ![l] = TRUE]
      /\ guard' = [guard EXCEPT ![l] = r]
      /\ \/ /\ c = None
            /\ borrow' = [borrow EXCEPT ![l] = r]
            /\ client' = [client EXCEPT ![l] = "granted"]
            /\ pending' = pending /\ older' = older
         \/ /\ c # None
            /\ borrow' = [borrow EXCEPT ![l] =
                            IF c = r.start THEN None ELSE [start |-> r.start, end |-> c]]
            /\ pending' = [pending EXCEPT ![l] =
                             [start |-> c, end |-> r.end, priority |-> p]]
            /\ older' = InsertOlder(l)
            /\ client' = [client EXCEPT ![l] = "waiting"]
  BY DEF Lock, LockAt, BorrowUpTo
<1>. HIDE DEF c
<1>5. c # None => c \in Indices /\ r.start <= c /\ c < r.end
  BY <1>3 DEF SearchResult
<1>6. TypeOK'
  <2>1. \A k \in Locks : InsertOlder(l)[k] \subseteq Locks
    BY <1>1 DEF InsertOlder, Waits, Blocking, Locks, Readers, Writers, TypeOK
  <2>2. InsertOlder(l) \in [Locks -> SUBSET Locks]
    BY <2>1 DEF InsertOlder
  <2>3. c # None => [start |-> r.start, end |-> c] \in Ranges
    BY <1>2, <1>5 DEF Ranges
  <2>4. c # None => [start |-> c, end |-> r.end, priority |-> p] \in Pendings
    BY <1>0, <1>2, <1>5, IndexAssumption DEF Pendings, Indices
  <2>. QED BY <1>1, <1>2, <1>4, <2>2, <2>3, <2>4 DEF TypeOK, ClientStates
<1>a. \A k \in Locks \ {l} :
        /\ claimed'[k] = claimed[k] /\ guard'[k] = guard[k] /\ borrow'[k] = borrow[k]
        /\ pending'[k] = pending[k] /\ client'[k] = client[k]
  BY <1>1, <1>2, <1>4 DEF TypeOK
<1>b. /\ claimed'[l] /\ guard'[l] = r
      /\ c = None => borrow'[l] = r /\ client'[l] = "granted" /\ pending'[l] = None
      /\ c # None =>
           /\ client'[l] = "waiting"
           /\ borrow'[l] = IF c = r.start THEN None ELSE [start |-> r.start, end |-> c]
           /\ pending'[l] = [start |-> c, end |-> r.end, priority |-> p]
  BY <1>1, <1>2, <1>4 DEF TypeOK
<1>c. /\ r.start \in Nat /\ r.end \in Nat /\ (c # None => c \in Nat) /\ r # None
      /\ c # None => /\ [start |-> r.start, end |-> c] # None
                     /\ [start |-> c, end |-> r.end, priority |-> p] # None
  <2>1. r # None
    BY NoneAssumption
  <2>2. c # None => [start |-> r.start, end |-> c] \in Ranges
    BY <1>2, <1>5 DEF Ranges
  <2>3. c # None => [start |-> c, end |-> r.end, priority |-> p] \in Pendings
    BY <1>0, <1>2, <1>5, IndexAssumption DEF Pendings, Indices
  <2>. QED BY <1>2, <1>5, <2>1, <2>2, <2>3, IndexAssumption, NoneAssumption DEF Indices
<1>7. NonEmpty'
  <2>. SUFFICES ASSUME NEW k \in Locks
                PROVE  /\ borrow'[k] # None => borrow'[k].start < borrow'[k].end
                       /\ pending'[k] # None => pending'[k].start < pending'[k].end
                       /\ guard'[k] # None => guard'[k].start < guard'[k].end
    BY DEF NonEmpty
  <2>1. CASE k # l
    BY <1>1, <1>a, <2>1 DEF NonEmpty
  <2>2. CASE k = l
    BY <1>2, <1>5, <1>b, <1>c, <2>2
  <2>. QED BY <2>1, <2>2
<1>8. OnlyBlockingWait'
  BY <1>0, <1>1, <1>a, <1>b DEF OnlyBlockingWait
<1>9. OlderOrder'
  <2>1. CASE c = None
    BY <1>1, <1>2, <1>4, <2>1, <1>a, <1>b DEF OlderOrder, Waits
  <2>2. CASE c # None
    <3>1. Waits' = Waits \cup {l}
      BY <1>0, <1>2, <1>a, <1>b, <1>c, <2>2 DEF Waits, Blocking, Locks, Readers, Writers
    <3>. QED BY <1>0, <1>1, <1>4, <2>2, <3>1, InsertOlderOrder
  <2>. QED BY <2>1, <2>2
<1>10. BorrowIsPrefix'
  BY <1>1, <1>2, <1>5, <1>a, <1>b, <1>c DEF BorrowIsPrefix
<1>11. FrameOK'
  BY <1>2 DEF FrameOK
<1>12. BorrowsExclusive'
  <2>1. \A k \in Locks \ {l} : Conflict(l, k) /\ borrow[k] # None /\ borrow'[l] # None
                                => ~Overlap(borrow'[l], borrow[k])
    <3>. SUFFICES ASSUME NEW k \in Locks \ {l}, Conflict(l, k), borrow[k] # None, borrow'[l] # None
                  PROVE  ~Overlap(borrow'[l], borrow[k])
      OBVIOUS
    <3>1. borrow[k].start \in Nat /\ borrow[k].end \in Nat
      BY <1>1, BorrowType
    <3>2. CASE c = None
      BY <1>3, <1>b, <1>c, <3>1, <3>2, NoneAssumption DEF SearchResult, Free, Overlap
    <3>3. CASE c # None
      BY <1>3, <1>b, <1>c, <3>1, <3>3 DEF SearchResult, Free, Overlap
    <3>. QED BY <3>2, <3>3
  <2>. QED BY <1>1, <1>a, <2>1 DEF BorrowsExclusive, Conflict, Overlap
<1>13. LoopSkipsNobody'
  BY <1>1, <1>2, <1>3, <1>4, SMTT(20)
     DEF LoopSkipsNobody, SearchResult, Blocked, Covers, Conflict, ToVisit, InLoop, TypeOK
<1>. QED BY <1>6, <1>7, <1>8, <1>9, <1>10, <1>11, <1>12, <1>13 DEF IInv

\* A successful try_lock_read or try_lock_write is a lock without a conflict.
LEMMA TryLockIInv ==
  ASSUME IInv, DebugAssertions, NEW l \in Locks, NEW r \in Ranges, TryLock(l, r)
  PROVE  IInv'
<1>1. Lock(l, r, 0) /\ FirstConflict(l, r) = None
  BY DEF TryLock, Grant, Lock, LockAt
<1>. QED BY <1>1, LockIInv

\* Entering the unlock loop: nothing is given up yet, and everybody who waits
\* inside the borrow is still to be visited.
LEMMA UnlockIInv ==
  ASSUME IInv, NEW l \in Locks, Unlock(l)
  PROVE  IInv'
<1>1. /\ TypeOK /\ NonEmpty /\ OnlyBlockingWait /\ OlderOrder /\ BorrowIsPrefix
      /\ FrameOK /\ BorrowsExclusive /\ LoopSkipsNobody
  BY DEF IInv
<1>2. op = None /\ claimed[l] /\ borrow' = borrow
  BY DEF Unlock, UnlockAt
<1>a. \A k \in Locks \ {l} :
        /\ claimed'[k] = claimed[k] /\ guard'[k] = guard[k]
        /\ pending'[k] = pending[k] /\ client'[k] = client[k]
  BY <1>1 DEF Unlock, UnlockAt, TypeOK
<1>b. client'[l] = "idle" /\ pending'[l] = None /\ guard'[l] = None
  BY <1>1 DEF Unlock, UnlockAt, TypeOK
<1>3. older' \in [Locks -> SUBSET Locks]
  <2>1. \A k \in Locks : RemoveOlder(l)[k] \subseteq Locks
    BY <1>1 DEF RemoveOlder, TypeOK
  <2>. QED BY <2>1 DEF RemoveOlder, Unlock, UnlockAt
<1>4. NonEmpty'
  BY <1>1, <1>2, <1>a, <1>b DEF NonEmpty
<1>5. OnlyBlockingWait'
  BY <1>1, <1>a, <1>b DEF OnlyBlockingWait
<1>6. OlderOrder'
  <2>1. Waits' = Waits \ {l}
    BY <1>a, <1>b DEF Waits, Blocking, Locks, Readers, Writers
  <2>. QED BY <1>1, <2>1, RemoveOlderOrder DEF Unlock, UnlockAt
<1>9. BorrowsExclusive'
  BY <1>1, <1>2 DEF BorrowsExclusive
<1>c. CASE borrow[l] = None
  <2>1. op' = None /\ claimed'[l] = FALSE
    BY <1>1, <1>2, <1>c DEF Unlock, UnlockAt, TypeOK
  <2>2. \A k \in Locks : pending'[k] # None => Blocked(k)'
    BY <1>1, <1>2, <1>a, <1>b DEF LoopSkipsNobody, ToVisit, InLoop, Blocked, Covers, Conflict
  <2>3. BorrowIsPrefix'
    BY <1>1, <1>2, <1>a, <1>b, <1>c, <2>1 DEF BorrowIsPrefix
  <2>4. FrameOK' /\ LoopSkipsNobody'
    BY <2>1, <2>2 DEF FrameOK, LoopSkipsNobody
  <2>5. TypeOK'
    <3>1. /\ pending' = [pending EXCEPT ![l] = None] /\ client' = [client EXCEPT ![l] = "idle"]
          /\ guard' = [guard EXCEPT ![l] = None] /\ claimed' = [claimed EXCEPT ![l] = FALSE]
      BY <1>c DEF Unlock, UnlockAt
    <3>. QED BY <1>1, <1>2, <1>3, <2>1, <3>1 DEF TypeOK, ClientStates
  <2>. QED BY <1>4, <1>5, <1>6, <1>9, <2>3, <2>4, <2>5 DEF IInv
<1>d. CASE borrow[l] # None
  <2>. DEFINE S == {k \in Waits \ {l} : /\ pending[k].start >= borrow[l].start
                                        /\ pending[k].start < borrow[l].end}
  <2>1. PICK cur \in Locks \cup {None} :
          IsMax(cur, S) /\ op' = [lock |-> l, start |-> borrow[l].start, cur |-> cur]
    BY <1>d DEF Unlock, UnlockAt, WaitersInside
  <2>2. /\ op' \in Frames /\ op' # None /\ op'.lock = l /\ op'.cur = cur
        /\ op'.start = borrow[l].start /\ claimed' = claimed
    BY <1>1, <1>d, <2>1, BorrowType, NoneAssumption DEF Frames, Unlock, UnlockAt
  <2>3. \A k, m \in Locks \ {l} : Before(k, m)' <=> Before(k, m)
    <3>1. \A k, m \in Locks \ {l} : m \in older'[k] <=> m \in older[k]
      BY DEF Unlock, UnlockAt, RemoveOlder
    <3>. QED BY <1>a, <3>1 DEF Before
  <2>4. \A k \in S : k \in Locks /\ k # l /\ pending'[k] # None /\ pending'[k].start >= op'.start
    BY <1>a, <2>2 DEF Waits, Blocking, Locks, Readers, Writers
  <2>5. \A k \in Locks : pending'[k] # None => Blocked(k)'
    BY <1>1, <1>2, <1>a, <1>b DEF LoopSkipsNobody, ToVisit, InLoop, Blocked, Covers, Conflict
  <2>6. \A k \in S : k \in ToVisit'
    <3>1. \A k \in S : cur # None /\ cur \in S /\ (k = cur \/ Before(k, cur))
      BY <2>1, <2>4, NoneAssumption DEF IsMax
    <3>. QED BY <2>2, <2>3, <2>4, <3>1 DEF ToVisit, InLoop
  <2>7. cur # None => cur \in S
    BY <2>1 DEF IsMax
  <2>8. \A k \in Locks : pending'[k] # None /\ Covers(borrow[l], pending'[k].start) => k \in S
    <3>1. \A k \in Locks : pending[k] # None => k \in Waits /\ pending[k].start \in Nat
      BY <1>1, PendingType DEF OnlyBlockingWait, Waits
    <3>. QED BY <1>1, <1>a, <1>b, <1>d, <3>1, BorrowType DEF Covers
  <2>9. FrameOK'
    BY <1>2, <1>b, <2>2, <2>6, <2>7 DEF FrameOK
  <2>10. LoopSkipsNobody'
    BY <1>2, <2>2, <2>5, <2>6, <2>8 DEF LoopSkipsNobody
  <2>11. BorrowIsPrefix'
    BY <1>1, <1>2, <1>a, <1>b, <2>2 DEF BorrowIsPrefix
  <2>12. TypeOK'
    BY <1>1, <1>2, <1>3, <2>2 DEF TypeOK, Unlock, UnlockAt, ClientStates
  <2>. QED BY <1>4, <1>5, <1>6, <1>9, <2>9, <2>10, <2>11, <2>12 DEF IInv
<1>. QED BY <1>c, <1>d

\* Truncating: only waiters that the loop has still to visit lose a blocker.
LEMMA TruncateIInv ==
  ASSUME IInv, Truncate
  PROVE  IInv'
<1>1. /\ TypeOK /\ NonEmpty /\ OnlyBlockingWait /\ OlderOrder /\ BorrowIsPrefix
      /\ FrameOK /\ BorrowsExclusive /\ LoopSkipsNobody
  BY DEF IInv
<1>2. PICK u \in Locks, l \in Locks : u = op.lock /\ l = op.cur
  BY <1>1 DEF Truncate, InLoop, TypeOK, Frames
<1>. DEFINE index == pending[l].start
<1>3. /\ op # None /\ UNCHANGED <<claimed, pending, older, op, client, guard>>
      /\ borrow[u] # None /\ index < borrow[u].end
      /\ borrow' = [borrow EXCEPT ![u] =
                      IF index = op.start THEN None ELSE [start |-> op.start, end |-> index]]
  BY <1>2 DEF Truncate, InLoop, MustTruncate, BorrowUpTo
<1>4. /\ client[u] = "idle" /\ borrow[u].start = op.start
      /\ pending[l] # None /\ index >= op.start
      /\ index \in Indices /\ op.start \in Indices
  BY <1>1, <1>2, <1>3, PendingType, NoneAssumption DEF FrameOK, ToVisit, TypeOK, Frames
<1>5. /\ index \in Nat /\ op.start \in Nat
      /\ borrow[u].start \in Nat /\ borrow[u].end \in Nat
  BY <1>1, <1>3, <1>4, BorrowType, IndexAssumption DEF Indices
<1>. HIDE DEF index
<1>6. index # op.start => /\ [start |-> op.start, end |-> index] \in Ranges
                          /\ [start |-> op.start, end |-> index] # None
  <2>1. index # op.start => [start |-> op.start, end |-> index] \in Ranges
    BY <1>4 DEF Ranges
  <2>. QED BY <2>1, NoneAssumption
<1>a. /\ \A k \in Locks \ {u} : borrow'[k] = borrow[k]
      /\ borrow'[u] = IF index = op.start THEN None ELSE [start |-> op.start, end |-> index]
  BY <1>1, <1>3 DEF TypeOK
<1>b. \A k : k \in ToVisit' <=> k \in ToVisit
  BY <1>3 DEF ToVisit, InLoop, Before
<1>7. TypeOK'
  BY <1>1, <1>3, <1>6 DEF TypeOK
<1>8. NonEmpty'
  BY <1>1, <1>3, <1>4, <1>5, <1>a DEF NonEmpty
<1>9. OnlyBlockingWait' /\ OlderOrder'
  BY <1>1, <1>3 DEF OnlyBlockingWait, OlderOrder, Waits
<1>10. BorrowIsPrefix'
  BY <1>1, <1>2, <1>3, <1>4, <1>a DEF BorrowIsPrefix
<1>11. FrameOK'
  BY <1>1, <1>2, <1>3, <1>4, <1>a, <1>b DEF FrameOK
<1>12. BorrowsExclusive'
  <2>1. \A k \in Locks \ {u} : Conflict(u, k) /\ borrow[k] # None /\ borrow'[u] # None
                                => ~Overlap(borrow'[u], borrow[k])
    <3>. SUFFICES ASSUME NEW k \in Locks \ {u}, Conflict(u, k), borrow[k] # None, borrow'[u] # None
                  PROVE  ~Overlap(borrow'[u], borrow[k])
      OBVIOUS
    <3>1. borrow[k].start \in Nat /\ borrow[k].end \in Nat /\ ~Overlap(borrow[u], borrow[k])
      BY <1>1, <1>3, BorrowType DEF BorrowsExclusive
    <3>. QED BY <1>3, <1>4, <1>5, <1>a, <3>1 DEF Overlap
  <2>. QED BY <1>1, <1>a, <2>1 DEF BorrowsExclusive, Conflict, Overlap
<1>13. LoopSkipsNobody'
  <2>. SUFFICES ASSUME NEW k \in Locks, pending[k] # None
                PROVE  /\ k \in ToVisit \/ Blocked(k)'
                       /\ borrow'[u] # None /\ Covers(borrow'[u], pending[k].start) => k \in ToVisit
    BY <1>2, <1>3, <1>b DEF LoopSkipsNobody
  <2>1. k \in ToVisit \/ Blocked(k)'
    BY <1>1, <1>2, <1>3, <1>a DEF LoopSkipsNobody, Blocked
  <2>2. borrow'[u] # None /\ Covers(borrow'[u], pending[k].start) => k \in ToVisit
    BY <1>1, <1>2, <1>3, <1>4, <1>5, <1>a, PendingType DEF LoopSkipsNobody, Covers
  <2>. QED BY <2>1, <2>2
<1>. QED BY <1>7, <1>8, <1>9, <1>10, <1>11, <1>12, <1>13 DEF IInv

\* Leaving the loop: nobody waits inside what was left of the borrow.
LEMMA FinishIInv ==
  ASSUME IInv, FinishUnlock
  PROVE  IInv'
<1>1. /\ TypeOK /\ NonEmpty /\ OnlyBlockingWait /\ OlderOrder /\ BorrowIsPrefix
      /\ FrameOK /\ BorrowsExclusive /\ LoopSkipsNobody
  BY DEF IInv
<1>2. PICK u \in Locks : u = op.lock
  BY <1>1 DEF FinishUnlock, TypeOK, Frames
<1>3. /\ op # None /\ op.cur = None /\ op' = None /\ client[u] = "idle"
      /\ UNCHANGED <<pending, older, client, guard>>
      /\ borrow' = [borrow EXCEPT ![u] = None]
      /\ claimed' = [claimed EXCEPT ![u] = FALSE]
  BY <1>1, <1>2 DEF FinishUnlock, FrameOK
<1>a. /\ \A k \in Locks \ {u} : borrow'[k] = borrow[k] /\ claimed'[k] = claimed[k]
      /\ borrow'[u] = None /\ claimed'[u] = FALSE
  BY <1>1, <1>3 DEF TypeOK
<1>4. TypeOK'
  BY <1>1, <1>3 DEF TypeOK
<1>5. NonEmpty' /\ OnlyBlockingWait' /\ OlderOrder' /\ FrameOK'
  BY <1>1, <1>3, <1>a DEF NonEmpty, OnlyBlockingWait, OlderOrder, Waits, FrameOK
<1>6. BorrowIsPrefix'
  BY <1>1, <1>2, <1>3, <1>a DEF BorrowIsPrefix
<1>7. BorrowsExclusive'
  BY <1>1, <1>a DEF BorrowsExclusive
<1>8. LoopSkipsNobody'
  <2>1. \A k \in Locks : k \notin ToVisit
    BY <1>3 DEF ToVisit, InLoop
  <2>2. \A k \in Locks : pending[k] # None => Blocked(k)'
    BY <1>1, <1>2, <1>3, <1>a, <2>1 DEF LoopSkipsNobody, Blocked
  <2>. QED BY <1>3, <2>2 DEF LoopSkipsNobody
<1>. QED BY <1>4, <1>5, <1>6, <1>7, <1>8 DEF IInv

\* A pending borrow is a client's that waits, and continues its borrow.
LEMMA WaitingShape ==
  ASSUME IInv, NEW l \in Locks, pending[l] # None
  PROVE  /\ client[l] = "waiting" /\ claimed[l] /\ guard[l] # None /\ guard[l] \in Ranges
         /\ pending[l].end = guard[l].end
         /\ guard[l].start \in Nat /\ guard[l].start <= pending[l].start
         /\ borrow[l] = IF pending[l].start = guard[l].start THEN None
                        ELSE [start |-> guard[l].start, end |-> pending[l].start]
         /\ op # None => l # op.lock
<1>1. TypeOK /\ NonEmpty /\ BorrowIsPrefix /\ FrameOK
  BY DEF IInv
<1>2. client[l] = "waiting"
  BY <1>1 DEF BorrowIsPrefix, TypeOK, ClientStates
<1>3. /\ claimed[l] /\ guard[l] # None /\ guard[l] \in Ranges
      /\ guard[l].start <= pending[l].start /\ pending[l].end = guard[l].end
      /\ borrow[l] = IF pending[l].start = guard[l].start THEN None
                     ELSE [start |-> guard[l].start, end |-> pending[l].start]
  BY <1>1, <1>2 DEF BorrowIsPrefix, TypeOK
<1>4. guard[l].start \in Nat
  BY <1>3, IndexAssumption DEF Ranges, Indices
<1>6. op # None => l # op.lock
  BY <1>1, <1>2 DEF FrameOK
<1>. QED BY <1>2, <1>3, <1>4, <1>6

\* Resuming: the visited waiter ends up complete or behind a borrow that is
\* really there, borrows grow only, and the loop goes on with the next waiter.
LEMMA ResumeIInv ==
  ASSUME IInv, resume_borrow
  PROVE  IInv'
<1>1. /\ TypeOK /\ NonEmpty /\ OnlyBlockingWait /\ OlderOrder /\ BorrowIsPrefix
      /\ FrameOK /\ BorrowsExclusive /\ LoopSkipsNobody
  BY DEF IInv
<1>2. PICK u \in Locks, l \in Locks : u = op.lock /\ l = op.cur
  BY <1>1 DEF resume_borrow, ResumeAt, InLoop, TypeOK, Frames
<1>. DEFINE r == pending[l]
            c == FirstConflict(l, r)
            S == {k \in Waits \ {l} : pending[k].start >= op.start /\ Before(k, l)}
<1>3. PICK next \in Locks \cup {None} : IsMax(next, S) /\ op' = [op EXCEPT !.cur = next]
  BY <1>2 DEF resume_borrow, ResumeAt, WaitersBefore
<1>4. /\ op # None /\ pending[l] # None /\ l \in Blocking /\ l \in Waits /\ r.start >= op.start
      /\ client[u] = "idle" /\ pending[u] = None /\ l # u
      /\ borrow[u] # None => r.start >= borrow[u].end
      /\ UNCHANGED <<claimed, guard>>
  <2>1. op # None /\ l \in ToVisit /\ client[u] = "idle"
    BY <1>1, <1>2 DEF resume_borrow, ResumeAt, InLoop, FrameOK
  <2>2. pending[l] # None /\ r.start >= op.start
    BY <2>1 DEF ToVisit
  <2>3. pending[u] = None
    BY <1>1, <2>1 DEF BorrowIsPrefix
  <2>4. borrow[u] # None => ~(r.start < borrow[u].end)
    BY <1>2 DEF resume_borrow, ResumeAt, MustTruncate
  <2>5. borrow[u] # None => borrow[u].end \in Nat
    BY <1>1, BorrowType
  <2>6. r.start \in Nat
    BY <1>1, <2>2, PendingType
  <2>. QED BY <1>1, <2>1, <2>2, <2>3, <2>4, <2>5, <2>6
           DEF OnlyBlockingWait, Waits, resume_borrow, ResumeAt
<1>5. /\ r \in [start : Indices, end : Indices, priority : Priorities]
      /\ r.start \in Nat /\ r.end \in Nat /\ r.start < r.end
      /\ r.start \in Indices /\ r.end \in Indices /\ r.priority \in Priorities
  BY <1>1, <1>4, PendingType DEF NonEmpty
<1>6. /\ client[l] = "waiting" /\ claimed[l] /\ guard[l] # None /\ guard[l] \in Ranges
      /\ r.end = guard[l].end /\ guard[l].start \in Nat /\ guard[l].start <= r.start
      /\ borrow[l] = IF r.start = guard[l].start THEN None
                     ELSE [start |-> guard[l].start, end |-> r.start]
  BY <1>4, WaitingShape
<1>7. SearchResult(l, r, c)
  BY <1>1, <1>5, <1>6, FirstConflictCorrect
<1>. DEFINE b(e) == [start |-> guard[l].start, end |-> e]
<1>8. \A e : Expand(l, e) = [borrow EXCEPT ![l] = b(e)]
  <2>1. r.start # guard[l].start => borrow[l] # None
    <3>1. [start |-> guard[l].start, end |-> r.start] \in Ranges
      BY <1>5, <1>6 DEF Ranges
    <3>. QED BY <1>6, <3>1, NoneAssumption
  <2>2. (IF borrow[l] = None THEN r.start ELSE borrow[l].start) = guard[l].start
    BY <1>6, <2>1
  <2>. QED BY <2>2 DEF Expand
<1>9. \/ c = r.start /\ UNCHANGED <<borrow, pending, older, client>>
      \/ /\ c # None /\ c # r.start
         /\ pending' = [pending EXCEPT ![l] = [start |-> c, end |-> r.end, priority |-> r.priority]]
         /\ older' = InsertOlder(l)
         /\ borrow' = [borrow EXCEPT ![l] = b(c)]
         /\ client' = client
      \/ /\ c = None
         /\ pending' = [pending EXCEPT ![l] = None]
         /\ older' = RemoveOlder(l)
         /\ client' = [client EXCEPT ![l] = "granted"]
         /\ borrow' = [borrow EXCEPT ![l] = b(r.end)]
  <2>1. [r EXCEPT !.start = c] = [start |-> c, end |-> r.end, priority |-> r.priority]
    BY <1>5
  <2>2. [pending EXCEPT ![l].start = c] =
          [pending EXCEPT ![l] = [start |-> c, end |-> r.end, priority |-> r.priority]]
    BY <2>1
  <2>. QED BY <1>2, <1>8, <2>2 DEF resume_borrow, ResumeAt
<1>a. \A k \in Locks \ {l} : /\ borrow'[k] = borrow[k] /\ pending'[k] = pending[k]
                             /\ client'[k] = client[k]
  BY <1>1, <1>9 DEF TypeOK
<1>b. \/ c = r.start /\ borrow'[l] = borrow[l] /\ pending'[l] = r /\ client'[l] = "waiting"
      \/ /\ c # None /\ c # r.start /\ borrow'[l] = b(c) /\ client'[l] = "waiting"
         /\ pending'[l] = [start |-> c, end |-> r.end, priority |-> r.priority]
      \/ /\ c = None /\ borrow'[l] = b(r.end) /\ pending'[l] = None /\ client'[l] = "granted"
  BY <1>1, <1>6, <1>9 DEF TypeOK
<1>c. /\ c # None => c \in Indices /\ c \in Nat /\ r.start <= c /\ c < r.end
      /\ c # None => [start |-> c, end |-> r.end, priority |-> r.priority] \in Pendings
      /\ c # None => [start |-> c, end |-> r.end, priority |-> r.priority] # None
  <2>1. c # None => c \in Indices /\ c \in Nat /\ r.start <= c /\ c < r.end
    BY <1>7, IndexAssumption DEF SearchResult, Indices
  <2>2. c # None => [start |-> c, end |-> r.end, priority |-> r.priority] \in Pendings
    BY <1>5, <2>1 DEF Pendings
  <2>. QED BY <2>1, <2>2, NoneAssumption
<1>d. \A e \in Indices : r.start <= e => b(e) \in Ranges /\ b(e) # None
  <2>1. \A e \in Indices : r.start <= e => b(e) \in Ranges
    BY <1>5, <1>6, IndexAssumption DEF Ranges, Indices
  <2>. QED BY <2>1, NoneAssumption
<1>f. /\ r = pending[l]
      /\ \A e : b(e) = [start |-> guard[l].start, end |-> e]
      /\ \A e : b(e).start = guard[l].start /\ b(e).end = e
  OBVIOUS
<1>. HIDE DEF c, r, b
<1>e. /\ op' # None /\ op' \in Frames /\ op'.lock = u /\ op'.cur = next /\ op'.start = op.start
      /\ op.start \in Nat
  <2>1. op \in Frames
    BY <1>1, <1>4 DEF TypeOK
  <2>. QED BY <1>2, <1>3, <2>1, NoneAssumption, IndexAssumption DEF Frames, Indices
<1>10. TypeOK'
  <2>1. older' \in [Locks -> SUBSET Locks]
    <3>1. \A k \in Locks : InsertOlder(l)[k] \subseteq Locks /\ RemoveOlder(l)[k] \subseteq Locks
      BY <1>1 DEF InsertOlder, RemoveOlder, Waits, Blocking, Locks, Readers, Writers, TypeOK
    <3>2. InsertOlder(l) \in [Locks -> SUBSET Locks] /\ RemoveOlder(l) \in [Locks -> SUBSET Locks]
      BY <3>1 DEF InsertOlder, RemoveOlder
    <3>. QED BY <1>1, <1>9, <3>2 DEF TypeOK
  <2>2. borrow' \in [Locks -> Ranges \cup {None}]
    BY <1>1, <1>5, <1>9, <1>c, <1>d DEF TypeOK
  <2>3. pending' \in [Locks -> Pendings \cup {None}]
    BY <1>1, <1>9, <1>c DEF TypeOK
  <2>4. client' \in [Locks -> ClientStates]
    BY <1>1, <1>9 DEF TypeOK, ClientStates
  <2>. QED BY <1>1, <1>4, <1>e, <2>1, <2>2, <2>3, <2>4 DEF TypeOK
<1>11. NonEmpty'
  <2>. SUFFICES ASSUME NEW k \in Locks
                PROVE  /\ borrow'[k] # None => borrow'[k].start < borrow'[k].end
                       /\ pending'[k] # None => pending'[k].start < pending'[k].end
                       /\ guard'[k] # None => guard'[k].start < guard'[k].end
    BY DEF NonEmpty
  <2>1. CASE k # l
    BY <1>1, <1>4, <1>a, <2>1 DEF NonEmpty
  <2>2. CASE k = l
    <3>1. guard'[k] # None => guard'[k].start < guard'[k].end
      BY <1>1, <1>4 DEF NonEmpty
    <3>2. borrow[l] # None => borrow[l].start < borrow[l].end
      BY <1>1 DEF NonEmpty
    <3>3. borrow'[k] # None => borrow'[k].start < borrow'[k].end
      BY <1>5, <1>6, <1>b, <1>c, <1>f, <2>2, <3>2
    <3>4. pending'[k] # None => pending'[k].start < pending'[k].end
      BY <1>5, <1>b, <1>c, <2>2
    <3>. QED BY <3>1, <3>3, <3>4
  <2>. QED BY <2>1, <2>2
<1>12. OnlyBlockingWait'
  BY <1>1, <1>4, <1>a DEF OnlyBlockingWait
<1>13. OlderOrder'
  <2>1. CASE c = r.start
    BY <1>1, <1>9, <1>5, <1>c, <2>1, NoneAssumption DEF OlderOrder, Waits
  <2>2. CASE c # None /\ c # r.start
    <3>1. Waits' = Waits \cup {l}
      BY <1>4, <1>a, <1>b, <1>c, <2>2 DEF Waits, Blocking, Locks, Readers, Writers
    <3>. QED BY <1>1, <1>4, <1>9, <2>2, <3>1, InsertOlderOrder
  <2>3. CASE c = None
    <3>1. c # r.start
      BY <1>5, <2>3, NoneAssumption
    <3>2. Waits' = Waits \ {l}
      BY <1>4, <1>a, <1>b, <2>3, <3>1 DEF Waits, Blocking, Locks, Readers, Writers
    <3>. QED BY <1>1, <1>9, <2>3, <3>1, <3>2, RemoveOlderOrder
  <2>. QED BY <2>1, <2>2, <2>3
<1>14. BorrowIsPrefix'
  <2>1. ASSUME NEW k \in Locks \ {l}
        PROVE  /\ client[k] = "idle" => (claimed'[k] <=> (op' # None /\ op'.lock = k))
               /\ claimed'[k] = claimed[k] /\ guard'[k] = guard[k]
    <3>1. claimed' = claimed /\ guard' = guard /\ op.lock = u /\ op'.lock = u
      BY <1>2, <1>4, <1>e
    <3>2. client[k] = "idle" => (claimed[k] <=> (op # None /\ op.lock = k))
      BY <1>1 DEF BorrowIsPrefix
    <3>. QED BY <1>4, <1>e, <3>1, <3>2
  <2>2. /\ client'[l] = "granted" =>
             claimed'[l] /\ pending'[l] = None /\ guard'[l] # None /\ borrow'[l] = guard'[l]
        /\ client'[l] = "waiting" =>
             /\ claimed'[l] /\ pending'[l] # None /\ guard'[l] # None
             /\ guard'[l].start <= pending'[l].start /\ pending'[l].end = guard'[l].end
             /\ IF pending'[l].start = guard'[l].start
                  THEN borrow'[l] = None
                  ELSE borrow'[l] = [start |-> guard'[l].start, end |-> pending'[l].start]
        /\ client'[l] # "idle"
    <3>1. b(r.end) = guard[l]
      BY <1>6, <1>f DEF Ranges
    <3>2. CASE c = r.start
      BY <1>4, <1>5, <1>6, <1>b, <1>f, <3>2, NoneAssumption
    <3>3. CASE c # None /\ c # r.start
      BY <1>4, <1>5, <1>6, <1>b, <1>c, <1>f, <3>3
    <3>4. CASE c = None
      BY <1>4, <1>5, <1>6, <1>b, <3>1, <3>4, NoneAssumption
    <3>. QED BY <3>2, <3>3, <3>4
  <2>. QED BY <1>1, <1>a, <2>1, <2>2 DEF BorrowIsPrefix
<1>16. BorrowsExclusive'
  <2>1. \A k \in Locks \ {l} : Conflict(l, k) /\ borrow[k] # None /\ borrow'[l] # None
                                => ~Overlap(borrow'[l], borrow[k])
    <3>. SUFFICES ASSUME NEW k \in Locks \ {l}, Conflict(l, k), borrow[k] # None, borrow'[l] # None
                  PROVE  ~Overlap(borrow'[l], borrow[k])
      OBVIOUS
    <3>1. borrow[k].start \in Nat /\ borrow[k].end \in Nat /\ borrow[k].start < borrow[k].end
      BY <1>1, BorrowType DEF NonEmpty
    <3>2. borrow[l] # None => ~Overlap(borrow[l], borrow[k])
      BY <1>1 DEF BorrowsExclusive
    <3>3. \/ r.start = guard[l].start
          \/ borrow[k].end <= guard[l].start
          \/ r.start <= borrow[k].start
      <4>1. CASE r.start # guard[l].start
        <5>1. borrow[l] = b(r.start) /\ borrow[l] # None
          BY <1>5, <1>6, <1>d, <1>f, <4>1
        <5>. QED BY <1>5, <1>6, <1>f, <3>1, <3>2, <5>1 DEF Overlap
      <4>. QED BY <4>1
    <3>4. CASE c = r.start
      BY <1>5, <1>b, <3>2, <3>4, NoneAssumption
    <3>5. CASE c # None /\ c # r.start
      <4>1. borrow[k].end <= r.start \/ c <= borrow[k].start
        BY <1>7, <3>5 DEF SearchResult, Free
      <4>2. borrow'[l].start = guard[l].start /\ borrow'[l].end = c
        BY <1>b, <1>f, <3>5
      <4>. QED BY <1>5, <1>6, <1>c, <3>1, <3>3, <3>5, <4>1, <4>2 DEF Overlap
    <3>6. CASE c = None
      <4>1. borrow[k].end <= r.start \/ r.end <= borrow[k].start
        BY <1>7, <3>6, NoneAssumption DEF SearchResult, Free
      <4>2. borrow'[l].start = guard[l].start /\ borrow'[l].end = r.end
        BY <1>5, <1>b, <1>f, <3>6, NoneAssumption
      <4>. QED BY <1>5, <1>6, <3>1, <3>3, <4>1, <4>2 DEF Overlap
    <3>. QED BY <3>4, <3>5, <3>6
  <2>. QED BY <1>1, <1>a, <2>1 DEF BorrowsExclusive, Conflict, Overlap
<1>h. \A k, m \in Locks \ {l} : Before(k, m)' <=> Before(k, m)
  <2>1. \A k, m \in Locks \ {l} : m \in older'[k] <=> m \in older[k]
    BY <1>9 DEF InsertOlder, RemoveOlder
  <2>. QED BY <1>a, <2>1 DEF Before
<1>i. \A k \in S : k \in Locks \ {l} /\ k \in ToVisit'
  <2>1. \A k \in S : k \in Locks \ {l} /\ pending'[k] # None /\ pending'[k].start >= op'.start
    BY <1>a, <1>e DEF Waits, Blocking, Locks, Readers, Writers
  <2>2. \A k \in S : next # None /\ next \in S /\ (k = next \/ Before(k, next))
    BY <1>3, <2>1, NoneAssumption DEF IsMax
  <2>. QED BY <1>e, <1>h, <2>1, <2>2 DEF ToVisit, InLoop
<1>j. \A k \in Locks \ {l} : k \in ToVisit => k \in ToVisit'
  <2>1. \A k \in Locks \ {l} : k \in ToVisit => k \in S
    BY <1>1, <1>2 DEF ToVisit, OnlyBlockingWait, Waits
  <2>. QED BY <1>i, <2>1
<1>15. FrameOK'
  <2>1. next # None => next \in S
    BY <1>3 DEF IsMax
  <2>. QED BY <1>1, <1>2, <1>4, <1>a, <1>e, <1>i, <2>1 DEF FrameOK
<1>k. \A k \in Locks : borrow[k] # None =>
        /\ borrow'[k] # None
        /\ \A i \in Nat : Covers(borrow[k], i) => Covers(borrow'[k], i)
  <2>1. ASSUME borrow[l] # None
        PROVE  /\ borrow'[l] # None
               /\ \A i \in Nat : Covers(borrow[l], i) => Covers(borrow'[l], i)
    <3>1. borrow[l].start = guard[l].start /\ borrow[l].end = r.start
      BY <1>6, <2>1
    <3>2. CASE c = r.start
      BY <1>5, <1>b, <2>1, <3>2, NoneAssumption
    <3>3. CASE c # None /\ c # r.start
      BY <1>5, <1>6, <1>b, <1>c, <1>d, <1>f, <3>1, <3>3 DEF Covers
    <3>4. CASE c = None
      BY <1>5, <1>6, <1>b, <1>d, <1>f, <3>1, <3>4, NoneAssumption DEF Covers
    <3>. QED BY <3>2, <3>3, <3>4
  <2>. QED BY <1>a, <2>1
<1>17. LoopSkipsNobody'
  <2>. SUFFICES ASSUME NEW k \in Locks, pending'[k] # None
                PROVE  /\ k \in ToVisit' \/ Blocked(k)'
                       /\ borrow'[u] # None /\ Covers(borrow'[u], pending'[k].start)
                            => k \in ToVisit'
    BY <1>e DEF LoopSkipsNobody
  <2>1. CASE k # l
    <3>1. pending[k] # None /\ pending'[k] = pending[k] /\ pending[k].start \in Nat
      BY <1>1, <1>a, <2>1, PendingType
    <3>2. Blocked(k) => Blocked(k)'
      BY <1>k, <3>1 DEF Blocked
    <3>. QED BY <1>1, <1>2, <1>4, <1>a, <1>j, <2>1, <3>1, <3>2 DEF LoopSkipsNobody
  <2>2. CASE k = l
    <3>1. c # None /\ pending'[l].start = c
      BY <1>5, <1>b, <2>2, NoneAssumption
    <3>2. PICK m \in Locks : Conflict(l, m) /\ borrow[m] # None /\ Covers(borrow[m], c)
      BY <1>7, <3>1 DEF SearchResult
    <3>3. Blocked(l)'
      BY <1>a, <3>1, <3>2 DEF Blocked, Conflict
    <3>4. borrow'[u] # None => ~Covers(borrow'[u], c)
      BY <1>1, <1>4, <1>5, <1>a, <1>c, <3>1, BorrowType DEF Covers
    <3>. QED BY <2>2, <3>1, <3>3, <3>4
  <2>. QED BY <2>1, <2>2
<1>. QED BY <1>10, <1>11, <1>12, <1>13, <1>14, <1>15, <1>16, <1>17 DEF IInv

\* Every operation and every step of an unlock loop keeps the invariant.
LEMMA NextIInv ==
  ASSUME IInv, DebugAssertions, [Next]_vars
  PROVE  IInv'
<1>1. CASE \E l \in Locks, r \in Ranges, p \in Priorities :
             lock_read(l, r, p) \/ lock_write(l, r, p)
  <2>1. PICK l \in Locks, r \in Ranges, p \in Priorities : Lock(l, r, p) /\ l \in Blocking
    BY <1>1 DEF lock_read, lock_write, Blocking
  <2>. QED BY <2>1, LockIInv
<1>2. CASE \E l \in Locks, r \in Ranges : try_lock_read(l, r) \/ try_lock_write(l, r)
  BY <1>2, TryLockIInv DEF try_lock_read, try_lock_write
<1>3. CASE \E l \in Locks : \/ unlock_read(l) \/ unlock_write(l)
                            \/ unlock_try_read(l) \/ unlock_try_write(l)
  BY <1>3, UnlockIInv DEF unlock_read, unlock_write, unlock_try_read, unlock_try_write
<1>4. CASE unlock_inner
  BY <1>4, TruncateIInv, ResumeIInv, FinishIInv DEF unlock_inner
<1>5. CASE UNCHANGED vars
  BY <1>5 DEF vars, IInv, TypeOK, NonEmpty, OnlyBlockingWait, OlderOrder, BorrowIsPrefix,
              FrameOK, BorrowsExclusive, LoopSkipsNobody, ToVisit, InLoop, Blocked,
              Before, Waits
<1>. QED BY <1>1, <1>2, <1>3, <1>4, <1>5 DEF Next

\* The inductive invariant, type correctness included, holds of every core
\* built with debug assertions, which reject empty ranges.
THEOREM Invariance == ASSUME DebugAssertions PROVE Spec => []IInv
<1>1. Init => IInv
  BY InitIInv
<1>2. IInv /\ [Next]_vars => IInv'
  BY NextIInv
<1>. QED BY <1>1, <1>2, PTL DEF Spec

-----------------------------------------------------------------------------
(* The safety properties *)

\* Clients that have been told they hold a lock never hold conflicting ranges,
\* whatever the interleaving of locking, unlocking and unlock loops.
THEOREM MutualExclusionHolds == ASSUME DebugAssertions PROVE Spec => []MutualExclusion
<1>1. IInv => MutualExclusion
  BY ZenonT(30) DEF IInv, BorrowIsPrefix, BorrowsExclusive, MutualExclusion
<1>. QED BY <1>1, Invariance, PTL

\* Nodes in the trees of the core never overlap in conflict.
THEOREM BorrowsExclusiveHolds == ASSUME DebugAssertions PROVE Spec => []BorrowsExclusive
<1>1. IInv => BorrowsExclusive
  BY DEF IInv
<1>. QED BY <1>1, Invariance, PTL

\* Write borrows are in the same order by start and by end, and no two of them
\* share either.
WritesSorted ==
  \A l, k \in Writes : l # k =>
    \/ borrow[l].start < borrow[k].start /\ borrow[l].end < borrow[k].end
    \/ borrow[k].start < borrow[l].start /\ borrow[k].end < borrow[l].end

LEMMA IInvWritesSorted == IInv => WritesSorted
<1>1. ASSUME IInv, NEW l \in Writes, NEW k \in Writes, l # k
      PROVE  \/ borrow[l].start < borrow[k].start /\ borrow[l].end < borrow[k].end
             \/ borrow[k].start < borrow[l].start /\ borrow[k].end < borrow[l].end
  <2>1. \A m \in {l, k} : /\ m \in Locks /\ m \in Writers /\ borrow[m] # None
                          /\ borrow[m].start \in Nat /\ borrow[m].end \in Nat /\ borrow[m].start < borrow[m].end
    BY <1>1, BorrowType DEF IInv, NonEmpty, Writes, Locks
  <2>2. ~Overlap(borrow[l], borrow[k])
    BY <1>1, <2>1 DEF IInv, BorrowsExclusive, Conflict
  <2>. QED BY <2>1, <2>2 DEF Overlap
<1>2. IInv => WritesSorted
  BY <1>1 DEF WritesSorted
<1>. QED BY <1>2

\* "Since write borrows have no overlaps, either `start` and `end` can be used
\* for ordering": `writes` is sorted by start, searched by end, and its nodes
\* are truncated and expanded in place, also in the middle of an unlock loop.
\* Hence what lower_bound searches for is an upper part of the tree, which is
\* what TreeQueries of OrderedTreeProofs asks for.
THEOREM WritesSortedHolds == ASSUME DebugAssertions PROVE Spec => []WritesSorted
  BY IInvWritesSorted, Invariance, PTL

\* At an index that no read covers by the count of the endpoints, which is
\* never negative, every end of a read borrow above it comes after a start.
UpperBoundsMatched ==
  \A i \in Indices :
    /\ prefix_sum(i) >= 0
    /\ prefix_sum(i) = 0 =>
         \A l \in Reads : borrow[l].end > i =>
           \E k \in Reads : i < borrow[k].start /\ borrow[k].start < borrow[l].end

LEMMA IInvUpperBoundsMatched == IInv => UpperBoundsMatched
<1>1. ASSUME IInv, NEW i \in Indices
      PROVE  /\ prefix_sum(i) >= 0
             /\ prefix_sum(i) = 0 =>
                  \A l \in Reads : borrow[l].end > i =>
                    \E k \in Reads : i < borrow[k].start /\ borrow[k].start < borrow[l].end
  <2>. DEFINE S == {l \in Reads : borrow[l].start <= i}
              E == {l \in Reads : borrow[l].end <= i}
  <2>0. TypeOK /\ NonEmpty /\ i \in Nat
    BY <1>1, IndexAssumption DEF IInv, Indices
  <2>1. \A k \in Reads : /\ borrow[k].start \in Nat /\ borrow[k].end \in Nat
                         /\ borrow[k].start < borrow[k].end
    BY <2>0, BorrowType DEF Reads, Locks, NonEmpty
  <2>2. S \subseteq Locks /\ E \subseteq S
    BY <2>0, <2>1 DEF Reads, Locks
  <2>3. IsFiniteSet(S)
    BY <2>2, LocksFinite, FS_Subset
  <2>4. IsFiniteSet(E) /\ Cardinality(E) <= Cardinality(S)
    BY <2>2, <2>3, FS_Subset
  <2>5. Cardinality(S) \in Nat /\ Cardinality(E) \in Nat /\ prefix_sum(i) = Cardinality(S) - Cardinality(E)
    BY <2>3, <2>4, FS_CardinalityType DEF prefix_sum
  <2>. HIDE DEF S, E
  <2>6. prefix_sum(i) >= 0
    BY <2>4, <2>5
  <2>7. ASSUME prefix_sum(i) = 0, NEW l \in Reads, borrow[l].end > i
        PROVE  i < borrow[l].start /\ borrow[l].start < borrow[l].end
    <3>1. ~Covers(borrow[l], i)
      BY <1>1, <2>0, <2>7, PrefixSumCorrect
    <3>. QED BY <2>0, <2>1, <2>7, <3>1 DEF Covers
  <2>. QED BY <2>6, <2>7
<1>2. IInv => UpperBoundsMatched
  BY <1>1 DEF UpperBoundsMatched
<1>. QED BY <1>2

\* The debug assertion of first_read_borrow_in_range, "found a read borrow upper
\* bound point without a matching lower bound point", never fails: the first
\* node of `reads` above an index at which the prefix sum is zero is a start,
\* although truncation and expansion move one endpoint of a borrow without the
\* other.
THEOREM UpperBoundsMatchedHolds == ASSUME DebugAssertions PROVE Spec => []UpperBoundsMatched
  BY IInvUpperBoundsMatched, Invariance, PTL

\* The waiters, in the order of their nodes in `pendings`, form a line.
WaitersInLine ==
  /\ \A k \in Waits : ~Before(k, k)
  /\ \A k, l \in Waits : k # l => (Before(k, l) <=> ~Before(l, k))
  /\ \A j, k, l \in Waits : Before(j, k) /\ Before(k, l) => Before(j, l)

\* Arrival is transitive.
OlderTransitive == \A j, k, l \in Locks : j \in older[k] /\ k \in older[l] => j \in older[l]

\* A node goes after, in arrival, everything that is in the tree.
LEMMA NextOlder ==
  ASSUME OlderTransitive, IInv, [Next]_vars
  PROVE  OlderTransitive'
<1>0. TypeOK /\ \A k \in Locks : older[k] \subseteq Waits \ {k}
  BY DEF IInv, OlderOrder
<1>1. older' = older \/ \E l \in Locks : older' = InsertOlder(l) \/ older' = RemoveOlder(l)
  <2>1. InLoop => op.cur \in Locks
    BY <1>0 DEF TypeOK, Frames, InLoop
  <2>2. CASE \E l \in Locks, r \in Ranges : TryLock(l, r) \/ \E p \in Priorities : Lock(l, r, p)
    BY <2>2 DEF Lock, LockAt, TryLock, Grant
  <2>3. CASE \E l \in Locks : Unlock(l)
    BY <2>3 DEF Unlock, UnlockAt
  <2>4. CASE unlock_inner
    BY <2>1, <2>4 DEF unlock_inner, Truncate, resume_borrow, ResumeAt, FinishUnlock
  <2>5. CASE UNCHANGED vars
    BY <2>5 DEF vars
  <2>. QED BY <2>2, <2>3, <2>4, <2>5
              DEF Next, lock_read, lock_write, try_lock_read, try_lock_write,
                  unlock_read, unlock_write, unlock_try_read, unlock_try_write
<1>2. ASSUME NEW l \in Locks, older' = InsertOlder(l)
      PROVE  OlderTransitive'
  <2>1. \A k \in Locks : older'[k] = IF k = l THEN Waits \ {l} ELSE older[k] \ {l}
    BY <1>2 DEF InsertOlder
  <2>. SUFFICES ASSUME NEW j \in Locks, NEW k \in Locks, NEW m \in Locks, j \in older'[k], k \in older'[m]
                PROVE  j \in older'[m]
    BY DEF OlderTransitive
  <2>2. l \notin older'[k] /\ l \notin older'[m]
    BY <2>1
  <2>3. j # l /\ k # l /\ j \in older[k]
    BY <2>1, <2>2
  <2>4. CASE m = l
    BY <1>0, <2>1, <2>3, <2>4
  <2>5. CASE m # l
    BY <2>1, <2>3, <2>5 DEF OlderTransitive
  <2>. QED BY <2>4, <2>5
<1>3. ASSUME NEW l \in Locks, older' = RemoveOlder(l)
      PROVE  OlderTransitive'
  <2>1. \A k \in Locks : older'[k] = IF k = l THEN {} ELSE older[k] \ {l}
    BY <1>3 DEF RemoveOlder
  <2>. QED BY <2>1 DEF OlderTransitive
<1>4. CASE older' = older
  BY <1>4 DEF OlderTransitive
<1>. QED BY <1>1, <1>2, <1>3, <1>4

\* `pendings` is sorted although its cmp_element, which answers a tie with
\* Less, is no order: each of two tied nodes is Less than the other.  A total
\* order comes of it because only a new node is ever compared with one in the
\* tree, and a waiter that moves on is removed and inserted again.
THEOREM WaitersInLineHolds == ASSUME DebugAssertions PROVE Spec => []WaitersInLine
<1>1. Init => OlderTransitive
  BY DEF Init, OlderTransitive
<1>2. ASSUME IInv, OlderTransitive
      PROVE  WaitersInLine
  <2>1. TypeOK /\ OlderOrder /\ Waits \subseteq Locks
    BY <1>2 DEF IInv, Waits, Blocking, Locks, Readers, Writers
  <2>2. \A k \in Waits : pending[k].start \in Nat /\ pending[k].priority \in Nat
    BY <2>1, PendingType DEF Waits
  <2>3. \A k, l \in Waits : k # l => (k \in older[l] <=> l \notin older[k])
    BY <2>1 DEF OlderOrder
  <2>4. \A k \in Waits : k \notin older[k]
    BY <2>1 DEF OlderOrder
  <2>5. \A j, k, l \in Waits : l \in older[k] /\ k \in older[j] => l \in older[j]
    BY <1>2, <2>1 DEF OlderTransitive
  <2>6. \A k \in Waits : ~Before(k, k)
    BY <2>2, <2>4 DEF Before
  <2>7. \A k, l \in Waits : k # l => (Before(k, l) <=> ~Before(l, k))
    BY <2>2, <2>3 DEF Before
  <2>8. \A j, k, l \in Waits : Before(j, k) /\ Before(k, l) => Before(j, l)
    BY <2>2, <2>5 DEF Before
  <2>. QED BY <2>6, <2>7, <2>8 DEF WaitersInLine
<1>3. IInv /\ OlderTransitive /\ [Next]_vars => OlderTransitive'
  BY NextOlder
<1>. QED BY <1>1, <1>2, <1>3, Invariance, PTL DEF Spec

\* What is borrowed and what is pending make up what the client asked for.
THEOREM BorrowIsPrefixHolds == ASSUME DebugAssertions PROVE Spec => []BorrowIsPrefix
<1>1. IInv => BorrowIsPrefix
  BY DEF IInv
<1>. QED BY <1>1, Invariance, PTL

\* No unlock ever leaves a waiter behind whom nothing blocks any more.
THEOREM PendingBlockedHolds == ASSUME DebugAssertions PROVE Spec => []PendingBlocked
<1>1. IInv => PendingBlocked
  BY DEF IInv, LoopSkipsNobody, ToVisit, InLoop, PendingBlocked
<1>. QED BY <1>1, Invariance, PTL

\* Of all locks that wait, one that waits at the highest index can only be
\* blocked by a completed lock: a blocker that waited itself would wait
\* further up.  That is why indices are locked in ascending order.
LEMMA IInvDeadlockFree == IInv => DeadlockFree
<1>. SUFFICES ASSUME IInv, op = None, NEW w \in Locks, client[w] = "waiting"
              PROVE  \E k \in Locks : client[k] = "granted"
  BY DEF DeadlockFree
<1>1. TypeOK /\ BorrowIsPrefix /\ LoopSkipsNobody
  BY DEF IInv
<1>. DEFINE waiting == {l \in Locks : pending[l] # None}
            above   == {N - pending[l].start : l \in waiting}
<1>2. \A l \in waiting : pending[l].start \in Nat /\ pending[l].start <= N
  BY <1>1, PendingType
<1>3. above \in SUBSET Nat /\ above # {}
  <2>1. \A l \in waiting : N - pending[l].start \in Nat
    BY <1>2, IndexAssumption
  <2>2. w \in waiting
    BY <1>1 DEF BorrowIsPrefix
  <2>. QED BY <2>1, <2>2
<1>4. PICK m \in above : \A i \in above : m <= i
  BY <1>3, NatMin
<1>5. PICK l \in waiting : m = N - pending[l].start
  BY <1>4
<1>6. \A k \in waiting : pending[k].start <= pending[l].start
  <2>. TAKE k \in waiting
  <2>1. N - pending[k].start \in above
    OBVIOUS
  <2>2. N - pending[l].start <= N - pending[k].start
    BY <1>4, <1>5, <2>1
  <2>. QED BY <1>2, <2>2, IndexAssumption
<1>7. PICK k \in Locks : borrow[k] # None /\ Covers(borrow[k], pending[l].start)
  BY <1>1, <1>5 DEF LoopSkipsNobody, ToVisit, InLoop, Blocked
<1>8. client[k] # "idle"
  BY <1>1, <1>7 DEF BorrowIsPrefix
<1>9. client[k] # "waiting"
  <2>. SUFFICES ASSUME client[k] = "waiting" PROVE FALSE
    OBVIOUS
  <2>1. k \in waiting
    BY <1>1 DEF BorrowIsPrefix
  <2>2. borrow[k].end = pending[k].start
    <3>1. borrow[k] = IF pending[k].start = guard[k].start THEN None
                      ELSE [start |-> guard[k].start, end |-> pending[k].start]
      BY <2>1, WaitingShape
    <3>. QED BY <1>7, <3>1
  <2>. QED BY <1>2, <1>5, <1>6, <1>7, <2>1, <2>2 DEF Covers
<1>. QED BY <1>1, <1>8, <1>9 DEF TypeOK, ClientStates

\* Partial borrows held while waiting never form a cycle.
THEOREM DeadlockFreeHolds == ASSUME DebugAssertions PROVE Spec => []DeadlockFree
  BY IInvDeadlockFree, Invariance, PTL

\* An accepted drop of the core leaves no state object pointing at it.
THEOREM DropValidationHolds == ASSUME DebugAssertions PROVE Spec => []DropValidation
<1>1. IInv => DropValidation
  <2>. SUFFICES ASSUME IInv, op = None, Reads = {}, Writes = {}, Waits = {}, NEW l \in Locks
                PROVE  ~claimed[l]
    BY DEF DropValidation
  <2>1. TypeOK /\ BorrowIsPrefix /\ OnlyBlockingWait
    BY DEF IInv
  <2>2. borrow[l] = None /\ pending[l] = None
    BY <2>1 DEF Reads, Writes, Waits, Locks, OnlyBlockingWait
  <2>. QED BY <2>1, <2>2 DEF BorrowIsPrefix, TypeOK, ClientStates
<1>. QED BY <1>1, Invariance, PTL

-----------------------------------------------------------------------------
(* The action properties *)

\* While p, ahead of q in the wait list of an index, stays blocked there, so
\* does q: whatever blocks p blocks q as well, unless p writes and q reads.
LEMMA ResumeInOrder ==
  ASSUME IInv, resume_borrow, NEW p \in Locks, NEW q \in Locks,
         pending[p] # None, pending[q] # None, pending[p].start = pending[q].start,
         Before(q, p), q \in Writers \/ p \in Readers, pending'[q] # pending[q]
  PROVE  pending'[p] # pending[p]
<1>1. TypeOK /\ NonEmpty /\ OlderOrder /\ OnlyBlockingWait /\ LoopSkipsNobody
  BY DEF IInv
<1>2. q = op.cur
  BY <1>1 DEF resume_borrow, ResumeAt, TypeOK
<1>3. p # q /\ ~Before(p, q)
  <2>1. p \in Waits /\ q \in Waits /\ q \notin older[q]
    BY <1>1 DEF OnlyBlockingWait, OlderOrder, Waits
  <2>2. /\ pending[p].start \in Nat /\ pending[p].priority \in Nat
        /\ pending[q].start \in Nat /\ pending[q].priority \in Nat
    BY <1>1, PendingType
  <2>3. p # q
    BY <2>1, <2>2 DEF Before
  <2>4. p \in older[q] => q \notin older[p]
    BY <1>1, <2>1, <2>3 DEF OlderOrder
  <2>. QED BY <2>2, <2>3, <2>4 DEF Before
<1>4. p \notin ToVisit
  BY <1>2, <1>3 DEF ToVisit
<1>5. PICK k \in Locks : /\ Conflict(p, k) /\ borrow[k] # None
                         /\ Covers(borrow[k], pending[q].start)
  BY <1>1, <1>4 DEF LoopSkipsNobody, Blocked
<1>. DEFINE c == FirstConflict(q, pending[q])
<1>6. /\ borrow[q] # None => borrow[q].end <= pending[q].start
      /\ pending[q].start \in Indices /\ pending[q].end \in Indices
      /\ pending[q].start < pending[q].end /\ pending[q].start \in Nat /\ pending[q].end \in Nat
  <2>1. borrow[q] # None => borrow[q].end = pending[q].start
    <3>1. borrow[q] = IF pending[q].start = guard[q].start THEN None
                      ELSE [start |-> guard[q].start, end |-> pending[q].start]
      BY WaitingShape
    <3>. QED BY <3>1
  <2>. QED BY <1>1, <2>1, PendingType DEF NonEmpty
<1>7. SearchResult(q, pending[q], c)
  BY <1>1, <1>6, FirstConflictCorrect
<1>. HIDE DEF c
<1>8. k # q /\ borrow[k].start \in Nat /\ borrow[k].end \in Nat
  BY <1>1, <1>5, <1>6, BorrowType DEF Covers
<1>9. Conflict(q, k)
  BY <1>5, <1>8, LocksAssumption DEF Conflict
<1>10. c = pending[q].start
  <2>1. c \in Indices => c \in Nat
    BY IndexAssumption DEF Indices
  <2>. QED BY <1>5, <1>6, <1>7, <1>8, <1>9, <2>1 DEF SearchResult, Free, Covers
<1>11. pending' = pending
  BY <1>2, <1>6, <1>10, NoneAssumption DEF resume_borrow, ResumeAt, c
<1>. QED BY <1>11

\* The wait list at every index is served by priority and then first come,
\* first served.
THEOREM NoOvertakingHolds == ASSUME DebugAssertions PROVE Spec => NoOvertaking
<1>1. IInv /\ [Next]_vars =>
        [\A p, q \in Locks :
           /\ AheadOf(p, q)
           /\ q \in Writers \/ p \in Readers
           /\ client'[q] # "idle"
           /\ pending'[q] # pending[q]
           => pending'[p] # pending[p]]_vars
  <2>. SUFFICES ASSUME IInv, [Next]_vars, NEW p \in Locks, NEW q \in Locks,
                       AheadOf(p, q), q \in Writers \/ p \in Readers,
                       client'[q] # "idle", pending'[q] # pending[q]
                PROVE  pending'[p] # pending[p]
    OBVIOUS
  <2>0. /\ pending[p] # None /\ pending[q] # None /\ pending[p].start = pending[q].start
        /\ Before(q, p)
    <3>1. TypeOK /\ pending[p] # None /\ pending[q] # None
      BY DEF IInv, AheadOf
    <3>2. pending[p].priority \in Nat /\ pending[q].priority \in Nat
      BY <3>1, PendingType
    <3>. QED BY <3>1, <3>2 DEF AheadOf, Before
  <2>1. TypeOK /\ BorrowIsPrefix /\ client[q] = "waiting" /\ claimed[q]
    BY <2>0, WaitingShape DEF IInv
  <2>2. resume_borrow
    <3>1. \A l \in Locks, r \in Ranges : \A x : ~Lock(l, r, x)
      BY <2>1 DEF Lock, LockAt, MayLock, TypeOK
    <3>2. \A l \in Locks, r \in Ranges : ~TryLock(l, r)
      BY DEF TryLock, Grant
    <3>3. \A l \in Locks : ~Unlock(l)
      BY <2>1 DEF Unlock, UnlockAt, TypeOK
    <3>4. ~Truncate /\ ~FinishUnlock
      BY DEF Truncate, FinishUnlock
    <3>5. ~UNCHANGED vars
      BY DEF vars
    <3>. QED BY <3>1, <3>2, <3>3, <3>4, <3>5
             DEF Next, lock_read, lock_write, try_lock_read, try_lock_write, unlock_read,
                 unlock_write, unlock_try_read, unlock_try_write, unlock_inner
  <2>. QED BY <2>0, <2>2, ResumeInOrder
<1>. QED BY <1>1, Invariance, PTL DEF Spec, NoOvertaking

\* A resumed borrow keeps its start, and its end does not move down.
LEMMA ResumeGrows ==
  ASSUME IInv, resume_borrow, NEW l \in Locks, l = op.cur, borrow[l] # None
  PROVE  /\ borrow'[l] # None
         /\ borrow'[l].start = borrow[l].start
         /\ borrow'[l].end >= borrow[l].end
<1>1. TypeOK /\ NonEmpty /\ OnlyBlockingWait /\ FrameOK
  BY DEF IInv
<1>. DEFINE r == pending[l]
            c == FirstConflict(l, r)
<1>2. r # None
  BY <1>1 DEF resume_borrow, ResumeAt, InLoop, FrameOK, ToVisit
<1>3. /\ r.start \in Nat /\ r.end \in Nat /\ r.start < r.end
      /\ r.start \in Indices /\ r.end \in Indices
  BY <1>1, <1>2, PendingType DEF NonEmpty
<1>4. borrow[l].end = r.start /\ borrow[l].start \in Indices
  <2>1. borrow[l] = IF r.start = guard[l].start THEN None
                    ELSE [start |-> guard[l].start, end |-> r.start]
    BY <1>2, WaitingShape
  <2>. QED BY <1>1, <2>1, BorrowType
<1>5. SearchResult(l, r, c)
  BY <1>1, <1>3, <1>4, FirstConflictCorrect
<1>6. c # None => c \in Indices /\ c \in Nat /\ r.start <= c
  BY <1>5, IndexAssumption DEF SearchResult, Indices
<1>7. \/ borrow' = borrow
      \/ c # None /\ borrow' = Expand(l, c)
      \/ c = None /\ borrow' = Expand(l, r.end)
  BY DEF resume_borrow, ResumeAt
<1>. HIDE DEF c
<1>8. ASSUME NEW e \in Indices, r.start <= e, borrow' = Expand(l, e)
      PROVE  /\ borrow'[l] # None
             /\ borrow'[l].start = borrow[l].start
             /\ borrow'[l].end >= borrow[l].end
  <2>1. borrow'[l] = [start |-> borrow[l].start, end |-> e]
    BY <1>1, <1>8 DEF Expand, TypeOK
  <2>2. borrow[l].start \in Nat /\ borrow[l].start < r.start /\ e \in Nat
    BY <1>1, <1>4, IndexAssumption DEF NonEmpty, Indices
  <2>3. [start |-> borrow[l].start, end |-> e] \in Ranges
    BY <1>3, <1>4, <1>8, <2>2 DEF Ranges
  <2>. QED BY <1>3, <1>4, <1>8, <2>1, <2>2, <2>3, NoneAssumption
<1>9. CASE borrow' = borrow
  BY <1>3, <1>4, <1>9
<1>10. CASE c # None /\ borrow' = Expand(l, c)
  BY <1>6, <1>8, <1>10
<1>11. CASE c = None /\ borrow' = Expand(l, r.end)
  BY <1>3, <1>8, <1>11
<1>. QED BY <1>7, <1>9, <1>10, <1>11

\* Nobody loses an index that it has borrowed but by its own unlock.
THEOREM OnlyUnlockShrinksHolds == ASSUME DebugAssertions PROVE Spec => OnlyUnlockShrinks
<1>1. IInv /\ [Next]_vars =>
        [\A l \in Locks :
           /\ borrow[l] # None
           /\ op = None \/ op.lock # l
           => /\ borrow'[l] # None
              /\ borrow'[l].start = borrow[l].start
              /\ borrow'[l].end >= borrow[l].end]_vars
  <2>. SUFFICES ASSUME IInv, [Next]_vars, NEW l \in Locks, borrow[l] # None,
                       op = None \/ op.lock # l
                PROVE  /\ borrow'[l] # None
                       /\ borrow'[l].start = borrow[l].start
                       /\ borrow'[l].end >= borrow[l].end
    OBVIOUS
  <2>1. TypeOK /\ borrow[l].end \in Nat /\ claimed[l]
    <3>1. TypeOK /\ BorrowIsPrefix
      BY DEF IInv
    <3>2. borrow[l].end \in Nat
      BY <3>1, BorrowType
    <3>3. claimed[l]
      BY <3>1 DEF BorrowIsPrefix, TypeOK, ClientStates
    <3>. QED BY <3>1, <3>2, <3>3
  <2>2. CASE borrow'[l] = borrow[l]
    BY <2>1, <2>2
  <2>3. CASE resume_borrow
    <3>1. CASE l = op.cur
      BY <2>3, <3>1, ResumeGrows
    <3>2. CASE l # op.cur
      <4>1. borrow'[l] = borrow[l]
        BY <2>1, <2>3, <3>2 DEF resume_borrow, ResumeAt, Expand, TypeOK
      <4>. QED BY <2>1, <4>1
    <3>. QED BY <3>1, <3>2
  <2>4. \A k \in Locks, r \in Ranges : \A x : Lock(k, r, x) => borrow'[l] = borrow[l]
    BY <2>1 DEF Lock, LockAt, MayLock, TypeOK
  <2>5. \A k \in Locks, r \in Ranges : TryLock(k, r) => borrow'[l] = borrow[l]
    BY <2>1 DEF TryLock, Grant, MayLock, TypeOK
  <2>6. \A k \in Locks : Unlock(k) => borrow'[l] = borrow[l]
    BY DEF Unlock, UnlockAt
  <2>7. Truncate \/ FinishUnlock => borrow'[l] = borrow[l]
    BY <2>1 DEF Truncate, InLoop, FinishUnlock, TypeOK
  <2>8. UNCHANGED vars => borrow'[l] = borrow[l]
    BY DEF vars
  <2>. QED BY <2>2, <2>3, <2>4, <2>5, <2>6, <2>7, <2>8
           DEF Next, lock_read, lock_write, try_lock_read, try_lock_write, unlock_read,
               unlock_write, unlock_try_read, unlock_try_write, unlock_inner
<1>. QED BY <1>1, Invariance, PTL DEF Spec, OnlyUnlockShrinks
-----------------------------------------------------------------------------
(* Type correctness, in builds without debug assertions, too *)

\* What keeps ranges from being inverted: only claimed state objects have
\* nodes, a borrow ends before the place where the rest waits, and the loop
\* visits waiters above the start of the borrow it gives up.
CellsIInv ==
  /\ TypeOK
  /\ \A l \in Locks : borrow[l] # None \/ pending[l] # None => claimed[l]
  /\ \A l \in Locks : borrow[l] # None /\ pending[l] # None => borrow[l].end <= pending[l].start
  /\ op # None => /\ pending[op.lock] = None
                  /\ op.cur # None => pending[op.cur] # None /\ op.start <= pending[op.cur].start

\* Whatever is in the trees, empty read borrows included, the searches return
\* an index of the range, or its end.
LEMMA ConflictInRange ==
  ASSUME TypeOK, NEW l, NEW r, r.start \in Indices, r.end \in Indices, r.start <= r.end
  PROVE  \/ FirstConflict(l, r) = None
         \/ /\ FirstConflict(l, r) \in Indices
            /\ r.start <= FirstConflict(l, r) /\ FirstConflict(l, r) <= r.end
<1>. DEFINE In(c) == c = None \/ (c \in Indices /\ r.start <= c /\ c <= r.end)
<1>0. /\ \A k \in Locks : borrow[k] # None => borrow[k].start \in Indices /\ borrow[k].end \in Indices
      /\ Indices \subseteq Nat
      /\ Writes \subseteq Locks /\ Reads \subseteq Locks
      /\ \A k \in Writes \cup Reads : borrow[k] # None
      /\ r.start \in Nat /\ r.end \in Nat
  BY IndexAssumption, BorrowType DEF Indices, Writes, Reads, Locks
<1>1. In(first_write_borrow_in_range(r))
  <2>. DEFINE after == {k \in Writes : borrow[k].end > r.start}
              first == CHOOSE k \in after : \A j \in after : borrow[k].start <= borrow[j].start
  <2>1. CASE after = {}
    BY <2>1 DEF first_write_borrow_in_range
  <2>2. CASE after # {}
    <3>. DEFINE S == {borrow[k].start : k \in after}
    <3>1. S \in SUBSET Nat /\ S # {}
      BY <1>0, <2>2
    <3>2. PICK m \in S : \A i \in S : m <= i
      BY <3>1, NatMin
    <3>3. PICK k \in after : \A j \in after : borrow[k].start <= borrow[j].start
      BY <3>2
    <3>4. first \in after
      BY <3>3
    <3>5. borrow[first].start \in Indices /\ borrow[first].start \in Nat
      BY <1>0, <3>4
    <3>. HIDE DEF first
    <3>6. borrow[first].start < r.end => In(MaxOf(borrow[first].start, r.start))
      BY <1>0, <3>5 DEF MaxOf
    <3>. QED BY <3>6 DEF first_write_borrow_in_range, first
  <2>. QED BY <2>1, <2>2
<1>2. In(first_read_borrow_in_range(r))
  <2>. DEFINE after == {i \in Endpoints : i > r.start}
              first == CHOOSE i \in after : \A j \in after : i <= j
  <2>0. Endpoints \subseteq Indices
    BY <1>0 DEF Endpoints
  <2>1. CASE after = {}
    BY <2>1 DEF first_read_borrow_in_range
  <2>2. CASE after # {}
    <3>1. after \in SUBSET Nat
      BY <1>0, <2>0
    <3>2. PICK m \in after : \A i \in after : m <= i
      BY <2>2, <3>1, NatMin
    <3>3. first \in after
      BY <3>2
    <3>4. first \in Indices /\ first > r.start /\ first \in Nat
      BY <1>0, <2>0, <3>3
    <3>. HIDE DEF first
    <3>5. first < r.end => In(first)
      BY <1>0, <3>4
    <3>6. In(r.start) /\ In(None)
      BY <1>0
    <3>7. first_read_borrow_in_range(r) =
            IF after = {} THEN None ELSE IF prefix_sum(r.start) > 0 THEN r.start
            ELSE IF first < r.end THEN first ELSE None
      BY DEF first_read_borrow_in_range, first
    <3>. HIDE DEF In, after
    <3>. QED BY <3>5, <3>6, <3>7
  <2>. QED BY <2>1, <2>2
<1>. DEFINE w == first_write_borrow_in_range(r)
            i == first_read_borrow_in_range(r)
<1>3. FirstConflict(l, r) = IF l \in Writers
                              THEN (IF w = None THEN i ELSE IF i = None THEN w ELSE MinOf(w, i)) ELSE w
  BY DEF FirstConflict, first_conflict_for_write
<1>. HIDE DEF w, i
<1>4. In(w) /\ In(i) => In(MinOf(w, i))
  BY DEF MinOf
<1>. QED BY <1>1, <1>2, <1>3, <1>4 DEF w, i

\* Locking.
LEMMA LockCells ==
  ASSUME CellsIInv, NEW l \in Locks, NEW r \in Ranges,
         TryLock(l, r) \/ \E p \in Priorities : Lock(l, r, p)
  PROVE  CellsIInv'
<1>1. /\ TypeOK /\ op = None /\ op' = None /\ borrow[l] = None /\ pending[l] = None
      /\ claimed' = [claimed EXCEPT ![l] = TRUE] /\ guard' = [guard EXCEPT ![l] = r]
  BY DEF CellsIInv, TryLock, Grant, Lock, LockAt, MayLock
<1>2. r.start \in Indices /\ r.end \in Indices /\ r.start <= r.end /\ Indices \subseteq Nat
  BY IndexAssumption DEF Ranges, Indices
<1>3. claimed' \in [Locks -> BOOLEAN] /\ guard' \in [Locks -> Ranges \cup {None}]
  BY <1>1 DEF TypeOK
<1>4. CASE /\ borrow' = [borrow EXCEPT ![l] = r] /\ client' = [client EXCEPT ![l] = "granted"]
           /\ UNCHANGED <<pending, older>>
  <2>1. TypeOK'
    BY <1>1, <1>3, <1>4 DEF TypeOK, ClientStates
  <2>. QED BY <1>1, <1>4, <2>1 DEF CellsIInv, TypeOK
<1>5. CASE \E p \in Priorities : Lock(l, r, p) /\ FirstConflict(l, r) # None
  <2>. DEFINE c == FirstConflict(l, r)
  <2>1. PICK p \in Priorities :
          /\ borrow' = [borrow EXCEPT ![l] = BorrowUpTo(r.start, c)]
          /\ pending' = [pending EXCEPT ![l] = [start |-> c, end |-> r.end, priority |-> p]]
          /\ older' = InsertOlder(l) /\ client' = [client EXCEPT ![l] = "waiting"]
    BY <1>5 DEF Lock, LockAt
  <2>2. c \in Indices /\ r.start <= c /\ c <= r.end
    BY <1>1, <1>2, <1>5, ConflictInRange
  <2>. HIDE DEF c
  <2>3. BorrowUpTo(r.start, c) \in Ranges \cup {None}
    BY <1>2, <2>2 DEF BorrowUpTo, Ranges
  <2>4. BorrowUpTo(r.start, c) # None => BorrowUpTo(r.start, c).end = c
    BY DEF BorrowUpTo
  <2>5. [start |-> c, end |-> r.end, priority |-> p] \in Pendings
    BY <1>2, <2>2 DEF Pendings
  <2>6. older' \in [Locks -> SUBSET Locks]
    BY <1>1, <2>1 DEF InsertOlder, TypeOK, Waits, Blocking, Locks, Readers, Writers
  <2>7. TypeOK'
    BY <1>1, <1>3, <2>1, <2>3, <2>5, <2>6 DEF TypeOK, ClientStates
  <2>8. \A k \in Locks : borrow'[k] # None /\ pending'[k] # None => borrow'[k].end <= pending'[k].start
    <3>. SUFFICES ASSUME NEW k \in Locks, borrow'[k] # None, pending'[k] # None
                  PROVE  borrow'[k].end <= pending'[k].start
      OBVIOUS
    <3>1. CASE k = l
      BY <1>1, <1>2, <2>1, <2>2, <2>4, <3>1 DEF TypeOK
    <3>2. CASE k # l
      BY <1>1, <2>1, <3>2 DEF TypeOK, CellsIInv
    <3>. QED BY <3>1, <3>2
  <2>9. \A k \in Locks : borrow'[k] # None \/ pending'[k] # None => claimed'[k]
    BY <1>1, <2>1 DEF TypeOK, CellsIInv
  <2>. QED BY <1>1, <2>7, <2>8, <2>9 DEF CellsIInv
<1>. QED BY <1>4, <1>5 DEF TryLock, Grant, Lock, LockAt

\* The start of unlocking.
LEMMA UnlockCells ==
  ASSUME CellsIInv, NEW l \in Locks, Unlock(l)
  PROVE  CellsIInv'
<1>1. /\ TypeOK /\ op = None /\ borrow' = borrow
      /\ pending' = [pending EXCEPT ![l] = None] /\ older' = RemoveOlder(l)
      /\ client' = [client EXCEPT ![l] = "idle"] /\ guard' = [guard EXCEPT ![l] = None]
  BY DEF CellsIInv, Unlock, UnlockAt
<1>2. /\ pending' \in [Locks -> Pendings \cup {None}] /\ older' \in [Locks -> SUBSET Locks]
      /\ client' \in [Locks -> ClientStates] /\ guard' \in [Locks -> Ranges \cup {None}]
  BY <1>1 DEF TypeOK, RemoveOlder, ClientStates
<1>3. \A k \in Locks : borrow'[k] # None /\ pending'[k] # None => borrow'[k].end <= pending'[k].start
  BY <1>1 DEF TypeOK, CellsIInv
<1>4. CASE borrow[l] = None /\ claimed' = [claimed EXCEPT ![l] = FALSE] /\ op' = op
  <2>1. TypeOK'
    BY <1>1, <1>2, <1>4 DEF TypeOK
  <2>2. \A k \in Locks : borrow'[k] # None \/ pending'[k] # None => claimed'[k]
    BY <1>1, <1>4 DEF TypeOK, CellsIInv
  <2>. QED BY <1>1, <1>3, <1>4, <2>1, <2>2 DEF CellsIInv
<1>5. CASE /\ borrow[l] # None /\ claimed' = claimed
           /\ \E cur \in Locks \cup {None} :
                /\ IsMax(cur, WaitersInside(l))
                /\ op' = [lock |-> l, start |-> borrow[l].start, cur |-> cur]
  <2>1. PICK cur \in Locks \cup {None} :
                /\ IsMax(cur, WaitersInside(l))
                /\ op' = [lock |-> l, start |-> borrow[l].start, cur |-> cur]
    BY <1>5
  <2>2. borrow[l].start \in Indices
    BY <1>1, <1>5, BorrowType
  <2>3. op' \in Frames /\ op'.lock = l /\ op'.start = borrow[l].start /\ op'.cur = cur
    BY <2>1, <2>2 DEF Frames
  <2>4. cur # None => cur # l /\ cur \in Locks /\ pending[cur] # None /\ borrow[l].start <= pending[cur].start
    <3>. SUFFICES ASSUME cur # None
                  PROVE  cur # l /\ cur \in Locks /\ pending[cur] # None /\ borrow[l].start <= pending[cur].start
      OBVIOUS
    <3>1. cur \in WaitersInside(l)
      BY <2>1 DEF IsMax
    <3>2. cur # l /\ cur \in Locks /\ pending[cur] # None /\ pending[cur].start >= borrow[l].start
      BY <2>1, <3>1 DEF WaitersInside, Waits
    <3>. QED BY <1>1, <2>2, <3>2, PendingType, IndexAssumption DEF Indices
  <2>5. TypeOK'
    BY <1>1, <1>2, <1>5, <2>3 DEF TypeOK
  <2>6. pending'[op'.lock] = None
        /\ (op'.cur # None => pending'[op'.cur] # None /\ op'.start <= pending'[op'.cur].start)
    BY <1>1, <2>3, <2>4 DEF TypeOK
  <2>7. \A k \in Locks : borrow'[k] # None \/ pending'[k] # None => claimed'[k]
    BY <1>1, <1>5 DEF TypeOK, CellsIInv
  <2>. QED BY <1>3, <2>5, <2>6, <2>7 DEF CellsIInv
<1>. QED BY <1>4, <1>5 DEF Unlock, UnlockAt

\* A step of an unlock loop.
LEMMA LoopCells ==
  ASSUME CellsIInv, unlock_inner
  PROVE  CellsIInv'
<1>0. TypeOK /\ op # None
  BY DEF CellsIInv, unlock_inner, Truncate, resume_borrow, ResumeAt, FinishUnlock, InLoop
<1>1. /\ op \in Frames /\ op.lock \in Locks /\ op.start \in Indices /\ pending[op.lock] = None
      /\ op.cur # None => op.cur \in Locks /\ pending[op.cur] # None /\ op.start <= pending[op.cur].start
      /\ Indices \subseteq Nat
  BY <1>0, IndexAssumption DEF CellsIInv, TypeOK, Frames, Indices
<1>2. CASE Truncate
  <2>. DEFINE i == pending[op.cur].start
  <2>1. /\ UNCHANGED <<claimed, pending, older, op, client, guard>> /\ op.cur # None /\ borrow[op.lock] # None
        /\ borrow' = [borrow EXCEPT ![op.lock] = BorrowUpTo(op.start, i)]
    BY <1>2 DEF Truncate, InLoop, MustTruncate
  <2>2. i \in Indices /\ op.start <= i
    BY <1>0, <1>1, <2>1, PendingType
  <2>. HIDE DEF i
  <2>3. BorrowUpTo(op.start, i) \in Ranges \cup {None}
    BY <1>1, <2>2 DEF BorrowUpTo, Ranges
  <2>4. TypeOK'
    BY <1>0, <2>1, <2>3 DEF TypeOK
  <2>5. \A k \in Locks : borrow'[k] # None /\ pending'[k] # None => borrow'[k] = borrow[k]
    BY <1>0, <1>1, <2>1 DEF TypeOK
  <2>6. \A k \in Locks : borrow'[k] # None => borrow[k] # None
    BY <1>0, <2>1 DEF TypeOK
  <2>. QED BY <2>1, <2>4, <2>5, <2>6 DEF CellsIInv
<1>3. CASE resume_borrow
  <2>. DEFINE l == op.cur
              c == FirstConflict(l, pending[l])
  <2>1. PICK next \in Locks \cup {None} :
           IsMax(next, WaitersBefore(l)) /\ op' = [op EXCEPT !.cur = next]
    BY <1>3 DEF resume_borrow, ResumeAt
  <2>2. l # None /\ l \in Locks /\ pending[l] # None /\ claimed' = claimed /\ guard' = guard
    BY <1>1, <1>3 DEF resume_borrow, ResumeAt, InLoop
  <2>3. /\ pending[l] \in Pendings /\ pending[l].start \in Indices /\ pending[l].end \in Indices
        /\ pending[l].start <= pending[l].end /\ pending[l].priority \in Priorities
    BY <1>0, <2>2 DEF TypeOK, Pendings
  <2>a. pending[l].start \in Nat /\ pending[l].end \in Nat
    BY <1>1, <2>3
  <2>4. c # None => c \in Indices /\ pending[l].start <= c /\ c <= pending[l].end
    BY <1>0, <2>3, ConflictInRange
  <2>5. /\ op' \in Frames /\ op'.lock = op.lock /\ op'.start = op.start /\ op'.cur = next
    BY <1>1, <2>1 DEF Frames
  <2>6. next # None => next \in Locks \ {l} /\ pending[next] # None /\ op.start <= pending[next].start
    <3>. SUFFICES ASSUME next # None
                  PROVE  next \in Locks \ {l} /\ pending[next] # None /\ op.start <= pending[next].start
      OBVIOUS
    <3>1. next \in WaitersBefore(l)
      BY <2>1 DEF IsMax
    <3>2. next \in Locks \ {l} /\ pending[next] # None /\ pending[next].start >= op.start
      BY <2>1, <3>1 DEF WaitersBefore, Waits
    <3>. QED BY <1>0, <1>1, <3>2, PendingType
  <2>. DEFINE from == IF borrow[l] = None THEN pending[l].start ELSE borrow[l].start
  <2>7. from \in Indices /\ from <= pending[l].start
    <3>1. CASE borrow[l] = None
      BY <2>3, <2>a, <3>1
    <3>2. CASE borrow[l] # None
      <4>1. borrow[l].start \in Indices /\ borrow[l].end \in Indices /\ borrow[l].start <= borrow[l].end
        BY <1>0, <2>2, <3>2 DEF TypeOK, Ranges
      <4>2. borrow[l].end <= pending[l].start
        BY <2>2, <3>2 DEF CellsIInv
      <4>3. borrow[l].start \in Nat /\ borrow[l].end \in Nat
        BY <1>1, <4>1
      <4>. QED BY <2>a, <3>2, <4>1, <4>2, <4>3
    <3>. QED BY <3>1, <3>2
  <2>8. \A e \in Indices : pending[l].start <= e =>
          Expand(l, e) = [borrow EXCEPT ![l] = [start |-> from, end |-> e]] /\ [start |-> from, end |-> e] \in Ranges
    <3>. SUFFICES ASSUME NEW e \in Indices, pending[l].start <= e
                  PROVE  /\ Expand(l, e) = [borrow EXCEPT ![l] = [start |-> from, end |-> e]]
                         /\ [start |-> from, end |-> e] \in Ranges
      OBVIOUS
    <3>1. from \in Nat /\ e \in Nat
      BY <1>1, <2>7
    <3>2. from <= e
      BY <2>a, <2>7, <3>1
    <3>. QED BY <2>7, <3>2 DEF Expand, Ranges
  <2>9. \/ UNCHANGED <<borrow, pending, older, client>>
        \/ /\ c # None /\ pending' = [pending EXCEPT ![l].start = c] /\ older' = InsertOlder(l)
           /\ borrow' = Expand(l, c) /\ UNCHANGED client
        \/ /\ pending' = [pending EXCEPT ![l] = None] /\ older' = RemoveOlder(l)
           /\ client' = [client EXCEPT ![l] = "granted"] /\ borrow' = Expand(l, pending[l].end)
    BY <1>3 DEF resume_borrow, ResumeAt
  <2>. HIDE DEF l, c, from
  <2>10. claimed[l]
    BY <2>2 DEF CellsIInv
  <2>11. CASE UNCHANGED <<borrow, pending, older, client>>
    <3>1. TypeOK'
      BY <1>0, <2>2, <2>5, <2>11 DEF TypeOK
    <3>2. pending'[op'.lock] = None
          /\ (op'.cur # None => pending'[op'.cur] # None /\ op'.start <= pending'[op'.cur].start)
      BY <1>1, <2>5, <2>6, <2>11
    <3>3. /\ \A k \in Locks : borrow'[k] # None \/ pending'[k] # None => claimed'[k]
          /\ \A k \in Locks : borrow'[k] # None /\ pending'[k] # None => borrow'[k].end <= pending'[k].start
      BY <2>2, <2>11 DEF CellsIInv
    <3>. QED BY <3>1, <3>2, <3>3 DEF CellsIInv
  <2>12. CASE /\ c # None /\ pending' = [pending EXCEPT ![l].start = c] /\ older' = InsertOlder(l)
              /\ borrow' = Expand(l, c) /\ UNCHANGED client
    <3>1. /\ pending' = [pending EXCEPT ![l] = [pending[l] EXCEPT !.start = c]]
          /\ [pending[l] EXCEPT !.start = c] \in Pendings
          /\ [pending[l] EXCEPT !.start = c].start = c
      BY <2>3, <2>4, <2>12 DEF Pendings
    <3>2. borrow' = [borrow EXCEPT ![l] = [start |-> from, end |-> c]] /\ [start |-> from, end |-> c] \in Ranges
      BY <2>4, <2>8, <2>12
    <3>3. older' \in [Locks -> SUBSET Locks]
      BY <1>0, <2>12 DEF InsertOlder, TypeOK, Waits, Blocking, Locks, Readers, Writers
    <3>4. TypeOK'
      <4>. DEFINE q == [pending[l] EXCEPT !.start = c]
                  b == [start |-> from, end |-> c]
      <4>1. pending' = [pending EXCEPT ![l] = q] /\ q \in Pendings /\ borrow' = [borrow EXCEPT ![l] = b] /\ b \in Ranges
        BY <3>1, <3>2
      <4>. HIDE DEF q, b
      <4>2. borrow' \in [Locks -> Ranges \cup {None}] /\ pending' \in [Locks -> Pendings \cup {None}]
        BY <1>0, <4>1 DEF TypeOK
      <4>3. client' = client
        BY <2>12
      <4>. QED BY <1>0, <2>2, <2>5, <3>3, <4>2, <4>3 DEF TypeOK
    <3>5. /\ \A k \in Locks : k # l => pending'[k] = pending[k] /\ borrow'[k] = borrow[k]
          /\ pending'[l].start = c /\ borrow'[l].end = c
      BY <1>0, <2>2, <3>1, <3>2 DEF TypeOK
    <3>6. op.lock # l
      BY <1>1, <2>2
    <3>7. pending'[op'.lock] = None
          /\ (op'.cur # None => pending'[op'.cur] # None /\ op'.start <= pending'[op'.cur].start)
      BY <1>1, <2>5, <2>6, <3>5, <3>6
    <3>8. \A k \in Locks : borrow'[k] # None \/ pending'[k] # None => claimed'[k]
      BY <2>2, <2>10, <3>5 DEF CellsIInv
    <3>9. \A k \in Locks : borrow'[k] # None /\ pending'[k] # None => borrow'[k].end <= pending'[k].start
      BY <1>1, <2>4, <2>12, <3>5 DEF CellsIInv
    <3>. QED BY <3>4, <3>7, <3>8, <3>9 DEF CellsIInv
  <2>13. CASE /\ pending' = [pending EXCEPT ![l] = None] /\ older' = RemoveOlder(l)
              /\ client' = [client EXCEPT ![l] = "granted"] /\ borrow' = Expand(l, pending[l].end)
    <3>1. /\ borrow' = [borrow EXCEPT ![l] = [start |-> from, end |-> pending[l].end]]
          /\ [start |-> from, end |-> pending[l].end] \in Ranges
      BY <2>3, <2>8, <2>13
    <3>2. older' \in [Locks -> SUBSET Locks]
      BY <1>0, <2>13 DEF RemoveOlder, TypeOK
    <3>3. TypeOK'
      BY <1>0, <2>2, <2>5, <2>13, <3>1, <3>2, ZenonT(30) DEF TypeOK, ClientStates
    <3>4. /\ \A k \in Locks : k # l => pending'[k] = pending[k] /\ borrow'[k] = borrow[k]
          /\ pending'[l] = None
      BY <1>0, <2>2, <2>13, <3>1 DEF TypeOK
    <3>5. pending'[op'.lock] = None
          /\ (op'.cur # None => pending'[op'.cur] # None /\ op'.start <= pending'[op'.cur].start)
      BY <1>1, <2>5, <2>6, <3>4
    <3>6. \A k \in Locks : borrow'[k] # None \/ pending'[k] # None => claimed'[k]
      BY <2>2, <2>10, <3>4 DEF CellsIInv
    <3>7. \A k \in Locks : borrow'[k] # None /\ pending'[k] # None => borrow'[k].end <= pending'[k].start
      BY <3>4 DEF CellsIInv
    <3>. QED BY <3>3, <3>5, <3>6, <3>7 DEF CellsIInv
  <2>. QED BY <2>9, <2>11, <2>12, <2>13
<1>4. CASE FinishUnlock
  <2>1. /\ op' = None /\ UNCHANGED <<pending, older, client, guard>>
        /\ borrow' = [borrow EXCEPT ![op.lock] = None] /\ claimed' = [claimed EXCEPT ![op.lock] = FALSE]
    BY <1>4 DEF FinishUnlock
  <2>2. TypeOK'
    BY <1>0, <2>1 DEF TypeOK
  <2>3. /\ \A k \in Locks : borrow'[k] # None \/ pending'[k] # None => claimed'[k]
        /\ \A k \in Locks : borrow'[k] # None /\ pending'[k] # None => borrow'[k].end <= pending'[k].start
    BY <1>0, <1>1, <2>1 DEF TypeOK, CellsIInv
  <2>. QED BY <2>1, <2>2, <2>3 DEF CellsIInv
<1>. QED BY <1>2, <1>3, <1>4 DEF unlock_inner

\* Cells hold values of their types; in particular no range is inverted, not
\* even where a build without debug assertions has let in empty read ranges.
THEOREM TypeCorrect == Spec => []TypeOK
<1>1. Init => CellsIInv
  BY DEF Init, CellsIInv, TypeOK, ClientStates
<1>2. ASSUME CellsIInv, [Next]_vars
      PROVE  CellsIInv'
  <2>1. CASE \E l \in Locks, r \in Ranges :
               TryLock(l, r) \/ \E p \in Priorities : Lock(l, r, p)
    BY <1>2, <2>1, LockCells
  <2>2. CASE \E l \in Locks : Unlock(l)
    BY <1>2, <2>2, UnlockCells
  <2>3. CASE unlock_inner
    BY <1>2, <2>3, LoopCells
  <2>4. CASE UNCHANGED vars
    BY <1>2, <2>4 DEF vars, CellsIInv, TypeOK
  <2>. QED BY <1>2, <2>1, <2>2, <2>3, <2>4
              DEF Next, lock_read, lock_write, try_lock_read, try_lock_write,
                  unlock_read, unlock_write, unlock_try_read, unlock_try_write
<1>3. CellsIInv => TypeOK
  BY DEF CellsIInv
<1>. QED BY <1>1, <1>2, <1>3, PTL DEF Spec

-----------------------------------------------------------------------------
(* RbTreeCore implements VirtualLocks *)

Lockable == 0..(N - 1)

\* The indices of a range that a virtual lock array shows as owned.
LEMMA HeldCell ==
  ASSUME NEW l \in Locks
  PROVE  /\ borrow[l] = None => Held[l] = {}
         /\ borrow[l] # None => Held[l] = {i \in Lockable : Covers(borrow[l], i)}
  BY DEF Held, Covers, Lockable

\* The same after a step.
LEMMA HeldCellNext ==
  ASSUME NEW l \in Locks
  PROVE  /\ borrow'[l] = None => Held'[l] = {}
         /\ borrow'[l] # None => Held'[l] = {i \in Lockable : Covers(borrow'[l], i)}
  BY DEF Held, Covers, Lockable

\* Both modules speak of the same locks.
LEMMA SameLocks == Virtual!Locks = Locks
  BY DEF Virtual!Locks, Locks

\* A virtual lock is taken when a conflicting borrow covers its index.
LEMMA TakenCovered ==
  ASSUME NEW l \in Locks, NEW i \in Lockable
  PROVE  Virtual!Taken(l, i) <=>
           \E k \in Locks : Conflict(l, k) /\ borrow[k] # None /\ Covers(borrow[k], i)
<1>1. \A k \in Locks : i \in Held[k] <=> borrow[k] # None /\ Covers(borrow[k], i)
  BY HeldCell
<1>. QED BY <1>1, SameLocks DEF Virtual!Taken, Conflict

\* If nobody else is in g.start..e-1 but somebody is at e, or e ends the range,
\* then ascending locking reaches just e.
LEMMA ReachUpTo ==
  ASSUME TypeOK, NEW l \in Locks,
         NEW STATE g, g.start \in Indices, g.end \in Indices,
         NEW STATE e, e \in Indices, g.start <= e, e <= g.end,
         \A i \in Lockable : g.start <= i /\ i < e => ~Virtual!Taken(l, i),
         e < g.end => Virtual!Taken(l, e)
  PROVE  /\ Virtual!Reach(l, g) = {i \in Lockable : g.start <= i /\ i < e}
         /\ Virtual!Reach(l, g) = Virtual!Span(g) <=> e = g.end
<1>1. /\ g.start \in Nat /\ g.end \in Nat /\ e \in Nat /\ g.end <= N /\ N \in Nat
  BY IndexAssumption DEF Indices
<1>2. \A i : i \in Virtual!Span(g) <=> i \in Lockable /\ g.start <= i /\ i < g.end
  BY DEF Virtual!Span, Lockable
<1>3. \A i \in Lockable : i \in Nat /\ i < N
  BY <1>1 DEF Lockable
<1>4. e < g.end => e \in Virtual!Span(g)
  BY <1>1, <1>2 DEF Lockable
<1>5. \A i : i \in Virtual!Reach(l, g) <=> i \in Lockable /\ g.start <= i /\ i < e
  <2>1. \A i : i \in Virtual!Reach(l, g) <=>
               i \in Virtual!Span(g) /\ \A j \in Virtual!Span(g) : j <= i => ~Virtual!Taken(l, j)
    BY DEF Virtual!Reach
  <2>2. ASSUME NEW i \in Lockable, g.start <= i, i < e
        PROVE  i \in Virtual!Reach(l, g)
    <3>1. \A j \in Virtual!Span(g) : j <= i => ~Virtual!Taken(l, j)
      BY <1>1, <1>2, <1>3, <2>2
    <3>. QED BY <1>1, <1>2, <1>3, <2>1, <2>2, <3>1
  <2>3. ASSUME NEW i \in Virtual!Reach(l, g)
        PROVE  i \in Lockable /\ g.start <= i /\ i < e
    <3>1. i \in Lockable /\ g.start <= i /\ i < g.end
      BY <1>2, <2>1
    <3>2. i < e
      <4>1. CASE e < g.end
        BY <1>1, <1>3, <1>4, <2>1, <3>1, <4>1
      <4>2. CASE ~(e < g.end)
        BY <1>1, <1>3, <3>1, <4>2
      <4>. QED BY <4>1, <4>2
    <3>. QED BY <3>1, <3>2
  <2>. QED BY <2>2, <2>3
<1>6. Virtual!Reach(l, g) = {i \in Lockable : g.start <= i /\ i < e}
  BY <1>5
<1>7. Virtual!Reach(l, g) = Virtual!Span(g) <=> e = g.end
  <2>1. ASSUME e = g.end PROVE Virtual!Reach(l, g) = Virtual!Span(g)
    <3>1. \A i : i \in Virtual!Reach(l, g) <=> i \in Virtual!Span(g)
      BY <1>2, <1>5, <2>1
    <3>. QED BY <3>1 DEF Virtual!Reach, Virtual!Span
  <2>2. ASSUME e # g.end PROVE Virtual!Reach(l, g) # Virtual!Span(g)
    BY <1>1, <1>4, <1>5, <2>2
  <2>. QED BY <2>1, <2>2
<1>. QED BY <1>6, <1>7

\* Replacing one borrow replaces the virtual locks of its owner.
LEMMA HeldUpdate ==
  ASSUME TypeOK, NEW l \in Locks, NEW STATE X,
         \A k \in Locks \ {l} : borrow'[k] = borrow[k],
         Held'[l] = X
  PROVE  Held' = [Held EXCEPT ![l] = X]
<1>1. \A k \in Locks \ {l} : Held'[k] = Held[k]
  BY HeldCell, HeldCellNext
<1>. QED BY <1>1 DEF Held

\* Locking is ascending locking of the virtual locks.
LEMMA LockRefines ==
  ASSUME IInv, DebugAssertions,
         NEW l \in Locks, NEW r \in Ranges, NEW p, Lock(l, r, p),
         FirstConflict(l, r) # None => l \in Blocking
  PROVE  Virtual!lock(l, r)
<1>. DEFINE c == FirstConflict(l, r)
            e == IF c = None THEN r.end ELSE c
<1>1. TypeOK /\ NonEmpty /\ BorrowIsPrefix
  BY DEF IInv
<1>2. /\ op = None /\ r.start < r.end
      /\ r.start \in Indices /\ r.end \in Indices /\ r.start \in Nat /\ r.end \in Nat
      /\ client[l] = "idle" /\ borrow[l] = None
  <2>1. op = None /\ r.start < r.end /\ ~claimed[l]
    BY DEF Lock, LockAt, MayLock
  <2>2. client[l] \in ClientStates
    BY <1>1 DEF TypeOK
  <2>3. client[l] = "idle" /\ borrow[l] = None
    BY <1>1, <2>1, <2>2 DEF BorrowIsPrefix, ClientStates
  <2>4. r.start \in Indices /\ r.end \in Indices
    BY DEF Ranges
  <2>. QED BY <2>1, <2>3, <2>4, IndexAssumption DEF Indices
<1>3. SearchResult(l, r, c)
  BY <1>1, <1>2, FirstConflictCorrect
<1>4. /\ guard' = [guard EXCEPT ![l] = r]
      /\ \A k \in Locks \ {l} : borrow'[k] = borrow[k]
      /\ borrow'[l] = IF e = r.start THEN None ELSE [start |-> r.start, end |-> e]
      /\ client' = [client EXCEPT ![l] = IF c = None THEN "granted" ELSE "waiting"]
  <2>1. r = [start |-> r.start, end |-> r.end]
    BY DEF Ranges
  <2>. QED BY <1>1, <1>2, <2>1 DEF Lock, LockAt, TypeOK, BorrowUpTo
<1>. HIDE DEF c
<1>5. /\ e \in Indices /\ e \in Nat /\ r.start <= e /\ e <= r.end
      /\ (e = r.end) <=> (c = None)
  BY <1>2, <1>3, IndexAssumption, NoneAssumption DEF SearchResult, Indices
<1>6. \A i \in Lockable : r.start <= i /\ i < e => ~Virtual!Taken(l, i)
  <2>. SUFFICES ASSUME NEW i \in Lockable, r.start <= i, i < e,
                       NEW k \in Locks, Conflict(l, k), borrow[k] # None, Covers(borrow[k], i)
                PROVE  FALSE
    BY TakenCovered
  <2>1. borrow[k].start \in Nat /\ borrow[k].end \in Nat /\ i \in Nat
    BY <1>1, BorrowType, IndexAssumption DEF Lockable
  <2>2. e # r.start
    BY <1>2, <1>5, <2>1
  <2>3. borrow[k].end <= r.start \/ e <= borrow[k].start
    BY <1>3, <2>2, NoneAssumption DEF SearchResult, Free
  <2>. QED BY <1>2, <1>5, <2>1, <2>3 DEF Covers
<1>7. e < r.end => Virtual!Taken(l, e)
  <2>. SUFFICES ASSUME e < r.end PROVE Virtual!Taken(l, e)
    OBVIOUS
  <2>1. c # None /\ e = c /\ e \in Lockable
    BY <1>2, <1>5, IndexAssumption DEF Lockable, Indices
  <2>2. \E k \in Locks : Conflict(l, k) /\ borrow[k] # None /\ Covers(borrow[k], e)
    BY <1>3, <2>1 DEF SearchResult
  <2>. QED BY <2>1, <2>2, TakenCovered
<1>. HIDE DEF e
<1>8. /\ Virtual!Reach(l, r) = {i \in Lockable : r.start <= i /\ i < e}
      /\ Virtual!Reach(l, r) = Virtual!Span(r) <=> e = r.end
  BY <1>1, <1>2, <1>5, <1>6, <1>7, ReachUpTo
<1>9. Held'[l] = Virtual!Reach(l, r)
  <2>1. CASE e = r.start
    <3>1. {i \in Lockable : r.start <= i /\ i < e} = {}
      BY <1>2, <2>1, IndexAssumption DEF Lockable
    <3>. QED BY <1>4, <1>8, <2>1, <3>1, HeldCellNext
  <2>2. CASE e # r.start
    <3>1. [start |-> r.start, end |-> e] \in Ranges
      BY <1>2, <1>5 DEF Ranges
    <3>2. borrow'[l] # None /\ borrow'[l] = [start |-> r.start, end |-> e]
      BY <1>4, <2>2, <3>1, NoneAssumption
    <3>. QED BY <1>8, <3>2, HeldCellNext DEF Covers
  <2>. QED BY <2>1, <2>2
<1>10. Held' = [Held EXCEPT ![l] = Virtual!Reach(l, r)]
  BY <1>1, <1>4, <1>9, HeldUpdate
<1>11. Virtual!Advance(l, r)
  BY <1>4, <1>5, <1>8, <1>10 DEF Virtual!Advance
<1>12. l \in Blocking \/ Virtual!Reach(l, r) = Virtual!Span(r)
  BY <1>5, <1>8 DEF c
<1>13. Held[l] = {}
  BY <1>2, HeldCell
<1>. QED BY <1>2, <1>4, <1>11, <1>12, <1>13 DEF Virtual!lock

\* Resuming a waiter leaves it alone or advances it as far as possible.
LEMMA ResumeRefines ==
  ASSUME IInv, resume_borrow
  PROVE  (\E l \in Locks : Virtual!resume(l)) \/ UNCHANGED <<Held, client, guard>>
<1>1. TypeOK /\ NonEmpty /\ BorrowsExclusive /\ FrameOK
  BY DEF IInv
<1>2. PICK l \in Locks : l = op.cur
  BY <1>1 DEF resume_borrow, ResumeAt, InLoop, TypeOK, Frames
<1>. DEFINE r == pending[l]
            g == guard[l]
            c == FirstConflict(l, r)
            e == IF c = None THEN r.end ELSE c
<1>3. pending[l] # None
  BY <1>1, <1>2 DEF resume_borrow, ResumeAt, InLoop, FrameOK, ToVisit
<1>4. /\ r.start \in Nat /\ r.end \in Nat /\ r.start < r.end
      /\ r.start \in Indices /\ r.end \in Indices
  BY <1>1, <1>3, PendingType DEF NonEmpty
<1>5. /\ client[l] = "waiting" /\ g \in Ranges
      /\ r.end = g.end /\ g.start \in Nat /\ g.start <= r.start
      /\ borrow[l] = IF r.start = g.start THEN None ELSE [start |-> g.start, end |-> r.start]
  BY <1>3, WaitingShape
<1>6. g.start \in Indices /\ g.end \in Indices
  BY <1>5 DEF Ranges
<1>7. borrow[l] # None => borrow[l].end <= r.start
  BY <1>4, <1>5
<1>8. SearchResult(l, r, c)
  BY <1>1, <1>4, <1>7, FirstConflictCorrect
<1>9. CASE c = r.start
  <2>1. UNCHANGED <<borrow, client, guard>>
    BY <1>2, <1>4, <1>9, NoneAssumption DEF resume_borrow, ResumeAt
  <2>. QED BY <2>1 DEF Held
<1>10. CASE c # r.start
  <2>1. (IF borrow[l] = None THEN r.start ELSE borrow[l].start) = g.start
    <3>1. r.start # g.start => borrow[l] # None
      <4>1. [start |-> g.start, end |-> r.start] \in Ranges
        BY <1>4, <1>5, <1>6 DEF Ranges
      <4>. QED BY <1>5, <4>1, NoneAssumption
    <3>. QED BY <1>5, <3>1
  <2>2. Expand(l, e) = [borrow EXCEPT ![l] = [start |-> g.start, end |-> e]]
    BY <2>1 DEF Expand
  <2>3. /\ guard' = guard /\ borrow' = [borrow EXCEPT ![l] = [start |-> g.start, end |-> e]]
        /\ client' = IF c = None THEN [client EXCEPT ![l] = "granted"] ELSE client
    BY <1>2, <1>10, <2>2 DEF resume_borrow, ResumeAt
  <2>4. client' = [client EXCEPT ![l] = IF c = None THEN "granted" ELSE "waiting"]
    BY <1>1, <1>5, <2>3 DEF TypeOK
  <2>. HIDE DEF c, r, g
  <2>5. /\ e \in Indices /\ e \in Nat /\ r.start < e /\ e <= g.end
        /\ (e = g.end) <=> (c = None)
    BY <1>4, <1>5, <1>8, <1>10, IndexAssumption, NoneAssumption DEF SearchResult, Indices
  <2>6. \A i \in Lockable : g.start <= i /\ i < e => ~Virtual!Taken(l, i)
    <3>. SUFFICES ASSUME NEW i \in Lockable, g.start <= i, i < e,
                         NEW k \in Locks, Conflict(l, k), borrow[k] # None, Covers(borrow[k], i)
                  PROVE  FALSE
      BY TakenCovered
    <3>1. borrow[k].start \in Nat /\ borrow[k].end \in Nat /\ i \in Nat
      BY <1>1, BorrowType, IndexAssumption DEF Lockable
    <3>2. CASE r.start <= i
      <4>1. borrow[k].end <= r.start \/ e <= borrow[k].start
        BY <1>8, <1>10, <1>5, NoneAssumption DEF SearchResult, Free
      <4>. QED BY <1>4, <2>5, <3>1, <3>2, <4>1 DEF Covers
    <3>3. CASE i < r.start
      <4>1. r.start # g.start
        BY <1>4, <1>5, <3>1, <3>3
      <4>2. borrow[l] # None /\ borrow[l].start = g.start /\ borrow[l].end = r.start
        <5>1. [start |-> g.start, end |-> r.start] \in Ranges
          BY <1>4, <1>5, <1>6 DEF Ranges
        <5>. QED BY <1>5, <4>1, <5>1, NoneAssumption
      <4>3. ~Overlap(borrow[l], borrow[k])
        BY <1>1, <4>2 DEF BorrowsExclusive
      <4>. QED BY <1>4, <1>5, <3>1, <3>3, <4>2, <4>3 DEF Overlap, Covers
    <3>. QED BY <1>4, <3>1, <3>2, <3>3
  <2>7. e < g.end => Virtual!Taken(l, e)
    <3>. SUFFICES ASSUME e < g.end PROVE Virtual!Taken(l, e)
      OBVIOUS
    <3>1. c # None /\ e = c /\ e \in Lockable
      BY <1>4, <1>5, <1>6, <2>5, IndexAssumption DEF Lockable, Indices
    <3>2. \E k \in Locks : Conflict(l, k) /\ borrow[k] # None /\ Covers(borrow[k], e)
      BY <1>8, <3>1 DEF SearchResult
    <3>. QED BY <3>1, <3>2, TakenCovered
  <2>8. g.start <= e
    BY <1>4, <1>5, <2>5
  <2>. HIDE DEF e
  <2>9. /\ Virtual!Reach(l, g) = {i \in Lockable : g.start <= i /\ i < e}
        /\ Virtual!Reach(l, g) = Virtual!Span(g) <=> e = g.end
    BY <1>1, <1>6, <2>5, <2>6, <2>7, <2>8, ReachUpTo
  <2>10. Held'[l] = Virtual!Reach(l, g)
    <3>1. [start |-> g.start, end |-> e] \in Ranges
      BY <1>6, <2>5, <2>8 DEF Ranges
    <3>2. borrow'[l] # None /\ borrow'[l] = [start |-> g.start, end |-> e]
      BY <1>1, <2>3, <3>1, NoneAssumption DEF TypeOK
    <3>. QED BY <2>9, <3>2, HeldCellNext DEF Covers
  <2>11. Held' = [Held EXCEPT ![l] = Virtual!Reach(l, g)]
    <3>1. \A k \in Locks \ {l} : borrow'[k] = borrow[k]
      BY <1>1, <2>3 DEF TypeOK
    <3>. QED BY <1>1, <2>10, <3>1, HeldUpdate
  <2>12. Virtual!Advance(l, g)
    BY <2>4, <2>5, <2>9, <2>11 DEF Virtual!Advance
  <2>. QED BY <1>5, <2>3, <2>12 DEF Virtual!resume, g
<1>. QED BY <1>9, <1>10

\* Truncation unlocks the virtual locks from the index of a waiter upwards.
LEMMA TruncateRefines ==
  ASSUME IInv, Truncate
  PROVE  \E l \in Locks : Virtual!unlock(l)
<1>1. TypeOK /\ FrameOK
  BY DEF IInv
<1>2. PICK u \in Locks, l \in Locks : u = op.lock /\ l = op.cur
  BY <1>1 DEF Truncate, InLoop, TypeOK, Frames
<1>. DEFINE index == pending[l].start
<1>3. /\ op # None /\ UNCHANGED <<client, guard>> /\ client[u] = "idle"
      /\ borrow[u] # None /\ index < borrow[u].end /\ borrow[u].start = op.start
      /\ borrow' = [borrow EXCEPT ![u] =
                      IF index = op.start THEN None ELSE [start |-> op.start, end |-> index]]
      /\ pending[l] # None /\ op.start <= index
      /\ op.start \in Indices
  BY <1>1, <1>2 DEF Truncate, InLoop, MustTruncate, FrameOK, ToVisit, TypeOK, Frames, BorrowUpTo
<1>4. /\ index \in Indices /\ index \in Nat /\ op.start \in Nat
      /\ borrow[u].end \in Nat /\ borrow[u].end <= N /\ N \in Nat
  BY <1>1, <1>3, PendingType, BorrowType, IndexAssumption DEF Indices
<1>. HIDE DEF index
<1>5. index \in Held[u]
  BY <1>3, <1>4, HeldCell DEF Lockable, Covers
<1>6. \A j : j \in Held'[u] <=> j \in Held[u] /\ j < index
  <2>1. \A j : j \in Held[u] <=> j \in Lockable /\ op.start <= j /\ j < borrow[u].end
    BY <1>3, HeldCell DEF Covers
  <2>2. \A j \in Lockable : j \in Nat
    BY <1>4 DEF Lockable
  <2>3. CASE index = op.start
    <3>1. borrow'[u] = None
      BY <1>1, <1>3, <2>3 DEF TypeOK
    <3>2. Held'[u] = {}
      BY <3>1, HeldCellNext
    <3>. QED BY <1>4, <2>1, <2>2, <2>3, <3>2
  <2>4. CASE index # op.start
    <3>1. [start |-> op.start, end |-> index] \in Ranges
      BY <1>3, <1>4 DEF Ranges
    <3>2. borrow'[u] # None /\ borrow'[u] = [start |-> op.start, end |-> index]
      BY <1>1, <1>3, <2>4, <3>1, NoneAssumption DEF TypeOK
    <3>3. \A j : j \in Held'[u] <=> j \in Lockable /\ op.start <= j /\ j < index
      BY <3>2, HeldCellNext DEF Covers
    <3>. QED BY <1>3, <1>4, <2>1, <2>2, <3>3
  <2>. QED BY <2>3, <2>4
<1>7. Held'[u] = {j \in Held[u] : j < index}
  <2>1. \A j : j \in Held'[u] <=> j \in {m \in Held[u] : m < index}
    BY <1>6
  <2>. QED BY <2>1 DEF Held
<1>8. \A k \in Locks \ {u} : borrow'[k] = borrow[k]
  BY <1>1, <1>3 DEF TypeOK
<1>9. Held' = [Held EXCEPT ![u] = {j \in Held[u] : j < index}]
  BY <1>1, <1>7, <1>8, HeldUpdate
<1>10. Virtual!unlock(u)
  BY <1>3, <1>5, <1>9 DEF Virtual!unlock
<1>. QED BY <1>10

\* The end of the loop unlocks the rest.
LEMMA FinishRefines ==
  ASSUME IInv, FinishUnlock
  PROVE  (\E l \in Locks : Virtual!unlock(l)) \/ UNCHANGED <<Held, client, guard>>
<1>1. TypeOK /\ NonEmpty /\ FrameOK
  BY DEF IInv
<1>2. PICK u \in Locks : u = op.lock
  BY <1>1 DEF FinishUnlock, TypeOK, Frames
<1>3. /\ UNCHANGED <<client, guard>> /\ client[u] = "idle"
      /\ borrow'[u] = None /\ \A k \in Locks \ {u} : borrow'[k] = borrow[k]
  BY <1>1, <1>2 DEF FinishUnlock, FrameOK, TypeOK
<1>4. Held'[u] = {}
  BY <1>3, HeldCellNext
<1>5. Held' = [Held EXCEPT ![u] = {}]
  BY <1>1, <1>3, <1>4, HeldUpdate
<1>6. CASE borrow[u] = None
  <2>1. Held[u] = {}
    BY <1>6, HeldCell
  <2>2. Held' = Held
    BY <1>5, <2>1 DEF Held
  <2>. QED BY <1>3, <2>2
<1>7. CASE borrow[u] # None
  <2>. DEFINE i == borrow[u].start
  <2>1. /\ i \in Nat /\ borrow[u].end \in Nat /\ borrow[u].end <= N /\ i < borrow[u].end
    BY <1>1, <1>7, BorrowType DEF NonEmpty
  <2>2. \A j : j \in Held[u] <=> j \in Lockable /\ i <= j /\ j < borrow[u].end
    BY <1>7, HeldCell DEF Covers
  <2>. HIDE DEF i
  <2>3. i \in Held[u]
    BY <2>1, <2>2, IndexAssumption DEF Lockable
  <2>4. {j \in Held[u] : j < i} = {}
    BY <2>1, <2>2, IndexAssumption DEF Lockable
  <2>5. Virtual!unlock(u)
    BY <1>3, <1>5, <2>3, <2>4 DEF Virtual!unlock
  <2>. QED BY <2>5
<1>. QED BY <1>6, <1>7

\* Entering an unlock method is the client's release.
LEMMA UnlockRefines ==
  ASSUME IInv, NEW l \in Locks, Unlock(l)
  PROVE  Virtual!Release(l)
<1>1. client[l] # "idle"
  BY DEF IInv, Unlock, UnlockAt, BorrowIsPrefix
<1>2. Held' = Held
  BY DEF Unlock, UnlockAt, Held
<1>. QED BY <1>1, <1>2 DEF Virtual!Release, Unlock, UnlockAt

\* Every step of the core is a step of the virtual locks or leaves them alone.
LEMMA StepRefines ==
  ASSUME IInv, DebugAssertions, [Next]_vars
  PROVE  [Virtual!Next]_(Virtual!vars)
<1>. USE SameLocks
<1>0. Virtual!Ranges = Ranges
  BY DEF Virtual!Ranges, Ranges, Indices
<1>1. CASE \E l \in Locks, r \in Ranges, p \in Priorities :
             lock_read(l, r, p) \/ lock_write(l, r, p)
  <2>1. PICK l \in Locks, r \in Ranges, p \in Priorities : Lock(l, r, p) /\ l \in Blocking
    BY <1>1 DEF lock_read, lock_write, Blocking
  <2>2. Virtual!lock(l, r)
    BY <2>1, LockRefines
  <2>. QED BY <1>0, <2>2 DEF Virtual!Next
<1>2. CASE \E l \in Locks, r \in Ranges : try_lock_read(l, r) \/ try_lock_write(l, r)
  <2>1. PICK l \in Locks, r \in Ranges : TryLock(l, r)
    BY <1>2 DEF try_lock_read, try_lock_write
  <2>2. Lock(l, r, 0) /\ FirstConflict(l, r) = None
    BY <2>1 DEF TryLock, Grant, Lock, LockAt
  <2>3. Virtual!lock(l, r)
    BY <2>2, LockRefines
  <2>. QED BY <1>0, <2>3 DEF Virtual!Next
<1>3. CASE \E l \in Locks : \/ unlock_read(l) \/ unlock_write(l)
                            \/ unlock_try_read(l) \/ unlock_try_write(l)
  BY <1>3, UnlockRefines
     DEF unlock_read, unlock_write, unlock_try_read, unlock_try_write, Virtual!Next
<1>4. CASE unlock_inner
  BY <1>4, TruncateRefines, ResumeRefines, FinishRefines
     DEF unlock_inner, Virtual!Next, Virtual!vars
<1>5. CASE UNCHANGED vars
  BY <1>5 DEF vars, Virtual!vars, Held
<1>. QED BY <1>1, <1>2, <1>3, <1>4, <1>5 DEF Next

\* The core behaves as the array of virtual readers-writer locks that the
\* README describes.
THEOREM Refinement == ASSUME DebugAssertions PROVE Spec => ImplementsVirtualLocks
<1>1. Init => Virtual!Init
  BY SameLocks DEF Init, Virtual!Init, Held
<1>2. IInv /\ [Next]_vars => [Virtual!Next]_(Virtual!vars)
  BY StepRefines
<1>. QED BY <1>1, <1>2, Invariance, PTL DEF Spec, ImplementsVirtualLocks, Virtual!Spec
=============================================================================
