----------------------------- MODULE RbTreeCore -----------------------------
(***************************************************************************)
(* The interval lock core, `RbTreeIntervalRwLockCore` of core/rbtree.rs.   *)
(*                                                                         *)
(* A lock-state object (`ReadLockState`, `WriteLockState`, and their       *)
(* non-blocking `Try` variants) is a member of one of the four constant    *)
(* sets below.  What the three red-black trees contain is exactly what the *)
(* cells of the claimed lock-state objects contain, because the nodes are  *)
(* intrusive: a node is in a tree iff the cell that stores it is not None. *)
(*                                                                         *)
(* `&mut self` makes an operation of the core exclude every other one, but *)
(* unlocking calls `UnlockCallback::complete` in the middle of its loop,   *)
(* and the client notified there may run at once.  Locking is therefore    *)
(* one step, and unlocking is one step per loop iteration and truncation,  *)
(* with the stack frame of the loop in `op`.                               *)
(***************************************************************************)
EXTENDS Integers, FiniteSets

CONSTANTS
  ReadLocks,        \* the ReadLockState objects
  WriteLocks,       \* the WriteLockState objects
  TryReadLocks,     \* the TryReadLockState objects
  TryWriteLocks,    \* the TryWriteLockState objects
  N,                \* indices are 0..N, so the lockable elements are 0..N-1
  Priorities,       \* the priorities clients pass
  DebugAssertions,  \* whether debug_assert! is compiled in
  None              \* Option::None

Readers  == ReadLocks \cup TryReadLocks
Writers  == WriteLocks \cup TryWriteLocks
Blocking == ReadLocks \cup WriteLocks
Locks    == Readers \cup Writers

ASSUME LocksAssumption ==
  /\ IsFiniteSet(ReadLocks) /\ IsFiniteSet(WriteLocks)
  /\ IsFiniteSet(TryReadLocks) /\ IsFiniteSet(TryWriteLocks)
  /\ ReadLocks \cap TryReadLocks = {} /\ WriteLocks \cap TryWriteLocks = {}
  /\ Readers \cap Writers = {}
ASSUME IndexAssumption    == N \in Nat
ASSUME PriorityAssumption == Priorities \subseteq Nat
ASSUME DebugAssumption    == DebugAssertions \in BOOLEAN

Indices == 0..N

\* std::ops::Range<Index>; the slice layer rejects start > end before it
\* calls the core, so those are never requested.
Ranges == {r \in [start : Indices, end : Indices] : r.start <= r.end}

\* struct Pending: the part not yet borrowed, and the priority.
Pendings == {p \in [start : Indices, end : Indices, priority : Priorities] :
               p.start <= p.end}

\* The locals of unlock_read_inner and unlock_write_inner.  Their `end` and
\* `complete` need no copy: they are the end and the absence of lock's borrow.
Frames == [lock : Locks, start : Indices, cur : Locks \cup {None}]

ASSUME NoneAssumption ==
  /\ None \notin Ranges /\ None \notin Pendings /\ None \notin Frames
  /\ None \notin Indices /\ None \notin Locks

VARIABLES
  claimed,  \* claimed[l]: l.parent is this core
  borrow,   \* borrow[l]: the range of l's `read` or `write` cell, or None
  pending,  \* pending[l]: l's `pending` cell, or None
  older,    \* older[l]: the nodes in `pendings` since before l's was inserted
  op,       \* the frame of the unlock loop in progress, or None
  client,   \* client[l]: what the callbacks have told the client of l
  guard     \* guard[l]: the range the client of l asked for

vars == <<claimed, borrow, pending, older, op, client, guard>>

ClientStates == {"idle", "waiting", "granted"}

TypeOK ==
  /\ claimed \in [Locks -> BOOLEAN]
  /\ borrow \in [Locks -> Ranges \cup {None}]
  /\ pending \in [Locks -> Pendings \cup {None}]
  /\ older \in [Locks -> SUBSET Locks]
  /\ op \in Frames \cup {None}
  /\ client \in [Locks -> ClientStates]
  /\ guard \in [Locks -> Ranges \cup {None}]

Init ==
  /\ claimed = [l \in Locks |-> FALSE]
  /\ borrow  = [l \in Locks |-> None]
  /\ pending = [l \in Locks |-> None]
  /\ older   = [l \in Locks |-> {}]
  /\ op      = None
  /\ client  = [l \in Locks |-> "idle"]
  /\ guard   = [l \in Locks |-> None]

-----------------------------------------------------------------------------
(* The three trees *)

Reads  == {l \in Readers : borrow[l] # None}
Writes == {l \in Writers : borrow[l] # None}
Waits  == {l \in Blocking : pending[l] # None}

\* Mutant of Before: equal nodes sorted in insertion order.
BugBeforeLifo(a, b) ==
  \/ pending[a].start < pending[b].start
  \/ /\ pending[a].start = pending[b].start
     /\ \/ pending[a].priority < pending[b].priority
        \/ /\ pending[a].priority = pending[b].priority
           /\ a \in older[b]

\* PendingNodeCallback::cmp_element: by (range.start, priority); when tied, a
\* new node is Less than the ones already there.
Before(a, b) ==
  \/ pending[a].start < pending[b].start
  \/ /\ pending[a].start = pending[b].start
     /\ \/ pending[a].priority < pending[b].priority
        \/ /\ pending[a].priority = pending[b].priority
           /\ b \in older[a]

\* l is the maximum node, in tree order, of the set S of nodes of `pendings`;
\* None when there are none.
IsMax(l, S) ==
  \/ l \in S /\ \A k \in S \ {l} : Before(k, l)
  \/ l = None /\ S = {}

\* Node::insert into, and Node::remove from, `pendings`.
InsertOlder(l) == [k \in Locks |-> IF k = l THEN Waits \ {l} ELSE older[k] \ {l}]
RemoveOlder(l) == [k \in Locks |-> IF k = l THEN {} ELSE older[k] \ {l}]

-----------------------------------------------------------------------------
(* Searching for conflicts *)

MinOf(i, j) == IF i <= j THEN i ELSE j
MaxOf(i, j) == IF i <= j THEN j ELSE i

\* The lowest mutably borrowed index in r, or None.
first_write_borrow_in_range(r) ==
  LET after == {l \in Writes : borrow[l].end > r.start}
      first == CHOOSE l \in after : \A k \in after : borrow[l].start <= borrow[k].start
  IN  IF after # {} /\ borrow[first].start < r.end
        THEN MaxOf(borrow[first].start, r.start)
        ELSE None

\* The nodes of `reads` are the endpoints of the read borrows: a start counts
\* +1 and an end -1 in the summary that Node::prefix_sum adds up.
Endpoints == {borrow[l].start : l \in Reads} \cup {borrow[l].end : l \in Reads}

\* Mutant of prefix_sum: read borrows that start at i are not counted.
BugPrefixSumExclusive(i) == Cardinality({l \in Reads : borrow[l].start < i})
                              - Cardinality({l \in Reads : borrow[l].end <= i})

prefix_sum(i) == Cardinality({l \in Reads : borrow[l].start <= i})
                   - Cardinality({l \in Reads : borrow[l].end <= i})

\* The lowest immutably borrowed index in r, or None.
first_read_borrow_in_range(r) ==
  LET after == {i \in Endpoints : i > r.start}
      first == CHOOSE i \in after : \A j \in after : i <= j
  IN  IF after = {} THEN None
      ELSE IF prefix_sum(r.start) > 0 THEN r.start
      ELSE IF first < r.end THEN first
      ELSE None

\* Mutant of first_conflict_for_write: read borrows do not stop a writer.
BugWriteIgnoresReads(r) == first_write_borrow_in_range(r)

\* The lowest index in r that a writer cannot borrow, or None.
first_conflict_for_write(r) ==
  LET w == first_write_borrow_in_range(r)
      i == first_read_borrow_in_range(r)
  IN  IF w = None THEN i ELSE IF i = None THEN w ELSE MinOf(w, i)

FirstConflict(l, r) == IF l \in Writers THEN first_conflict_for_write(r)
                                        ELSE first_write_borrow_in_range(r)

-----------------------------------------------------------------------------
(* Locking *)

\* debug_assert!(range.start < range.end), and the panic of a lock method on a
\* state object that is in use.  A panic there changes nothing.  Without the
\* assertion an empty read borrow gets into the trees; what an empty write
\* borrow does there depends on the shape of `writes`, which is not modelled
\* here, so those are left out.
MayLock(l, r) == /\ op = None
                 /\ DebugAssertions \/ l \in Writers => r.start < r.end
                 /\ ~claimed[l]

\* Mutant of BorrowUpTo: an incomplete borrow is not kept.
BugBorrowNothing(start, end) == None

\* The cell of a borrow of start..end, which holds no node when that is empty.
BorrowUpTo(start, end) == IF end = start THEN None ELSE [start |-> start, end |-> end]

\* The part of r below the first conflict c is borrowed, the rest is pending.
LockAt(l, r, priority, c) ==
  /\ claimed' = [claimed EXCEPT ![l] = TRUE]
  /\ guard' = [guard EXCEPT ![l] = r]
  /\ \/ /\ c = None
        /\ borrow' = [borrow EXCEPT ![l] = r]
        /\ client' = [client EXCEPT ![l] = "granted"]
        /\ UNCHANGED <<pending, older>>
     \/ /\ c # None
        /\ borrow' = [borrow EXCEPT ![l] = BorrowUpTo(r.start, c)]
        /\ pending' = [pending EXCEPT ![l] =
                         [start |-> c, end |-> r.end, priority |-> priority]]
        /\ older' = InsertOlder(l)
        /\ client' = [client EXCEPT ![l] = "waiting"]
  /\ UNCHANGED op

Lock(l, r, priority) == MayLock(l, r) /\ LockAt(l, r, priority, FirstConflict(l, r))

lock_read(l, r, priority)  == l \in ReadLocks  /\ Lock(l, r, priority)
lock_write(l, r, priority) == l \in WriteLocks /\ Lock(l, r, priority)

\* Mutant of TryLock: only a conflict at the start of the range counts.
BugTryLockPartly(l, r) ==
  /\ MayLock(l, r)
  /\ FirstConflict(l, r) # r.start
  /\ claimed' = [claimed EXCEPT ![l] = TRUE]
  /\ borrow' = [borrow EXCEPT ![l] = r]
  /\ client' = [client EXCEPT ![l] = "granted"]
  /\ guard' = [guard EXCEPT ![l] = r]
  /\ UNCHANGED <<pending, older, op>>

\* Without a conflict all of r is borrowed.
Grant(l, r) ==
  /\ claimed' = [claimed EXCEPT ![l] = TRUE]
  /\ borrow' = [borrow EXCEPT ![l] = r]
  /\ client' = [client EXCEPT ![l] = "granted"]
  /\ guard' = [guard EXCEPT ![l] = r]
  /\ UNCHANGED <<pending, older, op>>

\* On a conflict the fallible methods return false and change nothing.
TryLock(l, r) == MayLock(l, r) /\ FirstConflict(l, r) = None /\ Grant(l, r)

try_lock_read(l, r)  == l \in TryReadLocks  /\ TryLock(l, r)
try_lock_write(l, r) == l \in TryWriteLocks /\ TryLock(l, r)

-----------------------------------------------------------------------------
(* Unlocking *)

\* Mutant of WaitersInside: who waits at the first index is overlooked.
BugWaitersAfterStart(l) ==
  {k \in Waits \ {l} : pending[k].start > borrow[l].start /\ pending[k].start < borrow[l].end}

\* The other pending borrows that wait inside l's borrow.
WaitersInside(l) ==
  {k \in Waits \ {l} : pending[k].start >= borrow[l].start /\ pending[k].start < borrow[l].end}

\* Cancel l's own pending borrow.  With nothing borrowed that is all; otherwise
\* enter the loop at the pending borrow cur.
UnlockAt(l, cur) ==
  /\ pending' = [pending EXCEPT ![l] = None]
  /\ older' = RemoveOlder(l)
  /\ client' = [client EXCEPT ![l] = "idle"]
  /\ guard' = [guard EXCEPT ![l] = None]
  /\ \/ /\ borrow[l] = None
        /\ claimed' = [claimed EXCEPT ![l] = FALSE]
        /\ UNCHANGED op
     \/ /\ borrow[l] # None
        /\ op' = [lock |-> l, start |-> borrow[l].start, cur |-> cur]
        /\ UNCHANGED claimed
  /\ UNCHANGED borrow

\* The loop is entered at the last pending borrow that waits inside l's borrow.
Unlock(l) ==
  /\ op = None
  /\ claimed[l]
  /\ \E cur \in Locks \cup {None} :
       /\ IF borrow[l] = None THEN cur = None ELSE IsMax(cur, WaitersInside(l))
       /\ UnlockAt(l, cur)

unlock_read(l)      == l \in ReadLocks     /\ Unlock(l)
unlock_write(l)     == l \in WriteLocks    /\ Unlock(l)
unlock_try_read(l)  == l \in TryReadLocks  /\ Unlock(l)
unlock_try_write(l) == l \in TryWriteLocks /\ Unlock(l)

InLoop == op # None /\ op.cur # None

\* Whether the loop still has to give up the part of the borrow that op.cur
\* waits for.
MustTruncate ==
  borrow[op.lock] # None /\ pending[op.cur].start < borrow[op.lock].end

\* Unborrow index..end before resuming the pending borrow at index.
Truncate ==
  /\ InLoop
  /\ MustTruncate
  /\ borrow' = [borrow EXCEPT ![op.lock] = BorrowUpTo(op.start, pending[op.cur].start)]
  /\ UNCHANGED <<claimed, pending, older, op, client, guard>>

\* Mutants of Expand: the new end is off by one; the old borrow is forgotten.
BugExpandPastEnd(l, end) == [borrow EXCEPT ![l] =
  [start |-> IF borrow[l] = None THEN pending[l].start ELSE borrow[l].start, end |-> end + 1]]
BugExpandForgetsStart(l, end) == [borrow EXCEPT ![l] =
  [start |-> pending[l].start, end |-> end]]

\* Extend l's borrow up to end; the old borrow, if any, ends where l waits.
Expand(l, end) == [borrow EXCEPT ![l] =
  [start |-> IF borrow[l] = None THEN pending[l].start ELSE borrow[l].start, end |-> end]]

\* Mutants of WaitersBefore: the loop ends after one waiter; it visits a waiter
\* that stays where it is again.
BugNobodyBefore(l) == {}
BugWaitersUpTo(l) ==
  {k \in Waits : /\ pending[k].start >= op.start
                 /\ Before(k, l) \/ (k = l /\ FirstConflict(l, pending[l]) = pending[l].start)}

\* The predecessors of l in `pendings` down to the start of the borrow.
WaitersBefore(l) == {k \in Waits \ {l} : pending[k].start >= op.start /\ Before(k, l)}

\* Resume the pending borrow op.cur, the first conflict of which is c: leave it
\* where it is, move it to c, or complete it and notify its client.
ResumeAt(c, next) ==
  LET l == op.cur
  IN  /\ op' = [op EXCEPT !.cur = next]
      /\ \/ /\ c = pending[l].start
            /\ UNCHANGED <<borrow, pending, older, client>>
         \/ /\ c # None /\ c # pending[l].start
            /\ pending' = [pending EXCEPT ![l].start = c]
            /\ older' = InsertOlder(l)
            /\ borrow' = Expand(l, c)
            /\ UNCHANGED client
         \/ /\ c = None
            /\ pending' = [pending EXCEPT ![l] = None]
            /\ older' = RemoveOlder(l)
            /\ client' = [client EXCEPT ![l] = "granted"]
            /\ borrow' = Expand(l, pending[l].end)
      /\ UNCHANGED <<claimed, guard>>

\* The node to visit next is determined before this one moves.
resume_borrow ==
  /\ InLoop
  /\ ~MustTruncate
  /\ \E next \in Locks \cup {None} :
       /\ IsMax(next, WaitersBefore(op.cur))
       /\ ResumeAt(FirstConflict(op.cur, pending[op.cur]), next)

\* Mutant of FinishUnlock: the state object stays claimed.
BugFinishKeepsClaim ==
  /\ op # None
  /\ op.cur = None
  /\ borrow' = [borrow EXCEPT ![op.lock] = None]
  /\ op' = None
  /\ UNCHANGED <<claimed, pending, older, client, guard>>

\* The loop is over: unborrow what is left and release the state object.
FinishUnlock ==
  /\ op # None
  /\ op.cur = None
  /\ borrow' = [borrow EXCEPT ![op.lock] = None]
  /\ claimed' = [claimed EXCEPT ![op.lock] = FALSE]
  /\ op' = None
  /\ UNCHANGED <<pending, older, client, guard>>

unlock_inner == Truncate \/ resume_borrow \/ FinishUnlock

-----------------------------------------------------------------------------
Next ==
  \/ \E l \in Locks, r \in Ranges, p \in Priorities :
       lock_read(l, r, p) \/ lock_write(l, r, p)
  \/ \E l \in Locks, r \in Ranges : try_lock_read(l, r) \/ try_lock_write(l, r)
  \/ \E l \in Locks : \/ unlock_read(l) \/ unlock_write(l)
                      \/ unlock_try_read(l) \/ unlock_try_write(l)
  \/ unlock_inner

Spec == Init /\ [][Next]_vars

-----------------------------------------------------------------------------
(* Properties *)

Overlap(r, s)   == r.start < s.end /\ s.start < r.end
Covers(r, i)    == r.start <= i /\ i < r.end
Conflict(l, k)  == l # k /\ (l \in Writers \/ k \in Writers)

\* Some conflicting borrow covers the index at which l waits.
Blocked(l) == \E k \in Locks : /\ Conflict(l, k)
                               /\ borrow[k] # None
                               /\ Covers(borrow[k], pending[l].start)

\* No two clients that have been told they hold a lock, at least one of them a
\* writer, hold overlapping ranges, not even while an unlock loop is midway:
\* it may complete a waiter only after giving up what that waiter asked for.
MutualExclusion ==
  \A l, k \in Locks :
    Conflict(l, k) /\ client[l] = "granted" /\ client[k] = "granted"
      => ~Overlap(guard[l], guard[k])

\* The same of the nodes in the trees, so for partial borrows too: writes are
\* disjoint from each other (WriteNodeCallback sorts by start alone and relies
\* on it) and from reads.
BorrowsExclusive ==
  \A l, k \in Locks :
    Conflict(l, k) /\ borrow[l] # None /\ borrow[k] # None
      => ~Overlap(borrow[l], borrow[k])

\* The state table of ReadLockStateInner, and more: what is borrowed and what
\* is pending always make up the requested range, the borrowed part first.
\* The lock being released is exempt: its client is done with it.
BorrowIsPrefix ==
  \A l \in Locks :
    /\ client[l] = "granted" =>
         claimed[l] /\ pending[l] = None /\ guard[l] # None /\ borrow[l] = guard[l]
    /\ client[l] = "waiting" =>
         /\ claimed[l] /\ pending[l] # None /\ guard[l] # None
         /\ guard[l].start <= pending[l].start /\ pending[l].end = guard[l].end
         /\ IF pending[l].start = guard[l].start
              THEN borrow[l] = None
              ELSE borrow[l] = [start |-> guard[l].start, end |-> pending[l].start]
    /\ client[l] = "idle" =>
         /\ pending[l] = None
         /\ claimed[l] <=> (op # None /\ op.lock = l)
         /\ ~claimed[l] => borrow[l] = None

\* No lost wakeup: between operations, whoever waits at an index waits for a
\* conflicting borrow that covers it.  All of a released range's waiters were
\* resumed, so none is left behind with nobody to wake it.
PendingBlocked ==
  op = None =>
    \A l \in Locks : pending[l] # None => Blocked(l)

\* README "Design": an incomplete borrow stays until it is cancelled or completed
\* by the removal of a conflicting borrow.  So when no conflicting borrow is left,
\* empty or not, because they have all been removed, nobody is left waiting.
RemovalCompletes ==
  op = None =>
    \A l \in Locks : pending[l] # None =>
      \E k \in Locks : Conflict(l, k) /\ borrow[k] # None

\* Locks never wait for each other in a circle: if anyone waits, then somebody
\* holds a completed lock and, by releasing it, lets the others go on.
DeadlockFree ==
  op = None /\ (\E l \in Locks : client[l] = "waiting")
    => \E k \in Locks : client[k] = "granted"

\* Dropping the core is accepted when its trees are empty; no lock-state
\* object then still carries a pointer to it.
DropValidation ==
  op = None /\ Reads = {} /\ Writes = {} /\ Waits = {} => \A l \in Locks : ~claimed[l]

\* p comes before q in the wait list of the index at which both wait.
AheadOf(p, q) ==
  /\ pending[p] # None /\ pending[q] # None
  /\ pending[p].start = pending[q].start
  /\ \/ pending[p].priority > pending[q].priority
     \/ pending[p].priority = pending[q].priority /\ p \in older[q]

\* The wait list at an index is served in order.  Of two borrows that wait at
\* the same index, the one later in the order (lower priority, or arrived
\* later) gets the index only if the earlier one gets it too or gives up --
\* except that a reader may get in while a writer ahead of it has to wait.
NoOvertaking ==
  [][\A p, q \in Locks :
       /\ AheadOf(p, q)
       /\ q \in Writers \/ p \in Readers
       /\ client'[q] # "idle"
       /\ pending'[q] # pending[q]
       => pending'[p] # pending[p]]_vars

\* While an unlock loop runs, the borrows of others only grow: resuming one
\* waiter never takes an index away from another lock.
OnlyUnlockShrinks ==
  [][\A l \in Locks :
       /\ borrow[l] # None
       /\ op = None \/ op.lock # l
       => /\ borrow'[l] # None
          /\ borrow'[l].start = borrow[l].start
          /\ borrow'[l].end >= borrow[l].end]_vars

\* The unlock loop ends, although it puts waiters back into the tree it walks.
UnlockTerminates == (op # None) ~> (op = None)

-----------------------------------------------------------------------------
(* The inductive invariant behind the safety properties *)

\* Only non-empty ranges are stored.
NonEmpty ==
  \A l \in Locks : /\ borrow[l] # None => borrow[l].start < borrow[l].end
                   /\ pending[l] # None => pending[l].start < pending[l].end
                   /\ guard[l] # None => guard[l].start < guard[l].end

\* Only the blocking kinds of state object have a `pending` cell.
OnlyBlockingWait == \A l \in Locks : pending[l] # None => l \in Blocking

\* `older` relates nodes of the tree, one way for every pair.
OlderOrder ==
  \A l \in Locks :
    /\ older[l] \subseteq Waits \ {l}
    /\ l \in Waits => \A k \in Waits \ {l} : (k \in older[l]) <=> (l \notin older[k])

\* The pending borrows the unlock loop has still to visit.
ToVisit ==
  {l \in Locks : /\ InLoop
                 /\ pending[l] # None
                 /\ pending[l].start >= op.start
                 /\ (l = op.cur \/ Before(l, op.cur))}

\* What the frame of the unlock loop says about the lock being released.
FrameOK ==
  op # None =>
    /\ client[op.lock] = "idle"
    /\ borrow[op.lock] # None => borrow[op.lock].start = op.start
    /\ op.cur # None => op.cur \in ToVisit

\* The loop skips nobody: it has yet to visit all who wait inside what it still
\* holds, and everybody else who waits does so for somebody.
LoopSkipsNobody ==
  \A l \in Locks : pending[l] # None =>
    /\ l \in ToVisit \/ Blocked(l)
    /\ op # None /\ borrow[op.lock] # None /\ Covers(borrow[op.lock], pending[l].start)
         => l \in ToVisit

IInv == /\ TypeOK /\ NonEmpty /\ OnlyBlockingWait /\ OlderOrder /\ BorrowIsPrefix
        /\ FrameOK /\ BorrowsExclusive /\ LoopSkipsNobody

-----------------------------------------------------------------------------
(* The core implements the array of virtual locks: what l owns there is what *)
(* l's borrow covers here.                                                   *)

Held == [l \in Locks |->
           IF borrow[l] = None THEN {}
           ELSE {i \in 0..(N - 1) : borrow[l].start <= i /\ i < borrow[l].end}]

Virtual == INSTANCE VirtualLocks WITH held <- Held

\* Every step of the core is a step of the virtual locks or changes nothing
\* they show: partial borrows are as large as ascending locking can make them,
\* and the unlock loop gives up indices from the top.
ImplementsVirtualLocks == Virtual!Spec
=============================================================================
