---------------------------- MODULE TreeCoreProofs ----------------------------
(***************************************************************************)
(* The core that works on its trees implements RbTreeCore.                 *)
(*                                                                         *)
(* TreeCoreSearches has the steps that leave the cells as they are.  Here  *)
(* are those that change them; whatever they change, the insertions and    *)
(* removals they queue make up for it.  Then the invariant and the         *)
(* theorems.                                                               *)
(***************************************************************************)
EXTENDS TreeCoreSearches

-----------------------------------------------------------------------------
(* Steps that change the cells *)

\* What is in the queue then is what the trees lack.
LEMMA ReadsUpdate ==
  ASSUME TreesIInv, todo = <<>>, R!Members' = R!Members, R!Order' = R!Order,
         Settles(Reads \X {0, 1}, JobsIn(todo', "reads", "remove"), JobsIn(todo', "reads", "insert"),
                 (Reads \X {0, 1})'),
         \A m \in (Reads \X {0, 1}) \ JobsIn(todo', "reads", "remove") : Index(m)' = Index(m)
  PROVE  ReadsInOrder'
<1>. DEFINE nodes == Reads \X {0, 1}
            out == JobsIn(todo', "reads", "remove")
<1>1. R!Members = nodes /\ \A m, n \in nodes : <<m, n>> \in R!Order => Index(m) <= Index(n)
  BY AllDone
<1>2. \A m \in nodes \ out : Index(m)' = Index(m)
  OBVIOUS
<1>. HIDE DEF nodes, out
<1>3. \A m, n \in nodes \ out : <<m, n>> \in R!Order => Index(m)' <= Index(n)'
  BY <1>1, <1>2
<1>. QED  BY <1>1, <1>3, ReadsInOrderNext, Zenon DEF nodes, out

LEMMA WritesUpdate ==
  ASSUME TreesIInv, todo = <<>>, W!Members' = W!Members, W!Order' = W!Order,
         Settles(Writes, JobsIn(todo', "writes", "remove"), JobsIn(todo', "writes", "insert"), Writes'),
         \A m \in Writes \ JobsIn(todo', "writes", "remove") : borrow'[m].start = borrow[m].start
  PROVE  WritesInOrder'
<1>. DEFINE out == JobsIn(todo', "writes", "remove")
<1>1. W!Members = Writes /\ \A m, n \in Writes : <<m, n>> \in W!Order => borrow[m].start <= borrow[n].start
  BY AllDone
<1>2. \A m \in Writes \ out : borrow'[m].start = borrow[m].start
  OBVIOUS
<1>. HIDE DEF out
<1>3. \A m, n \in Writes \ out : <<m, n>> \in W!Order => borrow'[m].start <= borrow'[n].start
  BY <1>1, <1>2
<1>. QED  BY <1>1, <1>3, WritesInOrderNext, Zenon DEF out

LEMMA PendingsUpdate ==
  ASSUME TreesIInv, todo = <<>>, P!Members' = P!Members, P!Order' = P!Order,
         Settles(Waits \ Cancelled, JobsIn(todo', "pendings", "remove"), JobsIn(todo', "pendings", "insert"),
                 Waits' \ Cancelled'),
         \A m, n \in (Waits \ Cancelled) \ JobsIn(todo', "pendings", "remove") : Before(m, n)' <=> Before(m, n),
         \A l \in JobsIn(todo', "pendings", "insert") : older'[l] = Waits' \ {l}
  PROVE  PendingsInOrder'
<1>. DEFINE nodes == Waits \ Cancelled
            out == JobsIn(todo', "pendings", "remove")
<1>1. P!Members = nodes /\ \A m, n \in nodes : <<m, n>> \in P!Order <=> Before(m, n)
  BY AllDone
<1>2. \A m, n \in nodes \ out : Before(m, n)' <=> Before(m, n)
  OBVIOUS
<1>. HIDE DEF nodes, out
<1>3. \A m, n \in nodes \ out : <<m, n>> \in P!Order <=> Before(m, n)'
  BY <1>1, <1>2, Zenon
<1>. QED  BY <1>1, <1>3, PendingsInOrderNext, Zenon DEF nodes, out

\* The nodes of a borrow of l.
ReadPair(l) == IF l \in Readers THEN {<<l, 0>>, <<l, 1>>} ELSE {}
ReadEnd(l)  == IF l \in Readers THEN {<<l, 1>>} ELSE {}
WriteOne(l) == IF l \in Readers THEN {} ELSE {l}

\* No borrow but l's changes: it is new, it is gone, its end moves, or it stays.
LEMMA BorrowUpdate ==
  ASSUME TypeOK, TreesIInv, todo = <<>>, NEW l \in Locks,
         \A k \in Locks \ {l} : borrow'[k] = borrow[k],
         R!Members' = R!Members, R!Order' = R!Order, W!Members' = W!Members, W!Order' = W!Order,
         NEW ri, NEW ro, NEW wi, NEW wo,
         ri = JobsIn(todo', "reads", "insert"), ro = JobsIn(todo', "reads", "remove"),
         wi = JobsIn(todo', "writes", "insert"), wo = JobsIn(todo', "writes", "remove"),
         \/ borrow[l] = None /\ borrow'[l] # None
            /\ ri = ReadPair(l) /\ ro = {} /\ wi = WriteOne(l) /\ wo = {}
         \/ borrow[l] # None /\ borrow'[l] = None
            /\ ri = {} /\ ro = ReadPair(l) /\ wi = {} /\ wo = WriteOne(l)
         \/ borrow[l] # None /\ borrow'[l] # None /\ borrow'[l].start = borrow[l].start
            /\ ri = ReadEnd(l) /\ ro = ReadEnd(l) /\ wi = {} /\ wo = {}
         \/ borrow'[l] = borrow[l] /\ ri = {} /\ ro = {} /\ wi = {} /\ wo = {}
  PROVE  ReadsInOrder' /\ WritesInOrder'
<1>. DEFINE nodes == Reads \X {0, 1}
            next == Reads' \X {0, 1}
<1>1. /\ \A k : k \in Reads <=> k \in Readers /\ borrow[k] # None
      /\ \A k : k \in Reads' <=> k \in Readers /\ borrow'[k] # None
      /\ \A k : k \in Writes <=> k \in Writers /\ borrow[k] # None
      /\ \A k : k \in Writes' <=> k \in Writers /\ borrow'[k] # None
  BY Zenon DEF Reads, Writes
<1>2. /\ \A k \in Readers : k \in Locks /\ k \notin Writers
      /\ \A k \in Writers : k \in Locks /\ k \notin Readers
      /\ l \in Readers \/ l \in Writers
  BY LocksAssumption DEF Locks
<1>3. /\ \A k \in Locks \ {l} : (k \in Reads' <=> k \in Reads) /\ (k \in Writes' <=> k \in Writes)
      /\ Reads \subseteq Locks /\ Reads' \subseteq Locks /\ Writes \subseteq Locks /\ Writes' \subseteq Locks
  BY <1>1, <1>2
<1>4. (Reads \X {0, 1})' = next
  OBVIOUS
<1>5. CASE l \in Readers
  <2>1. wi = {} /\ wo = {} /\ l \notin Writers
    BY <1>2, <1>5 DEF WriteOne
  <2>2. Writes' = Writes
    BY <1>1, <1>3, <2>1
  <2>3. \A m \in Writes : borrow'[m] = borrow[m]
    BY <1>1, <1>3, <2>1
  <2>4. Settles(Writes, wo, wi, Writes')
    BY <2>1, <2>2 DEF Settles
  <2>5. WritesInOrder'
    BY <2>1, <2>3, <2>4, WritesUpdate
  <2>. DEFINE a == <<l, 0>>
              b == <<l, 1>>
  <2>6. a # b /\ a[1] = l /\ b[1] = l /\ Index(a) = borrow[l].start /\ Index(a)' = borrow'[l].start
    BY DEF Index
  <2>7. \A m \in nodes : /\ m[1] # l => Index(m)' = Index(m) /\ m \in next
                         /\ m[1] = l => m = a \/ m = b
    <3>1. ASSUME NEW m \in nodes
          PROVE  /\ m[1] # l => Index(m)' = Index(m) /\ m \in next
                 /\ m[1] = l => m = a \/ m = b
      <4>1. PICK k \in Reads, i \in {0, 1} : m = <<k, i>>
        OBVIOUS
      <4>2. m[1] = k /\ m[2] = i
        BY <4>1
      <4>3. k # l => borrow'[k] = borrow[k] /\ k \in Reads'
        BY <1>3
      <4>4. k # l => Index(m)' = Index(m)
        BY <4>2, <4>3, Zenon DEF Index
      <4>. QED  BY <4>1, <4>2, <4>3, <4>4
    <3>. QED  BY <3>1
  <2>8. \A m \in next : /\ m[1] # l => m \in nodes
                        /\ m[1] = l => m = a \/ m = b
    BY <1>3
  <2>9. /\ l \in Reads => a \in nodes /\ b \in nodes
        /\ l \notin Reads => a \notin nodes /\ b \notin nodes
        /\ l \in Reads' => a \in next /\ b \in next
        /\ l \notin Reads' => a \notin next /\ b \notin next
    OBVIOUS
  <2>10. /\ ReadPair(l) = {a, b} /\ ReadEnd(l) = {b}
         /\ l \in Reads <=> borrow[l] # None
         /\ l \in Reads' <=> borrow'[l] # None
    BY <1>1, <1>5 DEF ReadPair, ReadEnd
  <2>. HIDE DEF nodes, next, a, b
  <2>11. CASE borrow[l] = None /\ borrow'[l] # None /\ ri = {a, b} /\ ro = {}
    <3>1. Settles(nodes, ro, ri, next)
      BY <2>7, <2>8, <2>9, <2>10, <2>11 DEF Settles
    <3>2. \A m \in nodes \ ro : Index(m)' = Index(m)
      BY <2>7, <2>9, <2>10, <2>11
    <3>. QED  BY <1>4, <2>5, <3>1, <3>2, ReadsUpdate DEF nodes
  <2>12. CASE borrow[l] # None /\ borrow'[l] = None /\ ri = {} /\ ro = {a, b}
    <3>1. Settles(nodes, ro, ri, next)
      BY <2>6, <2>7, <2>8, <2>9, <2>10, <2>12 DEF Settles
    <3>2. \A m \in nodes \ ro : Index(m)' = Index(m)
      BY <2>7, <2>12
    <3>. QED  BY <1>4, <2>5, <3>1, <3>2, ReadsUpdate DEF nodes
  <2>13. CASE borrow[l] # None /\ borrow'[l] # None /\ borrow'[l].start = borrow[l].start /\ ri = {b} /\ ro = {b}
    <3>1. Settles(nodes, ro, ri, next)
      BY <2>6, <2>7, <2>8, <2>9, <2>10, <2>13 DEF Settles
    <3>2. \A m \in nodes \ ro : Index(m)' = Index(m)
      BY <2>6, <2>7, <2>13
    <3>. QED  BY <1>4, <2>5, <3>1, <3>2, ReadsUpdate DEF nodes
  <2>14. CASE borrow'[l] = borrow[l] /\ ri = {} /\ ro = {}
    <3>1. Settles(nodes, ro, ri, next)
      BY <2>7, <2>8, <2>9, <2>10, <2>14 DEF Settles
    <3>2. \A m \in nodes \ ro : Index(m)' = Index(m)
      <4>1. \A k \in Locks : borrow'[k] = borrow[k]
        BY <2>14
      <4>2. ASSUME NEW m \in nodes
            PROVE  Index(m)' = Index(m)
        <5>1. PICK k \in Reads, i \in {0, 1} : m = <<k, i>>
          BY DEF nodes
        <5>2. borrow'[m[1]] = borrow[m[1]]
          BY <1>3, <4>1, <5>1
        <5>. QED  BY <5>2, Zenon DEF Index
      <4>. QED  BY <4>2
    <3>. QED  BY <1>4, <2>5, <3>1, <3>2, ReadsUpdate DEF nodes
  <2>. QED  BY <2>1, <2>10, <2>11, <2>12, <2>13, <2>14
<1>6. CASE l \notin Readers
  <2>1. ri = {} /\ ro = {} /\ l \in Writers /\ WriteOne(l) = {l}
    BY <1>2, <1>6 DEF ReadPair, ReadEnd, WriteOne
  <2>2. Reads' = Reads
    BY <1>1, <1>3, <1>6
  <2>3. \A m \in nodes : Index(m)' = Index(m)
    <3>1. ASSUME NEW m \in nodes
          PROVE  Index(m)' = Index(m)
      <4>1. m[1] \in Reads
        OBVIOUS
      <4>2. m[1] \in Locks \ {l}
        BY <1>1, <1>3, <1>6, <4>1
      <4>3. borrow'[m[1]] = borrow[m[1]]
        BY <4>2
      <4>. QED  BY <4>3, Zenon DEF Index
    <3>. QED  BY <3>1
  <2>4. Settles(nodes, ro, ri, next)
    BY <2>1, <2>2 DEF Settles
  <2>. HIDE DEF nodes, next
  <2>5. ReadsInOrder'
    BY <1>4, <2>1, <2>3, <2>4, ReadsUpdate DEF nodes
  <2>6. (l \in Writes <=> borrow[l] # None) /\ (l \in Writes' <=> borrow'[l] # None)
    BY <1>1, <2>1
  <2>7. Settles(Writes, wo, wi, Writes')
    BY <1>3, <1>6, <2>1, <2>6 DEF Settles, ReadEnd
  <2>8. \A m \in Writes \ wo : borrow'[m].start = borrow[m].start
    BY <1>3, <2>1, <2>6
  <2>9. WritesInOrder'
    BY <2>7, <2>8, WritesUpdate
  <2>. QED  BY <2>5, <2>9
<1>. QED  BY <1>5, <1>6

\* No pending borrow but l's changes: its node goes, or comes, or all stay.
LEMMA PendingUpdate ==
  ASSUME TypeOK, TreesIInv, todo = <<>>, NEW l \in Locks,
         \A k \in Locks \ {l} : pending'[k] = pending[k],
         \A m, n \in Locks \ {l} : n \in older'[m] <=> n \in older[m],
         Cancelled \subseteq {l}, Cancelled' \subseteq {l},
         P!Members' = P!Members, P!Order' = P!Order,
         NEW pi, NEW po,
         pi = JobsIn(todo', "pendings", "insert"), po = JobsIn(todo', "pendings", "remove"),
         \/ pi = {} /\ po = (Waits \ Cancelled) \cap {l} /\ l \notin Waits' \ Cancelled'
         \/ pi = {l} /\ po = (Waits \ Cancelled) \cap {l} /\ l \in Waits' \ Cancelled' /\ older'[l] = Waits' \ {l}
         \/ pi = {} /\ po = {} /\ pending' = pending /\ older' = older /\ Cancelled' = Cancelled
  PROVE  PendingsInOrder'
<1>. DEFINE nodes == Waits \ Cancelled
            next == Waits' \ Cancelled'
<1>1. /\ \A k : k \in Waits <=> k \in Blocking /\ pending[k] # None
      /\ \A k : k \in Waits' <=> k \in Blocking /\ pending'[k] # None
  BY Zenon DEF Waits
<1>2. \A k \in Blocking : k \in Locks
  BY DEF Blocking, Locks, Readers, Writers
<1>3. /\ nodes \subseteq Locks /\ next \subseteq Locks
      /\ \A k \in Locks \ {l} : k \in next <=> k \in nodes
  BY <1>1, <1>2
<1>4. ASSUME NEW m \in Locks \ {l}, NEW n \in Locks \ {l}
      PROVE  Before(m, n)' <=> Before(m, n)
  <2>1. pending'[m] = pending[m] /\ pending'[n] = pending[n] /\ (n \in older'[m] <=> n \in older[m])
    OBVIOUS
  <2>. QED  BY <2>1, Zenon DEF Before
<1>5. CASE \/ pi = {} /\ po = nodes \cap {l} /\ l \notin next
           \/ pi = {l} /\ po = nodes \cap {l} /\ l \in next /\ older'[l] = Waits' \ {l}
  <2>. HIDE DEF nodes, next
  <2>1. Settles(nodes, po, pi, next)
    BY <1>3, <1>5 DEF Settles
  <2>2. \A m, n \in nodes \ po : Before(m, n)' <=> Before(m, n)
    BY <1>3, <1>4, <1>5
  <2>3. \A k \in pi : older'[k] = Waits' \ {k}
    BY <1>5
  <2>. QED  BY <2>1, <2>2, <2>3, PendingsUpdate DEF nodes, next
<1>6. CASE pi = {} /\ po = {} /\ pending' = pending /\ older' = older /\ Cancelled' = Cancelled
  <2>1. Waits' = Waits /\ next = nodes
    BY <1>6, Zenon DEF Waits
  <2>2. \A m, n : Before(m, n)' <=> Before(m, n)
    BY <1>6, Zenon DEF Before
  <2>. HIDE DEF nodes, next
  <2>3. Settles(nodes, po, pi, next)
    BY <1>6, <2>1 DEF Settles
  <2>. QED  BY <1>6, <2>2, <2>3, PendingsUpdate DEF nodes, next
<1>. QED  BY <1>5, <1>6

\* The other trees stay while an unlock method looks for its own pending node.
LEMMA BeginUnlockKeeps ==
  ASSUME IInv, TreesIInv, Trees, NEW l \in Locks, BeginUnlock(l)
  PROVE  TreesIInv' /\ Trees' /\ UNCHANGED vars
<1>1. /\ stage = "rest" /\ op = None /\ claimed[l] /\ todo = <<>>
      /\ stage' = "cancel" /\ ask' = [lock |-> l, range |-> None, priority |-> None]
      /\ todo' = IF pending[l] = None THEN <<>> ELSE <<Take("pendings", l)>>
      /\ UNCHANGED <<vars, readsVars, writesVars, pendingsVars, lowest, found, upcoming>>
  BY DEF BeginUnlock, Quiet
<1>2. RP!TreeInvariant /\ WP!TreeInvariant /\ PP!TreeInvariant /\ TypeOK
  BY DEF Trees, IInv
<1>3. /\ RP!TreeInvariant' /\ R!Members' = R!Members /\ R!Order' = R!Order
      /\ WP!TreeInvariant' /\ W!Members' = W!Members /\ W!Order' = W!Order
      /\ PP!TreeInvariant' /\ P!Members' = P!Members /\ P!Order' = P!Order
  BY <1>1, <1>2, ReadsStay, WritesStay, PendingsStay
<1>4. /\ claimed' = claimed /\ borrow' = borrow /\ pending' = pending /\ older' = older /\ op' = op
  BY <1>1 DEF vars
<1>5. Cancelled = {} /\ Cancelled' = {l}
  BY <1>1 DEF Cancelled
<1>6. Does(todo', {}, {}, {}, {}, {}, IF pending[l] = None THEN {} ELSE {l})
  <2>1. CASE pending[l] = None
    BY <1>1, <2>1, NoJobs DEF Does
  <2>2. CASE pending[l] # None
    BY <1>1, <2>2, TakeJobsDo
  <2>. QED  BY <2>1, <2>2
<1>7. Queued'
  BY <1>6, QueuedNext DEF Does
<1>8. ReadsInOrder' /\ WritesInOrder'
  BY <1>1, <1>2, <1>3, <1>4, <1>6, BorrowUpdate DEF Does
<1>9. l \in Waits <=> pending[l] # None
  BY DEF IInv, OnlyBlockingWait, Waits
<1>10. PendingsInOrder'
  <2>. DEFINE pi == JobsIn(todo', "pendings", "insert")
              po == JobsIn(todo', "pendings", "remove")
  <2>1. pi = {} /\ po = Waits \cap {l}
    BY <1>6, <1>9 DEF Does
  <2>. HIDE DEF pi, po
  <2>. QED  BY <1>1, <1>2, <1>3, <1>4, <1>5, <2>1, PendingUpdate DEF pi, po
<1>11. Unlocking'
  <2>1. op' = None /\ ask'.lock \in Locks /\ claimed'[ask'.lock] /\ stage' = "cancel"
    BY <1>1, <1>4
  <2>. QED  BY <2>1 DEF Unlocking
<1>12. Searching' /\ SearchesAgree'
  BY <1>1, NotSearching
<1>13. Stored'
  BY <1>7, <1>8, <1>10 DEF Stored
<1>. QED  BY <1>1, <1>3, <1>11, <1>12, <1>13, TreesSplitNext DEF Trees

\* A method is over when its jobs are in the queue.
LEMMA MethodEnd ==
  ASSUME stage' = "rest", Queued', ReadsInOrder', WritesInOrder', PendingsInOrder'
  PROVE  TreesIInv'
<1>1. Searching' /\ SearchesAgree'
  BY NotSearching
<1>2. Unlocking'
  BY NotUnlocking
<1>. QED  BY <1>1, <1>2, TreesSplitNext DEF Stored

LEMMA TreesStay ==
  ASSUME Trees, UNCHANGED <<readsVars, writesVars, pendingsVars>>
  PROVE  /\ Trees'
         /\ R!Members' = R!Members /\ R!Order' = R!Order
         /\ W!Members' = W!Members /\ W!Order' = W!Order
         /\ P!Members' = P!Members /\ P!Order' = P!Order
  BY ReadsStay, WritesStay, PendingsStay DEF Trees

\* A state object that is not in use has no nodes.
LEMMA NotClaimed ==
  ASSUME IInv, NEW l \in Locks, ~claimed[l]
  PROVE  borrow[l] = None /\ pending[l] = None /\ l \notin Waits
<1>1. client[l] = "idle"
  BY DEF IInv, TypeOK, ClientStates, BorrowIsPrefix
<1>2. borrow[l] = None /\ pending[l] = None
  BY <1>1 DEF IInv, BorrowIsPrefix
<1>. QED  BY <1>2 DEF Waits

\* What inserting and removing a node does to the others.
LEMMA OlderOfOthers ==
  ASSUME NEW l \in Locks, older' = InsertOlder(l) \/ older' = RemoveOlder(l)
  PROVE  /\ \A m, n \in Locks \ {l} : n \in older'[m] <=> n \in older[m]
         /\ older' = InsertOlder(l) => older'[l] = Waits \ {l}
  BY DEF InsertOlder, RemoveOlder

\* The jobs of a borrow of l, and of its pending part.
LEMMA PartsDo ==
  ASSUME NEW l \in Locks, NEW b, NEW p
  PROVE  Does((IF b THEN BorrowJobs(l) ELSE <<>>) \o (IF p THEN <<Put("pendings", l)>> ELSE <<>>),
              IF b THEN ReadPair(l) ELSE {}, {}, IF b THEN WriteOne(l) ELSE {}, {}, IF p THEN {l} ELSE {}, {})
<1>. DEFINE s == IF b THEN BorrowJobs(l) ELSE <<>>
            u == IF p THEN <<Put("pendings", l)>> ELSE <<>>
            ri == IF b THEN ReadPair(l) ELSE {}
            wi == IF b THEN WriteOne(l) ELSE {}
            pi == IF p THEN {l} ELSE {}
<1>1. Does(s, ri, {}, wi, {}, {}, {})
  <2>1. CASE b
    BY <2>1, BorrowJobsDo DEF ReadPair, WriteOne
  <2>2. CASE ~b
    BY <2>2, NoJobs DEF Does
  <2>. QED  BY <2>1, <2>2
<1>2. Does(u, {}, {}, {}, {}, pi, {})
  <2>1. CASE p
    BY <2>1, TakeJobsDo
  <2>2. CASE ~p
    BY <2>2, NoJobs DEF Does
  <2>. QED  BY <2>1, <2>2
<1>. HIDE DEF s, u, ri, wi, pi
<1>3. Does(s \o u, ri, {}, wi, {}, pi, {})
  BY <1>1, <1>2, BothDo
<1>. QED  BY <1>3 DEF s, u, ri, wi, pi

\* A lock method stores what it has decided.
LEMMA DecideLockKeeps ==
  ASSUME IInv, TreesIInv, Trees, DecideLock
  PROVE  TreesIInv' /\ Trees' /\ [Next]_vars
<1>1. /\ stage = "decide" /\ op = None /\ ask.lock \in Blocking
      /\ LockAt(ask.lock, ask.range, ask.priority, lowest)
      /\ todo' = LockJobs(ask.lock) /\ stage' = "rest"
      /\ UNCHANGED <<readsVars, writesVars, pendingsVars>>
  BY DEF DecideLock, Rest
<1>2. Asked /\ todo = <<>> /\ lowest = FirstConflict(ask.lock, ask.range)
  BY <1>1 DEF TreesIInv, Searching, SearchesAgree
<1>3. /\ MayLock(ask.lock, ask.range) /\ ask.priority \in Priorities
      /\ ask.lock \in Locks /\ ask.range \in Ranges
  BY <1>1, <1>2 DEF Asked, InLoop
<1>4. PICK l \in Locks, r \in Ranges, p \in Priorities : l = ask.lock /\ r = ask.range /\ p = ask.priority
  BY <1>3
<1>5. Lock(l, r, p) /\ l \in Blocking
  BY <1>1, <1>2, <1>3, <1>4 DEF Lock
<1>6. Next
  <2>1. lock_read(l, r, p) \/ lock_write(l, r, p)
    BY <1>5 DEF lock_read, lock_write, Blocking
  <2>. QED  BY <2>1 DEF Next
<1>7. borrow[l] = None /\ pending[l] = None /\ l \notin Waits
  BY <1>3, <1>4, NotClaimed DEF MayLock
<1>8. TypeOK /\ Cancelled = {} /\ Cancelled' = {}
  BY <1>1 DEF IInv, Cancelled
<1>9. /\ LockAt(l, r, p, lowest)
      /\ \A k \in Locks \ {l} : borrow'[k] = borrow[k] /\ pending'[k] = pending[k]
      /\ todo' = LockJobs(l)
  <2>1. LockAt(l, r, p, lowest) /\ todo' = LockJobs(l)
    BY <1>1, <1>4
  <2>. QED  BY <1>8, <2>1 DEF LockAt, TypeOK
<1>10. Does(todo', IF borrow'[l] # None THEN ReadPair(l) ELSE {}, {},
                   IF borrow'[l] # None THEN WriteOne(l) ELSE {}, {},
                   IF pending'[l] # None THEN {l} ELSE {}, {})
  <2>1. PICK b \in BOOLEAN, q \in BOOLEAN : b = (borrow'[l] # None) /\ q = (pending'[l] # None)
    OBVIOUS
  <2>2. todo' = (IF b THEN BorrowJobs(l) ELSE <<>>) \o (IF q THEN <<Put("pendings", l)>> ELSE <<>>)
    BY <1>9, <2>1 DEF LockJobs
  <2>. QED  BY <2>1, <2>2, PartsDo
<1>11. Trees' /\ R!Members' = R!Members /\ R!Order' = R!Order
       /\ W!Members' = W!Members /\ W!Order' = W!Order
       /\ P!Members' = P!Members /\ P!Order' = P!Order
  BY <1>1, TreesStay
<1>12. Queued'
  BY <1>10, QueuedNext DEF Does
<1>13. ReadsInOrder' /\ WritesInOrder'
  <2>. DEFINE ri == JobsIn(todo', "reads", "insert")
              ro == JobsIn(todo', "reads", "remove")
              wi == JobsIn(todo', "writes", "insert")
              wo == JobsIn(todo', "writes", "remove")
  <2>1. /\ ri = IF borrow'[l] # None THEN ReadPair(l) ELSE {}
        /\ wi = IF borrow'[l] # None THEN WriteOne(l) ELSE {}
        /\ ro = {} /\ wo = {}
    BY <1>10 DEF Does
  <2>. HIDE DEF ri, ro, wi, wo
  <2>2. \/ borrow[l] = None /\ borrow'[l] # None
           /\ ri = ReadPair(l) /\ ro = {} /\ wi = WriteOne(l) /\ wo = {}
        \/ borrow'[l] = borrow[l] /\ ri = {} /\ ro = {} /\ wi = {} /\ wo = {}
    BY <1>7, <2>1
  <2>. QED  BY <1>2, <1>8, <1>9, <1>11, <2>2, BorrowUpdate DEF ri, ro, wi, wo
<1>14. PendingsInOrder'
  <2>. DEFINE pi == JobsIn(todo', "pendings", "insert")
              po == JobsIn(todo', "pendings", "remove")
  <2>1. pi = (IF pending'[l] # None THEN {l} ELSE {}) /\ po = {}
    BY <1>10 DEF Does
  <2>2. CASE lowest = None
    <3>1. pending' = pending /\ older' = older
      BY <1>9, <2>2 DEF LockAt
    <3>. HIDE DEF pi, po
    <3>. QED  BY <1>2, <1>7, <1>8, <1>11, <2>1, <3>1, PendingUpdate DEF pi, po
  <2>3. CASE lowest # None
    <3>1. pending'[l] # None /\ older' = InsertOlder(l)
      <4>1. pending'[l] = [start |-> lowest, end |-> r.end, priority |-> p] /\ older' = InsertOlder(l)
        BY <1>8, <1>9, <2>3 DEF LockAt, TypeOK
      <4>2. [start |-> lowest, end |-> r.end, priority |-> p] \in Pendings
        <5>1. r.start \in Indices /\ r.end \in Indices /\ r.start <= r.end
          BY DEF Ranges
        <5>2. FirstConflict(l, r) # None
          BY <1>2, <1>4, <2>3
        <5>3. lowest \in Indices /\ lowest <= r.end
          BY <1>2, <1>4, <1>8, <5>1, <5>2, ConflictInRange
        <5>. QED  BY <5>1, <5>3 DEF Pendings
      <4>. QED  BY <4>1, <4>2, NoneAssumption
    <3>2. \A k : (k \in Waits' <=> k \in Waits \cup {l})
      <4>1. \A k : k \in Waits' <=> k \in Blocking /\ pending'[k] # None
        BY Zenon DEF Waits
      <4>2. \A k \in Blocking : k \in Locks
        BY DEF Blocking, Locks, Readers, Writers
      <4>. QED  BY <1>5, <1>9, <3>1, <4>1, <4>2 DEF Waits
    <3>3. /\ \A m, n \in Locks \ {l} : n \in older'[m] <=> n \in older[m]
          /\ older'[l] = Waits' \ {l}
      BY <3>1, <3>2, OlderOfOthers
    <3>4. pi = {l} /\ po = (Waits \ Cancelled) \cap {l} /\ l \in Waits' \ Cancelled'
      BY <1>7, <1>8, <2>1, <3>1, <3>2
    <3>. HIDE DEF pi, po
    <3>. QED  BY <1>2, <1>8, <1>9, <1>11, <3>3, <3>4, PendingUpdate DEF pi, po
  <2>. QED  BY <2>2, <2>3
<1>. QED  BY <1>1, <1>6, <1>11, <1>12, <1>13, <1>14, MethodEnd

\* The trees stay as they are while the cells of l change: what the queue holds
\* then makes up for it.
LEMMA CellsKeep ==
  ASSUME TypeOK, TreesIInv, Trees, todo = <<>>, UNCHANGED <<readsVars, writesVars, pendingsVars>>,
         NEW l \in Locks,
         \A k \in Locks \ {l} : borrow'[k] = borrow[k],
         \A k \in Locks \ {l} : pending'[k] = pending[k],
         \A m, n \in Locks \ {l} : n \in older'[m] <=> n \in older[m],
         Cancelled \subseteq {l}, Cancelled' \subseteq {l},
         NEW ri, NEW ro, NEW wi, NEW wo, NEW pi, NEW po, Does(todo', ri, ro, wi, wo, pi, po),
         \/ borrow[l] = None /\ borrow'[l] # None
            /\ ri = ReadPair(l) /\ ro = {} /\ wi = WriteOne(l) /\ wo = {}
         \/ borrow[l] # None /\ borrow'[l] = None
            /\ ri = {} /\ ro = ReadPair(l) /\ wi = {} /\ wo = WriteOne(l)
         \/ borrow[l] # None /\ borrow'[l] # None /\ borrow'[l].start = borrow[l].start
            /\ ri = ReadEnd(l) /\ ro = ReadEnd(l) /\ wi = {} /\ wo = {}
         \/ borrow'[l] = borrow[l] /\ ri = {} /\ ro = {} /\ wi = {} /\ wo = {},
         \/ pi = {} /\ po = (Waits \ Cancelled) \cap {l} /\ l \notin Waits' \ Cancelled'
         \/ pi = {l} /\ po = (Waits \ Cancelled) \cap {l} /\ l \in Waits' \ Cancelled' /\ older'[l] = Waits' \ {l}
         \/ pi = {} /\ po = {} /\ pending' = pending /\ older' = older /\ Cancelled' = Cancelled
  PROVE  Trees' /\ Queued' /\ ReadsInOrder' /\ WritesInOrder' /\ PendingsInOrder'
<1>1. /\ Trees'
      /\ R!Members' = R!Members /\ R!Order' = R!Order
      /\ W!Members' = W!Members /\ W!Order' = W!Order
      /\ P!Members' = P!Members /\ P!Order' = P!Order
  BY TreesStay
<1>2. /\ ri = JobsIn(todo', "reads", "insert") /\ ro = JobsIn(todo', "reads", "remove")
      /\ wi = JobsIn(todo', "writes", "insert") /\ wo = JobsIn(todo', "writes", "remove")
      /\ pi = JobsIn(todo', "pendings", "insert") /\ po = JobsIn(todo', "pendings", "remove")
      /\ InTurn(todo')
  BY DEF Does
<1>3. Queued'
  BY <1>2, QueuedNext
<1>4. ReadsInOrder' /\ WritesInOrder'
  BY <1>1, <1>2, BorrowUpdate
<1>5. PendingsInOrder'
  BY <1>1, <1>2, PendingUpdate
<1>. QED  BY <1>1, <1>3, <1>4, <1>5

\* A fallible lock method stores its borrow, or gives up.
LEMMA DecideTryLockKeeps ==
  ASSUME IInv, TreesIInv, Trees, DecideTryLock
  PROVE  TreesIInv' /\ Trees' /\ [Next]_vars
<1>1. /\ stage = "decide" /\ op = None /\ ask.lock \notin Blocking
      /\ \/ lowest = None /\ Grant(ask.lock, ask.range) /\ todo' = BorrowJobs(ask.lock)
         \/ lowest # None /\ UNCHANGED <<vars, todo>>
      /\ stage' = "rest"
      /\ UNCHANGED <<readsVars, writesVars, pendingsVars>>
  BY DEF DecideTryLock, Rest
<1>2. Asked /\ todo = <<>> /\ (lowest = None <=> FirstConflict(ask.lock, ask.range) = None)
  BY <1>1 DEF TreesIInv, Searching, SearchesAgree
<1>3. MayLock(ask.lock, ask.range) /\ ask.lock \in Locks /\ ask.range \in Ranges
  BY <1>1, <1>2 DEF Asked, InLoop
<1>4. PICK l \in Locks, r \in Ranges : l = ask.lock /\ r = ask.range
  BY <1>3
<1>5. TypeOK /\ Cancelled = {} /\ Cancelled' = {}
  BY <1>1 DEF IInv, Cancelled
<1>6. CASE lowest = None /\ Grant(ask.lock, ask.range) /\ todo' = BorrowJobs(ask.lock)
  <2>1. Grant(l, r) /\ todo' = BorrowJobs(l) /\ TryLock(l, r)
    BY <1>2, <1>3, <1>4, <1>6 DEF TryLock
  <2>2. Next
    <3>1. try_lock_read(l, r) \/ try_lock_write(l, r)
      BY <1>1, <1>4, <2>1 DEF try_lock_read, try_lock_write, Locks, Readers, Writers, Blocking
    <3>. QED  BY <3>1 DEF Next
  <2>3. borrow[l] = None
    BY <1>3, <1>4, NotClaimed DEF MayLock
  <2>4. /\ borrow'[l] = r /\ r # None
        /\ \A k \in Locks \ {l} : borrow'[k] = borrow[k]
        /\ pending' = pending /\ older' = older
    BY <1>5, <2>1, NoneAssumption DEF Grant, TypeOK
  <2>5. Does(todo', ReadPair(l), {}, WriteOne(l), {}, {}, {})
    BY <2>1, BorrowJobsDo DEF ReadPair, WriteOne
  <2>6. Trees' /\ Queued' /\ ReadsInOrder' /\ WritesInOrder' /\ PendingsInOrder'
    BY <1>1, <1>2, <1>5, <2>3, <2>4, <2>5, CellsKeep
  <2>. QED  BY <1>1, <2>2, <2>6, MethodEnd
<1>7. CASE lowest # None /\ UNCHANGED <<vars, todo>>
  <2>1. borrow' = borrow /\ pending' = pending /\ older' = older /\ todo' = <<>>
    BY <1>2, <1>7 DEF vars
  <2>2. Does(todo', {}, {}, {}, {}, {}, {})
    BY <2>1, NoJobs DEF Does
  <2>3. Trees' /\ Queued' /\ ReadsInOrder' /\ WritesInOrder' /\ PendingsInOrder'
    BY <1>1, <1>2, <1>5, <2>1, <2>2, CellsKeep
  <2>. QED  BY <1>1, <1>7, <2>3, MethodEnd
<1>. QED  BY <1>1, <1>6, <1>7

\* The end of cancel_borrow, with nothing borrowed or at the entry of the loop.
LEMMA UnlockAtKeeps ==
  ASSUME IInv, TreesIInv, Trees, stage \in {"cancel", "enter"}, todo = <<>>, ask.lock \in Locks,
         NEW cur, UnlockAt(ask.lock, cur), stage' = "rest", todo' = <<>>,
         R!Members' = R!Members, R!Order' = R!Order, W!Members' = W!Members, W!Order' = W!Order,
         P!Members' = P!Members, P!Order' = P!Order
  PROVE  TreesIInv'
<1>1. PICK l \in Locks : l = ask.lock
  OBVIOUS
<1>2. TypeOK /\ Cancelled = {l} /\ Cancelled' = {}
  BY <1>1 DEF IInv, Cancelled
<1>3. /\ \A k \in Locks \ {l} : pending'[k] = pending[k]
      /\ pending'[l] = None /\ older' = RemoveOlder(l) /\ borrow' = borrow
  BY <1>1, <1>2 DEF UnlockAt, TypeOK
<1>4. /\ JobsIn(todo', "reads", "insert") = {} /\ JobsIn(todo', "reads", "remove") = {}
      /\ JobsIn(todo', "writes", "insert") = {} /\ JobsIn(todo', "writes", "remove") = {}
      /\ JobsIn(todo', "pendings", "insert") = {} /\ JobsIn(todo', "pendings", "remove") = {}
      /\ InTurn(todo')
  BY NoJobs
<1>5. Queued'
  BY <1>4, QueuedNext
<1>6. ReadsInOrder' /\ WritesInOrder'
  BY <1>2, <1>3, <1>4, BorrowUpdate
<1>7. \A m, n \in Locks \ {l} : n \in older'[m] <=> n \in older[m]
  BY <1>3, OlderOfOthers
<1>8. l \notin Waits'
  <2>1. \A k : k \in Waits' <=> k \in Blocking /\ pending'[k] # None
    BY Zenon DEF Waits
  <2>. QED  BY <1>3, <2>1
<1>9. PendingsInOrder'
  <2>1. (Waits \ Cancelled) \cap {l} = {} /\ l \notin Waits' \ Cancelled'
    BY <1>2, <1>8
  <2>. QED  BY <1>2, <1>3, <1>4, <1>7, <2>1, PendingUpdate
<1>. QED  BY <1>5, <1>6, <1>9, MethodEnd

\* The unlock methods of RbTreeCore.
LEMMA UnlockNext ==
  ASSUME NEW l \in Locks, Unlock(l)
  PROVE  Next
<1>1. unlock_read(l) \/ unlock_write(l) \/ unlock_try_read(l) \/ unlock_try_write(l)
  BY DEF unlock_read, unlock_write, unlock_try_read, unlock_try_write, Locks, Readers, Writers
<1>. QED  BY <1>1 DEF Next

LEMMA UnlockNothingKeeps ==
  ASSUME IInv, TreesIInv, Trees, UnlockNothing
  PROVE  TreesIInv' /\ Trees' /\ [Next]_vars
<1>1. /\ stage = "cancel" /\ todo = <<>> /\ borrow[ask.lock] = None
      /\ UnlockAt(ask.lock, None) /\ stage' = "rest" /\ todo' = <<>>
      /\ UNCHANGED <<readsVars, writesVars, pendingsVars>>
  BY DEF UnlockNothing, Rest, Quiet
<1>2. op = None /\ ask.lock \in Locks /\ claimed[ask.lock]
  BY <1>1 DEF TreesIInv, Unlocking
<1>3. /\ Trees'
      /\ R!Members' = R!Members /\ R!Order' = R!Order
      /\ W!Members' = W!Members /\ W!Order' = W!Order
      /\ P!Members' = P!Members /\ P!Order' = P!Order
  BY <1>1, TreesStay
<1>4. TreesIInv'
  BY <1>1, <1>2, <1>3, UnlockAtKeeps
<1>5. Unlock(ask.lock)
  BY <1>1, <1>2 DEF Unlock
<1>6. Next
  BY <1>2, <1>5, UnlockNext
<1>. QED  BY <1>3, <1>4, <1>6

\* The unlock loop is entered where RbTreeCore enters it.
LEMMA EnterLoopKeeps ==
  ASSUME IInv, TreesIInv, Trees, EnterLoop
  PROVE  TreesIInv' /\ Trees' /\ [Next]_vars
<1>1. /\ stage = "enter" /\ pendingsPc = "found"
      /\ UnlockAt(ask.lock, FilterFrom(pendingsAt, borrow[ask.lock].start))
      /\ P!Return /\ stage' = "rest" /\ UNCHANGED <<readsVars, writesVars, todo>>
  BY DEF EnterLoop, Rest
<1>2. /\ op = None /\ ask.lock \in Locks /\ claimed[ask.lock] /\ borrow[ask.lock] # None
      /\ todo = <<>> /\ pendingsSide = 0
      /\ pendingsGoal = {m \in pendings.nodes : pending[m].start < borrow[ask.lock].end}
  BY <1>1 DEF TreesIInv, Unlocking
<1>3. TypeOK /\ RP!TreeInvariant /\ WP!TreeInvariant /\ PP!TreeInvariant
  BY DEF IInv, Trees
<1>4. PICK l, i : l \in Locks /\ l = ask.lock /\ i = borrow[ask.lock].start
  BY <1>2
<1>5. Cancelled = {l} /\ i \in Nat
  BY <1>1, <1>2, <1>3, <1>4, BorrowType DEF Cancelled
<1>6. /\ pendings.nodes = Waits \ {l}
      /\ \A m, n \in pendings.nodes : <<m, n>> \in pendingsOrder <=> Before(m, n)
  BY <1>1, <1>2, <1>3, <1>5, PendingsNow DEF Reading, Walking
<1>7. IsMax(FilterFrom(pendingsAt, i), WaitersInside(l))
  <2>. DEFINE S == {m \in Waits \ {l} : pending[m].start < borrow[l].end}
  <2>1. \/ S = {} /\ pendingsAt = None
        \/ pendingsAt \in S /\ \A m \in S \ {pendingsAt} : <<m, pendingsAt>> \in pendingsOrder
    BY <1>1, <1>2, <1>3, <1>4, <1>6, PendingsAnswer
  <2>2. S \in SUBSET Waits
    OBVIOUS
  <2>3. \/ S = {} /\ pendingsAt = None
        \/ pendingsAt \in S /\ \A m \in S \ {pendingsAt} : Before(m, pendingsAt)
    BY <1>6, <2>1
  <2>4. {k \in S : pending[k].start >= i} = WaitersInside(l)
    BY <1>4 DEF WaitersInside
  <2>. HIDE DEF S
  <2>5. PICK n : n = pendingsAt
    OBVIOUS
  <2>6. IsMax(FilterFrom(n, i), {k \in S : pending[k].start >= i})
    BY <1>3, <1>5, <2>2, <2>3, <2>5, FilterMax
  <2>. QED  BY <2>4, <2>5, <2>6
<1>8. PICK cur : cur = FilterFrom(pendingsAt, i)
  OBVIOUS
<1>9. cur \in Locks \cup {None} /\ IsMax(cur, WaitersInside(l)) /\ UnlockAt(l, cur)
  <2>1. WaitersInside(l) \subseteq Locks
    BY DEF WaitersInside, Waits, Blocking, Locks, Readers, Writers
  <2>2. IsMax(cur, WaitersInside(l)) /\ UnlockAt(l, cur)
    BY <1>1, <1>4, <1>7, <1>8
  <2>. QED  BY <2>1, <2>2 DEF IsMax
<1>10. Unlock(l)
  BY <1>2, <1>4, <1>9 DEF Unlock
<1>11. Next
  BY <1>4, <1>10, UnlockNext
<1>12. /\ Trees'
       /\ R!Members' = R!Members /\ R!Order' = R!Order
       /\ W!Members' = W!Members /\ W!Order' = W!Order
       /\ P!Members' = P!Members /\ P!Order' = P!Order
  BY <1>1, <1>3, ReadsStay, WritesStay, PendingsQuery DEF Trees
<1>13. TreesIInv'
  <2>1. todo' = <<>> /\ UnlockAt(ask.lock, cur)
    BY <1>1, <1>2, <1>4, <1>9
  <2>. QED  BY <1>1, <1>2, <1>12, <2>1, UnlockAtKeeps
<1>. QED  BY <1>11, <1>12, <1>13

\* The frame of the loop and the borrow that it releases.
LEMMA FrameCells ==
  ASSUME IInv, op # None
  PROVE  /\ op.lock \in Locks /\ op.start \in Nat /\ op.cur \in Locks \cup {None}
         /\ borrow[op.lock] # None => borrow[op.lock].start = op.start
         /\ op.cur # None => /\ op.cur \in Waits /\ op.cur \in Blocking
                             /\ pending[op.cur].start \in Nat /\ op.start <= pending[op.cur].start
<1>1. op \in Frames /\ TypeOK
  BY DEF IInv, TypeOK
<1>2. op.lock \in Locks /\ op.start \in Nat /\ op.cur \in Locks \cup {None}
  BY <1>1, IndexAssumption DEF Frames, Indices
<1>3. borrow[op.lock] # None => borrow[op.lock].start = op.start
  BY DEF IInv, FrameOK
<1>4. ASSUME op.cur # None
      PROVE  op.cur \in Waits /\ pending[op.cur].start >= op.start
  <2>1. op.cur \in ToVisit
    BY <1>4 DEF IInv, FrameOK
  <2>2. op.cur \in Locks /\ pending[op.cur] # None /\ pending[op.cur].start >= op.start
    BY <2>1 DEF ToVisit
  <2>. QED  BY <2>2 DEF IInv, OnlyBlockingWait, Waits
<1>. QED  BY <1>1, <1>2, <1>3, <1>4, WaitType

\* The released borrow is cut back: its upper bound moves, or its nodes go.
LEMMA TruncateJobsDo ==
  ASSUME TypeOK, NEW l \in Locks, borrow[l] # None
  PROVE  /\ borrow'[l] # None => Does(TruncateJobs(l), ReadEnd(l), ReadEnd(l), {}, {}, {}, {})
         /\ borrow'[l] = None => Does(TruncateJobs(l), {}, ReadPair(l), {}, WriteOne(l), {}, {})
         /\ Does(FinishJobs(l), {}, ReadPair(l), {}, WriteOne(l), {}, {})
<1>1. borrow'[l] # None => Does(TruncateJobs(l), ReadEnd(l), ReadEnd(l), {}, {}, {}, {})
  BY MoveJobsDo DEF TruncateJobs, ReadEnd
<1>2. borrow'[l] = None => Does(TruncateJobs(l), {}, ReadPair(l), {}, WriteOne(l), {}, {})
  BY TakeJobsDo DEF TruncateJobs, ReadPair, WriteOne
<1>3. Does(FinishJobs(l), {}, ReadPair(l), {}, WriteOne(l), {}, {})
  BY TakeJobsDo DEF FinishJobs, ReadPair, WriteOne
<1>. QED  BY <1>1, <1>2, <1>3

LEMMA TurnTruncateKeeps ==
  ASSUME IInv, TreesIInv, Trees, TurnTruncate
  PROVE  TreesIInv' /\ Trees' /\ [Next]_vars
<1>1. /\ stage = "turn" /\ stage' = "turn" /\ todo = <<>> /\ Truncate /\ todo' = TruncateJobs(op.lock)
      /\ UNCHANGED <<readsVars, writesVars, pendingsVars, locals>>
  BY DEF TurnTruncate, Quiet
<1>2. InLoop /\ IsMax(upcoming, WaitersBefore(op.cur))
  BY <1>1 DEF TreesIInv, Unlocking
<1>3. /\ op # None /\ op.cur # None /\ borrow[op.lock] # None
      /\ borrow' = [borrow EXCEPT ![op.lock] = BorrowUpTo(op.start, pending[op.cur].start)]
      /\ pending' = pending /\ older' = older /\ op' = op
  BY <1>1, <1>2 DEF Truncate, MustTruncate, InLoop
<1>4. TypeOK /\ Cancelled = {} /\ Cancelled' = {}
  BY <1>1 DEF IInv, Cancelled
<1>5. PICK l, i, j : l \in Locks /\ l = op.lock /\ i = op.start /\ j = pending[op.cur].start
  BY <1>3, FrameCells
<1>6. borrow[l] # None /\ borrow[l].start = i /\ i \in Nat /\ j \in Nat
  BY <1>3, <1>5, FrameCells
<1>7. /\ \A k \in Locks \ {l} : borrow'[k] = borrow[k]
      /\ borrow'[l] = BorrowUpTo(i, j)
  BY <1>3, <1>4, <1>5 DEF TypeOK
<1>8. borrow'[l] # None => borrow'[l].start = borrow[l].start
  BY <1>6, <1>7 DEF BorrowUpTo
<1>9. todo' = TruncateJobs(l)
  BY <1>1, <1>5
<1>10. Trees' /\ Queued' /\ ReadsInOrder' /\ WritesInOrder' /\ PendingsInOrder'
  <2>1. CASE borrow'[l] # None
    <3>1. Does(todo', ReadEnd(l), ReadEnd(l), {}, {}, {}, {})
      BY <1>4, <1>5, <1>6, <1>9, <2>1, TruncateJobsDo
    <3>. QED  BY <1>1, <1>3, <1>4, <1>5, <1>6, <1>7, <1>8, <2>1, <3>1, CellsKeep
  <2>2. CASE borrow'[l] = None
    <3>1. Does(todo', {}, ReadPair(l), {}, WriteOne(l), {}, {})
      BY <1>4, <1>5, <1>6, <1>9, <2>2, TruncateJobsDo
    <3>. QED  BY <1>1, <1>3, <1>4, <1>5, <1>6, <1>7, <2>2, <3>1, CellsKeep
  <2>. QED  BY <2>1, <2>2
<1>11. IsMax(upcoming, WaitersBefore(op.cur))'
  <2>1. upcoming' = upcoming
    BY <1>1 DEF locals
  <2>. QED  BY <1>2, <1>3, <2>1, SMT DEF IsMax, WaitersBefore, Waits, Before
<1>12. Unlocking'
  <2>1. InLoop'
    BY <1>2, <1>3 DEF InLoop
  <2>. QED  BY <1>1, <1>11, <2>1 DEF Unlocking
<1>13. Searching' /\ SearchesAgree'
  BY <1>1, NotSearching
<1>14. Next
  BY <1>1 DEF Next, unlock_inner
<1>. QED  BY <1>10, <1>12, <1>13, <1>14, TreesSplitNext DEF Stored

LEMMA TreeFinishKeeps ==
  ASSUME IInv, TreesIInv, Trees, TreeFinish
  PROVE  TreesIInv' /\ Trees' /\ [Next]_vars
<1>1. /\ stage = "rest" /\ stage' = "rest" /\ todo = <<>> /\ FinishUnlock /\ todo' = FinishJobs(op.lock)
      /\ UNCHANGED <<readsVars, writesVars, pendingsVars>>
  BY DEF TreeFinish, Quiet
<1>2. /\ op # None /\ borrow' = [borrow EXCEPT ![op.lock] = None]
      /\ pending' = pending /\ older' = older
  BY <1>1 DEF FinishUnlock
<1>3. TypeOK /\ Cancelled = {} /\ Cancelled' = {}
  BY <1>1 DEF IInv, Cancelled
<1>4. PICK l \in Locks : l = op.lock
  BY <1>2, FrameCells
<1>5. /\ \A k \in Locks \ {l} : borrow'[k] = borrow[k]
      /\ borrow'[l] = None /\ todo' = FinishJobs(l)
  BY <1>1, <1>2, <1>3, <1>4 DEF TypeOK
<1>6. Trees' /\ Queued' /\ ReadsInOrder' /\ WritesInOrder' /\ PendingsInOrder'
  <2>1. CASE borrow[l] # None
    <3>1. Does(todo', {}, ReadPair(l), {}, WriteOne(l), {}, {})
      BY <1>3, <1>5, <2>1, TruncateJobsDo
    <3>. QED  BY <1>1, <1>2, <1>3, <1>5, <2>1, <3>1, CellsKeep
  <2>2. CASE borrow[l] = None
    <3>1. todo' = <<>>
      BY <1>5, <2>2 DEF FinishJobs
    <3>2. Does(todo', {}, {}, {}, {}, {}, {})
      BY <3>1, NoJobs DEF Does
    <3>. QED  BY <1>1, <1>2, <1>3, <1>5, <2>2, <3>2, CellsKeep
  <2>. QED  BY <2>1, <2>2
<1>7. Next
  BY <1>1 DEF Next, unlock_inner
<1>. QED  BY <1>1, <1>6, <1>7, MethodEnd

\* A resumed borrow's pending node is taken out and, unless it is complete, put
\* back; its borrow is new, or its upper bound moves.
LEMMA ResumeJobsDo ==
  ASSUME NEW l \in Locks, pending'[l] # pending[l]
  PROVE  LET pi == IF pending'[l] = None THEN {} ELSE {l}
         IN  Does(ResumeJobs(l), IF borrow[l] = None THEN ReadPair(l) ELSE ReadEnd(l),
                  IF borrow[l] = None THEN {} ELSE ReadEnd(l),
                  IF borrow[l] = None THEN WriteOne(l) ELSE {}, {}, pi, {l})
<1>. DEFINE u == <<Take("pendings", l)>> \o (IF pending'[l] = None THEN <<>> ELSE <<Put("pendings", l)>>)
            s == IF borrow[l] = None THEN BorrowJobs(l) ELSE MoveJobs(l)
            ri == IF borrow[l] = None THEN ReadPair(l) ELSE ReadEnd(l)
            ro == IF borrow[l] = None THEN {} ELSE ReadEnd(l)
            wi == IF borrow[l] = None THEN WriteOne(l) ELSE {}
            pi == IF pending'[l] = None THEN {} ELSE {l}
<1>1. ResumeJobs(l) = u \o s
  BY DEF ResumeJobs
<1>2. Does(u, {}, {}, {}, {}, pi, {l})
  <2>. DEFINE a == Take("pendings", l)
              b == Put("pendings", l)
  <2>1. <<a>> \o <<>> = <<a>> /\ <<a>> \o <<b>> = <<a, b>>
    <3>1. a \in AllJobs /\ b \in AllJobs
      BY JobTypes
    <3>. HIDE DEF a, b
    <3>2. /\ <<a>> \in Seq(AllJobs) /\ <<b>> \in Seq(AllJobs) /\ <<a, b>> \in Seq(AllJobs)
          /\ Len(<<a>>) = 1 /\ Len(<<b>>) = 1 /\ Len(<<a, b>>) = 2
          /\ <<a>>[1] = a /\ <<b>>[1] = b /\ <<a, b>>[1] = a /\ <<a, b>>[2] = b
      BY <3>1
    <3>3. PICK v, w, x : v = <<a>> /\ w = <<b>> /\ x = <<a, b>>
      OBVIOUS
    <3>4. /\ v \o w \in Seq(AllJobs) /\ Len(v \o w) = 2 /\ (v \o w)[1] = a /\ (v \o w)[2] = b
          /\ x \in Seq(AllJobs) /\ Len(x) = 2 /\ x[1] = a /\ x[2] = b
      BY <3>2, <3>3, ConcatProperties
    <3>5. v \o w = x
      <4>1. \A i \in 1 .. Len(v \o w) : (v \o w)[i] = x[i]
        BY <3>4
      <4>. QED  BY <3>4, <4>1, SeqEqual
    <3>6. <<a>> \o <<>> = <<a>>
      BY <3>2, ConcatEmptySeq
    <3>. QED  BY <3>3, <3>5, <3>6
  <2>2. Does(<<a>>, {}, {}, {}, {}, {}, {l}) /\ Does(<<a, b>>, {}, {}, {}, {}, {l}, {l})
    BY TakeJobsDo
  <2>3. u = <<a>> \o (IF pending'[l] = None THEN <<>> ELSE <<b>>)
    OBVIOUS
  <2>. HIDE DEF a, b, u
  <2>4. CASE pending'[l] = None
    <3>1. u = <<a>>
      BY <2>1, <2>3, <2>4
    <3>. QED  BY <2>2, <2>4, <3>1
  <2>5. CASE pending'[l] # None
    <3>1. u = <<a, b>>
      BY <2>1, <2>3, <2>5
    <3>. QED  BY <2>2, <2>5, <3>1
  <2>. QED  BY <2>4, <2>5
<1>3. Does(s, ri, ro, wi, {}, {}, {})
  <2>1. CASE borrow[l] = None
    BY <2>1, BorrowJobsDo DEF ReadPair, WriteOne
  <2>2. CASE borrow[l] # None
    BY <2>2, MoveJobsDo DEF ReadEnd
  <2>. QED  BY <2>1, <2>2
<1>. HIDE DEF u, s, ri, ro, wi, pi
<1>4. Does(u \o s, ri, ro, wi, {}, pi, {l})
  BY <1>2, <1>3, BothDo
<1>. QED  BY <1>1, <1>4 DEF ri, ro, wi, pi

\* What resuming the pending borrow of l does to its cells.
LEMMA ResumeCells ==
  ASSUME IInv, InLoop, resume_borrow, NEW l \in Locks, l = op.cur, NEW c,
         c = FirstConflict(l, pending[l]), c # pending[l].start
  PROVE  /\ \A k \in Locks \ {l} : borrow'[k] = borrow[k] /\ pending'[k] = pending[k]
         /\ borrow'[l] # None /\ (borrow[l] # None => borrow'[l].start = borrow[l].start)
         /\ pending'[l] # pending[l] /\ pending[l] # None
         /\ c = None => pending'[l] = None /\ older' = RemoveOlder(l)
         /\ c # None => pending'[l] # None /\ older' = InsertOlder(l)
<1>1. TypeOK /\ pending[l] # None
  <2>1. op # None /\ op.cur # None
    BY DEF InLoop
  <2>2. l \in Waits
    BY <2>1, FrameCells
  <2>. QED  BY <2>2 DEF IInv, Waits
<1>2. /\ pending[l] \in Pendings /\ pending[l].start \in Indices /\ pending[l].end \in Indices
      /\ pending[l].start <= pending[l].end /\ pending[l].priority \in Priorities
      /\ Indices \subseteq Nat
  BY <1>1, IndexAssumption DEF TypeOK, Pendings, Indices
<1>3. c # None => c \in Indices /\ pending[l].start <= c /\ c <= pending[l].end
  BY <1>1, <1>2, ConflictInRange
<1>4. \/ /\ c # None /\ pending' = [pending EXCEPT ![l].start = c] /\ older' = InsertOlder(l)
         /\ borrow' = Expand(l, c)
      \/ /\ c = None /\ pending' = [pending EXCEPT ![l] = None] /\ older' = RemoveOlder(l)
         /\ borrow' = Expand(l, pending[l].end)
  BY DEF resume_borrow, ResumeAt
<1>5. \A k \in Locks \ {l} : borrow'[k] = borrow[k] /\ pending'[k] = pending[k]
  BY <1>1, <1>4 DEF Expand, TypeOK
<1>6. CASE c # None
  <2>1. pending' = [pending EXCEPT ![l].start = c] /\ older' = InsertOlder(l) /\ borrow' = Expand(l, c)
    BY <1>4, <1>6
  <2>2. pending'[l] = [start |-> c, end |-> pending[l].end, priority |-> pending[l].priority]
    BY <1>1, <1>2, <2>1 DEF TypeOK, Pendings
  <2>3. pending'[l] \in Pendings
    BY <1>2, <1>3, <1>6, <2>2 DEF Pendings
  <2>4. pending'[l] # None /\ pending'[l] # pending[l]
    BY <2>2, <2>3, NoneAssumption
  <2>5. ASSUME borrow[l] = None
        PROVE  borrow'[l] # None
    <3>1. borrow'[l] = [start |-> pending[l].start, end |-> c]
      BY <1>1, <2>1, <2>5 DEF Expand, TypeOK
    <3>2. borrow'[l] \in Ranges
      BY <1>2, <1>3, <1>6, <3>1 DEF Ranges
    <3>. QED  BY <3>2, NoneAssumption
  <2>. QED  BY <1>1, <1>5, <1>6, <2>1, <2>4, <2>5, ResumeGrows
<1>7. CASE c = None
  <2>1. pending' = [pending EXCEPT ![l] = None] /\ older' = RemoveOlder(l) /\ borrow' = Expand(l, pending[l].end)
    BY <1>4, <1>7
  <2>2. pending'[l] = None
    BY <1>1, <2>1 DEF TypeOK
  <2>3. ASSUME borrow[l] = None
        PROVE  borrow'[l] # None
    <3>1. borrow'[l] = [start |-> pending[l].start, end |-> pending[l].end]
      BY <1>1, <2>1, <2>3 DEF Expand, TypeOK
    <3>2. borrow'[l] \in Ranges
      BY <1>2, <3>1 DEF Ranges
    <3>. QED  BY <3>2, NoneAssumption
  <2>. QED  BY <1>1, <1>5, <1>7, <2>1, <2>2, <2>3, ResumeGrows
<1>. QED  BY <1>6, <1>7

LEMMA DecideResumeKeeps ==
  ASSUME IInv, TreesIInv, Trees, DecideResume
  PROVE  TreesIInv' /\ Trees' /\ [Next]_vars
<1>1. /\ stage = "decide" /\ InLoop /\ ResumeAt(lowest, upcoming) /\ todo' = ResumeJobs(op.cur)
      /\ stage' = "rest" /\ UNCHANGED <<readsVars, writesVars, pendingsVars>>
  BY DEF DecideResume, Rest
<1>2. Asked /\ todo = <<>> /\ SearchesAgree /\ op # None /\ op.cur # None
  BY <1>1 DEF TreesIInv, Searching, InLoop
<1>3. /\ ~MustTruncate /\ ask.lock = op.cur /\ IsMax(upcoming, WaitersBefore(op.cur))
      /\ ask.range = [start |-> pending[op.cur].start, end |-> pending[op.cur].end]
  BY <1>2 DEF Asked
<1>4. PICK l \in Waits : l = op.cur
  BY <1>2, FrameCells
<1>5. l \in Locks /\ l \in Blocking /\ TypeOK
  BY <1>4, WaitType DEF IInv
<1>6. Cancelled = {} /\ Cancelled' = {}
  BY <1>1 DEF Cancelled
<1>7. PICK c : c = FirstConflict(l, pending[l])
  OBVIOUS
<1>8. lowest = c
  <2>1. lowest = FirstConflict(ask.lock, ask.range)
    BY <1>1, <1>2, <1>3, <1>4, <1>5 DEF SearchesAgree
  <2>2. ask.range.start = pending[l].start /\ ask.range.end = pending[l].end
    BY <1>3, <1>4
  <2>3. PICK r, s : r = ask.range /\ s = pending[l]
    OBVIOUS
  <2>4. FirstConflict(l, r) = FirstConflict(l, s)
    BY <2>2, <2>3, ConflictOfRange
  <2>. QED  BY <1>3, <1>4, <1>7, <2>1, <2>3, <2>4
<1>9. resume_borrow
  <2>1. upcoming \in Locks \cup {None}
    BY <1>3 DEF IsMax, WaitersBefore, Waits, Blocking, Locks, Readers, Writers
  <2>. QED  BY <1>1, <1>3, <1>4, <1>7, <1>8, <2>1 DEF resume_borrow
<1>10. Next
  BY <1>9 DEF Next, unlock_inner
<1>11. Trees' /\ Queued' /\ ReadsInOrder' /\ WritesInOrder' /\ PendingsInOrder'
  <2>1. CASE c = pending[l].start
    <3>1. borrow' = borrow /\ pending' = pending /\ older' = older
      <4>1. c # None
        BY <1>5, <2>1, PendingType, NoneAssumption, WaitType
      <4>. QED  BY <1>1, <1>4, <1>8, <2>1, <4>1 DEF ResumeAt
    <3>2. todo' = <<>>
      BY <1>1, <1>4, <3>1 DEF ResumeJobs
    <3>3. Does(todo', {}, {}, {}, {}, {}, {})
      BY <3>2, NoJobs DEF Does
    <3>. QED  BY <1>1, <1>2, <1>5, <1>6, <3>1, <3>3, CellsKeep
  <2>2. CASE c # pending[l].start
    <3>1. /\ \A k \in Locks \ {l} : borrow'[k] = borrow[k] /\ pending'[k] = pending[k]
          /\ borrow'[l] # None /\ (borrow[l] # None => borrow'[l].start = borrow[l].start)
          /\ pending'[l] # pending[l] /\ pending[l] # None
          /\ c = None => pending'[l] = None /\ older' = RemoveOlder(l)
          /\ c # None => pending'[l] # None /\ older' = InsertOlder(l)
      BY <1>1, <1>4, <1>5, <1>7, <1>9, <2>2, ResumeCells
    <3>2. /\ \A m, n \in Locks \ {l} : n \in older'[m] <=> n \in older[m]
          /\ c # None => older'[l] = Waits \ {l}
      BY <1>5, <3>1, OlderOfOthers
    <3>3. \A k : k \in Waits' <=> k \in Blocking /\ pending'[k] # None
      BY Zenon DEF Waits
    <3>4. (l \in Waits' <=> c # None) /\ \A k : k # l => (k \in Waits' <=> k \in Waits)
      <4>1. \A k \in Blocking : k \in Locks
        BY DEF Blocking, Locks, Readers, Writers
      <4>. QED  BY <1>5, <3>1, <3>3, <4>1 DEF Waits
    <3>5. c # None => older'[l] = Waits' \ {l}
      BY <3>2, <3>4
    <3>6. Does(todo', IF borrow[l] = None THEN ReadPair(l) ELSE ReadEnd(l),
               IF borrow[l] = None THEN {} ELSE ReadEnd(l),
               IF borrow[l] = None THEN WriteOne(l) ELSE {}, {}, IF c = None THEN {} ELSE {l}, {l})
      <4>1. todo' = ResumeJobs(l)
        BY <1>1, <1>4
      <4>2. (IF pending'[l] = None THEN {} ELSE {l}) = IF c = None THEN {} ELSE {l}
        BY <3>1
      <4>. QED  BY <1>5, <3>1, <4>1, <4>2, ResumeJobsDo
    <3>7. PICK pi : pi = IF c = None THEN {} ELSE {l}
      OBVIOUS
    <3>8. \/ pi = {} /\ {l} = (Waits \ Cancelled) \cap {l} /\ l \notin Waits' \ Cancelled'
          \/ /\ pi = {l} /\ {l} = (Waits \ Cancelled) \cap {l} /\ l \in Waits' \ Cancelled'
             /\ older'[l] = Waits' \ {l}
      BY <1>4, <1>6, <3>4, <3>5, <3>7
    <3>9. CASE borrow[l] = None
      <4>1. Does(todo', ReadPair(l), {}, WriteOne(l), {}, pi, {l})
        BY <3>6, <3>7, <3>9
      <4>. QED  BY <1>1, <1>2, <1>5, <1>6, <3>1, <3>2, <3>8, <3>9, <4>1, CellsKeep
    <3>10. CASE borrow[l] # None
      <4>1. Does(todo', ReadEnd(l), ReadEnd(l), {}, {}, pi, {l})
        BY <3>6, <3>7, <3>10
      <4>. QED  BY <1>1, <1>2, <1>5, <1>6, <3>1, <3>2, <3>8, <3>10, <4>1, CellsKeep
    <3>. QED  BY <3>9, <3>10
  <2>. QED  BY <2>1, <2>2
<1>. QED  BY <1>1, <1>10, <1>11, MethodEnd

-----------------------------------------------------------------------------
(* The invariant *)

LEMMA InitTrees ==
  ASSUME TreeCoreInit
  PROVE  IInv /\ TreesIInv /\ Trees
<1>1. /\ Init /\ RP!TreeInit /\ WP!TreeInit /\ PP!TreeInit
      /\ R!TreeInit /\ W!TreeInit /\ P!TreeInit /\ stage = "rest" /\ todo = <<>>
  BY ReadsSame, WritesSame, PendingsSame DEF TreeCoreInit
<1>2. IInv
  BY <1>1, InitIInv
<1>3. RP!TreeInvariant
  <2>1. RP!TreeAssumption /\ RP!WeightAssumption
    BY ReadsWeights
  <2>2. RP!TreeAssumption
    BY <2>1
  <2>3. RP!WeightAssumption
    BY <2>1
  <2>. QED  BY <1>1, <2>2, <2>3, RP!InitialTree
<1>4. WP!TreeInvariant
  <2>1. WP!TreeAssumption
    BY WritesWeights
  <2>2. WP!WeightAssumption
    BY WritesWeights
  <2>. QED  BY <1>1, <2>1, <2>2, WP!InitialTree
<1>5. PP!TreeInvariant
  <2>1. PP!TreeAssumption
    BY PendingsWeights
  <2>2. PP!WeightAssumption
    BY PendingsWeights
  <2>. QED  BY <1>1, <2>1, <2>2, PP!InitialTree
<1>6. /\ reads.nodes = {} /\ readsPc = "idle" /\ writes.nodes = {} /\ writesPc = "idle"
      /\ pendings.nodes = {} /\ pendingsPc = "idle"
  BY <1>1 DEF R!TreeInit, W!TreeInit, P!TreeInit, R!Empty, W!Empty, P!Empty
<1>7. R!Members = {} /\ W!Members = {} /\ P!Members = {}
  BY <1>3, <1>4, <1>5, <1>6, ReadsAtRest, WritesAtRest, PendingsAtRest DEF Reading
<1>8. Reads \X {0, 1} = {} /\ Writes = {} /\ Waits = {}
  <2>1. \A l \in Locks : borrow[l] = None /\ pending[l] = None
    BY <1>1 DEF Init
  <2>2. Reads = {} /\ Writes = {} /\ Waits = {}
    BY <2>1 DEF Reads, Writes, Waits, Blocking, Locks, Readers, Writers
  <2>. QED  BY <2>2
<1>9. InTurn(todo) /\ \A t, job : Jobs(t, job) = {}
  BY <1>1, NoJobs DEF Jobs
<1>10. Queued
  BY <1>9, Zenon DEF Queued, InTurn
<1>11. ReadsInOrder
  BY <1>7, <1>8, <1>9, ReadsInOrderNow DEF Settles
<1>12. WritesInOrder
  BY <1>7, <1>8, <1>9, WritesInOrderNow DEF Settles
<1>13. PendingsInOrder
  BY <1>7, <1>8, <1>9, PendingsInOrderNow DEF Settles
<1>14. Searching /\ SearchesAgree /\ Unlocking
  BY <1>1 DEF Searching, SearchesAgree, Unlocking
<1>. QED  BY <1>2, <1>3, <1>4, <1>5, <1>10, <1>11, <1>12, <1>13, <1>14 DEF TreesIInv, Trees

LEMMA NothingKeeps ==
  ASSUME TreesIInv, Trees, UNCHANGED treeVars
  PROVE  TreesIInv' /\ Trees' /\ UNCHANGED vars
<1>1. UNCHANGED <<vars, readsVars, writesVars, pendingsVars, stage, locals, todo>>
  BY DEF treeVars
<1>2. UNCHANGED <<vars, ask, lowest, upcoming, found, stage, todo>>
  BY <1>1 DEF locals
<1>3. /\ RP!TreeInvariant' /\ R!Members' = R!Members /\ R!Order' = R!Order
      /\ reads' = reads /\ readsOrder' = readsOrder /\ readsPc' = readsPc /\ readsNode' = readsNode
      /\ readsSide' = readsSide /\ readsGoal' = readsGoal
  BY <1>1, ReadsStay DEF Trees
<1>4. /\ WP!TreeInvariant' /\ W!Members' = W!Members /\ W!Order' = W!Order
      /\ writes' = writes /\ writesPc' = writesPc /\ writesSide' = writesSide /\ writesGoal' = writesGoal
  BY <1>1, WritesStay DEF Trees
<1>5. /\ PP!TreeInvariant' /\ P!Members' = P!Members /\ P!Order' = P!Order
      /\ pendings' = pendings /\ pendingsOrder' = pendingsOrder /\ pendingsPc' = pendingsPc
      /\ pendingsSide' = pendingsSide /\ pendingsGoal' = pendingsGoal
  BY <1>1, PendingsStay DEF Trees
<1>6. Stored /\ Searching /\ Unlocking /\ SearchesAgree
  BY TreesSplit
<1>7. Cancelled' = Cancelled
  BY <1>2, Zenon DEF Cancelled
<1>8. Stored'
  BY <1>2, <1>3, <1>4, <1>5, <1>6, <1>7, StoredStays DEF SameMembers
<1>9. SearchesAgree'
  BY <1>2, <1>6, AgreementStays
<1>10. Searching'
  <2>1. /\ stage = "write" => writesPc \in Walking
        /\ stage = "read" => readsPc \in Walking
        /\ stage = "sum" => readsPc = "idle" \/ (readsPc = "rank" /\ readsNode = found)
    BY <1>6 DEF Searching
  <2>. QED  BY <1>1, <1>2, <1>3, <1>4, <1>5, <1>6, <2>1, SearchingStays
<1>11. Unlocking'
  <2>1. stage \in {"above", "enter", "next"} => pendingsPc \in Walking
    BY <1>6 DEF Unlocking
  <2>. QED  BY <1>1, <1>2, <1>3, <1>4, <1>5, <1>6, <2>1, UnlockingStays
<1>. QED  BY <1>1, <1>3, <1>4, <1>5, <1>8, <1>9, <1>10, <1>11, TreesSplitNext DEF Trees

\* Every step keeps the invariant and is a step of RbTreeCore, or none there.
LEMMA NextTrees ==
  ASSUME DebugAssertions, IInv, TreesIInv, Trees, [TreeCoreNext]_treeVars
  PROVE  IInv' /\ TreesIInv' /\ Trees' /\ [Next]_vars
<1>1. TypeOK /\ OlderOrder
  BY DEF IInv
<1>2. TreesIInv' /\ Trees' /\ [Next]_vars
  <2>1. CASE \E l \in Locks, r \in Ranges :
               \E p \in IF l \in Blocking THEN Priorities ELSE {None} : BeginLock(l, r, p)
    <3>1. PICK l \in Locks, r \in Ranges :
             \E p \in IF l \in Blocking THEN Priorities ELSE {None} : BeginLock(l, r, p)
      BY <2>1
    <3>2. PICK p \in IF l \in Blocking THEN Priorities ELSE {None} : BeginLock(l, r, p)
      BY <3>1
    <3>. QED  BY <3>2, BeginLockKeeps
  <2>2. CASE \E l \in Locks : BeginUnlock(l)
    BY <2>2, BeginUnlockKeeps
  <2>3. CASE TreeLoops
    BY <2>3, LoopsKeep
  <2>4. CASE Job
    BY <1>1, <2>4, JobKeeps
  <2>5. CASE WriteFound
    BY <2>5, WriteFoundKeeps
  <2>6. CASE ReadFound
    BY <2>6, ReadFoundKeeps
  <2>7. CASE BeginSum
    BY <2>7, BeginSumKeeps
  <2>8. CASE SumFound
    BY <2>8, SumFoundKeeps
  <2>9. CASE DecideLock
    BY <2>9, DecideLockKeeps
  <2>10. CASE DecideTryLock
    BY <2>10, DecideTryLockKeeps
  <2>11. CASE UnlockNothing
    BY <2>11, UnlockNothingKeeps
  <2>12. CASE SeekEntry
    BY <2>12, SeekEntryKeeps
  <2>13. CASE AboveFound
    BY <2>13, AboveFoundKeeps
  <2>14. CASE BeginLast
    BY <2>14, BeginLastKeeps
  <2>15. CASE EnterLoop
    BY <2>15, EnterLoopKeeps
  <2>16. CASE BeginTurn
    BY <2>16, BeginTurnKeeps
  <2>17. CASE NextFound
    BY <2>17, NextFoundKeeps
  <2>18. CASE TurnTruncate
    BY <2>18, TurnTruncateKeeps
  <2>19. CASE TurnSeek
    BY <2>19, TurnSeekKeeps
  <2>20. CASE DecideResume
    BY <2>20, DecideResumeKeeps
  <2>21. CASE TreeFinish
    BY <2>21, TreeFinishKeeps
  <2>22. CASE UNCHANGED treeVars
    BY <2>22, NothingKeeps
  <2>. QED  BY <2>1, <2>2, <2>3, <2>4, <2>5, <2>6, <2>7, <2>8, <2>9, <2>10, <2>11, <2>12, <2>13,
                <2>14, <2>15, <2>16, <2>17, <2>18, <2>19, <2>20, <2>21, <2>22 DEF TreeCoreNext
<1>. QED  BY <1>2, NextIInv

\* The invariant says that the trees are sound.
LEMMA TreesAreSound ==
  ASSUME TreesIInv, Trees
  PROVE  TreesSound
<1>1. RP!TreeInvariant /\ WP!TreeInvariant /\ PP!TreeInvariant /\ Queued
  BY DEF Trees, TreesIInv
<1>2. reads.ok /\ writes.ok /\ pendings.ok
  BY <1>1 DEF RP!TreeInvariant, RP!LoopInvariant, WP!TreeInvariant, WP!LoopInvariant,
              PP!TreeInvariant, PP!LoopInvariant
<1>3. ASSUME Quiet
      PROVE  /\ reads.nodes = Reads \X {0, 1} /\ writes.nodes = Writes
             /\ pendings.nodes = Waits \ Cancelled
             /\ R!LinksAgree(reads) /\ W!LinksAgree(writes) /\ P!LinksAgree(pendings)
             /\ R!RedApart(reads, None) /\ W!RedApart(writes, None) /\ P!RedApart(pendings, None)
             /\ R!SumsExact(reads, ReadWeight)
  <2>1. todo = <<>> /\ readsPc \in Reading /\ writesPc \in Reading /\ pendingsPc \in Reading
    BY <1>3 DEF Quiet, Reading
  <2>. QED  BY <1>1, <2>1, AllDone, ReadsAtRest, WritesAtRest, PendingsAtRest, ReadsSummed
<1>4. ASSUME readsPc = "idle", writesPc = "idle", pendingsPc = "idle", todo # <<>>
      PROVE  LET j     == Head(todo)
                 nodes == CASE j.tree = "reads"  -> reads.nodes
                            [] j.tree = "writes" -> writes.nodes
                            [] OTHER             -> pendings.nodes
             IN  j.job = "insert" <=> j.node \notin nodes
  <2>1. R!Members = reads.nodes /\ W!Members = writes.nodes /\ P!Members = pendings.nodes
    BY <1>1, <1>4, ReadsAtRest, WritesAtRest, PendingsAtRest DEF Reading
  <2>2. PICK j : j = Head(todo)
    OBVIOUS
  <2>3. InTurn(todo)
    BY <1>1, Zenon DEF Queued, InTurn
  <2>4. j \in AllJobs /\ (j.job = "insert" => Jobs(j.tree, "remove") = {})
    BY <1>4, <2>2, <2>3, QueueHead DEF Jobs
  <2>5. j.node \in Jobs(j.tree, j.job)
    BY <1>4, <2>2, <2>3, QueueHead DEF Jobs, NodeOf
  <2>6. j.tree \in {"reads", "writes", "pendings"} /\ j.job \in {"insert", "remove"}
    BY <2>4 DEF AllJobs
  <2>7. CASE j.tree = "reads"
    <3>1. Settles(reads.nodes, Jobs("reads", "remove"), Jobs("reads", "insert"), Reads \X {0, 1})
      BY <2>1, ReadsInOrderNow DEF TreesIInv
    <3>2. j.job = "insert" <=> j.node \notin reads.nodes
      BY <2>4, <2>5, <2>6, <2>7, <3>1 DEF Settles
    <3>. QED  BY <2>2, <2>7, <3>2
  <2>8. CASE j.tree = "writes"
    <3>1. Settles(writes.nodes, Jobs("writes", "remove"), Jobs("writes", "insert"), Writes)
      BY <2>1, WritesInOrderNow DEF TreesIInv
    <3>2. j.job = "insert" <=> j.node \notin writes.nodes
      BY <2>4, <2>5, <2>6, <2>8, <3>1 DEF Settles
    <3>. QED  BY <2>2, <2>8, <3>2
  <2>9. CASE j.tree = "pendings"
    <3>1. Settles(pendings.nodes, Jobs("pendings", "remove"), Jobs("pendings", "insert"), Waits \ Cancelled)
      BY <2>1, PendingsInOrderNow DEF TreesIInv
    <3>2. j.job = "insert" <=> j.node \notin pendings.nodes
      BY <2>4, <2>5, <2>6, <2>9, <3>1 DEF Settles
    <3>. QED  BY <2>2, <2>9, <3>2
  <2>. QED  BY <2>6, <2>7, <2>8, <2>9
<1>. QED  BY <1>2, <1>3, <1>4 DEF TreesSound

-----------------------------------------------------------------------------
(* The theorems *)

\* The three trees, the queue of insertions and removals, the searches and the
\* walks of the unlock loop stay as the invariant says in every core built
\* with debug assertions, whatever the sizes, shapes and colours of the trees.
THEOREM TreesInvariance ==
  ASSUME DebugAssertions
  PROVE  TreeCoreSpec => [](IInv /\ TreesIInv /\ Trees)
<1>. DEFINE Inv == IInv /\ TreesIInv /\ Trees
<1>1. TreeCoreInit => Inv
  BY InitTrees
<1>2. Inv /\ [TreeCoreNext]_treeVars => Inv'
  BY NextTrees
<1>. HIDE DEF Inv
<1>3. TreeCoreSpec => []Inv
  BY <1>1, <1>2, PTL DEF TreeCoreSpec
<1>. QED  BY <1>3 DEF Inv

\* The methods that search and change the trees step by step do to the cells,
\* the callbacks and the unlock loop exactly what RbTreeCore says, so that
\* whatever is proved of RbTreeCore holds of them.
THEOREM TreesRefine == ASSUME DebugAssertions PROVE TreeCoreSpec => ImplementsCore
<1>. DEFINE Inv == IInv /\ TreesIInv /\ Trees
<1>1. TreeCoreInit => Init
  BY DEF TreeCoreInit
<1>2. Inv /\ [TreeCoreNext]_treeVars => [Next]_vars
  BY NextTrees
<1>3. TreeCoreSpec => []Inv
  BY TreesInvariance
<1>. HIDE DEF Inv
<1>. QED  BY <1>1, <1>2, <1>3, PTL DEF TreeCoreSpec, ImplementsCore, Spec

\* No assertion or unreachable arm of the tree code is reached by what the core
\* does with its trees; between operations they hold what the cells hold; no
\* node is inserted twice or removed while it is not there.
THEOREM TreesStaySound == ASSUME DebugAssertions PROVE TreeCoreSpec => []TreesSound
<1>1. IInv /\ TreesIInv /\ Trees => TreesSound
  BY TreesAreSound
<1>. QED  BY <1>1, TreesInvariance, PTL

\* The conflict that a method finds by its searches of `writes` and `reads` is
\* the lowest index that is borrowed.
THEOREM SearchesAlwaysAgree == ASSUME DebugAssertions PROVE TreeCoreSpec => []SearchesAgree
<1>1. IInv /\ TreesIInv /\ Trees => SearchesAgree
  BY DEF TreesIInv
<1>. QED  BY <1>1, TreesInvariance, PTL

\* The debug assertions of first_read_borrow_in_range never fail.
THEOREM FirstEndpointIsAlwaysLower == ASSUME DebugAssertions PROVE TreeCoreSpec => []FirstEndpointIsLower
<1>1. IInv /\ TreesIInv /\ Trees => FirstEndpointIsLower
  BY SumComplete DEF FirstEndpointIsLower
<1>. QED  BY <1>1, TreesInvariance, PTL

\* Clients of the core that works on its trees never hold conflicting ranges,
\* and nobody is left waiting without a borrow that blocks him.
THEOREM TreesKeepPromises ==
  ASSUME DebugAssertions
  PROVE  TreeCoreSpec => [](MutualExclusion /\ PendingBlocked /\ DeadlockFree)
<1>1. Spec => []MutualExclusion
  BY MutualExclusionHolds
<1>2. Spec => []PendingBlocked
  BY PendingBlockedHolds
<1>3. Spec => []DeadlockFree
  BY DeadlockFreeHolds
<1>4. TreeCoreSpec => Spec
  BY TreesRefine DEF ImplementsCore
<1>. QED  BY <1>1, <1>2, <1>3, <1>4, PTL
=============================================================================
