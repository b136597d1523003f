--------------------------- MODULE TreeCoreSearches ---------------------------
(***************************************************************************)
(* The steps of TreeCore that change a tree without changing a cell, and   *)
(* the searches and walks that the methods of the core make between them,  *)
(* keep the invariant of TreeCore and take no step of RbTreeCore.          *)
(***************************************************************************)
EXTENDS TreeCoreLemmas

-----------------------------------------------------------------------------
(* The next job *)

\* The head of the queue is taken up.
LEMMA JobTaken ==
  ASSUME Queued, todo # <<>>, todo' = Tail(todo)
  PROVE  /\ Queued' /\ Head(todo) \in AllJobs
         /\ \A t, job : Jobs(t, job) = JobsIn(todo', t, job) \cup NodeOf(Head(todo), t, job)
         /\ Head(todo).node \notin JobsIn(todo', Head(todo).tree, Head(todo).job)
         /\ Head(todo).job = "insert" => Jobs(Head(todo).tree, "remove") = {}
<1>1. InTurn(todo) /\ (Queued' <=> InTurn(Tail(todo)))
  BY QueuedNext, Zenon DEF Queued, InTurn
<1>2. \A t, job : Jobs(t, job) = JobsIn(todo, t, job)
  BY Zenon DEF Jobs
<1>. QED  BY <1>1, <1>2, QueueHead, Zenon

\* So much of it concerns `reads`.
LEMMA ReadsJobTaken ==
  ASSUME Queued, todo # <<>>, todo' = Tail(todo), Head(todo).tree = "reads"
  PROVE  /\ Head(todo).job = "insert" =>
              /\ Jobs("reads", "remove") = {} /\ JobsIn(todo', "reads", "remove") = {}
              /\ Jobs("reads", "insert") = JobsIn(todo', "reads", "insert") \cup {Head(todo).node}
              /\ Head(todo).node \notin JobsIn(todo', "reads", "insert")
         /\ Head(todo).job = "remove" =>
              /\ Jobs("reads", "insert") = JobsIn(todo', "reads", "insert")
              /\ Jobs("reads", "remove") = JobsIn(todo', "reads", "remove") \cup {Head(todo).node}
              /\ Head(todo).node \notin JobsIn(todo', "reads", "remove")
         /\ \A job : /\ Jobs("writes", job) = JobsIn(todo', "writes", job)
                     /\ Jobs("pendings", job) = JobsIn(todo', "pendings", job)
<1>. DEFINE in == JobsIn(todo', "reads", "insert")
            out == JobsIn(todo', "reads", "remove")
<1>1. /\ \A t, job : Jobs(t, job) = JobsIn(todo', t, job) \cup NodeOf(Head(todo), t, job)
      /\ Head(todo).node \notin JobsIn(todo', Head(todo).tree, Head(todo).job)
      /\ Head(todo).job = "insert" => Jobs(Head(todo).tree, "remove") = {}
  BY JobTaken, Zenon
<1>2. /\ Jobs("reads", "insert") = in \cup NodeOf(Head(todo), "reads", "insert")
      /\ Jobs("reads", "remove") = out \cup NodeOf(Head(todo), "reads", "remove")
  BY <1>1, Zenon
<1>3. \A job : /\ Jobs("writes", job) = JobsIn(todo', "writes", job) \cup NodeOf(Head(todo), "writes", job)
               /\ Jobs("pendings", job) = JobsIn(todo', "pendings", job) \cup NodeOf(Head(todo), "pendings", job)
  BY <1>1, Zenon
<1>4. \A job : NodeOf(Head(todo), "writes", job) = {} /\ NodeOf(Head(todo), "pendings", job) = {}
  BY DEF NodeOf
<1>5. \A job : NodeOf(Head(todo), "reads", job) = IF Head(todo).job = job THEN {Head(todo).node} ELSE {}
  BY DEF NodeOf
<1>. HIDE DEF in, out
<1>. QED  BY <1>1, <1>2, <1>3, <1>4, <1>5 DEF in, out

\* So much of it concerns `writes`.
LEMMA WritesJobTaken ==
  ASSUME Queued, todo # <<>>, todo' = Tail(todo), Head(todo).tree = "writes"
  PROVE  /\ Head(todo).job = "insert" =>
              /\ Jobs("writes", "remove") = {} /\ JobsIn(todo', "writes", "remove") = {}
              /\ Jobs("writes", "insert") = JobsIn(todo', "writes", "insert") \cup {Head(todo).node}
              /\ Head(todo).node \notin JobsIn(todo', "writes", "insert")
         /\ Head(todo).job = "remove" =>
              /\ Jobs("writes", "insert") = JobsIn(todo', "writes", "insert")
              /\ Jobs("writes", "remove") = JobsIn(todo', "writes", "remove") \cup {Head(todo).node}
              /\ Head(todo).node \notin JobsIn(todo', "writes", "remove")
         /\ \A job : /\ Jobs("reads", job) = JobsIn(todo', "reads", job)
                     /\ Jobs("pendings", job) = JobsIn(todo', "pendings", job)
<1>. DEFINE in == JobsIn(todo', "writes", "insert")
            out == JobsIn(todo', "writes", "remove")
<1>1. /\ \A t, job : Jobs(t, job) = JobsIn(todo', t, job) \cup NodeOf(Head(todo), t, job)
      /\ Head(todo).node \notin JobsIn(todo', Head(todo).tree, Head(todo).job)
      /\ Head(todo).job = "insert" => Jobs(Head(todo).tree, "remove") = {}
  BY JobTaken, Zenon
<1>2. /\ Jobs("writes", "insert") = in \cup NodeOf(Head(todo), "writes", "insert")
      /\ Jobs("writes", "remove") = out \cup NodeOf(Head(todo), "writes", "remove")
  BY <1>1, Zenon
<1>3. \A job : /\ Jobs("reads", job) = JobsIn(todo', "reads", job) \cup NodeOf(Head(todo), "reads", job)
               /\ Jobs("pendings", job) = JobsIn(todo', "pendings", job) \cup NodeOf(Head(todo), "pendings", job)
  BY <1>1, Zenon
<1>4. \A job : NodeOf(Head(todo), "reads", job) = {} /\ NodeOf(Head(todo), "pendings", job) = {}
  BY DEF NodeOf
<1>5. \A job : NodeOf(Head(todo), "writes", job) = IF Head(todo).job = job THEN {Head(todo).node} ELSE {}
  BY DEF NodeOf
<1>. HIDE DEF in, out
<1>. QED  BY <1>1, <1>2, <1>3, <1>4, <1>5 DEF in, out

\* So much of it concerns `pendings`.
LEMMA PendingsJobTaken ==
  ASSUME Queued, todo # <<>>, todo' = Tail(todo), Head(todo).tree = "pendings"
  PROVE  /\ Head(todo).job = "insert" =>
              /\ Jobs("pendings", "remove") = {} /\ JobsIn(todo', "pendings", "remove") = {}
              /\ Jobs("pendings", "insert") = JobsIn(todo', "pendings", "insert") \cup {Head(todo).node}
              /\ Head(todo).node \notin JobsIn(todo', "pendings", "insert")
         /\ Head(todo).job = "remove" =>
              /\ Jobs("pendings", "insert") = JobsIn(todo', "pendings", "insert")
              /\ Jobs("pendings", "remove") = JobsIn(todo', "pendings", "remove") \cup {Head(todo).node}
              /\ Head(todo).node \notin JobsIn(todo', "pendings", "remove")
         /\ \A job : /\ Jobs("reads", job) = JobsIn(todo', "reads", job)
                     /\ Jobs("writes", job) = JobsIn(todo', "writes", job)
<1>. DEFINE in == JobsIn(todo', "pendings", "insert")
            out == JobsIn(todo', "pendings", "remove")
<1>1. /\ \A t, job : Jobs(t, job) = JobsIn(todo', t, job) \cup NodeOf(Head(todo), t, job)
      /\ Head(todo).node \notin JobsIn(todo', Head(todo).tree, Head(todo).job)
      /\ Head(todo).job = "insert" => Jobs(Head(todo).tree, "remove") = {}
  BY JobTaken, Zenon
<1>2. /\ Jobs("pendings", "insert") = in \cup NodeOf(Head(todo), "pendings", "insert")
      /\ Jobs("pendings", "remove") = out \cup NodeOf(Head(todo), "pendings", "remove")
  BY <1>1, Zenon
<1>3. \A job : /\ Jobs("reads", job) = JobsIn(todo', "reads", job) \cup NodeOf(Head(todo), "reads", job)
               /\ Jobs("writes", job) = JobsIn(todo', "writes", job) \cup NodeOf(Head(todo), "writes", job)
  BY <1>1, Zenon
<1>4. \A job : NodeOf(Head(todo), "reads", job) = {} /\ NodeOf(Head(todo), "writes", job) = {}
  BY DEF NodeOf
<1>5. \A job : NodeOf(Head(todo), "pendings", job) = IF Head(todo).job = job THEN {Head(todo).node} ELSE {}
  BY DEF NodeOf
<1>. HIDE DEF in, out
<1>. QED  BY <1>1, <1>2, <1>3, <1>4, <1>5 DEF in, out

LEMMA ReadsJobKeeps ==
  ASSUME TypeOK, Stored, RP!TreeInvariant, readsPc = "idle", todo' = Tail(todo), UNCHANGED vars, ReadsJob
  PROVE  RP!TreeInvariant' /\ ReadsInOrder'
<1>. DEFINE n == Head(todo).node
            nodes == Reads \X {0, 1}
            in == JobsIn(todo', "reads", "insert")
            out == JobsIn(todo', "reads", "remove")
<1>1. todo # <<>> /\ Head(todo).tree = "reads" /\ Queued
  BY DEF ReadsJob, Stored
<1>2. R!Members = reads.nodes /\ R!Order = readsOrder /\ reads.nodes \subseteq ReadNodes
  BY ReadsAtRest DEF Reading
<1>3. /\ Settles(reads.nodes, Jobs("reads", "remove"), Jobs("reads", "insert"), nodes)
      /\ \A x, y \in reads.nodes \ Jobs("reads", "remove") : <<x, y>> \in readsOrder => Index(x) <= Index(y)
  BY <1>2, ReadsInOrderNow, Zenon DEF Stored
<1>4. /\ Head(todo).job = "insert" =>
           /\ Jobs("reads", "remove") = {} /\ out = {}
           /\ Jobs("reads", "insert") = in \cup {n} /\ n \notin in
      /\ Head(todo).job = "remove" =>
           /\ Jobs("reads", "insert") = in
           /\ Jobs("reads", "remove") = out \cup {n} /\ n \notin out
  BY <1>1, ReadsJobTaken, Zenon
<1>5. (Reads \X {0, 1})' = nodes /\ \A x : Index(x)' = Index(x)
  BY Zenon DEF vars, Reads, Index
<1>6. \A x \in nodes : Index(x) \in Nat /\ x \in ReadNodes
  BY IndexType
<1>. HIDE DEF n, nodes
<1>7. ASSUME Settles(R!Members', out, in, nodes),
             \A x, y \in R!Members' \ out : <<x, y>> \in R!Order' => Index(x) <= Index(y)
      PROVE  ReadsInOrder'
  BY <1>5, <1>7, ReadsInOrderNext, Zenon
<1>. HIDE DEF in, out
<1>8. CASE Head(todo).job = "insert"
  <2>. DEFINE S == {m \in reads.nodes : Index(n) < Index(m)}
  <2>1. R!TreeInsert(n, S)
    BY <1>1, <1>8 DEF ReadsJob, n
  <2>2. Settles(reads.nodes \cup {n}, {}, in, nodes) /\ n \in nodes /\ reads.nodes \subseteq nodes
    <3>1. Settles(reads.nodes, {}, in \cup {n}, nodes) /\ n \notin in
      BY <1>3, <1>4, <1>8
    <3>. QED  BY <3>1 DEF Settles
  <2>3. S \in SUBSET reads.nodes
    OBVIOUS
  <2>4. \A x, y \in reads.nodes : <<x, y>> \in readsOrder => Index(x) <= Index(y)
    BY <1>3, <1>4, <1>8
  <2>5. R!Upward(S)
    <3>1. ASSUME NEW x \in S, NEW y \in reads.nodes, <<x, y>> \in readsOrder
          PROVE  y \in S
      <4>1. Index(x) <= Index(y) /\ Index(n) < Index(x)
        BY <2>4, <3>1
      <4>2. Index(x) \in Nat /\ Index(y) \in Nat /\ Index(n) \in Nat
        BY <1>6, <2>2
      <4>. QED  BY <4>1, <4>2
    <3>. QED  BY <3>1 DEF R!Upward
  <2>6. /\ RP!TreeInvariant' /\ R!Members' = R!Members \cup {n} /\ n \notin R!Members
        /\ \A k, l \in R!Members : <<k, l>> \in R!Order' <=> <<k, l>> \in R!Order
        /\ \A k \in R!Members : <<k, n>> \in R!Order' <=> k \notin S
        /\ \A k \in R!Members : <<n, k>> \in R!Order' <=> k \in S
        /\ <<n, n>> \notin R!Order'
    BY <1>6, <2>1, <2>2, <2>3, <2>5, ReadsInsert
  <2>7. ASSUME NEW x \in reads.nodes \cup {n}, NEW y \in reads.nodes \cup {n}, <<x, y>> \in R!Order'
        PROVE  Index(x) <= Index(y)
    <3>1. Index(x) \in Nat /\ Index(y) \in Nat /\ Index(n) \in Nat
      BY <1>6, <2>2
    <3>2. CASE x # n /\ y # n
      BY <1>2, <2>4, <2>6, <2>7, <3>2
    <3>3. CASE x # n /\ y = n
      <4>1. x \notin S /\ x \in reads.nodes
        BY <1>2, <2>6, <2>7, <3>3
      <4>. QED  BY <3>1, <3>3, <4>1
    <3>4. CASE x = n /\ y # n
      <4>1. y \in S
        BY <1>2, <2>6, <2>7, <3>4
      <4>. QED  BY <3>1, <3>4, <4>1
    <3>5. CASE x = n /\ y = n
      BY <2>6, <2>7, <3>5
    <3>. QED  BY <3>2, <3>3, <3>4, <3>5
  <2>. HIDE DEF S
  <2>. QED  BY <1>2, <1>4, <1>7, <1>8, <2>2, <2>6, <2>7
<1>9. CASE Head(todo).job = "remove"
  <2>1. Settles(reads.nodes \ {n}, out, in, nodes) /\ n \in reads.nodes
        /\ (reads.nodes \ {n}) \ out = reads.nodes \ Jobs("reads", "remove")
    <3>1. Settles(reads.nodes, out \cup {n}, in, nodes) /\ n \notin out
          /\ Jobs("reads", "remove") = out \cup {n}
      BY <1>3, <1>4, <1>9
    <3>. QED  BY <3>1 DEF Settles
  <2>2. R!TreeRemove(n) /\ n \in ReadNodes
    BY <1>1, <1>2, <1>9, <2>1 DEF ReadsJob, n
  <2>3. /\ RP!TreeInvariant' /\ R!Members' = R!Members \ {n}
        /\ \A k, l \in R!Members \ {n} : <<k, l>> \in R!Order' <=> <<k, l>> \in R!Order
    BY <2>2, ReadsRemove
  <2>4. ASSUME NEW x \in (reads.nodes \ {n}) \ out, NEW y \in (reads.nodes \ {n}) \ out, <<x, y>> \in R!Order'
        PROVE  Index(x) <= Index(y)
    <3>1. <<x, y>> \in readsOrder
      BY <1>2, <2>3, <2>4
    <3>. QED  BY <1>3, <2>1, <3>1
  <2>. QED  BY <1>2, <1>7, <2>1, <2>3, <2>4
<1>. QED  BY <1>8, <1>9 DEF ReadsJob

LEMMA WritesJobKeeps ==
  ASSUME TypeOK, Stored, WP!TreeInvariant, writesPc = "idle", todo' = Tail(todo), UNCHANGED vars, WritesJob
  PROVE  WP!TreeInvariant' /\ WritesInOrder'
<1>. DEFINE n == Head(todo).node
            nodes == Writes
            in == JobsIn(todo', "writes", "insert")
            out == JobsIn(todo', "writes", "remove")
<1>1. todo # <<>> /\ Head(todo).tree = "writes" /\ Queued
  BY DEF WritesJob, Stored
<1>2. W!Members = writes.nodes /\ W!Order = writesOrder /\ writes.nodes \subseteq Writers
  BY WritesAtRest DEF Reading
<1>3. /\ Settles(writes.nodes, Jobs("writes", "remove"), Jobs("writes", "insert"), nodes)
      /\ \A x, y \in writes.nodes \ Jobs("writes", "remove") : <<x, y>> \in writesOrder => borrow[x].start <= borrow[y].start
  BY <1>2, WritesInOrderNow, Zenon DEF Stored
<1>4. /\ Head(todo).job = "insert" =>
           /\ Jobs("writes", "remove") = {} /\ out = {}
           /\ Jobs("writes", "insert") = in \cup {n} /\ n \notin in
      /\ Head(todo).job = "remove" =>
           /\ Jobs("writes", "insert") = in
           /\ Jobs("writes", "remove") = out \cup {n} /\ n \notin out
  BY <1>1, WritesJobTaken, Zenon
<1>5. Writes' = nodes /\ borrow' = borrow
  BY Zenon DEF vars, Writes
<1>6. \A x \in nodes : borrow[x].start \in Nat /\ x \in Writers
  <2>1. \A x \in Writes : x \in Locks /\ x \in Writers /\ borrow[x] # None
    BY DEF Writes, Locks
  <2>. QED  BY <2>1, BorrowType DEF nodes
<1>. HIDE DEF n, nodes
<1>7. ASSUME Settles(W!Members', out, in, nodes),
             \A x, y \in W!Members' \ out : <<x, y>> \in W!Order' => borrow[x].start <= borrow[y].start
      PROVE  WritesInOrder'
  BY <1>5, <1>7, WritesInOrderNext, Zenon
<1>. HIDE DEF in, out
<1>8. CASE Head(todo).job = "insert"
  <2>. DEFINE S == {m \in writes.nodes : borrow[n].start < borrow[m].start}
  <2>1. W!TreeInsert(n, S)
    BY <1>1, <1>8 DEF WritesJob, n
  <2>2. Settles(writes.nodes \cup {n}, {}, in, nodes) /\ n \in nodes /\ writes.nodes \subseteq nodes
    <3>1. Settles(writes.nodes, {}, in \cup {n}, nodes) /\ n \notin in
      BY <1>3, <1>4, <1>8
    <3>. QED  BY <3>1 DEF Settles
  <2>3. S \in SUBSET writes.nodes
    OBVIOUS
  <2>4. \A x, y \in writes.nodes : <<x, y>> \in writesOrder => borrow[x].start <= borrow[y].start
    BY <1>3, <1>4, <1>8
  <2>5. W!Upward(S)
    <3>1. ASSUME NEW x \in S, NEW y \in writes.nodes, <<x, y>> \in writesOrder
          PROVE  y \in S
      <4>1. borrow[x].start <= borrow[y].start /\ borrow[n].start < borrow[x].start
        BY <2>4, <3>1
      <4>2. borrow[x].start \in Nat /\ borrow[y].start \in Nat /\ borrow[n].start \in Nat
        BY <1>6, <2>2
      <4>. QED  BY <4>1, <4>2
    <3>. QED  BY <3>1 DEF W!Upward
  <2>6. /\ WP!TreeInvariant' /\ W!Members' = W!Members \cup {n} /\ n \notin W!Members
        /\ \A k, l \in W!Members : <<k, l>> \in W!Order' <=> <<k, l>> \in W!Order
        /\ \A k \in W!Members : <<k, n>> \in W!Order' <=> k \notin S
        /\ \A k \in W!Members : <<n, k>> \in W!Order' <=> k \in S
        /\ <<n, n>> \notin W!Order'
    BY <1>6, <2>1, <2>2, <2>3, <2>5, WritesInsert
  <2>7. ASSUME NEW x \in writes.nodes \cup {n}, NEW y \in writes.nodes \cup {n}, <<x, y>> \in W!Order'
        PROVE  borrow[x].start <= borrow[y].start
    <3>1. borrow[x].start \in Nat /\ borrow[y].start \in Nat /\ borrow[n].start \in Nat
      BY <1>6, <2>2
    <3>2. CASE x # n /\ y # n
      BY <1>2, <2>4, <2>6, <2>7, <3>2
    <3>3. CASE x # n /\ y = n
      <4>1. x \notin S /\ x \in writes.nodes
        BY <1>2, <2>6, <2>7, <3>3
      <4>. QED  BY <3>1, <3>3, <4>1
    <3>4. CASE x = n /\ y # n
      <4>1. y \in S
        BY <1>2, <2>6, <2>7, <3>4
      <4>. QED  BY <3>1, <3>4, <4>1
    <3>5. CASE x = n /\ y = n
      BY <2>6, <2>7, <3>5
    <3>. QED  BY <3>2, <3>3, <3>4, <3>5
  <2>. HIDE DEF S
  <2>. QED  BY <1>2, <1>4, <1>7, <1>8, <2>2, <2>6, <2>7
<1>9. CASE Head(todo).job = "remove"
  <2>1. Settles(writes.nodes \ {n}, out, in, nodes) /\ n \in writes.nodes
        /\ (writes.nodes \ {n}) \ out = writes.nodes \ Jobs("writes", "remove")
    <3>1. Settles(writes.nodes, out \cup {n}, in, nodes) /\ n \notin out
          /\ Jobs("writes", "remove") = out \cup {n}
      BY <1>3, <1>4, <1>9
    <3>. QED  BY <3>1 DEF Settles
  <2>2. W!TreeRemove(n) /\ n \in Writers
    BY <1>1, <1>2, <1>9, <2>1 DEF WritesJob, n
  <2>3. /\ WP!TreeInvariant' /\ W!Members' = W!Members \ {n}
        /\ \A k, l \in W!Members \ {n} : <<k, l>> \in W!Order' <=> <<k, l>> \in W!Order
    BY <2>2, WritesRemove
  <2>4. ASSUME NEW x \in (writes.nodes \ {n}) \ out, NEW y \in (writes.nodes \ {n}) \ out, <<x, y>> \in W!Order'
        PROVE  borrow[x].start <= borrow[y].start
    <3>1. <<x, y>> \in writesOrder
      BY <1>2, <2>3, <2>4
    <3>. QED  BY <1>3, <2>1, <3>1
  <2>. QED  BY <1>2, <1>7, <2>1, <2>3, <2>4
<1>. QED  BY <1>8, <1>9 DEF WritesJob

LEMMA PendingsJobKeeps ==
  ASSUME TypeOK, OlderOrder, Stored, PP!TreeInvariant, pendingsPc = "idle", todo' = Tail(todo),
         UNCHANGED vars, Cancelled' = Cancelled, PendingsJob
  PROVE  PP!TreeInvariant' /\ PendingsInOrder'
<1>. DEFINE n == Head(todo).node
            nodes == Waits \ Cancelled
            in == JobsIn(todo', "pendings", "insert")
            out == JobsIn(todo', "pendings", "remove")
<1>1. todo # <<>> /\ Head(todo).tree = "pendings" /\ Queued
  BY DEF PendingsJob, Stored
<1>2. P!Members = pendings.nodes /\ P!Order = pendingsOrder /\ pendings.nodes \subseteq Blocking
  BY PendingsAtRest DEF Reading
<1>3. /\ Settles(pendings.nodes, Jobs("pendings", "remove"), Jobs("pendings", "insert"), nodes)
      /\ \A x, y \in pendings.nodes \ Jobs("pendings", "remove") : <<x, y>> \in pendingsOrder <=> Before(x, y)
      /\ \A l \in Jobs("pendings", "insert") : older[l] = Waits \ {l}
  BY <1>2, PendingsInOrderNow, Zenon DEF Stored
<1>4. /\ Head(todo).job = "insert" =>
           /\ Jobs("pendings", "remove") = {} /\ out = {}
           /\ Jobs("pendings", "insert") = in \cup {n} /\ n \notin in
      /\ Head(todo).job = "remove" =>
           /\ Jobs("pendings", "insert") = in
           /\ Jobs("pendings", "remove") = out \cup {n} /\ n \notin out
  BY <1>1, PendingsJobTaken, Zenon
<1>5. Waits' \ Cancelled' = nodes /\ Waits' = Waits /\ older' = older /\ pending' = pending
  BY Zenon DEF vars, Waits
<1>6. \A x, y : Before(x, y)' <=> Before(x, y)
  BY <1>5, Zenon DEF Before
<1>7. \A x \in nodes : /\ pending[x].start \in Nat /\ pending[x].priority \in Nat
                       /\ x \in Blocking /\ x \in Locks /\ x \in Waits
  <2>1. \A x \in Waits : x \in Locks /\ x \in Blocking /\ pending[x] # None
    BY DEF Waits, Blocking, Locks, Readers, Writers
  <2>2. \A x \in Waits : pending[x].start \in Nat /\ pending[x].priority \in Nat
    BY <2>1, PendingType
  <2>. QED  BY <2>1, <2>2
<1>. HIDE DEF n, nodes
<1>8. ASSUME Settles(P!Members', out, in, nodes), in \subseteq Jobs("pendings", "insert"),
             \A x, y \in P!Members' \ out : <<x, y>> \in P!Order' <=> Before(x, y)
      PROVE  PendingsInOrder'
  <2>1. \A l \in in : older'[l] = Waits' \ {l}
    BY <1>3, <1>5, <1>8, Zenon
  <2>. QED  BY <1>5, <1>6, <1>8, <2>1, PendingsInOrderNext, Zenon
<1>. HIDE DEF in, out
<1>9. CASE Head(todo).job = "insert"
  <2>. DEFINE S == {m \in pendings.nodes : GoesBefore(n, m)}
  <2>1. P!TreeInsert(n, S)
    BY <1>1, <1>9 DEF PendingsJob, n
  <2>2. Settles(pendings.nodes \cup {n}, {}, in, nodes) /\ n \in nodes /\ pendings.nodes \subseteq nodes
        /\ n \notin pendings.nodes
    <3>1. Settles(pendings.nodes, {}, in \cup {n}, nodes) /\ n \notin in
      BY <1>3, <1>4, <1>9
    <3>. QED  BY <3>1 DEF Settles
  <2>3. S \in SUBSET pendings.nodes
    OBVIOUS
  <2>4. \A x, y \in pendings.nodes : <<x, y>> \in pendingsOrder <=> Before(x, y)
    BY <1>3, <1>4, <1>9
  <2>5. P!Upward(S)
    <3>1. ASSUME NEW x \in S, NEW y \in pendings.nodes, <<x, y>> \in pendingsOrder
          PROVE  y \in S
      <4>1. Before(x, y) /\ GoesBefore(n, x)
        BY <2>4, <3>1
      <4>2. /\ pending[x].start \in Nat /\ pending[x].priority \in Nat
            /\ pending[y].start \in Nat /\ pending[y].priority \in Nat
            /\ pending[n].start \in Nat /\ pending[n].priority \in Nat
        BY <1>7, <2>2
      <4>3. GoesBefore(n, y)
        BY <4>1, <4>2 DEF Before, GoesBefore
      <4>. QED  BY <4>3
    <3>. QED  BY <3>1 DEF P!Upward
  <2>6. /\ PP!TreeInvariant' /\ P!Members' = P!Members \cup {n} /\ n \notin P!Members
        /\ \A k, l \in P!Members : <<k, l>> \in P!Order' <=> <<k, l>> \in P!Order
        /\ \A k \in P!Members : <<k, n>> \in P!Order' <=> k \notin S
        /\ \A k \in P!Members : <<n, k>> \in P!Order' <=> k \in S
        /\ <<n, n>> \notin P!Order'
    BY <1>7, <2>1, <2>2, <2>3, <2>5, PendingsInsert
  <2>7. older[n] = Waits \ {n} /\ n \in Waits
    BY <1>3, <1>4, <1>7, <1>9, <2>2
  <2>8. ~Before(n, n)
    BY <1>7, <2>2, <2>7 DEF Before
  <2>9. ASSUME NEW k \in pendings.nodes
        PROVE  (Before(k, n) <=> k \notin S) /\ (Before(n, k) <=> k \in S)
    <3>1. /\ pending[k].start \in Nat /\ pending[k].priority \in Nat /\ k \in Waits /\ k # n
          /\ pending[n].start \in Nat /\ pending[n].priority \in Nat /\ n \in Locks
      BY <1>7, <2>2
    <3>2. k \in older[n] /\ n \notin older[k]
      BY <1>7, <2>2, <2>7, <3>1 DEF OlderOrder
    <3>. QED  BY <3>1, <3>2 DEF Before, GoesBefore
  <2>. HIDE DEF S
  <2>10. ASSUME NEW x \in pendings.nodes \cup {n}, NEW y \in pendings.nodes \cup {n}
         PROVE  <<x, y>> \in P!Order' <=> Before(x, y)
    <3>1. CASE x # n /\ y # n
      BY <1>2, <2>4, <2>6, <3>1
    <3>2. CASE x # n /\ y = n
      BY <1>2, <2>6, <2>9, <3>2
    <3>3. CASE x = n /\ y # n
      BY <1>2, <2>6, <2>9, <3>3
    <3>4. CASE x = n /\ y = n
      BY <2>6, <2>8, <3>4
    <3>. QED  BY <3>1, <3>2, <3>3, <3>4
  <2>. QED  BY <1>2, <1>4, <1>8, <1>9, <2>2, <2>6, <2>10
<1>10. CASE Head(todo).job = "remove"
  <2>1. Settles(pendings.nodes \ {n}, out, in, nodes) /\ n \in pendings.nodes
        /\ (pendings.nodes \ {n}) \ out = pendings.nodes \ Jobs("pendings", "remove")
    <3>1. Settles(pendings.nodes, out \cup {n}, in, nodes) /\ n \notin out
          /\ Jobs("pendings", "remove") = out \cup {n}
      BY <1>3, <1>4, <1>10
    <3>. QED  BY <3>1 DEF Settles
  <2>2. P!TreeRemove(n) /\ n \in Blocking
    BY <1>1, <1>2, <1>10, <2>1 DEF PendingsJob, n
  <2>3. /\ PP!TreeInvariant' /\ P!Members' = P!Members \ {n}
        /\ \A k, l \in P!Members \ {n} : <<k, l>> \in P!Order' <=> <<k, l>> \in P!Order
    BY <2>2, PendingsRemove
  <2>4. ASSUME NEW x \in (pendings.nodes \ {n}) \ out, NEW y \in (pendings.nodes \ {n}) \ out
        PROVE  <<x, y>> \in P!Order' <=> Before(x, y)
    <3>1. <<x, y>> \in P!Order' <=> <<x, y>> \in pendingsOrder
      BY <1>2, <2>3
    <3>. QED  BY <1>3, <2>1, <3>1
  <2>. QED  BY <1>2, <1>4, <1>8, <1>10, <2>1, <2>3, <2>4
<1>. QED  BY <1>9, <1>10 DEF PendingsJob

LEMMA JobKeeps ==
  ASSUME TypeOK, OlderOrder, TreesIInv, Trees, Job
  PROVE  TreesIInv' /\ Trees' /\ UNCHANGED vars
<1>1. /\ readsPc = "idle" /\ writesPc = "idle" /\ pendingsPc = "idle"
      /\ todo # <<>> /\ todo' = Tail(todo) /\ UNCHANGED <<vars, stage, locals>>
      /\ ReadsJob \/ WritesJob \/ PendingsJob
  BY DEF Job, ReadsJob, WritesJob, PendingsJob
<1>2. Stored /\ Searching /\ Unlocking /\ SearchesAgree
  BY TreesSplit
<1>3. stage \notin {"write", "read", "sum", "decide", "above", "last", "enter", "next"}
  BY <1>1, <1>2, Zenon DEF Searching, Unlocking
<1>4. Searching'
  BY <1>1, <1>2, <1>3, SearchingStays
<1>5. Unlocking'
  BY <1>1, <1>2, <1>3, UnlockingStays
<1>6. SearchesAgree' /\ Cancelled' = Cancelled
  BY <1>1, <1>2, AgreementStays DEF locals, Cancelled
<1>7. Queued'
  BY <1>1, <1>2, JobTaken DEF Stored
<1>8. RP!TreeInvariant /\ WP!TreeInvariant /\ PP!TreeInvariant
  BY DEF Trees
<1>9. ASSUME Trees', ReadsInOrder', WritesInOrder', PendingsInOrder'
      PROVE  TreesIInv' /\ Trees' /\ UNCHANGED vars
  BY <1>1, <1>4, <1>5, <1>6, <1>7, <1>9, TreesSplitNext DEF Stored
<1>10. CASE ReadsJob
  <2>1. RP!TreeInvariant' /\ ReadsInOrder'
    BY <1>1, <1>2, <1>8, <1>10, ReadsJobKeeps
  <2>2. \A job : /\ Jobs("writes", job) = JobsIn(todo', "writes", job)
                 /\ Jobs("pendings", job) = JobsIn(todo', "pendings", job)
    BY <1>1, <1>2, <1>10, ReadsJobTaken DEF Stored, ReadsJob
  <2>3. UNCHANGED writesVars /\ UNCHANGED pendingsVars
    BY <1>10 DEF ReadsJob
  <2>4. WP!TreeInvariant' /\ WritesInOrder'
    BY <1>1, <1>2, <1>8, <2>2, <2>3, WritesStay, WritesInOrderStays DEF Stored
  <2>5. PP!TreeInvariant' /\ PendingsInOrder'
    BY <1>1, <1>2, <1>6, <1>8, <2>2, <2>3, PendingsStay, PendingsInOrderStays DEF Stored
  <2>. QED  BY <1>9, <2>1, <2>4, <2>5 DEF Trees
<1>11. CASE WritesJob
  <2>1. WP!TreeInvariant' /\ WritesInOrder'
    BY <1>1, <1>2, <1>8, <1>11, WritesJobKeeps
  <2>2. \A job : /\ Jobs("reads", job) = JobsIn(todo', "reads", job)
                 /\ Jobs("pendings", job) = JobsIn(todo', "pendings", job)
    BY <1>1, <1>2, <1>11, WritesJobTaken DEF Stored, WritesJob
  <2>3. UNCHANGED readsVars /\ UNCHANGED pendingsVars
    BY <1>11 DEF WritesJob
  <2>4. RP!TreeInvariant' /\ ReadsInOrder'
    BY <1>1, <1>2, <1>8, <2>2, <2>3, ReadsStay, ReadsInOrderStays DEF Stored
  <2>5. PP!TreeInvariant' /\ PendingsInOrder'
    BY <1>1, <1>2, <1>6, <1>8, <2>2, <2>3, PendingsStay, PendingsInOrderStays DEF Stored
  <2>. QED  BY <1>9, <2>1, <2>4, <2>5 DEF Trees
<1>12. CASE PendingsJob
  <2>1. PP!TreeInvariant' /\ PendingsInOrder'
    BY <1>1, <1>2, <1>6, <1>8, <1>12, PendingsJobKeeps
  <2>2. \A job : /\ Jobs("reads", job) = JobsIn(todo', "reads", job)
                 /\ Jobs("writes", job) = JobsIn(todo', "writes", job)
    BY <1>1, <1>2, <1>12, PendingsJobTaken DEF Stored, PendingsJob
  <2>3. UNCHANGED readsVars /\ UNCHANGED writesVars
    BY <1>12 DEF PendingsJob
  <2>4. RP!TreeInvariant' /\ ReadsInOrder'
    BY <1>1, <1>2, <1>8, <2>2, <2>3, ReadsStay, ReadsInOrderStays DEF Stored
  <2>5. WP!TreeInvariant' /\ WritesInOrder'
    BY <1>1, <1>2, <1>8, <2>2, <2>3, WritesStay, WritesInOrderStays DEF Stored
  <2>. QED  BY <1>9, <2>1, <2>4, <2>5 DEF Trees
<1>. QED  BY <1>1, <1>10, <1>11, <1>12

-----------------------------------------------------------------------------
(* Queries *)

LEMMA NotSearching ==
  ASSUME stage' \notin {"write", "read", "sum", "decide"}
  PROVE  Searching' /\ SearchesAgree'
  BY DEF Searching, SearchesAgree

LEMMA NotUnlocking ==
  ASSUME stage' \notin {"cancel", "above", "last", "enter", "next", "turn"}
  PROVE  Unlocking' /\ Cancelled' = {}
  BY DEF Unlocking, Cancelled

\* The writes are sorted by end, too.
LEMMA WritesUpward ==
  ASSUME IInv, NEW i \in Nat, writes.nodes = Writes,
         \A m, n \in Writes : <<m, n>> \in writesOrder => borrow[m].start <= borrow[n].start
  PROVE  W!Upward({m \in writes.nodes : borrow[m].end > i})
<1>. DEFINE S == {m \in writes.nodes : borrow[m].end > i}
<1>1. \A l \in Writes : borrow[l].start \in Nat /\ borrow[l].end \in Nat
  <2>1. TypeOK /\ \A l \in Writes : l \in Locks /\ borrow[l] # None
    BY DEF IInv, Writes, Locks
  <2>. QED  BY <2>1, BorrowType
<1>2. ASSUME NEW x \in S, NEW y \in writes.nodes, <<x, y>> \in writesOrder
      PROVE  y \in S
  <2>1. x \in Writes /\ y \in Writes /\ borrow[x].start <= borrow[y].start
    BY <1>2
  <2>2. x # y => \/ borrow[x].start < borrow[y].start /\ borrow[x].end < borrow[y].end
                 \/ borrow[y].start < borrow[x].start /\ borrow[y].end < borrow[x].end
    BY <2>1, IInvWritesSorted DEF WritesSorted
  <2>. QED  BY <1>1, <1>2, <2>1, <2>2
<1>. QED  BY <1>2 DEF W!Upward

\* A search begins.
LEMMA SeekKeeps ==
  ASSUME IInv, TreesIInv, Trees, Quiet, Cancelled = {},
         NEW l \in Locks, NEW r \in Ranges, NEW priority, Seek(l, r, priority), Asked'
  PROVE  TreesIInv' /\ Trees' /\ UNCHANGED vars
<1>. DEFINE S == {m \in writes.nodes : borrow[m].end > r.start}
<1>1. /\ readsPc = "idle" /\ writesPc = "idle" /\ pendingsPc = "idle" /\ todo = <<>>
      /\ stage' = "write" /\ ask' = [lock |-> l, range |-> r, priority |-> priority]
      /\ W!TreeLowerBound(S)
      /\ UNCHANGED <<vars, readsVars, pendingsVars, lowest, found, upcoming, todo>>
  BY DEF Quiet, Seek
<1>2. RP!TreeInvariant /\ WP!TreeInvariant /\ PP!TreeInvariant /\ Stored
  BY TreesSplit DEF Trees
<1>3. writes.nodes = Writes /\ writesOrder = W!Order
  BY <1>1, <1>2, WritesAtRest, AllDone DEF Reading
<1>4. r.start \in Nat
  BY IndexAssumption DEF Ranges, Indices
<1>5. W!Upward(S)
  BY <1>1, <1>3, <1>4, AllDone, WritesUpward
<1>6. WP!TreeInvariant' /\ W!Members' = W!Members /\ W!Order' = W!Order /\ writes' = writes
  <2>1. S \in SUBSET writes.nodes
    OBVIOUS
  <2>2. \E T \in SUBSET writes.nodes : W!Upward(T) /\ W!TreeLowerBound(T)
    BY <1>1, <1>5, <2>1
  <2>. QED  BY <1>2, <2>2, WritesQuery
<1>7. RP!TreeInvariant' /\ R!Members' = R!Members /\ R!Order' = R!Order /\ readsPc' = "idle"
  BY <1>1, <1>2, ReadsStay
<1>8. PP!TreeInvariant' /\ P!Members' = P!Members /\ P!Order' = P!Order /\ pendingsPc' = "idle"
  BY <1>1, <1>2, PendingsStay
<1>9. Unlocking' /\ Cancelled' = {}
  BY <1>1, NotUnlocking
<1>10. Stored'
  BY <1>1, <1>2, <1>6, <1>7, <1>8, <1>9, StoredStays DEF SameMembers
<1>11. writesPc' \in Walking /\ writesSide' = 1 /\ writesGoal' = S
  BY <1>1 DEF W!TreeLowerBound, Walking
<1>12. writesGoal' = {m \in writes'.nodes : borrow'[m].end > ask'.range.start}
  BY <1>1, <1>6, <1>11 DEF vars
<1>13. Searching'
  <2>1. stage' = "write" /\ Asked' /\ todo' = <<>> /\ pendingsPc' = "idle" /\ readsPc' = "idle"
        /\ writesPc' \in Walking /\ writesSide' = 1
    BY <1>1, <1>7, <1>8, <1>11
  <2>. QED  BY <1>12, <2>1 DEF Searching
<1>14. SearchesAgree'
  BY <1>1 DEF SearchesAgree
<1>. QED  BY <1>1, <1>6, <1>7, <1>8, <1>9, <1>10, <1>13, <1>14, TreesSplitNext DEF Trees

LEMMA BeginLockKeeps ==
  ASSUME IInv, DebugAssertions, TreesIInv, Trees, NEW l \in Locks, NEW r \in Ranges,
         NEW p \in IF l \in Blocking THEN Priorities ELSE {None}, BeginLock(l, r, p)
  PROVE  TreesIInv' /\ Trees' /\ UNCHANGED vars
<1>1. stage = "rest" /\ Quiet /\ op = None /\ ~claimed[l] /\ r.start < r.end /\ Seek(l, r, p)
  BY DEF BeginLock
<1>2. ask' = [lock |-> l, range |-> r, priority |-> p] /\ UNCHANGED vars
  BY <1>1 DEF Seek
<1>3. /\ ask'.lock \in Locks /\ ask'.range \in Ranges /\ op' = None /\ ~claimed'[ask'.lock]
      /\ ask'.range.start < ask'.range.end
      /\ ask'.lock \in Blocking => ask'.priority \in Priorities
  BY <1>1, <1>2 DEF vars
<1>4. Asked'
  BY <1>3 DEF Asked, MayLock
<1>5. Cancelled = {}
  BY <1>1 DEF Cancelled
<1>. QED  BY <1>1, <1>4, <1>5, SeekKeeps

LEMMA TurnSeekKeeps ==
  ASSUME IInv, TreesIInv, Trees, TurnSeek
  PROVE  TreesIInv' /\ Trees' /\ UNCHANGED vars
<1>. DEFINE range == [start |-> pending[op.cur].start, end |-> pending[op.cur].end]
<1>1. stage = "turn" /\ Quiet /\ ~MustTruncate /\ Seek(op.cur, range, None)
  BY DEF TurnSeek
<1>2. InLoop /\ IsMax(upcoming, WaitersBefore(op.cur))
  BY <1>1, Zenon DEF TreesIInv, Unlocking
<1>3. op.cur \in Locks /\ pending[op.cur] # None
  BY <1>2 DEF InLoop, IInv, FrameOK, ToVisit
<1>4. range \in Ranges
  <2>1. pending[op.cur] \in Pendings
    BY <1>3 DEF IInv, TypeOK
  <2>. QED  BY <2>1 DEF Pendings, Ranges
<1>5. PICK l \in Locks, r \in Ranges : l = op.cur /\ r = range
  BY <1>3, <1>4
<1>6. Seek(l, r, None)
  BY <1>1, <1>5
<1>7. ask' = [lock |-> l, range |-> r, priority |-> None] /\ UNCHANGED <<vars, upcoming>>
  BY <1>6 DEF Seek
<1>8. Asked'
  <2>1. claimed' = claimed /\ borrow' = borrow /\ pending' = pending /\ older' = older /\ op' = op
    BY <1>7 DEF vars
  <2>2. InLoop' /\ ~MustTruncate'
    BY <1>1, <1>2, <2>1, Zenon DEF InLoop, MustTruncate
  <2>3. IsMax(upcoming, WaitersBefore(op.cur))'
    BY <1>2, <1>7, UpcomingStays
  <2>4. /\ ask'.lock \in Locks /\ ask'.range \in Ranges /\ ask'.lock = op'.cur
        /\ ask'.range = [start |-> pending'[op'.cur].start, end |-> pending'[op'.cur].end]
    BY <1>5, <1>7, <2>1
  <2>. QED  BY <2>2, <2>3, <2>4, Zenon DEF Asked
<1>9. Cancelled = {}
  BY <1>1 DEF Cancelled
<1>. QED  BY <1>1, <1>6, <1>8, <1>9, SeekKeeps

\* What the search of `writes` finds decides, or `reads` is searched next.
LEMMA WriteFoundKeeps ==
  ASSUME IInv, TreesIInv, Trees, WriteFound
  PROVE  TreesIInv' /\ Trees' /\ UNCHANGED vars
<1>. DEFINE w == first_write_borrow_in_range(ask.range)
            S == {m \in reads.nodes : Index(m) > ask.range.start}
            more == ask.lock \in Writers /\ (ask.lock \in Blocking \/ lowest' = None)
<1>1. /\ stage = "write" /\ writesPc = "found"
      /\ lowest' = IF writesAt # None /\ borrow[writesAt].start < ask.range.end
                     THEN MaxOf(borrow[writesAt].start, ask.range.start) ELSE None
      /\ W!Return
      /\ IF more THEN stage' = "read" /\ R!TreeLowerBound(S) ELSE stage' = "decide" /\ UNCHANGED readsVars
      /\ UNCHANGED <<vars, pendingsVars, ask, found, upcoming, todo>>
  BY DEF WriteFound
<1>2. RP!TreeInvariant /\ WP!TreeInvariant /\ PP!TreeInvariant /\ Stored /\ TypeOK
  BY TreesSplit DEF Trees, IInv
<1>3. /\ Asked /\ todo = <<>> /\ pendingsPc = "idle" /\ readsPc = "idle" /\ writesSide = 1
      /\ writesGoal = {m \in writes.nodes : borrow[m].end > ask.range.start}
  BY <1>1 DEF TreesIInv, Searching
<1>4. writes.nodes = Writes /\ writesOrder = W!Order /\ reads.nodes = Reads \X {0, 1} /\ readsOrder = R!Order
  BY <1>1, <1>2, <1>3, WritesAtRest, ReadsAtRest, AllDone DEF Reading, Walking
<1>5. ask.range \in Ranges /\ ask.range.start \in Indices /\ ask.range.start \in Nat
  BY <1>3, IndexAssumption DEF Asked, Ranges, Indices
<1>6. lowest' = w
  <2>1. IsFirst(writesAt, {m \in Writes : borrow[m].end > ask.range.start}, writesOrder)
    BY <1>1, <1>2, <1>3, <1>4, WritesAnswer DEF IsFirst
  <2>2. \A x, y \in Writes : <<x, y>> \in writesOrder => borrow[x].start <= borrow[y].start
    BY <1>3, <1>4, AllDone
  <2>3. PICK r, n, order : r = ask.range /\ n = writesAt /\ order = writesOrder
    OBVIOUS
  <2>4. first_write_borrow_in_range(r)
          = IF n # None /\ borrow[n].start < r.end THEN MaxOf(borrow[n].start, r.start) ELSE None
    BY <1>2, <1>5, <2>1, <2>2, <2>3, WriteSearch
  <2>. QED  BY <1>1, <2>3, <2>4
<1>. HIDE DEF w, S, more
<1>7. WP!TreeInvariant' /\ W!Members' = W!Members /\ W!Order' = W!Order /\ writesPc' = "idle"
  BY <1>1, <1>2, WritesQuery DEF W!Return
<1>8. PP!TreeInvariant' /\ P!Members' = P!Members /\ P!Order' = P!Order /\ pendingsPc' = "idle"
  BY <1>1, <1>2, <1>3, PendingsStay
<1>9. Asked' /\ todo' = <<>>
  BY <1>1, <1>3, AskedStays
<1>10. first_write_borrow_in_range(ask.range)' = w
  <2>1. borrow' = borrow /\ ask' = ask
    BY <1>1 DEF vars
  <2>. QED  BY <2>1, SMT DEF w, first_write_borrow_in_range, Writes
<1>11. FirstConflict(ask.lock, ask.range)' = FirstConflict(ask.lock, ask.range)
  <2>1. borrow' = borrow /\ ask' = ask
    BY <1>1 DEF vars
  <2>. QED
    BY <2>1, SMT DEF FirstConflict, first_conflict_for_write, first_write_borrow_in_range, Writes,
       first_read_borrow_in_range, Endpoints, prefix_sum, Reads
<1>12. Unlocking' /\ Cancelled' = {} /\ Cancelled = {}
  <2>1. stage' \in {"read", "decide"} /\ stage = "write"
    BY <1>1
  <2>. QED  BY <2>1, NotUnlocking DEF Cancelled
<1>13. ASSUME RP!TreeInvariant', R!Members' = R!Members, R!Order' = R!Order, Searching', SearchesAgree'
       PROVE  TreesIInv' /\ Trees' /\ UNCHANGED vars
  <2>1. Stored'
    BY <1>1, <1>2, <1>7, <1>8, <1>12, <1>13, StoredStays DEF SameMembers
  <2>. QED  BY <1>1, <1>7, <1>8, <1>12, <1>13, <2>1, TreesSplitNext DEF Trees
<1>14. CASE more
  <2>1. stage' = "read" /\ R!TreeLowerBound(S) /\ ask'.lock \in Writers
    BY <1>1, <1>14 DEF more
  <2>2. R!Upward(S)
    <3>1. \A m, n \in reads.nodes : <<m, n>> \in readsOrder => Index(m) <= Index(n)
      BY <1>3, <1>4, AllDone
    <3>2. \A m \in reads.nodes : Index(m) \in Nat
      BY <1>2, <1>4, IndexType
    <3>3. ASSUME NEW x \in S, NEW y \in reads.nodes, <<x, y>> \in readsOrder
          PROVE  y \in S
      <4>1. x \in reads.nodes /\ Index(x) > ask.range.start
        BY DEF S
      <4>2. Index(y) > ask.range.start
        BY <1>5, <3>1, <3>2, <3>3, <4>1
      <4>. QED  BY <4>2 DEF S
    <3>. QED  BY <3>3 DEF R!Upward
  <2>3. S \in SUBSET reads.nodes
    BY DEF S
  <2>4. RP!TreeInvariant' /\ R!Members' = R!Members /\ R!Order' = R!Order /\ reads' = reads
    <3>1. \E T \in SUBSET reads.nodes : R!Upward(T) /\ R!TreeLowerBound(T)
      BY <2>1, <2>2, <2>3
    <3>. QED  BY <1>2, <3>1, ReadsQuery
  <2>5. readsPc' \in Walking /\ readsSide' = 1 /\ readsGoal' = S
    BY <2>1 DEF R!TreeLowerBound, Walking
  <2>6. readsGoal' = {m \in reads'.nodes : Index(m)' > ask'.range.start}
    <3>1. borrow' = borrow /\ ask' = ask
      BY <1>1 DEF vars
    <3>. QED  BY <2>4, <2>5, <3>1, SMT DEF S, Index
  <2>7. Searching'
    <3>1. lowest' = first_write_borrow_in_range(ask.range)'
      BY <1>6, <1>10
    <3>2. /\ stage' = "read" /\ Asked' /\ todo' = <<>> /\ pendingsPc' = "idle" /\ writesPc' = "idle"
          /\ readsPc' \in Walking /\ readsSide' = 1 /\ ask'.lock \in Writers
      BY <1>7, <1>8, <1>9, <2>1, <2>5
    <3>. QED  BY <2>6, <3>1, <3>2 DEF Searching
  <2>8. SearchesAgree'
    BY <2>1 DEF SearchesAgree
  <2>. QED  BY <1>13, <2>4, <2>7, <2>8
<1>15. CASE ~more
  <2>1. stage' = "decide" /\ UNCHANGED readsVars
    BY <1>1, <1>15
  <2>2. RP!TreeInvariant' /\ R!Members' = R!Members /\ R!Order' = R!Order /\ readsPc' = "idle"
    BY <1>2, <1>3, <2>1, ReadsStay
  <2>3. Searching'
    BY <1>7, <1>8, <1>9, <2>1, <2>2 DEF Searching
  <2>4. LET c == FirstConflict(ask.lock, ask.range)
        IN  IF ask.lock \in Blocking THEN lowest' = c ELSE lowest' = None <=> c = None
    <3>1. CASE ask.lock \notin Writers
      BY <1>6, <3>1 DEF FirstConflict, w
    <3>2. CASE ask.lock \in Writers
      <4>1. ask.lock \notin Blocking /\ w # None
        BY <1>1, <1>6, <1>15, <3>2 DEF more
      <4>2. FirstConflict(ask.lock, ask.range) = first_conflict_for_write(ask.range)
        BY <3>2 DEF FirstConflict
      <4>3. first_conflict_for_write(ask.range) # None
        BY <4>1 DEF first_conflict_for_write, MinOf, w
      <4>. QED  BY <1>6, <4>1, <4>2, <4>3
    <3>. QED  BY <3>1, <3>2
  <2>5. SearchesAgree'
    <3>1. ask' = ask
      BY <1>1
    <3>. QED  BY <1>11, <2>4, <3>1 DEF SearchesAgree
  <2>. QED  BY <1>13, <2>2, <2>3, <2>5
<1>. QED  BY <1>14, <1>15

\* What the search of `reads` finds is summed up to, unless it is nothing.
LEMMA ReadFoundKeeps ==
  ASSUME IInv, TreesIInv, Trees, ReadFound
  PROVE  TreesIInv' /\ Trees' /\ UNCHANGED vars
<1>. DEFINE w == first_write_borrow_in_range(ask.range)
<1>1. /\ stage = "read" /\ readsPc = "found" /\ R!Return
      /\ found' = readsAt /\ stage' = IF readsAt = None THEN "decide" ELSE "sum"
      /\ UNCHANGED <<vars, writesVars, pendingsVars, ask, lowest, upcoming, todo>>
  BY DEF ReadFound
<1>2. RP!TreeInvariant /\ WP!TreeInvariant /\ PP!TreeInvariant /\ Stored /\ TypeOK
  BY TreesSplit DEF Trees, IInv
<1>3. /\ Asked /\ todo = <<>> /\ pendingsPc = "idle" /\ writesPc = "idle" /\ readsSide = 1
      /\ ask.lock \in Writers /\ lowest = w
      /\ readsGoal = {m \in reads.nodes : Index(m) > ask.range.start}
  BY <1>1 DEF TreesIInv, Searching
<1>4. reads.nodes = Reads \X {0, 1} /\ readsOrder = R!Order
  BY <1>1, <1>2, <1>3, ReadsAtRest, AllDone DEF Reading, Walking
<1>5. IsFirst(readsAt, {m \in reads.nodes : Index(m) > ask.range.start}, readsOrder)
  BY <1>1, <1>2, <1>3, ReadsAnswer DEF IsFirst
<1>. HIDE DEF w
<1>6. RP!TreeInvariant' /\ R!Members' = R!Members /\ R!Order' = R!Order /\ readsPc' = "idle"
      /\ reads' = reads /\ readsOrder' = readsOrder
  BY <1>1, <1>2, ReadsQuery DEF R!Return
<1>7. WP!TreeInvariant' /\ W!Members' = W!Members /\ W!Order' = W!Order /\ writesPc' = "idle"
  BY <1>1, <1>2, <1>3, WritesStay
<1>8. PP!TreeInvariant' /\ P!Members' = P!Members /\ P!Order' = P!Order /\ pendingsPc' = "idle"
  BY <1>1, <1>2, <1>3, PendingsStay
<1>9. Asked' /\ todo' = <<>>
  BY <1>1, <1>3, AskedStays
<1>10. Unlocking' /\ Cancelled' = {} /\ Cancelled = {}
  <2>1. stage' \in {"decide", "sum"} /\ stage = "read"
    BY <1>1
  <2>. QED  BY <2>1, NotUnlocking DEF Cancelled
<1>11. Stored'
  BY <1>1, <1>2, <1>6, <1>7, <1>8, <1>10, StoredStays DEF SameMembers
<1>12. borrow' = borrow /\ ask' = ask /\ lowest' = lowest
  BY <1>1 DEF vars
<1>13. CASE readsAt = None
  <2>1. stage' = "decide"
    BY <1>1, <1>13
  <2>2. Searching'
    BY <1>6, <1>7, <1>8, <1>9, <2>1 DEF Searching
  <2>3. first_read_borrow_in_range(ask.range) = None
    <3>1. PICK r, order : r = ask.range /\ order = readsOrder
      OBVIOUS
    <3>2. IsFirst(None, {m \in Reads \X {0, 1} : Index(m) > r.start}, order)
      BY <1>4, <1>5, <1>13, <3>1
    <3>3. first_read_borrow_in_range(r) = None
      BY <1>2, <3>2, ReadSearchNone
    <3>. QED  BY <3>1, <3>3
  <2>4. FirstConflict(ask.lock, ask.range) = lowest
    BY <1>3, <2>3 DEF FirstConflict, first_conflict_for_write, w
  <2>5. FirstConflict(ask.lock, ask.range)' = FirstConflict(ask.lock, ask.range)
    BY <1>12, SMT DEF FirstConflict, first_conflict_for_write, first_write_borrow_in_range, Writes,
       first_read_borrow_in_range, Endpoints, prefix_sum, Reads
  <2>6. SearchesAgree'
    BY <1>12, <2>4, <2>5 DEF SearchesAgree
  <2>. QED  BY <1>1, <1>6, <1>7, <1>8, <1>10, <1>11, <2>2, <2>6, TreesSplitNext DEF Trees
<1>14. CASE readsAt # None
  <2>1. stage' = "sum" /\ found' = readsAt /\ found' # None
    BY <1>1, <1>14
  <2>2. IsFirst(found, {m \in reads.nodes : Index(m) > ask.range.start}, readsOrder)'
    BY <1>5, <1>6, <1>12, <2>1, SMT DEF IsFirst, Index
  <2>3. (lowest = first_write_borrow_in_range(ask.range))'
    BY <1>1, <1>3, LowestStays DEF w
  <2>4. ask'.lock \in Writers
    BY <1>3, <1>12
  <2>5. Searching'
    BY <1>6, <1>7, <1>8, <1>9, <2>1, <2>2, <2>3, <2>4 DEF Searching
  <2>6. SearchesAgree'
    BY <2>1 DEF SearchesAgree
  <2>. QED  BY <1>1, <1>6, <1>7, <1>8, <1>10, <1>11, <2>5, <2>6, TreesSplitNext DEF Trees
<1>. QED  BY <1>13, <1>14

LEMMA BeginSumKeeps ==
  ASSUME IInv, TreesIInv, Trees, BeginSum
  PROVE  TreesIInv' /\ Trees' /\ UNCHANGED vars
<1>1. /\ stage = "sum" /\ readsPc = "idle" /\ R!TreeRank(found)
      /\ UNCHANGED <<vars, writesVars, pendingsVars, stage, locals, todo>>
  BY DEF BeginSum
<1>2. RP!TreeInvariant /\ WP!TreeInvariant /\ PP!TreeInvariant /\ Stored /\ Searching /\ SearchesAgree
  BY TreesSplit DEF Trees
<1>3. found \in ReadNodes
  <2>1. found \in reads.nodes
    BY <1>1 DEF R!TreeRank
  <2>. QED  BY <1>1, <1>2, <2>1, ReadsAtRest DEF Reading
<1>4. RP!TreeInvariant' /\ R!Members' = R!Members /\ R!Order' = R!Order
      /\ reads' = reads /\ readsOrder' = readsOrder
  <2>1. \E n \in ReadNodes : R!TreeRank(n)
    BY <1>1, <1>3
  <2>. QED  BY <1>2, <2>1, ReadsQuery
<1>5. readsPc' = "rank" /\ readsNode' = found
  BY <1>1 DEF R!TreeRank
<1>6. WP!TreeInvariant' /\ W!Members' = W!Members /\ W!Order' = W!Order /\ writesPc' = writesPc
  BY <1>1, <1>2, WritesStay
<1>7. PP!TreeInvariant' /\ P!Members' = P!Members /\ P!Order' = P!Order /\ pendingsPc' = pendingsPc
  BY <1>1, <1>2, PendingsStay
<1>8. Unlocking' /\ Cancelled' = {} /\ Cancelled = {}
  <2>1. stage' = "sum" /\ stage = "sum"
    BY <1>1
  <2>. QED  BY <2>1, NotUnlocking DEF Cancelled
<1>9. Stored'
  BY <1>1, <1>2, <1>4, <1>6, <1>7, <1>8, StoredStays DEF SameMembers
<1>10. Searching'
  BY <1>1, <1>2, <1>4, <1>5, <1>6, <1>7, SearchingStays
<1>11. SearchesAgree'
  BY <1>1, <1>2, AgreementStays DEF locals
<1>. QED  BY <1>1, <1>4, <1>6, <1>7, <1>8, <1>9, <1>10, <1>11, TreesSplitNext DEF Trees

\* At the root, the sum is complete, and says what RbTreeCore says.
LEMMA SumComplete ==
  ASSUME IInv, TreesIInv, Trees, SumAtStart
  PROVE  /\ Index(found) > ask.range.start
         /\ readsAcc <= 0 => found[2] = 0 /\ readsAcc = 0
         /\ first_read_borrow_in_range(ask.range)
              = IF readsAcc > 0 THEN ask.range.start
                ELSE IF Index(found) < ask.range.end THEN Index(found) ELSE None
<1>1. stage = "sum" /\ readsPc = "rank" /\ reads.parent[readsAt] = None
  BY DEF SumAtStart
<1>2. RP!TreeInvariant /\ TypeOK
  BY DEF Trees, IInv
<1>3. /\ Asked /\ todo = <<>> /\ readsNode = found /\ found # None
      /\ IsFirst(found, {m \in reads.nodes : Index(m) > ask.range.start}, readsOrder)
  BY <1>1 DEF TreesIInv, Searching
<1>4. reads.nodes = Reads \X {0, 1} /\ readsOrder = R!Order /\ Sorted(reads.nodes, readsOrder)
  BY <1>1, <1>2, <1>3, ReadsAtRest, AllDone DEF Reading
<1>5. ask.range.start \in Indices
  BY <1>3 DEF Asked, Ranges
<1>6. PICK r, n, order : r = ask.range /\ n = found /\ order = readsOrder
  OBVIOUS
<1>7. \A x, y \in Reads \X {0, 1} : <<x, y>> \in order => Index(x) <= Index(y)
  BY <1>3, <1>4, <1>6, AllDone
<1>8. /\ Sorted(Reads \X {0, 1}, order) /\ IsFirst(n, {m \in Reads \X {0, 1} : Index(m) > r.start}, order)
      /\ n # None /\ r.start \in Indices /\ UpperBoundsMatched
  BY <1>3, <1>4, <1>5, <1>6, IInvUpperBoundsMatched
<1>9. /\ {m \in Reads \X {0, 1} : <<m, n>> \in order} = {m \in Reads \X {0, 1} : Index(m) <= r.start}
      /\ Index(n) > r.start
      /\ prefix_sum(r.start) <= 0 => n[2] = 0 /\ prefix_sum(r.start) = 0
      /\ first_read_borrow_in_range(r) = IF prefix_sum(r.start) > 0 THEN r.start
                                         ELSE IF Index(n) < r.end THEN Index(n) ELSE None
  BY <1>2, <1>7, <1>8, ReadSearch, Zenon
<1>10. readsAcc = ReadWeightOf[{m \in reads.nodes : <<m, readsNode>> \in readsOrder}]
  BY <1>1, <1>2, ReadsSum
<1>11. readsAcc = ReadWeightOf[{m \in Reads \X {0, 1} : Index(m) <= r.start}]
  BY <1>3, <1>4, <1>6, <1>9, <1>10
<1>12. readsAcc = prefix_sum(r.start)
  BY <1>11, WeightUpTo
<1>. QED  BY <1>6, <1>9, <1>12

LEMMA SumFoundKeeps ==
  ASSUME IInv, TreesIInv, Trees, SumFound
  PROVE  TreesIInv' /\ Trees' /\ UNCHANGED vars
<1>. DEFINE i == first_read_borrow_in_range(ask.range)
<1>1. /\ SumAtStart /\ stage' = "decide" /\ R!Return
      /\ UNCHANGED <<vars, writesVars, pendingsVars, ask, found, upcoming, todo>>
  BY DEF SumFound
<1>2. RP!TreeInvariant /\ WP!TreeInvariant /\ PP!TreeInvariant /\ Stored
  BY TreesSplit DEF Trees
<1>3. stage = "sum" /\ Asked /\ todo = <<>> /\ pendingsPc = "idle" /\ writesPc = "idle"
      /\ ask.lock \in Writers /\ lowest = first_write_borrow_in_range(ask.range)
  BY <1>1 DEF TreesIInv, Searching, SumAtStart
<1>4. i = IF readsAcc > 0 THEN ask.range.start
          ELSE IF Index(found) < ask.range.end THEN Index(found) ELSE None
  BY <1>1, SumComplete
<1>5. lowest' = IF lowest = None THEN i ELSE IF i = None THEN lowest ELSE MinOf(lowest, i)
  <2>. HIDE DEF i
  <2>. QED  BY <1>4 DEF SumFound
<1>6. FirstConflict(ask.lock, ask.range) = lowest'
  BY <1>3, <1>5 DEF FirstConflict, first_conflict_for_write
<1>. HIDE DEF i
<1>7. RP!TreeInvariant' /\ R!Members' = R!Members /\ R!Order' = R!Order /\ readsPc' = "idle"
  BY <1>1, <1>2, ReadsQuery DEF R!Return
<1>8. WP!TreeInvariant' /\ W!Members' = W!Members /\ W!Order' = W!Order /\ writesPc' = "idle"
  BY <1>1, <1>2, <1>3, WritesStay
<1>9. PP!TreeInvariant' /\ P!Members' = P!Members /\ P!Order' = P!Order /\ pendingsPc' = "idle"
  BY <1>1, <1>2, <1>3, PendingsStay
<1>10. Asked' /\ todo' = <<>>
  BY <1>1, <1>3, AskedStays
<1>11. Unlocking' /\ Cancelled' = {} /\ Cancelled = {}
  BY <1>1, <1>3, NotUnlocking DEF Cancelled
<1>12. Stored'
  BY <1>1, <1>2, <1>7, <1>8, <1>9, <1>11, StoredStays DEF SameMembers
<1>13. Searching'
  BY <1>1, <1>7, <1>8, <1>9, <1>10 DEF Searching
<1>14. SearchesAgree'
  <2>1. borrow' = borrow /\ ask' = ask
    BY <1>1 DEF vars
  <2>2. FirstConflict(ask.lock, ask.range)' = FirstConflict(ask.lock, ask.range)
    BY <2>1, SMT DEF FirstConflict, first_conflict_for_write, first_write_borrow_in_range, Writes,
       first_read_borrow_in_range, Endpoints, prefix_sum, Reads
  <2>. QED  BY <1>6, <2>1, <2>2 DEF SearchesAgree
<1>. QED  BY <1>1, <1>7, <1>8, <1>9, <1>11, <1>12, <1>13, <1>14, TreesSplitNext DEF Trees

\* Where a borrow waits.
LEMMA WaitType ==
  ASSUME TypeOK, NEW l \in Waits
  PROVE  l \in Blocking /\ l \in Locks /\ pending[l] # None /\ l # None
         /\ pending[l].start \in Nat /\ pending[l].priority \in Nat
<1>1. l \in Blocking /\ l \in Locks /\ pending[l] # None
  BY DEF Waits, Blocking, Locks, Readers, Writers
<1>. QED  BY <1>1, PendingType, NoneAssumption

LEMMA BeforeStart ==
  ASSUME TypeOK, NEW k \in Waits, NEW l \in Waits, Before(k, l)
  PROVE  pending[k].start <= pending[l].start
  BY WaitType DEF Before

\* The last of the waiters in S, if it waits at or above i, is the last of
\* those that do.
LEMMA FilterMax ==
  ASSUME TypeOK, NEW S \in SUBSET Waits, NEW n, NEW i \in Nat,
         \/ S = {} /\ n = None
         \/ n \in S /\ \A m \in S \ {n} : Before(m, n)
  PROVE  IsMax(FilterFrom(n, i), {k \in S : pending[k].start >= i})
<1>1. CASE S = {} /\ n = None
  BY <1>1 DEF IsMax, FilterFrom
<1>2. CASE n \in S /\ \A m \in S \ {n} : Before(m, n)
  <2>1. n # None /\ pending[n].start \in Nat /\ \A k \in S : pending[k].start \in Nat
    BY <1>2, WaitType
  <2>2. CASE pending[n].start >= i
    BY <1>2, <2>1, <2>2 DEF IsMax, FilterFrom
  <2>3. CASE ~(pending[n].start >= i)
    <3>1. \A k \in S : pending[k].start <= pending[n].start
      BY <1>2, <2>1, BeforeStart
    <3>2. {k \in S : pending[k].start >= i} = {}
      BY <2>1, <2>3, <3>1
    <3>. QED  BY <2>3, <3>2 DEF IsMax, FilterFrom
  <2>. QED  BY <2>2, <2>3
<1>. QED  BY <1>1, <1>2

\* `pendings` while nothing is to be done to it.
LEMMA PendingsNow ==
  ASSUME TreesIInv, PP!TreeInvariant, todo = <<>>, pendingsPc \in Reading
  PROVE  /\ pendings.nodes = Waits \ Cancelled /\ pendings.nodes \subseteq Blocking
         /\ \A m, n \in pendings.nodes : <<m, n>> \in pendingsOrder <=> Before(m, n)
         /\ Sorted(pendings.nodes, pendingsOrder)
  BY PendingsAtRest, AllDone

\* A walk over `pendings` begins or ends.
LEMMA WalkStored ==
  ASSUME TreesIInv, Trees, UNCHANGED <<vars, readsVars, writesVars, todo>>, Cancelled' = Cancelled,
         \/ P!Return
         \/ \E dir \in 0..1 : P!TreeExtreme(dir) \/ \E n \in Blocking : P!TreeNeighbor(n, dir)
         \/ \E S \in SUBSET pendings.nodes : P!Upward(S) /\ P!TreeLowerBound(S)
  PROVE  Stored' /\ Trees' /\ pendings' = pendings /\ pendingsOrder' = pendingsOrder
         /\ readsPc' = readsPc /\ writesPc' = writesPc
<1>1. RP!TreeInvariant /\ WP!TreeInvariant /\ PP!TreeInvariant /\ Stored
  BY TreesSplit DEF Trees
<1>2. RP!TreeInvariant' /\ R!Members' = R!Members /\ R!Order' = R!Order /\ readsPc' = readsPc
  BY <1>1, ReadsStay
<1>3. WP!TreeInvariant' /\ W!Members' = W!Members /\ W!Order' = W!Order /\ writesPc' = writesPc
  BY <1>1, WritesStay
<1>4. PP!TreeInvariant' /\ P!Members' = P!Members /\ P!Order' = P!Order
      /\ pendings' = pendings /\ pendingsOrder' = pendingsOrder
  BY <1>1, PendingsQuery
<1>5. Stored'
  BY <1>1, <1>2, <1>3, <1>4, StoredStays DEF SameMembers
<1>. QED  BY <1>2, <1>3, <1>4, <1>5 DEF Trees

LEMMA WalkEnd ==
  ASSUME TreesIInv, stage' \notin {"write", "read", "sum", "decide"},
         Stored', Trees', Unlocking', UNCHANGED vars
  PROVE  TreesIInv' /\ Trees' /\ UNCHANGED vars
  BY NotSearching, TreesSplitNext

LEMMA SeekEntryKeeps ==
  ASSUME IInv, TreesIInv, Trees, SeekEntry
  PROVE  TreesIInv' /\ Trees' /\ UNCHANGED vars
<1>. DEFINE l == ask.lock
            S == {m \in pendings.nodes : pending[m].start >= borrow[l].end}
<1>1. /\ stage = "cancel" /\ stage' = "above" /\ borrow[l] # None /\ P!TreeLowerBound(S)
      /\ readsPc = "idle" /\ writesPc = "idle" /\ pendingsPc = "idle" /\ todo = <<>>
      /\ UNCHANGED <<vars, readsVars, writesVars, locals, todo>>
  BY DEF SeekEntry, Quiet
<1>2. TypeOK /\ PP!TreeInvariant
  BY DEF IInv, Trees
<1>3. op = None /\ l \in Locks /\ claimed[l]
  BY <1>1 DEF TreesIInv, Unlocking
<1>4. /\ pendings.nodes = Waits \ Cancelled
      /\ \A m, n \in pendings.nodes : <<m, n>> \in pendingsOrder <=> Before(m, n)
  BY <1>1, <1>2, PendingsNow DEF Reading
<1>5. borrow[l].end \in Nat
  BY <1>1, <1>2, <1>3, BorrowType
<1>. HIDE DEF l
<1>6. P!Upward(S)
  <2>1. ASSUME NEW x \in S, NEW y \in pendings.nodes, <<x, y>> \in pendingsOrder
        PROVE  y \in S
    <3>1. x \in Waits /\ y \in Waits /\ Before(x, y) /\ pending[x].start >= borrow[l].end
      BY <1>4, <2>1
    <3>2. pending[x].start <= pending[y].start /\ pending[x].start \in Nat /\ pending[y].start \in Nat
      BY <1>2, <3>1, BeforeStart, WaitType
    <3>. QED  BY <1>5, <3>1, <3>2
  <2>. QED  BY <2>1 DEF P!Upward
<1>7. Cancelled' = Cancelled
  BY <1>1 DEF Cancelled, locals
<1>8. \E T \in SUBSET pendings.nodes : P!Upward(T) /\ P!TreeLowerBound(T)
  <2>1. S \in SUBSET pendings.nodes
    OBVIOUS
  <2>. QED  BY <1>1, <1>6, <2>1
<1>9. Stored' /\ Trees' /\ pendings' = pendings /\ readsPc' = "idle" /\ writesPc' = "idle"
  BY <1>1, <1>7, <1>8, WalkStored
<1>10. pendingsPc' \in Walking /\ pendingsSide' = 1 /\ pendingsGoal' = S
  BY <1>1 DEF P!TreeLowerBound, Walking
<1>11. ask' = ask /\ op' = None /\ claimed'[ask'.lock] /\ borrow' = borrow /\ pending' = pending
       /\ ask'.lock \in Locks /\ borrow'[ask'.lock] # None /\ todo' = <<>>
  BY <1>1, <1>3 DEF vars, locals, l
<1>12. pendingsGoal' = {m \in pendings'.nodes : pending'[m].start >= borrow'[ask'.lock].end}
  BY <1>9, <1>10, <1>11 DEF l
<1>. HIDE DEF S
<1>13. Unlocking'
  BY <1>1, <1>9, <1>10, <1>11, <1>12 DEF Unlocking
<1>. QED  BY <1>1, <1>9, <1>13, WalkEnd

LEMMA AboveFoundKeeps ==
  ASSUME IInv, TreesIInv, Trees, AboveFound
  PROVE  TreesIInv' /\ Trees' /\ UNCHANGED vars
<1>1. /\ stage = "above" /\ stage' = "last" /\ pendingsPc = "found" /\ found' = pendingsAt /\ P!Return
      /\ UNCHANGED <<vars, readsVars, writesVars, ask, lowest, upcoming, todo>>
  BY DEF AboveFound
<1>2. PP!TreeInvariant
  BY DEF Trees
<1>3. /\ op = None /\ ask.lock \in Locks /\ claimed[ask.lock] /\ borrow[ask.lock] # None
      /\ todo = <<>> /\ readsPc = "idle" /\ writesPc = "idle" /\ pendingsSide = 1
      /\ pendingsGoal = {m \in pendings.nodes : pending[m].start >= borrow[ask.lock].end}
  BY <1>1 DEF TreesIInv, Unlocking
<1>4. IsFirst(pendingsAt, {m \in pendings.nodes : pending[m].start >= borrow[ask.lock].end}, pendingsOrder)
  BY <1>1, <1>2, <1>3, PendingsAnswer DEF IsFirst
<1>5. Cancelled' = Cancelled
  BY <1>1 DEF Cancelled
<1>6. /\ Stored' /\ Trees' /\ pendings' = pendings /\ pendingsOrder' = pendingsOrder
      /\ readsPc' = "idle" /\ writesPc' = "idle"
  BY <1>1, <1>3, <1>5, WalkStored
<1>7. ask' = ask /\ op' = None /\ claimed' = claimed /\ borrow' = borrow /\ pending' = pending /\ todo' = <<>>
  BY <1>1, <1>3 DEF vars
<1>8. IsFirst(found, {m \in pendings.nodes : pending[m].start >= borrow[ask.lock].end}, pendingsOrder)'
  BY <1>1, <1>4, <1>6, <1>7, SMT DEF IsFirst
<1>9. pendingsPc' = "idle"
  BY <1>1 DEF P!Return
<1>10. ask'.lock \in Locks /\ claimed'[ask'.lock] /\ borrow'[ask'.lock] # None
  BY <1>3, <1>7
<1>11. Unlocking'
  BY <1>1, <1>6, <1>7, <1>8, <1>9, <1>10 DEF Unlocking
<1>. QED  BY <1>1, <1>6, <1>11, WalkEnd

LEMMA BeginLastKeeps ==
  ASSUME IInv, TreesIInv, Trees, BeginLast
  PROVE  TreesIInv' /\ Trees' /\ UNCHANGED vars
<1>. DEFINE l == ask.lock
            S == {m \in pendings.nodes : pending[m].start >= borrow[l].end}
            G == {m \in pendings.nodes : pending[m].start < borrow[l].end}
<1>1. /\ stage = "last" /\ stage' = "enter" /\ pendingsPc = "idle"
      /\ IF found # None THEN P!TreeNeighbor(found, 0) ELSE P!TreeExtreme(0)
      /\ UNCHANGED <<vars, readsVars, writesVars, locals, todo>>
  BY DEF BeginLast
<1>2. TypeOK /\ PP!TreeInvariant
  BY DEF IInv, Trees
<1>3. /\ op = None /\ l \in Locks /\ claimed[l] /\ borrow[l] # None
      /\ todo = <<>> /\ readsPc = "idle" /\ writesPc = "idle" /\ IsFirst(found, S, pendingsOrder)
  BY <1>1 DEF TreesIInv, Unlocking
<1>4. /\ pendings.nodes = Waits \ Cancelled /\ pendings.nodes \subseteq Blocking
      /\ \A m, n \in pendings.nodes : <<m, n>> \in pendingsOrder <=> Before(m, n)
      /\ Sorted(pendings.nodes, pendingsOrder)
  BY <1>1, <1>2, <1>3, PendingsNow DEF Reading
<1>5. borrow[l].end \in Nat
  BY <1>2, <1>3, BorrowType
<1>6. \A m \in pendings.nodes : m \in Waits /\ m # None /\ pending[m].start \in Nat
  BY <1>2, <1>4, WaitType
<1>. HIDE DEF l
<1>7. /\ pendingsPc' \in Walking /\ pendingsSide' = 0 /\ pendingsGoal' = G
      /\ \E dir \in 0..1 : P!TreeExtreme(dir) \/ \E n \in Blocking : P!TreeNeighbor(n, dir)
  <2>1. CASE found = None
    <3>1. S = {}
      BY <1>3, <1>6, <2>1 DEF IsFirst
    <3>2. \A m \in pendings.nodes : pending[m].start < borrow[l].end
      BY <1>5, <1>6, <3>1
    <3>3. P!TreeExtreme(0) /\ pendings.nodes = G
      BY <1>1, <2>1, <3>2
    <3>4. pendingsPc' \in Walking /\ pendingsSide' = 0 /\ pendingsGoal' = pendings.nodes
      BY <3>3 DEF P!TreeExtreme, Walking
    <3>. QED  BY <3>3, <3>4
  <2>2. CASE found # None
    <3>1. P!TreeNeighbor(found, 0) /\ found \in S /\ \A m \in S \ {found} : <<found, m>> \in pendingsOrder
      BY <1>1, <1>3, <2>2 DEF IsFirst
    <3>2. found \in pendings.nodes /\ pending[found].start >= borrow[l].end
      BY <3>1
    <3>3. ASSUME NEW m \in pendings.nodes
          PROVE  <<m, found>> \in pendingsOrder <=> pending[m].start < borrow[l].end
      <4>1. CASE pending[m].start < borrow[l].end
        <5>1. m # found
          BY <1>5, <1>6, <3>2, <4>1
        <5>2. <<found, m>> \notin pendingsOrder
          <6>1. Before(found, m) => pending[found].start <= pending[m].start
            BY <1>2, <1>6, <3>2, BeforeStart
          <6>2. ~Before(found, m)
            BY <1>5, <1>6, <3>2, <4>1, <6>1
          <6>. QED  BY <1>4, <3>2, <6>2
        <5>. QED  BY <1>4, <3>2, <4>1, <5>1, <5>2 DEF Sorted
      <4>2. CASE ~(pending[m].start < borrow[l].end)
        <5>1. m \in S
          BY <1>5, <1>6, <4>2
        <5>2. m # found => <<found, m>> \in pendingsOrder
          BY <3>1, <5>1
        <5>3. <<m, found>> \notin pendingsOrder
          BY <1>4, <3>2, <5>2 DEF Sorted
        <5>. QED  BY <4>2, <5>3
      <4>. QED  BY <4>1, <4>2
    <3>4. pendingsGoal' = {m \in pendings.nodes : <<m, found>> \in pendingsOrder}
      BY <3>1 DEF P!TreeNeighbor, P!Ahead
    <3>5. pendingsPc' \in Walking /\ pendingsSide' = 0
      BY <3>1 DEF P!TreeNeighbor, Walking
    <3>6. pendingsGoal' = G
      BY <3>3, <3>4
    <3>7. found \in Blocking
      BY <1>4, <3>2
    <3>. QED  BY <3>1, <3>5, <3>6, <3>7
  <2>. QED  BY <2>1, <2>2
<1>8. Cancelled' = Cancelled
  BY <1>1 DEF Cancelled, locals
<1>9. Stored' /\ Trees' /\ pendings' = pendings /\ readsPc' = "idle" /\ writesPc' = "idle"
  BY <1>1, <1>3, <1>7, <1>8, WalkStored
<1>10. ask' = ask /\ op' = None /\ claimed'[ask'.lock] /\ borrow' = borrow /\ pending' = pending
       /\ ask'.lock \in Locks /\ borrow'[ask'.lock] # None /\ todo' = <<>>
  BY <1>1, <1>3 DEF vars, locals, l
<1>11. pendingsGoal' = {m \in pendings'.nodes : pending'[m].start < borrow'[ask'.lock].end}
  BY <1>7, <1>9, <1>10 DEF l
<1>. HIDE DEF S, G
<1>12. Unlocking'
  BY <1>1, <1>7, <1>9, <1>10, <1>11 DEF Unlocking
<1>. QED  BY <1>1, <1>9, <1>12, WalkEnd

LEMMA BeginTurnKeeps ==
  ASSUME IInv, TreesIInv, Trees, BeginTurn
  PROVE  TreesIInv' /\ Trees' /\ UNCHANGED vars
<1>1. /\ stage = "rest" /\ stage' = "next" /\ InLoop /\ P!TreeNeighbor(op.cur, 0)
      /\ readsPc = "idle" /\ writesPc = "idle" /\ pendingsPc = "idle" /\ todo = <<>>
      /\ UNCHANGED <<vars, readsVars, writesVars, locals, todo>>
  BY DEF BeginTurn, Quiet
<1>2. PP!TreeInvariant
  BY DEF Trees
<1>3. /\ pendings.nodes \subseteq Blocking
      /\ \A m, n \in pendings.nodes : <<m, n>> \in pendingsOrder <=> Before(m, n)
  BY <1>1, <1>2, PendingsNow DEF Reading
<1>4. op.cur \in pendings.nodes
  BY <1>1 DEF P!TreeNeighbor
<1>5. pendingsPc' \in Walking /\ pendingsSide' = 0
  BY <1>1 DEF P!TreeNeighbor, Walking
<1>6. pendingsGoal' = {m \in pendings.nodes : <<m, op.cur>> \in pendingsOrder}
  BY <1>1 DEF P!TreeNeighbor, P!Ahead
<1>7. pendingsGoal' = {m \in pendings.nodes : Before(m, op.cur)}
  BY <1>3, <1>4, <1>6
<1>8. \E dir \in 0..1 : P!TreeExtreme(dir) \/ \E n \in Blocking : P!TreeNeighbor(n, dir)
  <2>1. op.cur \in Blocking
    BY <1>3, <1>4
  <2>. QED  BY <1>1, <2>1
<1>9. Cancelled' = Cancelled
  BY <1>1 DEF Cancelled
<1>10. Stored' /\ Trees' /\ pendings' = pendings /\ readsPc' = "idle" /\ writesPc' = "idle"
  BY <1>1, <1>8, <1>9, WalkStored
<1>11. op' = op /\ pending' = pending /\ older' = older /\ todo' = <<>>
  BY <1>1 DEF vars
<1>12. pendingsGoal' = {m \in pendings'.nodes : Before(m, op.cur)'}
  BY <1>7, <1>10, <1>11, SMT DEF Before
<1>13. InLoop'
  BY <1>1, <1>11 DEF InLoop
<1>14. Unlocking'
  BY <1>1, <1>5, <1>10, <1>11, <1>12, <1>13 DEF Unlocking
<1>. QED  BY <1>1, <1>10, <1>14, WalkEnd

LEMMA NextFoundKeeps ==
  ASSUME IInv, TreesIInv, Trees, NextFound
  PROVE  TreesIInv' /\ Trees' /\ UNCHANGED vars
<1>1. /\ stage = "next" /\ stage' = "turn" /\ pendingsPc = "found" /\ P!Return
      /\ upcoming' = FilterFrom(pendingsAt, op.start)
      /\ UNCHANGED <<vars, readsVars, writesVars, ask, lowest, found, todo>>
  BY DEF NextFound
<1>2. TypeOK /\ PP!TreeInvariant
  BY DEF IInv, Trees
<1>3. /\ InLoop /\ todo = <<>> /\ readsPc = "idle" /\ writesPc = "idle" /\ pendingsSide = 0
      /\ pendingsGoal = {m \in pendings.nodes : Before(m, op.cur)}
  BY <1>1 DEF TreesIInv, Unlocking
<1>4. Cancelled = {} /\ Cancelled' = {}
  BY <1>1 DEF Cancelled
<1>5. /\ pendings.nodes = Waits
      /\ \A m, n \in pendings.nodes : <<m, n>> \in pendingsOrder <=> Before(m, n)
  BY <1>1, <1>2, <1>3, <1>4, PendingsNow DEF Reading, Walking
<1>6. op.cur \in Waits /\ op.start \in Nat /\ ~Before(op.cur, op.cur)
  <2>1. op \in Frames /\ op.cur \in Locks /\ pending[op.cur] # None
    <3>1. op # None /\ op.cur # None
      BY <1>3 DEF InLoop
    <3>2. op \in Frames
      BY <1>2, <3>1 DEF TypeOK
    <3>3. op.cur \in ToVisit
      BY <3>1 DEF IInv, FrameOK
    <3>. QED  BY <3>2, <3>3 DEF ToVisit
  <2>2. op.cur \in Waits /\ op.start \in Nat
    BY <2>1, IndexAssumption DEF IInv, OnlyBlockingWait, Waits, Frames, Indices
  <2>3. op.cur \notin older[op.cur]
    BY <2>1 DEF IInv, OlderOrder
  <2>4. pending[op.cur].start \in Nat /\ pending[op.cur].priority \in Nat
    BY <1>2, <2>2, WaitType
  <2>. QED  BY <2>2, <2>3, <2>4 DEF Before
<1>7. IsMax(upcoming', WaitersBefore(op.cur))
  <2>. DEFINE S == {m \in Waits : Before(m, op.cur)}
  <2>1. \/ S = {} /\ pendingsAt = None
        \/ pendingsAt \in S /\ \A m \in S \ {pendingsAt} : <<m, pendingsAt>> \in pendingsOrder
    BY <1>1, <1>2, <1>3, <1>5, PendingsAnswer
  <2>2. S \in SUBSET Waits
    OBVIOUS
  <2>3. \/ S = {} /\ pendingsAt = None
        \/ pendingsAt \in S /\ \A m \in S \ {pendingsAt} : Before(m, pendingsAt)
    BY <1>5, <2>1
  <2>4. {k \in S : pending[k].start >= op.start} = WaitersBefore(op.cur)
    BY <1>6 DEF WaitersBefore
  <2>. HIDE DEF S
  <2>5. PICK n, i : n = pendingsAt /\ i = op.start
    OBVIOUS
  <2>6. IsMax(FilterFrom(n, i), {k \in S : pending[k].start >= i})
    BY <1>2, <1>6, <2>2, <2>3, <2>5, FilterMax
  <2>. QED  BY <1>1, <2>4, <2>5, <2>6
<1>8. Stored' /\ Trees'
  BY <1>1, <1>4, WalkStored
<1>9. op' = op /\ borrow' = borrow /\ pending' = pending /\ older' = older
  BY <1>1 DEF vars
<1>10. IsMax(upcoming, WaitersBefore(op.cur))'
  BY <1>7, <1>9, SMT DEF IsMax, WaitersBefore, Waits, Before
<1>11. InLoop'
  BY <1>3, <1>9 DEF InLoop
<1>12. Unlocking'
  BY <1>1, <1>10, <1>11 DEF Unlocking
<1>. QED  BY <1>1, <1>8, <1>12, WalkEnd

=============================================================================
