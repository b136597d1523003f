------------------------------ MODULE TreeCore ------------------------------
(***************************************************************************)
(* The interval lock core with its three red-black trees, one step per     *)
(* turn of a loop of the tree code.  RbTreeCore says what every method     *)
(* finds and what it does to the cells of the lock-state objects; here the *)
(* methods decide by what they find in the trees, and change the trees in  *)
(* the order in which the code does.                                       *)
(*                                                                         *)
(* A read borrow has two nodes, <<l, 0>> for its lower and <<l, 1>> for    *)
(* its upper bound; a write borrow and a pending borrow have one, l.  The  *)
(* elements of the nodes are the cells `borrow` and `pending`.  Each tree  *)
(* is an instance of OrderedTree, with the locals of its loops.            *)
(***************************************************************************)
EXTENDS RbTreeCore, Sequences

VARIABLES
  reads,    readsOrder,    readsPc,    readsNode,    readsAt,
  readsPred,    readsSide,    readsGoal,    readsAcc,
  writes,   writesOrder,   writesPc,   writesNode,   writesAt,
  writesPred,   writesSide,   writesGoal,   writesAcc,
  pendings, pendingsOrder, pendingsPc, pendingsNode, pendingsAt,
  pendingsPred, pendingsSide, pendingsGoal, pendingsAcc,
  stage,    \* what the method that runs is doing, or "rest"
  ask,      \* the lock, the range and the priority it is doing it for
  lowest,   \* the first conflict found so far
  found,    \* a node found by lower_bound
  upcoming, \* next_maybe_pending_node
  todo      \* the insertions and removals to be made, in order

readsVars    == <<reads, readsOrder, readsPc, readsNode, readsAt,
                  readsPred, readsSide, readsGoal, readsAcc>>
writesVars   == <<writes, writesOrder, writesPc, writesNode, writesAt,
                  writesPred, writesSide, writesGoal, writesAcc>>
pendingsVars == <<pendings, pendingsOrder, pendingsPc, pendingsNode, pendingsAt,
                  pendingsPred, pendingsSide, pendingsGoal, pendingsAcc>>
locals       == <<ask, lowest, found, upcoming>>
treeVars     == <<vars, readsVars, writesVars, pendingsVars, stage, locals, todo>>

ReadNodes == Readers \X {0, 1}

ASSUME NodesAssumption == None \notin ReadNodes

\* Mutant of ReadWeight: the signs are swapped.
BugWeightSwapped == [n \in ReadNodes |-> 2 * n[2] - 1]

\* element_to_summary: a lower bound counts 1, an upper bound -1.
ReadWeight == [n \in ReadNodes |-> 1 - 2 * n[2]]
ReadWeightOf == [S \in SUBSET ReadNodes |->
                   Cardinality({n \in S : n[2] = 0}) - Cardinality({n \in S : n[2] = 1})]

R == INSTANCE OrderedTree WITH
       Nil <- None, Nodes <- ReadNodes, Weight <- ReadWeight, WeightOf <- ReadWeightOf,
       tree <- reads, before <- readsOrder, pc <- readsPc, node <- readsNode, at <- readsAt,
       pred <- readsPred, side <- readsSide, goal <- readsGoal, acc <- readsAcc

\* `writes` and `pendings` have no summaries.
W == INSTANCE OrderedTree WITH
       Nil <- None, Nodes <- Writers, Weight <- [l \in Writers |-> 0],
       WeightOf <- [S \in SUBSET Writers |-> 0],
       tree <- writes, before <- writesOrder, pc <- writesPc, node <- writesNode, at <- writesAt,
       pred <- writesPred, side <- writesSide, goal <- writesGoal, acc <- writesAcc

P == INSTANCE OrderedTree WITH
       Nil <- None, Nodes <- Blocking, Weight <- [l \in Blocking |-> 0],
       WeightOf <- [S \in SUBSET Blocking |-> 0],
       tree <- pendings, before <- pendingsOrder, pc <- pendingsPc, node <- pendingsNode,
       at <- pendingsAt, pred <- pendingsPred, side <- pendingsSide, goal <- pendingsGoal,
       acc <- pendingsAcc

TreeCoreInit ==
  /\ Init /\ R!TreeInit /\ W!TreeInit /\ P!TreeInit
  /\ stage = "rest" /\ ask = None /\ lowest = None /\ found = None /\ upcoming = None
  /\ todo = <<>>

\* No tree is being searched or changed, and none has to be.
Quiet == readsPc = "idle" /\ writesPc = "idle" /\ pendingsPc = "idle" /\ todo = <<>>

\* The index of a node of `reads`.
Index(n) == IF n[2] = 0 THEN borrow[n[1]].start ELSE borrow[n[1]].end

\* The method is over, or comes to the next turn of the unlock loop.
Rest == stage' = "rest" /\ ask' = None /\ lowest' = None /\ found' = None /\ upcoming' = None

-----------------------------------------------------------------------------
(* Searching for conflicts *)

\* Mutant of Seek: a borrow that ends at r.start is found, too.
BugSeekInclusive(l, r, priority) ==
  /\ stage' = "write" /\ ask' = [lock |-> l, range |-> r, priority |-> priority]
  /\ W!TreeLowerBound({m \in writes.nodes : borrow[m].end >= r.start})
  /\ UNCHANGED <<vars, readsVars, pendingsVars, lowest, found, upcoming, todo>>

\* first_write_borrow_in_range: the first node whose end is above r.start ...
Seek(l, r, priority) ==
  /\ stage' = "write" /\ ask' = [lock |-> l, range |-> r, priority |-> priority]
  /\ W!TreeLowerBound({m \in writes.nodes : borrow[m].end > r.start})
  /\ UNCHANGED <<vars, readsVars, pendingsVars, lowest, found, upcoming, todo>>

\* ... if its start is below r.end.  A writer goes on to search `reads`; a
\* fallible one only if there is no conflict yet.
WriteFound ==
  LET n == writesAt
  IN  /\ stage = "write" /\ writesPc = "found"
      /\ lowest' = IF n # None /\ borrow[n].start < ask.range.end
                     THEN MaxOf(borrow[n].start, ask.range.start) ELSE None
      /\ W!Return
      /\ IF ask.lock \in Writers /\ (ask.lock \in Blocking \/ lowest' = None)
           THEN /\ stage' = "read"
                /\ R!TreeLowerBound({m \in reads.nodes : Index(m) > ask.range.start})
           ELSE stage' = "decide" /\ UNCHANGED readsVars
      /\ UNCHANGED <<vars, pendingsVars, ask, found, upcoming, todo>>

\* first_read_borrow_in_range: the first endpoint above r.start ...
ReadFound ==
  /\ stage = "read" /\ readsPc = "found"
  /\ found' = readsAt /\ stage' = IF readsAt = None THEN "decide" ELSE "sum"
  /\ R!Return
  /\ UNCHANGED <<vars, writesVars, pendingsVars, ask, lowest, upcoming, todo>>

BeginSum ==
  /\ stage = "sum" /\ readsPc = "idle"
  /\ R!TreeRank(found)
  /\ UNCHANGED <<vars, writesVars, pendingsVars, stage, locals, todo>>

SumAtStart == stage = "sum" /\ readsPc = "rank" /\ reads.parent[readsAt] = None

\* ... and the number of read borrows that r.start is in.
SumFound ==
  LET i == IF readsAcc > 0 THEN ask.range.start
           ELSE IF Index(found) < ask.range.end THEN Index(found)
           ELSE None
  IN  /\ SumAtStart
      /\ lowest' = IF lowest = None THEN i ELSE IF i = None THEN lowest ELSE MinOf(lowest, i)
      /\ stage' = "decide"
      /\ R!Return
      /\ UNCHANGED <<vars, writesVars, pendingsVars, ask, found, upcoming, todo>>

-----------------------------------------------------------------------------
(* Changing the trees *)

Put(t, n)  == [tree |-> t, job |-> "insert", node |-> n]
Take(t, n) == [tree |-> t, job |-> "remove", node |-> n]

\* ReadNodeCallback: sorted by index alone.
ReadsJob ==
  LET j == Head(todo)
  IN  /\ todo # <<>> /\ j.tree = "reads"
      /\ \/ /\ j.job = "insert"
            /\ R!TreeInsert(j.node, {m \in reads.nodes : Index(j.node) < Index(m)})
         \/ j.job = "remove" /\ R!TreeRemove(j.node)
      /\ UNCHANGED <<writesVars, pendingsVars>>

\* WriteNodeCallback: sorted by start.
WritesJob ==
  LET j == Head(todo)
  IN  /\ todo # <<>> /\ j.tree = "writes"
      /\ \/ /\ j.job = "insert"
            /\ W!TreeInsert(j.node, {m \in writes.nodes : borrow[j.node].start < borrow[m].start})
         \/ j.job = "remove" /\ W!TreeRemove(j.node)
      /\ UNCHANGED <<readsVars, pendingsVars>>

\* PendingNodeCallback: sorted by start and priority; a tie is Less.
GoesBefore(l, m) ==
  \/ pending[l].start < pending[m].start
  \/ pending[l].start = pending[m].start /\ pending[l].priority <= pending[m].priority

PendingsJob ==
  LET j == Head(todo)
  IN  /\ todo # <<>> /\ j.tree = "pendings"
      /\ \/ /\ j.job = "insert"
            /\ P!TreeInsert(j.node, {m \in pendings.nodes : GoesBefore(j.node, m)})
         \/ j.job = "remove" /\ P!TreeRemove(j.node)
      /\ UNCHANGED <<readsVars, writesVars>>

\* The next insertion or removal begins when the one before is over.
Job ==
  /\ readsPc = "idle" /\ writesPc = "idle" /\ pendingsPc = "idle"
  /\ ReadsJob \/ WritesJob \/ PendingsJob
  /\ todo' = Tail(todo)
  /\ UNCHANGED <<vars, stage, locals>>

TreeLoops ==
  /\ \/ R!LoopStep /\ UNCHANGED <<writesVars, pendingsVars>>
     \/ W!LoopStep /\ UNCHANGED <<readsVars, pendingsVars>>
     \/ P!LoopStep /\ UNCHANGED <<readsVars, writesVars>>
  /\ UNCHANGED <<vars, stage, locals, todo>>

\* The nodes of a new borrow of l.
BorrowJobs(l) ==
  IF l \in Readers THEN <<Put("reads", <<l, 0>>), Put("reads", <<l, 1>>)>>
                   ELSE <<Put("writes", l)>>

\* The upper bound of a read borrow moves: its node is taken out and put back.
\* A write borrow keeps its node: `end` changes in place.
MoveJobs(l) ==
  IF l \in Readers THEN <<Take("reads", <<l, 1>>), Put("reads", <<l, 1>>)>> ELSE <<>>

LockJobs(l) ==
  (IF borrow'[l] = None THEN <<>> ELSE BorrowJobs(l))
    \o (IF pending'[l] = None THEN <<>> ELSE <<Put("pendings", l)>>)

\* Mutant of ResumeJobs: the pending node stays where it was.
BugPendingStays(l) ==
  (IF pending'[l] = None THEN <<Take("pendings", l)>> ELSE <<>>)
    \o (IF pending'[l] = pending[l] THEN <<>>
        ELSE IF borrow[l] = None THEN BorrowJobs(l) ELSE MoveJobs(l))

ResumeJobs(l) ==
  IF pending'[l] = pending[l] THEN <<>>
  ELSE <<Take("pendings", l)>>
         \o (IF pending'[l] = None THEN <<>> ELSE <<Put("pendings", l)>>)
         \o (IF borrow[l] = None THEN BorrowJobs(l) ELSE MoveJobs(l))

\* Mutant of TruncateJobs: a truncated write borrow's node is removed.
BugTruncateRemovesWrite(l) ==
  IF l \in Writers THEN <<Take("writes", l)>>
  ELSE IF borrow'[l] # None THEN MoveJobs(l)
  ELSE <<Take("reads", <<l, 1>>), Take("reads", <<l, 0>>)>>

TruncateJobs(l) ==
  IF borrow'[l] # None THEN MoveJobs(l)
  ELSE IF l \in Readers THEN <<Take("reads", <<l, 1>>), Take("reads", <<l, 0>>)>>
  ELSE <<Take("writes", l)>>

FinishJobs(l) ==
  IF borrow[l] = None THEN <<>>
  ELSE IF l \in Readers THEN <<Take("reads", <<l, 0>>), Take("reads", <<l, 1>>)>>
  ELSE <<Take("writes", l)>>

-----------------------------------------------------------------------------
(* Locking *)

\* A lock method is called.  Without debug assertions an empty range passes.
BeginLock(l, r, priority) ==
  /\ stage = "rest" /\ Quiet /\ op = None /\ ~claimed[l]
  /\ DebugAssertions => r.start < r.end
  /\ Seek(l, r, priority)

DecideLock ==
  LET l == ask.lock
  IN  /\ stage = "decide" /\ op = None /\ l \in Blocking
      /\ LockAt(l, ask.range, ask.priority, lowest)
      /\ todo' = LockJobs(l)
      /\ Rest
      /\ UNCHANGED <<readsVars, writesVars, pendingsVars>>

DecideTryLock ==
  LET l == ask.lock
  IN  /\ stage = "decide" /\ op = None /\ l \notin Blocking
      /\ \/ lowest = None /\ Grant(l, ask.range) /\ todo' = BorrowJobs(l)
         \/ lowest # None /\ UNCHANGED <<vars, todo>>
      /\ Rest
      /\ UNCHANGED <<readsVars, writesVars, pendingsVars>>

-----------------------------------------------------------------------------
(* Unlocking *)

\* Keep n if the borrow it stands for waits at or above start.
FilterFrom(n, start) == IF n # None /\ pending[n].start >= start THEN n ELSE None

\* An unlock method is called: cancel_borrow takes l's pending node out.
BeginUnlock(l) ==
  /\ stage = "rest" /\ Quiet /\ op = None /\ claimed[l]
  /\ stage' = "cancel" /\ ask' = [lock |-> l, range |-> None, priority |-> None]
  /\ todo' = IF pending[l] = None THEN <<>> ELSE <<Take("pendings", l)>>
  /\ UNCHANGED <<vars, readsVars, writesVars, pendingsVars, lowest, found, upcoming>>

\* Nothing is borrowed.
UnlockNothing ==
  /\ stage = "cancel" /\ Quiet /\ borrow[ask.lock] = None
  /\ UnlockAt(ask.lock, None)
  /\ Rest
  /\ UNCHANGED <<readsVars, writesVars, pendingsVars, todo>>

\* Look for the maximum node of `pendings` below (end, -oo) ...
SeekEntry ==
  /\ stage = "cancel" /\ Quiet /\ borrow[ask.lock] # None
  /\ stage' = "above"
  /\ P!TreeLowerBound({m \in pendings.nodes : pending[m].start >= borrow[ask.lock].end})
  /\ UNCHANGED <<vars, readsVars, writesVars, locals, todo>>

AboveFound ==
  /\ stage = "above" /\ pendingsPc = "found"
  /\ found' = pendingsAt /\ stage' = "last"
  /\ P!Return
  /\ UNCHANGED <<vars, readsVars, writesVars, ask, lowest, upcoming, todo>>

\* ... the predecessor of the first node that is not, or the last node.
BeginLast ==
  /\ stage = "last" /\ pendingsPc = "idle"
  /\ IF found # None THEN P!TreeNeighbor(found, 0) ELSE P!TreeExtreme(0)
  /\ stage' = "enter"
  /\ UNCHANGED <<vars, readsVars, writesVars, locals, todo>>

EnterLoop ==
  /\ stage = "enter" /\ pendingsPc = "found"
  /\ UnlockAt(ask.lock, FilterFrom(pendingsAt, borrow[ask.lock].start))
  /\ P!Return
  /\ Rest
  /\ UNCHANGED <<readsVars, writesVars, todo>>

\* A turn of the unlock loop: find the next pending borrow before this one
\* moves, truncate, then resume this one.
BeginTurn ==
  /\ stage = "rest" /\ Quiet /\ InLoop
  /\ stage' = "next"
  /\ P!TreeNeighbor(op.cur, 0)
  /\ UNCHANGED <<vars, readsVars, writesVars, locals, todo>>

NextFound ==
  /\ stage = "next" /\ pendingsPc = "found"
  /\ stage' = "turn" /\ upcoming' = FilterFrom(pendingsAt, op.start)
  /\ P!Return
  /\ UNCHANGED <<vars, readsVars, writesVars, ask, lowest, found, todo>>

TurnTruncate ==
  /\ stage = "turn" /\ Quiet
  /\ Truncate
  /\ todo' = TruncateJobs(op.lock)
  /\ UNCHANGED <<readsVars, writesVars, pendingsVars, stage, locals>>

TurnSeek ==
  /\ stage = "turn" /\ Quiet /\ ~MustTruncate
  /\ Seek(op.cur, [start |-> pending[op.cur].start, end |-> pending[op.cur].end], None)

DecideResume ==
  /\ stage = "decide" /\ InLoop
  /\ ResumeAt(lowest, upcoming)
  /\ todo' = ResumeJobs(op.cur)
  /\ Rest
  /\ UNCHANGED <<readsVars, writesVars, pendingsVars>>

TreeFinish ==
  /\ stage = "rest" /\ Quiet
  /\ FinishUnlock
  /\ todo' = FinishJobs(op.lock)
  /\ UNCHANGED <<readsVars, writesVars, pendingsVars, stage, locals>>

-----------------------------------------------------------------------------
TreeCoreNext ==
  \/ \E l \in Locks, r \in Ranges :
       \E p \in IF l \in Blocking THEN Priorities ELSE {None} : BeginLock(l, r, p)
  \/ \E l \in Locks : BeginUnlock(l)
  \/ TreeLoops \/ Job
  \/ WriteFound \/ ReadFound \/ BeginSum \/ SumFound
  \/ DecideLock \/ DecideTryLock
  \/ UnlockNothing \/ SeekEntry \/ AboveFound \/ BeginLast \/ EnterLoop
  \/ BeginTurn \/ NextFound \/ TurnTruncate \/ TurnSeek \/ DecideResume \/ TreeFinish

TreeCoreSpec == TreeCoreInit /\ [][TreeCoreNext]_treeVars

-----------------------------------------------------------------------------
(* Properties *)

\* The pending node that an unlock method has taken out of `pendings` while
\* its cell still holds it.
Cancelled == IF stage \in {"cancel", "above", "last", "enter"} THEN {ask.lock} ELSE {}

\* No assertion or unreachable arm of the tree code is ever reached; whenever no
\* tree is being changed, the trees are linked and coloured soundly and have
\* exactly the nodes in the cells, and the summaries of `reads`, +1 for a start
\* and -1 for an end, are the sums over its subtrees; and a node that is to be inserted is not in
\* its tree yet, one that is to be removed is.
TreesSound ==
  /\ reads.ok /\ writes.ok /\ pendings.ok
  /\ Quiet =>
       /\ reads.nodes = Reads \X {0, 1} /\ writes.nodes = Writes
       /\ pendings.nodes = Waits \ Cancelled
       /\ R!LinksAgree(reads) /\ W!LinksAgree(writes) /\ P!LinksAgree(pendings)
       /\ R!RedApart(reads, None) /\ W!RedApart(writes, None) /\ P!RedApart(pendings, None)
       /\ R!SumsExact(reads, ReadWeight)
  /\ readsPc = "idle" /\ writesPc = "idle" /\ pendingsPc = "idle" /\ todo # <<>> =>
       LET j     == Head(todo)
           nodes == CASE j.tree = "reads"  -> reads.nodes
                      [] j.tree = "writes" -> writes.nodes
                      [] OTHER             -> pendings.nodes
       IN  j.job = "insert" <=> j.node \notin nodes

\* The conflict that a lock method or a resumed borrow acts upon, found in the
\* trees, is the one that RbTreeCore says: although `writes` is sorted by start,
\* searched by end and changed in place, and although `reads` counts by
\* differences.  The fallible methods look no further than the first one found.
SearchesAgree ==
  stage = "decide" =>
    LET c == FirstConflict(ask.lock, ask.range)
    IN  IF ask.lock \in Blocking THEN lowest = c ELSE lowest = None <=> c = None

\* The debug assertions in first_read_borrow_in_range hold: the first endpoint
\* above r.start is above it and, if no read borrow covers r.start, a lower bound.
FirstEndpointIsLower ==
  SumAtStart => /\ Index(found) > ask.range.start
                /\ readsAcc <= 0 => found[2] = 0 /\ readsAcc = 0

\* The core that works on its trees implements RbTreeCore: every step changes
\* the cells the way one of the methods there does, or not at all.
ImplementsCore == Spec

-----------------------------------------------------------------------------
(* The inductive invariant *)

\* The nodes that are to be inserted into, or removed from, the tree t.
JobsIn(s, t, job) == {s[i].node : i \in {i \in DOMAIN s : s[i].tree = t /\ s[i].job = job}}
Jobs(t, job) == JobsIn(todo, t, job)

AllJobs == [tree : {"reads", "writes", "pendings"}, job : {"insert", "remove"},
            node : ReadNodes \cup Locks]

\* No job is there twice, and the removals from a tree come first.
Queued ==
  /\ todo \in Seq(AllJobs)
  /\ \A i, j \in DOMAIN todo :
       /\ todo[i] = todo[j] => i = j
       /\ todo[i].tree = todo[j].tree /\ todo[i].job = "remove" /\ todo[j].job = "insert" => i < j

\* Of the members of the tree t, those that stay where they are.
Staying(t, members) == members \ Jobs(t, "remove")

\* When its jobs are done, the tree t has exactly the given nodes.
WillHave(t, members, nodes) ==
  /\ Jobs(t, "remove") \subseteq members
  /\ Staying(t, members) \cap Jobs(t, "insert") = {}
  /\ Staying(t, members) \cup Jobs(t, "insert") = nodes

\* The trees hold the nodes in the cells and are sorted by what is in the cells
\* now, but for the nodes that are about to be removed or inserted.
ReadsInOrder ==
  /\ WillHave("reads", R!Members, Reads \X {0, 1})
  /\ \A m, n \in Staying("reads", R!Members) : <<m, n>> \in R!Order => Index(m) <= Index(n)

WritesInOrder ==
  /\ WillHave("writes", W!Members, Writes)
  /\ \A m, n \in Staying("writes", W!Members) :
       <<m, n>> \in W!Order => borrow[m].start <= borrow[n].start

PendingsInOrder ==
  /\ WillHave("pendings", P!Members, Waits \ Cancelled)
  /\ \A m, n \in Staying("pendings", P!Members) : <<m, n>> \in P!Order <=> Before(m, n)
  /\ \A l \in Jobs("pendings", "insert") : older[l] = Waits \ {l}

Walking == {"search", "extreme", "ascend", "found"}

\* n is the first node of S in the order, None if S is empty.
IsFirst(n, S, order) ==
  \/ n \in S /\ \A m \in S \ {n} : <<n, m>> \in order
  \/ n = None /\ S = {}

\* What a search is for: a lock method's request, or the pending borrow that the
\* unlock loop resumes.
Asked ==
  /\ ask.lock \in Locks /\ ask.range \in Ranges
  /\ \/ op = None /\ MayLock(ask.lock, ask.range) /\ (ask.lock \in Blocking => ask.priority \in Priorities)
     \/ /\ InLoop /\ ~MustTruncate /\ ask.lock = op.cur /\ IsMax(upcoming, WaitersBefore(op.cur))
        /\ ask.range = [start |-> pending[op.cur].start, end |-> pending[op.cur].end]

\* Where a search for conflicts is, and what it has found so far.
Searching ==
  /\ stage \in {"write", "read", "sum", "decide"} => Asked /\ todo = <<>> /\ pendingsPc = "idle"
  /\ stage \in {"read", "sum", "decide"} => writesPc = "idle"
  /\ stage \in {"write", "decide"} => readsPc = "idle"
  /\ stage = "write" =>
       /\ writesPc \in Walking /\ writesSide = 1
       /\ writesGoal = {m \in writes.nodes : borrow[m].end > ask.range.start}
  /\ stage \in {"read", "sum"} =>
       ask.lock \in Writers /\ lowest = first_write_borrow_in_range(ask.range)
  /\ stage = "read" =>
       /\ readsPc \in Walking /\ readsSide = 1
       /\ readsGoal = {m \in reads.nodes : Index(m) > ask.range.start}
  /\ stage = "sum" =>
       /\ readsPc = "idle" \/ (readsPc = "rank" /\ readsNode = found)
       /\ found # None
       /\ IsFirst(found, {m \in reads.nodes : Index(m) > ask.range.start}, readsOrder)

\* Where a walk over `pendings` is, and what it is to find.
Unlocking ==
  /\ stage \in {"cancel", "above", "last", "enter"} => op = None /\ ask.lock \in Locks /\ claimed[ask.lock]
  /\ stage \in {"above", "last", "enter"} => borrow[ask.lock] # None
  /\ stage \in {"next", "turn"} => InLoop
  /\ stage \in {"above", "last", "enter", "next"} => todo = <<>> /\ readsPc = "idle" /\ writesPc = "idle"
  /\ stage \in {"above", "enter", "next"} => pendingsPc \in Walking
  /\ stage = "above" =>
       /\ pendingsSide = 1
       /\ pendingsGoal = {m \in pendings.nodes : pending[m].start >= borrow[ask.lock].end}
  /\ stage = "last" =>
       /\ pendingsPc = "idle"
       /\ IsFirst(found, {m \in pendings.nodes : pending[m].start >= borrow[ask.lock].end}, pendingsOrder)
  /\ stage = "enter" =>
       /\ pendingsSide = 0
       /\ pendingsGoal = {m \in pendings.nodes : pending[m].start < borrow[ask.lock].end}
  /\ stage = "next" =>
       pendingsSide = 0 /\ pendingsGoal = {m \in pendings.nodes : Before(m, op.cur)}
  /\ stage = "turn" => IsMax(upcoming, WaitersBefore(op.cur))

TreesIInv ==
  /\ Queued /\ ReadsInOrder /\ WritesInOrder /\ PendingsInOrder
  /\ Searching /\ Unlocking /\ SearchesAgree
=============================================================================
