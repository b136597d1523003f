---------------------------- MODULE OrderedTree ----------------------------
(***************************************************************************)
(* A red-black tree of utils/rbtree.rs under any sequence of insertions,   *)
(* removals and queries, next to the total order it stands for: the        *)
(* setting of the repository's qc_btree test, which compares the tree with *)
(* a BTreeSet after every random command.  One step is one turn of a loop  *)
(* of the code, so that the invariant below is an invariant of its loops.  *)
(***************************************************************************)
EXTENDS RbTree

CONSTANTS
  Nodes,    \* the nodes
  Weight,   \* Weight[n]: element_to_summary of n's element
  WeightOf  \* WeightOf[S]: the sum of the weights of the nodes in S

ASSUME TreeAssumption ==
  Nil \notin Nodes /\ Weight \in [Nodes -> Int]

ASSUME WeightAssumption ==
  /\ WeightOf \in [SUBSET Nodes -> Int]
  /\ WeightOf[{}] = 0
  /\ \A n \in Nodes : WeightOf[{n}] = Weight[n]
  /\ \A S \in SUBSET Nodes : \A T \in SUBSET (Nodes \ S) :
       WeightOf[S \cup T] = WeightOf[S] + WeightOf[T]

VARIABLES
  tree,    \* the tree
  before,  \* reference: the pairs of linked nodes in order
  pc,      \* the loop that is running, or "idle"
  node,    \* the node that is inserted, removed or ranked
  at,      \* the cursor of the loop
  pred,    \* in a removal, the in-order predecessor
  side,    \* the side that is short of a black node; the direction of a walk
  goal,    \* the nodes the new node goes before; the nodes of which a query is
           \* to find the first in its direction
  acc      \* what prefix_sum has added up

tvars == <<tree, before, pc, node, at, pred, side, goal, acc>>

TreeInit ==
  /\ tree = Empty(Nodes) /\ before = {}
  /\ pc = "idle" /\ node = Nil /\ at = Nil /\ pred = Nil /\ side = 0 /\ goal = {} /\ acc = 0

\* The loop that is running, its node and its cursor after a step.
Goto(loop, n, cursor) ==
  IF cursor = Nil
    THEN pc' = "idle" /\ node' = Nil /\ at' = Nil
    ELSE pc' = loop /\ node' = n /\ at' = cursor

-----------------------------------------------------------------------------
(* Insertion *)

\* cmp_element, or the comparison that lower_bound is given, agrees with the
\* order: what comes after a node of S is in S.
Upward(S) == \A x \in S, y \in tree.nodes : <<x, y>> \in before => y \in S

\* cmp_element(n, m) is Less exactly for the nodes m in S.
TreeInsert(n, S) ==
  /\ pc = "idle" /\ n \notin tree.nodes
  /\ tree' = IF tree.root = Nil THEN PlantRoot(tree, n, Weight[n]) ELSE tree
  /\ Goto("descend", n, tree.root)
  /\ goal' = S
  /\ UNCHANGED <<before, pred, side, acc>>

Descend ==
  LET dir == IF at \in goal THEN 0 ELSE 1
      c   == tree.child[at][dir]
  IN  /\ pc = "descend"
      /\ tree' = DescendBody(tree, at, dir, node, Weight[node])
      /\ IF c # Nil
           THEN pc' = pc /\ at' = c /\ UNCHANGED <<before, goal>>
           ELSE /\ pc' = "fixInsert" /\ at' = node /\ goal' = {}
                /\ before' = before \cup {<<m, node>> : m \in tree.nodes \ goal}
                                    \cup {<<node, m>> : m \in goal}
      /\ UNCHANGED <<node, pred, side, acc>>

FixInsert ==
  /\ pc = "fixInsert"
  /\ tree' = FixInsertBody(tree, at)
  /\ Goto("fixInsert", node, FixInsertNext(tree, at))
  /\ UNCHANGED <<before, pred, side, goal, acc>>

-----------------------------------------------------------------------------
(* Removal *)

TreeRemove(n) ==
  /\ pc = "idle" /\ n \in tree.nodes
  /\ Goto("deduct", n, n)
  /\ UNCHANGED <<tree, before, pred, side, goal, acc>>

\* The summaries of the node and of all its ancestors.
Deduct ==
  /\ pc = "deduct"
  /\ tree' = AddSum(tree, at, -Weight[node])
  /\ IF tree.parent[at] # Nil THEN pc' = pc /\ at' = tree.parent[at]
     ELSE IF tree.child[node][0] # Nil /\ tree.child[node][1] # Nil
            THEN pc' = "findPred" /\ at' = tree.child[node][0]
     ELSE pc' = "unlink" /\ at' = Nil
  /\ UNCHANGED <<before, node, pred, side, goal, acc>>

FindPred ==
  /\ pc = "findPred"
  /\ IF tree.child[at][1] # Nil
       THEN pc' = pc /\ at' = tree.child[at][1] /\ UNCHANGED pred
       ELSE pc' = "deductPred" /\ at' = tree.parent[at] /\ pred' = at
  /\ UNCHANGED <<tree, before, node, side, goal, acc>>

\* Mutant of DeductPred: the nodes in between keep counting the predecessor.
BugKeepPred ==
  /\ pc = "deductPred" /\ at # node
  /\ at' = tree.parent[at]
  /\ UNCHANGED <<tree, before, pc, node, pred, side, goal, acc>>

\* The summaries of the nodes between the predecessor and the node.
DeductPred ==
  /\ pc = "deductPred" /\ at # node
  /\ tree' = AddSum(tree, at, -Weight[pred])
  /\ at' = tree.parent[at]
  /\ UNCHANGED <<before, pc, node, pred, side, goal, acc>>

SwapNodes ==
  /\ pc = "deductPred" /\ at = node
  /\ tree' = SwapWithPredecessor(tree, node, pred)
  /\ pc' = "unlink" /\ at' = Nil /\ pred' = Nil
  /\ UNCHANGED <<before, node, side, goal, acc>>

UnlinkNode ==
  LET next == UnlinkNext(tree, node)
  IN  /\ pc = "unlink"
      /\ tree' = Unlink(tree, node)
      /\ before' = {pair \in before : pair[1] # node /\ pair[2] # node}
      /\ Goto("fixRemove", Nil, next)
      /\ side' = IF next = Nil THEN 0 ELSE Side(tree, node)
      /\ UNCHANGED <<pred, goal, acc>>

FixRemove ==
  LET next == FixRemoveNext(tree, at, side)
  IN  /\ pc = "fixRemove"
      /\ tree' = FixRemoveBody(tree, at, side)
      /\ Goto("fixRemove", Nil, next)
      /\ side' = IF next = Nil THEN 0 ELSE FixRemoveSide(tree, at, side)
      /\ UNCHANGED <<before, pred, goal, acc>>

-----------------------------------------------------------------------------
(* Queries *)

\* x comes first of the two in the direction dir.
Ahead(order, x, y, dir) == IF dir = 1 THEN <<x, y>> \in order ELSE <<y, x>> \in order

\* lower_bound with a comparison that is Greater exactly outside S.
TreeLowerBound(S) ==
  /\ pc = "idle"
  /\ pc' = IF tree.root = Nil THEN "found" ELSE "search"
  /\ at' = tree.root /\ side' = 1 /\ goal' = S
  /\ UNCHANGED <<tree, before, node, pred, acc>>

\* successor (dir = 1) or predecessor of n.
TreeNeighbor(n, dir) ==
  LET c == tree.child[n][dir]
  IN  /\ pc = "idle" /\ n \in tree.nodes
      /\ IF c # Nil THEN pc' = "extreme" /\ at' = c ELSE pc' = "ascend" /\ at' = n
      /\ side' = dir /\ goal' = {m \in tree.nodes : Ahead(before, n, m, dir)}
      /\ UNCHANGED <<tree, before, node, pred, acc>>

\* min (dir = 1) or max of the tree, if it has a root.
TreeExtreme(dir) ==
  /\ pc = "idle"
  /\ pc' = IF tree.root = Nil THEN "found" ELSE "extreme"
  /\ at' = tree.root /\ side' = dir /\ goal' = tree.nodes
  /\ UNCHANGED <<tree, before, node, pred, acc>>

\* Mutant of Search: a node at which there is nowhere to go is the result.
BugSearchStops ==
  LET c == tree.child[at][IF at \in goal THEN 0 ELSE 1]
  IN  /\ pc = "search"
      /\ pc' = (IF c = Nil THEN "found" ELSE pc) /\ at' = (IF c = Nil THEN at ELSE c)
      /\ UNCHANGED <<tree, before, node, pred, side, goal, acc>>

Search ==
  LET dir == IF at \in goal THEN 0 ELSE 1
      c   == tree.child[at][dir]
  IN  /\ pc = "search"
      /\ IF c # Nil THEN pc' = pc /\ at' = c
         ELSE pc' = (IF at \in goal THEN "found" ELSE "ascend") /\ at' = at
      /\ UNCHANGED <<tree, before, node, pred, side, goal, acc>>

Extreme ==
  LET c == tree.child[at][1 - side]
  IN  /\ pc = "extreme"
      /\ IF c # Nil THEN pc' = pc /\ at' = c ELSE pc' = "found" /\ at' = at
      /\ UNCHANGED <<tree, before, node, pred, side, goal, acc>>

Ascend ==
  /\ pc = "ascend"
  /\ pc' = IF IsAncestorOn(tree, at, side) THEN "found" ELSE pc
  /\ at' = tree.parent[at]
  /\ UNCHANGED <<tree, before, node, pred, side, goal, acc>>

\* prefix_sum of n.
TreeRank(n) ==
  /\ pc = "idle" /\ n \in tree.nodes
  /\ pc' = "rank" /\ node' = n /\ at' = n /\ acc' = Sum(tree, tree.child[n][0])
  /\ UNCHANGED <<tree, before, pred, side, goal>>

Rank ==
  /\ pc = "rank" /\ tree.parent[at] # Nil
  /\ acc' = acc + RankStep(tree, at, Weight)
  /\ at' = tree.parent[at]
  /\ UNCHANGED <<tree, before, pc, node, pred, side, goal>>

\* A query returns at or acc.
Return ==
  /\ pc = "found" \/ (pc = "rank" /\ tree.parent[at] = Nil)
  /\ pc' = "idle" /\ node' = Nil /\ at' = Nil /\ side' = 0 /\ goal' = {} /\ acc' = 0
  /\ UNCHANGED <<tree, before, pred>>

\* One turn of the loop that is running.
LoopStep ==
  \/ Descend \/ FixInsert
  \/ Deduct \/ FindPred \/ DeductPred \/ SwapNodes \/ UnlinkNode \/ FixRemove
  \/ Search \/ Extreme \/ Ascend \/ Rank

TreeNext ==
  \/ /\ pc = "idle"
     /\ \E S \in SUBSET tree.nodes :
          Upward(S) /\ (TreeLowerBound(S) \/ \E n \in Nodes : TreeInsert(n, S))
  \/ \E n \in Nodes : TreeRemove(n) \/ TreeRank(n)
  \/ \E dir \in 0..1 : TreeExtreme(dir) \/ \E n \in Nodes : TreeNeighbor(n, dir)
  \/ LoopStep \/ Return

TreeSpec == TreeInit /\ [][TreeNext]_tvars

-----------------------------------------------------------------------------
(* Properties *)

\* No debug assertion fails, no missing sibling is unwrapped, and no arm
\* marked unreachable_unchecked, undefined behaviour in a release build, is
\* ever reached.
NothingUnreachable == tree.ok

\* Whenever no operation is under way, every subtree's summary, kept by
\* differences over descents, rotations and the exchange of nodes, is the
\* node's weight plus the summaries of its children, and the root's is the
\* weight of all nodes.
SummariesExact ==
  pc = "idle" => SumsExact(tree, Weight) /\ Sum(tree, tree.root) = WeightOf[tree.nodes]

\* What lower_bound, successor, predecessor, min and max return is the first
\* of the nodes they are to find, in their direction; nothing if there is none.
QueriesExact ==
  pc = "found" =>
    IF goal = {} THEN at = Nil
    ELSE at \in goal /\ \A m \in goal \ {at} : Ahead(before, at, m, side)

\* prefix_sum returns the weight of what precedes the node.
RanksExact ==
  pc = "rank" /\ tree.parent[at] = Nil =>
    acc = WeightOf[{m \in tree.nodes : <<m, node>> \in before}]

-----------------------------------------------------------------------------
(* The loop invariant.  below[n] is the set of nodes in the subtree of n,  *)
(* height[n] the number of black nodes on every path down from n.          *)

Trees == [root : Nodes \cup {Nil}, nodes : SUBSET Nodes,
          child : [Nodes -> [0..1 -> Nodes \cup {Nil}]], parent : [Nodes -> Nodes \cup {Nil}],
          color : [Nodes -> {"Red", "Black"}], sum : [Nodes -> Int], ok : BOOLEAN]

TreeTypeOK ==
  /\ tree \in Trees
  /\ before \in SUBSET (Nodes \X Nodes)
  /\ node \in Nodes \cup {Nil} /\ at \in Nodes \cup {Nil} /\ pred \in Nodes \cup {Nil}
  /\ side \in 0..1 /\ goal \in SUBSET Nodes /\ acc \in Int

\* The links of t agree in both directions.
LinksAgree(t) ==
  /\ t.root = Nil <=> t.nodes = {}
  /\ t.root # Nil => t.root \in t.nodes /\ t.parent[t.root] = Nil
  /\ \A n \in t.nodes : n # t.root =>
       t.parent[n] \in t.nodes /\ \E dir \in 0..1 : t.child[t.parent[n]][dir] = n
  /\ \A n \in t.nodes, dir \in 0..1 :
       LET c == t.child[n][dir]
       IN  c # Nil => c \in t.nodes /\ t.parent[c] = n /\ c # t.child[n][1 - dir]

Below(below, n)   == IF n = Nil THEN {} ELSE below[n]
Height(height, n) == IF n = Nil THEN 0 ELSE height[n]

\* below[n] is n and, apart from each other, what is below its children; it
\* is closed under subtrees, and under parents up to n.
Subtrees(t, below) ==
  /\ t.root # Nil => below[t.root] = t.nodes
  /\ \A n \in t.nodes :
       LET b0 == Below(below, t.child[n][0])
           b1 == Below(below, t.child[n][1])
       IN  /\ below[n] = {n} \cup b0 \cup b1
           /\ n \notin b0 /\ n \notin b1 /\ b0 \cap b1 = {}
           /\ below[n] \subseteq t.nodes
           /\ \A m \in below[n] : below[m] \subseteq below[n]
           /\ \A m \in below[n] : m # n => t.parent[m] \in below[n]

\* order is a strict total order of S.
TotalOrder(S, order) ==
  /\ order \subseteq S \X S
  /\ \A x, y \in S : <<x, y>> \in order => <<y, x>> \notin order
  /\ \A x, y \in S : x # y => <<x, y>> \in order \/ <<y, x>> \in order
  /\ \A x, y, z \in S : <<x, y>> \in order /\ <<y, z>> \in order => <<x, z>> \in order

\* What is below the children of a node lies on their side of it, and what is
\* outside a subtree lies on one side of all of it, not counting the node skip.
InOrder(t, order, below, skip) ==
  /\ \A n \in t.nodes, dir \in 0..1 : \A m \in Below(below, t.child[n][dir]) :
       n # skip /\ m # skip => Ahead(order, n, m, dir)
  /\ \A n \in t.nodes : \A m \in t.nodes \ below[n], x, y \in below[n] :
       m # skip /\ x # skip /\ y # skip /\ <<m, x>> \in order => <<m, y>> \in order

\* The summary of m: the nodes that a loop has counted in, or taken out, so
\* far are those on the path it has covered.
Expected(below, m) ==
  CASE pc = "descend" ->
         WeightOf[below[m]] + IF at \in below[m] /\ m # at THEN Weight[node] ELSE 0
    [] pc = "deduct" ->
         WeightOf[below[m]] - IF node \in below[m] /\ at \notin below[m] THEN Weight[node] ELSE 0
    [] pc \in {"findPred", "unlink"} -> WeightOf[below[m] \ {node}]
    [] pc = "deductPred" ->
         WeightOf[below[m] \ {node}]
           - IF pred \in below[m] /\ m # pred /\ at \notin below[m] THEN Weight[pred] ELSE 0
    [] OTHER -> WeightOf[below[m]]

SummariesExpected(below) ==
  \A m \in tree.nodes : ~(pc = "unlink" /\ m = node) => tree.sum[m] = Expected(below, m)

\* No red node has a red child, except perhaps the node n.
RedApart(t, n) ==
  \A m \in t.nodes, dir \in 0..1 :
    IsRed(t, m) /\ IsRed(t, t.child[m][dir]) => t.child[m][dir] = n

Black(t, n) == IF IsRed(t, n) THEN 0 ELSE 1

\* All paths down from a node are equally black; only below the node p, on
\* the side s, one black node is missing.
EquallyBlack(t, height, p, s) ==
  \A n \in t.nodes, dir \in 0..1 :
    height[n] = Height(height, t.child[n][dir]) + Black(t, n)
                  + IF n = p /\ dir = s THEN 1 ELSE 0

\* The node that is at the place of another one.
Misplaced == IF pc = "unlink" THEN node ELSE Nil

\* Where the cursor is, and what its loop has found out so far.
InsertCursor(below) ==
  /\ pc = "descend" =>
       /\ node \in Nodes \ tree.nodes /\ at \in tree.nodes
       /\ goal \subseteq tree.nodes /\ Upward(goal)
       /\ \A m \in tree.nodes \ below[at] : <<m, at>> \in before <=> m \notin goal
  /\ pc = "fixInsert" =>
       node \in tree.nodes /\ at \in tree.nodes /\ at # tree.root /\ IsRed(tree, at)

RemoveCursor(below) ==
  /\ pc \in {"deduct", "findPred", "deductPred", "unlink"} => node \in tree.nodes
  /\ pc = "deduct" => at \in tree.nodes /\ node \in below[at]
  /\ pc \in {"findPred", "deductPred"} =>
       \A dir \in 0..1 : tree.child[node][dir] # Nil
  /\ pc = "findPred" =>
       LET left == below[tree.child[node][0]]
       IN  /\ at \in left /\ \A m \in left : m \in below[at] \/ <<m, at>> \in before
           /\ \A m \in tree.nodes : at \in below[m] => m \in below[node] \/ node \in below[m]
  /\ pc = "deductPred" =>
       LET left == below[tree.child[node][0]]
       IN  /\ pred \in left /\ \A m \in left : m = pred \/ <<m, pred>> \in before
           /\ tree.child[pred][1] = Nil
           /\ \A m \in tree.nodes : pred \in below[m] => m \in below[node] \/ node \in below[m]
           /\ at \in below[node] /\ pred \in below[at] /\ at # pred
  /\ pc = "unlink" => tree.child[node][0] = Nil \/ tree.child[node][1] = Nil
  /\ pc = "fixRemove" => at \in tree.nodes /\ ~IsRed(tree, tree.child[at][side])

QueryCursor(below) ==
  /\ pc \in {"search", "extreme", "ascend", "rank"} => at \in tree.nodes
  /\ pc \in {"search", "extreme", "ascend", "found"} => goal \subseteq tree.nodes
  /\ pc = "search" =>
       /\ side = 1
       /\ \A m \in tree.nodes \ below[at] : <<m, at>> \in before <=> m \notin goal
       /\ Upward(goal)
  /\ pc = "extreme" =>
       below[at] \subseteq goal /\ \A m \in goal : m \in below[at] \/ Ahead(before, at, m, side)
  /\ pc = "ascend" => goal = {m \in tree.nodes \ below[at] : Ahead(before, at, m, side)}
  /\ pc = "rank" =>
       /\ node \in below[at]
       /\ acc = WeightOf[{m \in below[at] : <<m, node>> \in before}]

\* The node that is on its way into the tree, or out of it.
Inserting == IF pc = "descend" THEN {node} ELSE {}
Removing  == IF pc \in {"deduct", "findPred", "deductPred", "unlink"} THEN {node} ELSE {}

\* The nodes and the order that the tree has once the running loop is over.
Members == (tree.nodes \cup Inserting) \ Removing
Order   == {pair \in before : pair[1] \notin Removing /\ pair[2] \notin Removing}
             \cup {<<m, n>> : m \in tree.nodes \ goal, n \in Inserting}
             \cup {<<n, m>> : n \in Inserting, m \in goal}

LoopInvariant(below, height) ==
  /\ TreeTypeOK /\ tree.ok
  /\ LinksAgree(tree) /\ Subtrees(tree, below)
  /\ TotalOrder(tree.nodes, before) /\ InOrder(tree, before, below, Misplaced)
  /\ SummariesExpected(below)
  /\ RedApart(tree, IF pc = "fixInsert" THEN at ELSE Nil)
  /\ EquallyBlack(tree, height, IF pc = "fixRemove" THEN at ELSE Nil, side)
  /\ InsertCursor(below) /\ RemoveCursor(below) /\ QueryCursor(below) /\ QueriesExact
=============================================================================
