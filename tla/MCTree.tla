------------------------------- MODULE MCTree -------------------------------
(* OrderedTree for model checking.                                          *)
EXTENDS OrderedTree, FiniteSetsExt, TLC

CONSTANTS
  Size,    \* how many nodes there are
  Small,   \* trees of any of the first nodes, up to this one, are small
  Large    \* trees that have all of the first nodes, up to this one, are large

MCNodes == 1..Size

\* Weights of which no two subtrees of a small tree have the same sum.
MCWeight == [n \in MCNodes |-> 2^n]
MCWeightOf == [S \in SUBSET MCNodes |-> MapThenSumSet(LAMBDA n : MCWeight[n], S)]

\* The keys of the nodes, in order; two nodes share one.
Key == [n \in MCNodes |-> IF n <= 2 THEN 2 ELSE n]

\* In small trees a node may go anywhere; otherwise it goes where its key says,
\* before its equals.
Placed ==
  pc = "idle" /\ pc' = "descend" =>
    \/ tree.nodes \cup {node'} \subseteq 1..Small
    \/ goal' = {m \in tree.nodes : Key[node'] <= Key[m]}

\* Explored are small trees, large trees and the way from one to the other;
\* queries are explored in small trees.
Bounded ==
  /\ pc = "idle" =>
       \/ tree.nodes \subseteq 1..Small
       \/ tree.nodes \in {1..k : k \in Small..Large}
       \/ 1..Large \subseteq tree.nodes
  /\ pc \in {"search", "extreme", "ascend", "found", "rank"} => tree.nodes \subseteq 1..Small

-----------------------------------------------------------------------------
\* The nodes below n, and how many black nodes there are from n, inclusive,
\* down to a missing child, on the side where there are more.
RECURSIVE Subtree(_, _)
Subtree(t, n) ==
  IF n = Nil THEN {} ELSE {n} \cup Subtree(t, t.child[n][0]) \cup Subtree(t, t.child[n][1])

RECURSIVE BlackHeight(_, _)
BlackHeight(t, n) ==
  IF n = Nil THEN 0
  ELSE Black(t, n) + Max({BlackHeight(t, t.child[n][dir]) : dir \in 0..1})

\* In every turn of every loop the invariant of the proofs holds, with the
\* subtrees and the black heights that the tree has: it is a red-black tree,
\* up to the one place the loop has yet to repair, of the nodes in order.
LoopsKeepInvariant ==
  LoopInvariant([n \in tree.nodes |-> Subtree(tree, n)] @@ [n \in Nodes |-> {}],
                [n \in tree.nodes |-> BlackHeight(tree, n)] @@ [n \in Nodes |-> 0])
=============================================================================
