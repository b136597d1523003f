------------------------------- MODULE RbTree -------------------------------
(***************************************************************************)
(* The intrusive red-black tree with order statistics of utils/rbtree.rs,  *)
(* as operators on a tree value                                            *)
(*                                                                         *)
(*   t.root   the root node, or Nil                                        *)
(*   t.nodes  the nodes that are linked into the tree                      *)
(*   t.child, t.parent, t.color, t.sum  the fields of every node           *)
(*   t.ok     FALSE once a debug_assert!, unwrap or expect has failed, or  *)
(*            an unreachable_unchecked arm has been reached                *)
(*                                                                         *)
(* Every loop of the code is given by its body, one turn of the loop; the  *)
(* module OrderedTree takes the turns one by one.                          *)
(*                                                                         *)
(* The elements are the caller's, who passes the outcome of comparisons    *)
(* and element_to_summary.  What removal leaves in the fields of a node is *)
(* not kept: insertion writes children, colour and parent before it reads  *)
(* them, and the caller sets the summary.                                  *)
(***************************************************************************)
EXTENDS Integers

CONSTANT Nil   \* Option::None of a link

NoChildren == [dir \in 0..1 |-> Nil]

\* A tree for nodes from S, none of which is linked yet.
Empty(S) == [root |-> Nil, nodes |-> {}, child |-> [n \in S |-> NoChildren],
             parent |-> [n \in S |-> Nil], color |-> [n \in S |-> "Red"],
             sum |-> [n \in S |-> 0], ok |-> TRUE]

Check(t, assertion) == [t EXCEPT !.ok = @ /\ assertion]
Panic(t) == [t EXCEPT !.ok = FALSE]

IsRed(t, n) == n # Nil /\ t.color[n] = "Red"
Sum(t, n)   == IF n = Nil THEN 0 ELSE t.sum[n]
Side(t, n)  == IF t.child[t.parent[n]][1] = n THEN 1 ELSE 0

Paint(t, n, color)  == [t EXCEPT !.color[n] = color]
AddSum(t, n, delta) == [t EXCEPT !.sum[n] = @ + delta]

\* Store m in the cell, a child of n's parent or the root, that refers to n.
Replace(t, n, m) ==
  LET p == t.parent[n]
  IN  IF p = Nil THEN [Check(t, t.root = n) EXCEPT !.root = m]
      ELSE [Check(t, t.child[p][Side(t, n)] = n) EXCEPT !.child[p][Side(t, n)] = m]

\* Push n down to the side dir; its child on the other side takes its place.
rotate(t, n, dir) ==
  LET up  == t.child[n][1 - dir]
      mid == t.child[up][dir]
  IN  IF up = Nil THEN Panic(t) ELSE
      [Replace(t, n, up) EXCEPT
         !.child  = [m \in DOMAIN @ |-> IF m = n THEN [@[m] EXCEPT ![1 - dir] = mid]
                                        ELSE IF m = up THEN [@[m] EXCEPT ![dir] = n] ELSE @[m]],
         !.parent = [m \in DOMAIN @ |-> IF m = up THEN t.parent[n]
                                        ELSE IF m = n THEN up
                                        ELSE IF m = mid THEN n ELSE @[m]],
         !.sum    = [@ EXCEPT ![up] = t.sum[n],
                              ![n] = t.sum[n] - t.sum[up] + Sum(t, mid)]]

-----------------------------------------------------------------------------
(* Insertion *)

\* The first node of a tree.
PlantRoot(t, new, sum) ==
  [t EXCEPT !.root = new, !.nodes = {new}, !.child[new] = NoChildren,
            !.parent[new] = Nil, !.color[new] = "Red", !.sum[new] = sum]

\* The descent to an empty cell: p counts the new node in; dir is 1 iff
\* cmp_element(new, p) is not Less.
DescendBody(t, p, dir, new, sum) ==
  IF t.child[p][dir] # Nil THEN AddSum(t, p, sum)
  ELSE [t EXCEPT !.nodes = @ \cup {new},
                 !.child = [@ EXCEPT ![new] = NoChildren, ![p] = [t.child[p] EXCEPT ![dir] = new]],
                 !.parent[new] = p, !.color[new] = "Red",
                 !.sum = [@ EXCEPT ![new] = sum, ![p] = t.sum[p] + sum]]

\* The red node n may have a red parent: recolour and go on further up, or
\* rotate.
FixInsertBody(t, n) ==
  LET p     == t.parent[n]
      g     == t.parent[p]
      pSide == Side(t, p)
      uncle == t.child[g][1 - pSide]
      inner == Side(t, n) # pSide
      top   == IF inner THEN n ELSE p
      t0    == Check(t, IsRed(t, n) /\ t.child[p][Side(t, n)] = n)
      t1    == Check(t0, t.child[g][pSide] = p /\ ~IsRed(t, g))
      t2    == IF inner THEN rotate(t1, p, pSide) ELSE t1
  IN  IF ~IsRed(t, p) THEN t0
      ELSE IF g = Nil THEN Paint(t0, p, "Black")
      ELSE IF IsRed(t, uncle)
        THEN Paint(Paint(Paint(t1, p, "Black"), uncle, "Black"), g, "Red")
      ELSE Paint(Paint(rotate(t2, g, 1 - pSide), top, "Black"), g, "Red")

\* The node the next turn starts from, Nil if there is none.
FixInsertNext(t, n) ==
  LET p == t.parent[n]
      g == t.parent[p]
  IN  IF /\ IsRed(t, p) /\ g # Nil /\ IsRed(t, t.child[g][1 - Side(t, p)])
         /\ t.parent[g] # Nil
        THEN g ELSE Nil

-----------------------------------------------------------------------------
(* Removal.  Two loops that deduct the weight of a node from its ancestors *)
(* have AddSum as their body.                                              *)

\* Exchange n, which has two children, with its in-order predecessor pred,
\* the maximum of the left subtree.
SwapWithPredecessor(t, n, pred) ==
  LET up == t.parent[pred]
  IN  [Replace(t, n, pred) EXCEPT
         !.child  = [m \in DOMAIN @ |->
                       IF m = pred THEN [t.child[n] EXCEPT ![0] = IF up = n THEN n ELSE t.child[n][0]]
                       ELSE IF m = n THEN t.child[pred]
                       ELSE IF m = up THEN [@[m] EXCEPT ![1] = n] ELSE @[m]],
         !.parent = [m \in DOMAIN @ |->
                       IF m = pred THEN t.parent[n]
                       ELSE IF m = n THEN (IF up = n THEN pred ELSE up)
                       ELSE IF m \in {t.child[n][0], t.child[n][1]} THEN pred
                       ELSE IF m = t.child[pred][0] THEN n ELSE @[m]],
         !.color  = [@ EXCEPT ![n] = t.color[pred], ![pred] = t.color[n]],
         !.sum    = [@ EXCEPT ![n] = t.sum[pred], ![pred] = t.sum[n]]]

Only(t, n) == IF t.child[n][0] # Nil THEN t.child[n][0] ELSE t.child[n][1]

\* Put the only child of n, if there is one, in n's place.
Bypass(t, n) ==
  LET only == Only(t, n)
      t0   == Check(t, t.child[n][0] = Nil \/ t.child[n][1] = Nil)
  IN  IF IsRed(t, n) THEN Replace(Check(t0, only = Nil), n, Nil)
      ELSE IF only = Nil THEN Replace(t0, n, Nil)
      ELSE [Replace(Check(t0, IsRed(t, only)), n, only) EXCEPT
              !.parent[only] = t.parent[n], !.color[only] = "Black"]

\* Take n, which has at most one child, out of the tree.
Unlink(t, n) ==
  [Bypass(t, n) EXCEPT !.nodes = @ \ {n}, !.child[n] = NoChildren, !.parent[n] = Nil,
                       !.color[n] = "Red", !.sum[n] = 0]

\* Where the black height has to be restored: the parent of n, if one black
\* node is missing below it.
UnlinkNext(t, n) == IF ~IsRed(t, n) /\ Only(t, n) = Nil THEN t.parent[n] ELSE Nil

\* The subtree of p on the given side is one black node short.
FixRemoveBody(t, p, side) ==
  LET sibling == t.child[p][1 - side]
      close   == t.child[sibling][side]
      distant == t.child[sibling][1 - side]
      sound   == /\ close # Nil /\ distant # Nil /\ ~IsRed(t, p)
                 /\ ~IsRed(t, close) /\ ~IsRed(t, distant)
  IN  IF sibling = Nil \/ (IsRed(t, sibling) /\ ~sound) THEN Panic(t)
      ELSE IF IsRed(t, sibling)
        THEN Paint(Paint(rotate(t, p, side), p, "Red"), sibling, "Black")
      ELSE IF IsRed(t, distant)
        THEN Paint(Paint(Paint(rotate(t, p, side), sibling, t.color[p]), p, "Black"),
                   distant, "Black")
      ELSE IF IsRed(t, close)
        THEN Paint(Paint(rotate(t, sibling, 1 - side), sibling, "Red"), close, "Black")
      ELSE Paint(Paint(t, sibling, "Red"), p, "Black")

\* Mutant of FixRemoveNext: does not go on one level up.
BugFixRemoveOnce(t, p, side) ==
  LET sibling == t.child[p][1 - side]
      close   == t.child[sibling][side]
      distant == t.child[sibling][1 - side]
  IN  IF sibling = Nil THEN Nil
      ELSE IF IsRed(t, sibling) \/ (~IsRed(t, distant) /\ IsRed(t, close)) THEN p
      ELSE Nil

\* Where the next turn works: at p again after the first and third kind of
\* rotation, one level up if p was black and so got shorter itself.
FixRemoveNext(t, p, side) ==
  LET sibling == t.child[p][1 - side]
      close   == t.child[sibling][side]
      distant == t.child[sibling][1 - side]
  IN  IF sibling = Nil THEN Nil
      ELSE IF IsRed(t, sibling) \/ (~IsRed(t, distant) /\ IsRed(t, close)) THEN p
      ELSE IF IsRed(t, distant) \/ IsRed(t, p) THEN Nil
      ELSE t.parent[p]

FixRemoveSide(t, p, side) == IF FixRemoveNext(t, p, side) \in {p, Nil} THEN side ELSE Side(t, p)

-----------------------------------------------------------------------------
(* Searches.  Each operator is where the cursor goes next, Nil at the end. *)

\* One step up in the search for the nearest ancestor that has its cursor on
\* the side 1 - dir: the walks of successor (dir = 1) and predecessor.
IsAncestorOn(t, n, dir) == t.parent[n] = Nil \/ t.child[t.parent[n]][1 - dir] = n

\* Mutant of RankStep: the parent itself is not counted.
BugRankSkipsParent(t, n, weight) ==
  IF t.child[t.parent[n]][1] = n THEN Sum(t, t.child[t.parent[n]][0]) ELSE 0

\* What prefix_sum adds when it goes from n to its parent p.
RankStep(t, n, weight) ==
  LET p == t.parent[n]
  IN  IF t.child[p][1] = n THEN Sum(t, t.child[p][0]) + weight[p] ELSE 0

\* Every summary is the weight of the node plus its children's summaries.
SumsExact(t, weight) ==
  \A n \in t.nodes : t.sum[n] = weight[n] + Sum(t, t.child[n][0]) + Sum(t, t.child[n][1])
=============================================================================
