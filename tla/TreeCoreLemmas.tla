---------------------------- MODULE TreeCoreLemmas ----------------------------
(***************************************************************************)
(* What the proofs about TreeCore reason with.                             *)
(*                                                                         *)
(* What OrderedTreeProofs proves of any tree is first stated of the three  *)
(* trees of the core: the start of an insertion or a removal changes       *)
(* Members and Order, no other step of a tree does, and a query finds what *)
(* it is to find.  The rest, here and in the modules that extend this one, *)
(* reasons with Members and Order only: the queue of insertions and        *)
(* removals, the searches for a conflict, and the steps that leave the     *)
(* cells as they are.                                                      *)
(***************************************************************************)
EXTENDS TreeCore, RbTreeCoreProofs, SequenceTheorems

RP == INSTANCE OrderedTreeProofs WITH
        Nil <- None, Nodes <- ReadNodes, Weight <- ReadWeight, WeightOf <- ReadWeightOf,
        tree <- reads, before <- readsOrder, pc <- readsPc, node <- readsNode, at <- readsAt,
        pred <- readsPred, side <- readsSide, goal <- readsGoal, acc <- readsAcc

WP == INSTANCE OrderedTreeProofs WITH
        Nil <- None, Nodes <- Writers, Weight <- [l \in Writers |-> 0],
        WeightOf <- [S \in SUBSET Writers |-> 0],
        tree <- writes, before <- writesOrder, pc <- writesPc, node <- writesNode, at <- writesAt,
        pred <- writesPred, side <- writesSide, goal <- writesGoal, acc <- writesAcc

PP == INSTANCE OrderedTreeProofs WITH
        Nil <- None, Nodes <- Blocking, Weight <- [l \in Blocking |-> 0],
        WeightOf <- [S \in SUBSET Blocking |-> 0],
        tree <- pendings, before <- pendingsOrder, pc <- pendingsPc, node <- pendingsNode,
        at <- pendingsAt, pred <- pendingsPred, side <- pendingsSide, goal <- pendingsGoal,
        acc <- pendingsAcc

-----------------------------------------------------------------------------
(* The definitions of the instances are those of the instances of TreeCore. *)

\* The turns of the loops of `reads`.
LEMMA ReadsLoops == R!LoopStep <=> RP!LoopStep
<1>1. R!NoChildren = RP!NoChildren
  BY Zenon DEF R!NoChildren, RP!NoChildren
<1>2. ASSUME NEW t, NEW n PROVE R!IsRed(t, n) = RP!IsRed(t, n)
  BY Zenon DEF R!IsRed, RP!IsRed
<1>3. ASSUME NEW t, NEW n PROVE R!Sum(t, n) = RP!Sum(t, n)
  BY Zenon DEF R!Sum, RP!Sum
<1>4. ASSUME NEW t, NEW n PROVE R!Side(t, n) = RP!Side(t, n)
  BY Zenon DEF R!Side, RP!Side
<1>5. ASSUME NEW t, NEW n, NEW x PROVE R!Paint(t, n, x) = RP!Paint(t, n, x)
  BY Zenon DEF R!Paint, RP!Paint
<1>6. ASSUME NEW t, NEW n, NEW x PROVE R!AddSum(t, n, x) = RP!AddSum(t, n, x)
  BY Zenon DEF R!AddSum, RP!AddSum
<1>7. ASSUME NEW t, NEW n PROVE R!Check(t, n) = RP!Check(t, n)
  BY Zenon DEF R!Check, RP!Check
<1>8. ASSUME NEW t PROVE R!Panic(t) = RP!Panic(t)
  BY Zenon DEF R!Panic, RP!Panic
<1>9. ASSUME NEW t, NEW n PROVE R!Only(t, n) = RP!Only(t, n)
  BY Zenon DEF R!Only, RP!Only
<1>10. ASSUME NEW t, NEW n, NEW x PROVE R!PlantRoot(t, n, x) = RP!PlantRoot(t, n, x)
  BY <1>1, Zenon DEF R!PlantRoot, RP!PlantRoot
<1>11. ASSUME NEW t, NEW n, NEW x, NEW y, NEW z PROVE R!DescendBody(t, n, x, y, z) = RP!DescendBody(t, n, x, y, z)
  BY <1>6, <1>1, Zenon DEF R!DescendBody, RP!DescendBody
<1>12. ASSUME NEW t, NEW n, NEW x PROVE R!Replace(t, n, x) = RP!Replace(t, n, x)
  BY <1>7, <1>4, Zenon DEF R!Replace, RP!Replace
<1>13. ASSUME NEW t, NEW n, NEW x PROVE R!SwapWithPredecessor(t, n, x) = RP!SwapWithPredecessor(t, n, x)
  BY <1>12, Zenon DEF R!SwapWithPredecessor, RP!SwapWithPredecessor
<1>14. ASSUME NEW t, NEW n, NEW x PROVE R!rotate(t, n, x) = RP!rotate(t, n, x)
  BY <1>12, <1>8, <1>3, Zenon DEF R!rotate, RP!rotate
<1>15. ASSUME NEW t, NEW n PROVE R!FixInsertBody(t, n) = RP!FixInsertBody(t, n)
  BY <1>7, <1>14, <1>5, <1>2, <1>4, Zenon DEF R!FixInsertBody, RP!FixInsertBody
<1>16. ASSUME NEW t, NEW n PROVE R!FixInsertNext(t, n) = RP!FixInsertNext(t, n)
  BY <1>2, <1>4, Zenon DEF R!FixInsertNext, RP!FixInsertNext
<1>17. ASSUME NEW t, NEW n PROVE R!Bypass(t, n) = RP!Bypass(t, n)
  BY <1>9, <1>7, <1>2, <1>12, Zenon DEF R!Bypass, RP!Bypass
<1>18. ASSUME NEW t, NEW n PROVE R!Unlink(t, n) = RP!Unlink(t, n)
  BY <1>17, <1>1, Zenon DEF R!Unlink, RP!Unlink
<1>19. ASSUME NEW t, NEW n PROVE R!UnlinkNext(t, n) = RP!UnlinkNext(t, n)
  BY <1>2, <1>9, Zenon DEF R!UnlinkNext, RP!UnlinkNext
<1>20. ASSUME NEW t, NEW n, NEW x PROVE R!FixRemoveBody(t, n, x) = RP!FixRemoveBody(t, n, x)
  BY <1>2, <1>8, <1>5, <1>14, Zenon DEF R!FixRemoveBody, RP!FixRemoveBody
<1>21. ASSUME NEW t, NEW n, NEW x PROVE R!FixRemoveNext(t, n, x) = RP!FixRemoveNext(t, n, x)
  BY <1>2, Zenon DEF R!FixRemoveNext, RP!FixRemoveNext
<1>22. ASSUME NEW t, NEW n, NEW x PROVE R!FixRemoveSide(t, n, x) = RP!FixRemoveSide(t, n, x)
  BY <1>21, <1>4, Zenon DEF R!FixRemoveSide, RP!FixRemoveSide
<1>23. ASSUME NEW t, NEW n, NEW x PROVE R!IsAncestorOn(t, n, x) = RP!IsAncestorOn(t, n, x)
  BY Zenon DEF R!IsAncestorOn, RP!IsAncestorOn
<1>24. ASSUME NEW t, NEW n, NEW x PROVE R!RankStep(t, n, x) = RP!RankStep(t, n, x)
  BY <1>3, Zenon DEF R!RankStep, RP!RankStep
<1>25. R!Descend <=> RP!Descend
  BY <1>11, Zenon DEF R!Descend, RP!Descend
<1>26. R!FixInsert <=> RP!FixInsert
  BY <1>15, <1>16, Zenon DEF R!FixInsert, RP!FixInsert, R!Goto, RP!Goto
<1>27. R!Deduct <=> RP!Deduct
  BY <1>6, Zenon DEF R!Deduct, RP!Deduct
<1>28. R!FindPred <=> RP!FindPred
  BY Zenon DEF R!FindPred, RP!FindPred
<1>29. R!DeductPred <=> RP!DeductPred
  BY <1>6, Zenon DEF R!DeductPred, RP!DeductPred
<1>30. R!SwapNodes <=> RP!SwapNodes
  BY <1>13, Zenon DEF R!SwapNodes, RP!SwapNodes
<1>31. R!UnlinkNode <=> RP!UnlinkNode
  BY <1>18, <1>19, <1>4, Zenon DEF R!UnlinkNode, RP!UnlinkNode, R!Goto, RP!Goto
<1>32. R!FixRemove <=> RP!FixRemove
  BY <1>20, <1>21, <1>22, Zenon DEF R!FixRemove, RP!FixRemove, R!Goto, RP!Goto
<1>33. R!Search <=> RP!Search
  BY Zenon DEF R!Search, RP!Search
<1>34. R!Extreme <=> RP!Extreme
  BY Zenon DEF R!Extreme, RP!Extreme
<1>35. R!Ascend <=> RP!Ascend
  BY <1>23, Zenon DEF R!Ascend, RP!Ascend
<1>36. R!Rank <=> RP!Rank
  BY <1>24, Zenon DEF R!Rank, RP!Rank
<1>. QED  BY <1>25, <1>26, <1>27, <1>28, <1>29, <1>30, <1>31, <1>32, <1>33, <1>34, <1>35, <1>36, Zenon DEF R!LoopStep, RP!LoopStep

\* The other steps of `reads`, and what is said about it.
LEMMA ReadsSame ==
  /\ R!TreeInit <=> RP!TreeInit
  /\ \A n, S : R!TreeInsert(n, S) <=> RP!TreeInsert(n, S)
  /\ \A n : R!TreeRemove(n) <=> RP!TreeRemove(n)
  /\ \A S : R!TreeLowerBound(S) <=> RP!TreeLowerBound(S)
  /\ \A n, dir : R!TreeNeighbor(n, dir) <=> RP!TreeNeighbor(n, dir)
  /\ \A dir : R!TreeExtreme(dir) <=> RP!TreeExtreme(dir)
  /\ \A n : R!TreeRank(n) <=> RP!TreeRank(n)
  /\ R!Return <=> RP!Return
  /\ R!Members = RP!Members
  /\ R!Order = RP!Order
  /\ R!Members' = RP!Members'
  /\ R!Order' = RP!Order'
  /\ \A S : R!Upward(S) <=> RP!Upward(S)
  /\ \A t : R!LinksAgree(t) <=> RP!LinksAgree(t)
  /\ \A t, n : R!RedApart(t, n) <=> RP!RedApart(t, n)
<1>1. R!TreeInit <=> RP!TreeInit
  BY Zenon DEF R!TreeInit, RP!TreeInit, R!Empty, RP!Empty, R!NoChildren, RP!NoChildren
<1>2. \A n, S : R!TreeInsert(n, S) <=> RP!TreeInsert(n, S)
  BY Zenon DEF R!TreeInsert, RP!TreeInsert, R!PlantRoot, RP!PlantRoot, R!Goto, RP!Goto, R!NoChildren, RP!NoChildren
<1>3. \A n : R!TreeRemove(n) <=> RP!TreeRemove(n)
  BY Zenon DEF R!TreeRemove, RP!TreeRemove, R!Goto, RP!Goto
<1>4. \A S : R!TreeLowerBound(S) <=> RP!TreeLowerBound(S)
  BY Zenon DEF R!TreeLowerBound, RP!TreeLowerBound
<1>5. \A n, dir : R!TreeNeighbor(n, dir) <=> RP!TreeNeighbor(n, dir)
  BY Zenon DEF R!TreeNeighbor, RP!TreeNeighbor, R!Ahead, RP!Ahead
<1>6. \A dir : R!TreeExtreme(dir) <=> RP!TreeExtreme(dir)
  BY Zenon DEF R!TreeExtreme, RP!TreeExtreme
<1>7. \A n : R!TreeRank(n) <=> RP!TreeRank(n)
  BY Zenon DEF R!TreeRank, RP!TreeRank, R!Sum, RP!Sum
<1>8. R!Return <=> RP!Return
  BY Zenon DEF R!Return, RP!Return
<1>9. R!Members = RP!Members
  BY Zenon DEF R!Members, RP!Members, R!Inserting, RP!Inserting, R!Removing, RP!Removing
<1>10. R!Order = RP!Order
  <2>1. R!Inserting = RP!Inserting /\ R!Removing = RP!Removing
    BY Zenon DEF R!Inserting, RP!Inserting, R!Removing, RP!Removing
  <2>. QED  BY <2>1 DEF R!Order, RP!Order
<1>11. R!Members' = RP!Members'
  BY Zenon DEF R!Members, RP!Members, R!Inserting, RP!Inserting, R!Removing, RP!Removing
<1>12. R!Order' = RP!Order'
  <2>1. R!Inserting' = RP!Inserting' /\ R!Removing' = RP!Removing'
    BY Zenon DEF R!Inserting, RP!Inserting, R!Removing, RP!Removing
  <2>. QED  BY <2>1 DEF R!Order, RP!Order
<1>13. \A S : R!Upward(S) <=> RP!Upward(S)
  BY Zenon DEF R!Upward, RP!Upward
<1>14. \A t : R!LinksAgree(t) <=> RP!LinksAgree(t)
  BY Zenon DEF R!LinksAgree, RP!LinksAgree
<1>15. \A t, n : R!RedApart(t, n) <=> RP!RedApart(t, n)
  BY Zenon DEF R!RedApart, RP!RedApart, R!IsRed, RP!IsRed
<1>. QED  BY <1>1, <1>2, <1>3, <1>4, <1>5, <1>6, <1>7, <1>8, <1>9, <1>10, <1>11, <1>12, <1>13, <1>14, <1>15

\* The turns of the loops of `writes`.
LEMMA WritesLoops == W!LoopStep <=> WP!LoopStep
<1>1. W!NoChildren = WP!NoChildren
  BY Zenon DEF W!NoChildren, WP!NoChildren
<1>2. ASSUME NEW t, NEW n PROVE W!IsRed(t, n) = WP!IsRed(t, n)
  BY Zenon DEF W!IsRed, WP!IsRed
<1>3. ASSUME NEW t, NEW n PROVE W!Sum(t, n) = WP!Sum(t, n)
  BY Zenon DEF W!Sum, WP!Sum
<1>4. ASSUME NEW t, NEW n PROVE W!Side(t, n) = WP!Side(t, n)
  BY Zenon DEF W!Side, WP!Side
<1>5. ASSUME NEW t, NEW n, NEW x PROVE W!Paint(t, n, x) = WP!Paint(t, n, x)
  BY Zenon DEF W!Paint, WP!Paint
<1>6. ASSUME NEW t, NEW n, NEW x PROVE W!AddSum(t, n, x) = WP!AddSum(t, n, x)
  BY Zenon DEF W!AddSum, WP!AddSum
<1>7. ASSUME NEW t, NEW n PROVE W!Check(t, n) = WP!Check(t, n)
  BY Zenon DEF W!Check, WP!Check
<1>8. ASSUME NEW t PROVE W!Panic(t) = WP!Panic(t)
  BY Zenon DEF W!Panic, WP!Panic
<1>9. ASSUME NEW t, NEW n PROVE W!Only(t, n) = WP!Only(t, n)
  BY Zenon DEF W!Only, WP!Only
<1>10. ASSUME NEW t, NEW n, NEW x PROVE W!PlantRoot(t, n, x) = WP!PlantRoot(t, n, x)
  BY <1>1, Zenon DEF W!PlantRoot, WP!PlantRoot
<1>11. ASSUME NEW t, NEW n, NEW x, NEW y, NEW z PROVE W!DescendBody(t, n, x, y, z) = WP!DescendBody(t, n, x, y, z)
  BY <1>6, <1>1, Zenon DEF W!DescendBody, WP!DescendBody
<1>12. ASSUME NEW t, NEW n, NEW x PROVE W!Replace(t, n, x) = WP!Replace(t, n, x)
  BY <1>7, <1>4, Zenon DEF W!Replace, WP!Replace
<1>13. ASSUME NEW t, NEW n, NEW x PROVE W!SwapWithPredecessor(t, n, x) = WP!SwapWithPredecessor(t, n, x)
  BY <1>12, Zenon DEF W!SwapWithPredecessor, WP!SwapWithPredecessor
<1>14. ASSUME NEW t, NEW n, NEW x PROVE W!rotate(t, n, x) = WP!rotate(t, n, x)
  BY <1>12, <1>8, <1>3, Zenon DEF W!rotate, WP!rotate
<1>15. ASSUME NEW t, NEW n PROVE W!FixInsertBody(t, n) = WP!FixInsertBody(t, n)
  BY <1>7, <1>14, <1>5, <1>2, <1>4, Zenon DEF W!FixInsertBody, WP!FixInsertBody
<1>16. ASSUME NEW t, NEW n PROVE W!FixInsertNext(t, n) = WP!FixInsertNext(t, n)
  BY <1>2, <1>4, Zenon DEF W!FixInsertNext, WP!FixInsertNext
<1>17. ASSUME NEW t, NEW n PROVE W!Bypass(t, n) = WP!Bypass(t, n)
  BY <1>9, <1>7, <1>2, <1>12, Zenon DEF W!Bypass, WP!Bypass
<1>18. ASSUME NEW t, NEW n PROVE W!Unlink(t, n) = WP!Unlink(t, n)
  BY <1>17, <1>1, Zenon DEF W!Unlink, WP!Unlink
<1>19. ASSUME NEW t, NEW n PROVE W!UnlinkNext(t, n) = WP!UnlinkNext(t, n)
  BY <1>2, <1>9, Zenon DEF W!UnlinkNext, WP!UnlinkNext
<1>20. ASSUME NEW t, NEW n, NEW x PROVE W!FixRemoveBody(t, n, x) = WP!FixRemoveBody(t, n, x)
  BY <1>2, <1>8, <1>5, <1>14, Zenon DEF W!FixRemoveBody, WP!FixRemoveBody
<1>21. ASSUME NEW t, NEW n, NEW x PROVE W!FixRemoveNext(t, n, x) = WP!FixRemoveNext(t, n, x)
  BY <1>2, Zenon DEF W!FixRemoveNext, WP!FixRemoveNext
<1>22. ASSUME NEW t, NEW n, NEW x PROVE W!FixRemoveSide(t, n, x) = WP!FixRemoveSide(t, n, x)
  BY <1>21, <1>4, Zenon DEF W!FixRemoveSide, WP!FixRemoveSide
<1>23. ASSUME NEW t, NEW n, NEW x PROVE W!IsAncestorOn(t, n, x) = WP!IsAncestorOn(t, n, x)
  BY Zenon DEF W!IsAncestorOn, WP!IsAncestorOn
<1>24. ASSUME NEW t, NEW n, NEW x PROVE W!RankStep(t, n, x) = WP!RankStep(t, n, x)
  BY <1>3, Zenon DEF W!RankStep, WP!RankStep
<1>25. W!Descend <=> WP!Descend
  BY <1>11, Zenon DEF W!Descend, WP!Descend
<1>26. W!FixInsert <=> WP!FixInsert
  BY <1>15, <1>16, Zenon DEF W!FixInsert, WP!FixInsert, W!Goto, WP!Goto
<1>27. W!Deduct <=> WP!Deduct
  BY <1>6, Zenon DEF W!Deduct, WP!Deduct
<1>28. W!FindPred <=> WP!FindPred
  BY Zenon DEF W!FindPred, WP!FindPred
<1>29. W!DeductPred <=> WP!DeductPred
  BY <1>6, Zenon DEF W!DeductPred, WP!DeductPred
<1>30. W!SwapNodes <=> WP!SwapNodes
  BY <1>13, Zenon DEF W!SwapNodes, WP!SwapNodes
<1>31. W!UnlinkNode <=> WP!UnlinkNode
  BY <1>18, <1>19, <1>4, Zenon DEF W!UnlinkNode, WP!UnlinkNode, W!Goto, WP!Goto
<1>32. W!FixRemove <=> WP!FixRemove
  BY <1>20, <1>21, <1>22, Zenon DEF W!FixRemove, WP!FixRemove, W!Goto, WP!Goto
<1>33. W!Search <=> WP!Search
  BY Zenon DEF W!Search, WP!Search
<1>34. W!Extreme <=> WP!Extreme
  BY Zenon DEF W!Extreme, WP!Extreme
<1>35. W!Ascend <=> WP!Ascend
  BY <1>23, Zenon DEF W!Ascend, WP!Ascend
<1>36. W!Rank <=> WP!Rank
  BY <1>24, Zenon DEF W!Rank, WP!Rank
<1>. QED  BY <1>25, <1>26, <1>27, <1>28, <1>29, <1>30, <1>31, <1>32, <1>33, <1>34, <1>35, <1>36, Zenon DEF W!LoopStep, WP!LoopStep

\* The other steps of `writes`, and what is said about it.
LEMMA WritesSame ==
  /\ W!TreeInit <=> WP!TreeInit
  /\ \A n, S : W!TreeInsert(n, S) <=> WP!TreeInsert(n, S)
  /\ \A n : W!TreeRemove(n) <=> WP!TreeRemove(n)
  /\ \A S : W!TreeLowerBound(S) <=> WP!TreeLowerBound(S)
  /\ \A n, dir : W!TreeNeighbor(n, dir) <=> WP!TreeNeighbor(n, dir)
  /\ \A dir : W!TreeExtreme(dir) <=> WP!TreeExtreme(dir)
  /\ \A n : W!TreeRank(n) <=> WP!TreeRank(n)
  /\ W!Return <=> WP!Return
  /\ W!Members = WP!Members
  /\ W!Order = WP!Order
  /\ W!Members' = WP!Members'
  /\ W!Order' = WP!Order'
  /\ \A S : W!Upward(S) <=> WP!Upward(S)
  /\ \A t : W!LinksAgree(t) <=> WP!LinksAgree(t)
  /\ \A t, n : W!RedApart(t, n) <=> WP!RedApart(t, n)
<1>1. W!TreeInit <=> WP!TreeInit
  BY Zenon DEF W!TreeInit, WP!TreeInit, W!Empty, WP!Empty, W!NoChildren, WP!NoChildren
<1>2. \A n, S : W!TreeInsert(n, S) <=> WP!TreeInsert(n, S)
  BY Zenon DEF W!TreeInsert, WP!TreeInsert, W!PlantRoot, WP!PlantRoot, W!Goto, WP!Goto, W!NoChildren, WP!NoChildren
<1>3. \A n : W!TreeRemove(n) <=> WP!TreeRemove(n)
  BY Zenon DEF W!TreeRemove, WP!TreeRemove, W!Goto, WP!Goto
<1>4. \A S : W!TreeLowerBound(S) <=> WP!TreeLowerBound(S)
  BY Zenon DEF W!TreeLowerBound, WP!TreeLowerBound
<1>5. \A n, dir : W!TreeNeighbor(n, dir) <=> WP!TreeNeighbor(n, dir)
  BY Zenon DEF W!TreeNeighbor, WP!TreeNeighbor, W!Ahead, WP!Ahead
<1>6. \A dir : W!TreeExtreme(dir) <=> WP!TreeExtreme(dir)
  BY Zenon DEF W!TreeExtreme, WP!TreeExtreme
<1>7. \A n : W!TreeRank(n) <=> WP!TreeRank(n)
  BY Zenon DEF W!TreeRank, WP!TreeRank, W!Sum, WP!Sum
<1>8. W!Return <=> WP!Return
  BY Zenon DEF W!Return, WP!Return
<1>9. W!Members = WP!Members
  BY Zenon DEF W!Members, WP!Members, W!Inserting, WP!Inserting, W!Removing, WP!Removing
<1>10. W!Order = WP!Order
  <2>1. W!Inserting = WP!Inserting /\ W!Removing = WP!Removing
    BY Zenon DEF W!Inserting, WP!Inserting, W!Removing, WP!Removing
  <2>. QED  BY <2>1 DEF W!Order, WP!Order
<1>11. W!Members' = WP!Members'
  BY Zenon DEF W!Members, WP!Members, W!Inserting, WP!Inserting, W!Removing, WP!Removing
<1>12. W!Order' = WP!Order'
  <2>1. W!Inserting' = WP!Inserting' /\ W!Removing' = WP!Removing'
    BY Zenon DEF W!Inserting, WP!Inserting, W!Removing, WP!Removing
  <2>. QED  BY <2>1 DEF W!Order, WP!Order
<1>13. \A S : W!Upward(S) <=> WP!Upward(S)
  BY Zenon DEF W!Upward, WP!Upward
<1>14. \A t : W!LinksAgree(t) <=> WP!LinksAgree(t)
  BY Zenon DEF W!LinksAgree, WP!LinksAgree
<1>15. \A t, n : W!RedApart(t, n) <=> WP!RedApart(t, n)
  BY Zenon DEF W!RedApart, WP!RedApart, W!IsRed, WP!IsRed
<1>. QED  BY <1>1, <1>2, <1>3, <1>4, <1>5, <1>6, <1>7, <1>8, <1>9, <1>10, <1>11, <1>12, <1>13, <1>14, <1>15

\* The turns of the loops of `pendings`.
LEMMA PendingsLoops == P!LoopStep <=> PP!LoopStep
<1>1. P!NoChildren = PP!NoChildren
  BY Zenon DEF P!NoChildren, PP!NoChildren
<1>2. ASSUME NEW t, NEW n PROVE P!IsRed(t, n) = PP!IsRed(t, n)
  BY Zenon DEF P!IsRed, PP!IsRed
<1>3. ASSUME NEW t, NEW n PROVE P!Sum(t, n) = PP!Sum(t, n)
  BY Zenon DEF P!Sum, PP!Sum
<1>4. ASSUME NEW t, NEW n PROVE P!Side(t, n) = PP!Side(t, n)
  BY Zenon DEF P!Side, PP!Side
<1>5. ASSUME NEW t, NEW n, NEW x PROVE P!Paint(t, n, x) = PP!Paint(t, n, x)
  BY Zenon DEF P!Paint, PP!Paint
<1>6. ASSUME NEW t, NEW n, NEW x PROVE P!AddSum(t, n, x) = PP!AddSum(t, n, x)
  BY Zenon DEF P!AddSum, PP!AddSum
<1>7. ASSUME NEW t, NEW n PROVE P!Check(t, n) = PP!Check(t, n)
  BY Zenon DEF P!Check, PP!Check
<1>8. ASSUME NEW t PROVE P!Panic(t) = PP!Panic(t)
  BY Zenon DEF P!Panic, PP!Panic
<1>9. ASSUME NEW t, NEW n PROVE P!Only(t, n) = PP!Only(t, n)
  BY Zenon DEF P!Only, PP!Only
<1>10. ASSUME NEW t, NEW n, NEW x PROVE P!PlantRoot(t, n, x) = PP!PlantRoot(t, n, x)
  BY <1>1, Zenon DEF P!PlantRoot, PP!PlantRoot
<1>11. ASSUME NEW t, NEW n, NEW x, NEW y, NEW z PROVE P!DescendBody(t, n, x, y, z) = PP!DescendBody(t, n, x, y, z)
  BY <1>6, <1>1, Zenon DEF P!DescendBody, PP!DescendBody
<1>12. ASSUME NEW t, NEW n, NEW x PROVE P!Replace(t, n, x) = PP!Replace(t, n, x)
  BY <1>7, <1>4, Zenon DEF P!Replace, PP!Replace
<1>13. ASSUME NEW t, NEW n, NEW x PROVE P!SwapWithPredecessor(t, n, x) = PP!SwapWithPredecessor(t, n, x)
  BY <1>12, Zenon DEF P!SwapWithPredecessor, PP!SwapWithPredecessor
<1>14. ASSUME NEW t, NEW n, NEW x PROVE P!rotate(t, n, x) = PP!rotate(t, n, x)
  BY <1>12, <1>8, <1>3, Zenon DEF P!rotate, PP!rotate
<1>15. ASSUME NEW t, NEW n PROVE P!FixInsertBody(t, n) = PP!FixInsertBody(t, n)
  BY <1>7, <1>14, <1>5, <1>2, <1>4, Zenon DEF P!FixInsertBody, PP!FixInsertBody
<1>16. ASSUME NEW t, NEW n PROVE P!FixInsertNext(t, n) = PP!FixInsertNext(t, n)
  BY <1>2, <1>4, Zenon DEF P!FixInsertNext, PP!FixInsertNext
<1>17. ASSUME NEW t, NEW n PROVE P!Bypass(t, n) = PP!Bypass(t, n)
  BY <1>9, <1>7, <1>2, <1>12, Zenon DEF P!Bypass, PP!Bypass
<1>18. ASSUME NEW t, NEW n PROVE P!Unlink(t, n) = PP!Unlink(t, n)
  BY <1>17, <1>1, Zenon DEF P!Unlink, PP!Unlink
<1>19. ASSUME NEW t, NEW n PROVE P!UnlinkNext(t, n) = PP!UnlinkNext(t, n)
  BY <1>2, <1>9, Zenon DEF P!UnlinkNext, PP!UnlinkNext
<1>20. ASSUME NEW t, NEW n, NEW x PROVE P!FixRemoveBody(t, n, x) = PP!FixRemoveBody(t, n, x)
  BY <1>2, <1>8, <1>5, <1>14, Zenon DEF P!FixRemoveBody, PP!FixRemoveBody
<1>21. ASSUME NEW t, NEW n, NEW x PROVE P!FixRemoveNext(t, n, x) = PP!FixRemoveNext(t, n, x)
  BY <1>2, Zenon DEF P!FixRemoveNext, PP!FixRemoveNext
<1>22. ASSUME NEW t, NEW n, NEW x PROVE P!FixRemoveSide(t, n, x) = PP!FixRemoveSide(t, n, x)
  BY <1>21, <1>4, Zenon DEF P!FixRemoveSide, PP!FixRemoveSide
<1>23. ASSUME NEW t, NEW n, NEW x PROVE P!IsAncestorOn(t, n, x) = PP!IsAncestorOn(t, n, x)
  BY Zenon DEF P!IsAncestorOn, PP!IsAncestorOn
<1>24. ASSUME NEW t, NEW n, NEW x PROVE P!RankStep(t, n, x) = PP!RankStep(t, n, x)
  BY <1>3, Zenon DEF P!RankStep, PP!RankStep
<1>25. P!Descend <=> PP!Descend
  BY <1>11, Zenon DEF P!Descend, PP!Descend
<1>26. P!FixInsert <=> PP!FixInsert
  BY <1>15, <1>16, Zenon DEF P!FixInsert, PP!FixInsert, P!Goto, PP!Goto
<1>27. P!Deduct <=> PP!Deduct
  BY <1>6, Zenon DEF P!Deduct, PP!Deduct
<1>28. P!FindPred <=> PP!FindPred
  BY Zenon DEF P!FindPred, PP!FindPred
<1>29. P!DeductPred <=> PP!DeductPred
  BY <1>6, Zenon DEF P!DeductPred, PP!DeductPred
<1>30. P!SwapNodes <=> PP!SwapNodes
  BY <1>13, Zenon DEF P!SwapNodes, PP!SwapNodes
<1>31. P!UnlinkNode <=> PP!UnlinkNode
  BY <1>18, <1>19, <1>4, Zenon DEF P!UnlinkNode, PP!UnlinkNode, P!Goto, PP!Goto
<1>32. P!FixRemove <=> PP!FixRemove
  BY <1>20, <1>21, <1>22, Zenon DEF P!FixRemove, PP!FixRemove, P!Goto, PP!Goto
<1>33. P!Search <=> PP!Search
  BY Zenon DEF P!Search, PP!Search
<1>34. P!Extreme <=> PP!Extreme
  BY Zenon DEF P!Extreme, PP!Extreme
<1>35. P!Ascend <=> PP!Ascend
  BY <1>23, Zenon DEF P!Ascend, PP!Ascend
<1>36. P!Rank <=> PP!Rank
  BY <1>24, Zenon DEF P!Rank, PP!Rank
<1>. QED  BY <1>25, <1>26, <1>27, <1>28, <1>29, <1>30, <1>31, <1>32, <1>33, <1>34, <1>35, <1>36, Zenon DEF P!LoopStep, PP!LoopStep

\* The other steps of `pendings`, and what is said about it.
LEMMA PendingsSame ==
  /\ P!TreeInit <=> PP!TreeInit
  /\ \A n, S : P!TreeInsert(n, S) <=> PP!TreeInsert(n, S)
  /\ \A n : P!TreeRemove(n) <=> PP!TreeRemove(n)
  /\ \A S : P!TreeLowerBound(S) <=> PP!TreeLowerBound(S)
  /\ \A n, dir : P!TreeNeighbor(n, dir) <=> PP!TreeNeighbor(n, dir)
  /\ \A dir : P!TreeExtreme(dir) <=> PP!TreeExtreme(dir)
  /\ \A n : P!TreeRank(n) <=> PP!TreeRank(n)
  /\ P!Return <=> PP!Return
  /\ P!Members = PP!Members
  /\ P!Order = PP!Order
  /\ P!Members' = PP!Members'
  /\ P!Order' = PP!Order'
  /\ \A S : P!Upward(S) <=> PP!Upward(S)
  /\ \A t : P!LinksAgree(t) <=> PP!LinksAgree(t)
  /\ \A t, n : P!RedApart(t, n) <=> PP!RedApart(t, n)
<1>1. P!TreeInit <=> PP!TreeInit
  BY Zenon DEF P!TreeInit, PP!TreeInit, P!Empty, PP!Empty, P!NoChildren, PP!NoChildren
<1>2. \A n, S : P!TreeInsert(n, S) <=> PP!TreeInsert(n, S)
  BY Zenon DEF P!TreeInsert, PP!TreeInsert, P!PlantRoot, PP!PlantRoot, P!Goto, PP!Goto, P!NoChildren, PP!NoChildren
<1>3. \A n : P!TreeRemove(n) <=> PP!TreeRemove(n)
  BY Zenon DEF P!TreeRemove, PP!TreeRemove, P!Goto, PP!Goto
<1>4. \A S : P!TreeLowerBound(S) <=> PP!TreeLowerBound(S)
  BY Zenon DEF P!TreeLowerBound, PP!TreeLowerBound
<1>5. \A n, dir : P!TreeNeighbor(n, dir) <=> PP!TreeNeighbor(n, dir)
  BY Zenon DEF P!TreeNeighbor, PP!TreeNeighbor, P!Ahead, PP!Ahead
<1>6. \A dir : P!TreeExtreme(dir) <=> PP!TreeExtreme(dir)
  BY Zenon DEF P!TreeExtreme, PP!TreeExtreme
<1>7. \A n : P!TreeRank(n) <=> PP!TreeRank(n)
  BY Zenon DEF P!TreeRank, PP!TreeRank, P!Sum, PP!Sum
<1>8. P!Return <=> PP!Return
  BY Zenon DEF P!Return, PP!Return
<1>9. P!Members = PP!Members
  BY Zenon DEF P!Members, PP!Members, P!Inserting, PP!Inserting, P!Removing, PP!Removing
<1>10. P!Order = PP!Order
  <2>1. P!Inserting = PP!Inserting /\ P!Removing = PP!Removing
    BY Zenon DEF P!Inserting, PP!Inserting, P!Removing, PP!Removing
  <2>. QED  BY <2>1 DEF P!Order, PP!Order
<1>11. P!Members' = PP!Members'
  BY Zenon DEF P!Members, PP!Members, P!Inserting, PP!Inserting, P!Removing, PP!Removing
<1>12. P!Order' = PP!Order'
  <2>1. P!Inserting' = PP!Inserting' /\ P!Removing' = PP!Removing'
    BY Zenon DEF P!Inserting, PP!Inserting, P!Removing, PP!Removing
  <2>. QED  BY <2>1 DEF P!Order, PP!Order
<1>13. \A S : P!Upward(S) <=> PP!Upward(S)
  BY Zenon DEF P!Upward, PP!Upward
<1>14. \A t : P!LinksAgree(t) <=> PP!LinksAgree(t)
  BY Zenon DEF P!LinksAgree, PP!LinksAgree
<1>15. \A t, n : P!RedApart(t, n) <=> PP!RedApart(t, n)
  BY Zenon DEF P!RedApart, PP!RedApart, P!IsRed, PP!IsRed
<1>. QED  BY <1>1, <1>2, <1>3, <1>4, <1>5, <1>6, <1>7, <1>8, <1>9, <1>10, <1>11, <1>12, <1>13, <1>14, <1>15

-----------------------------------------------------------------------------
(* What OrderedTreeProofs assumes of its constants holds. *)

\* A set of endpoints weighs the lower bounds less the upper bounds in it.
LEMMA ReadsWeights == RP!TreeAssumption /\ RP!WeightAssumption
<1>. DEFINE part(S, i) == {n \in S : n[2] = i}
            count(S, i) == Cardinality(part(S, i))
<1>1. IsFiniteSet(ReadNodes)
  <2>1. IsFiniteSet(Readers)
    BY LocksAssumption, FS_Union DEF Readers
  <2>2. IsFiniteSet({0, 1})
    <3>1. {0, 1} = 0..1
      OBVIOUS
    <3>2. IsFiniteSet(0..1)
      <4>1. 0 \in Int /\ 1 \in Int
        OBVIOUS
      <4>. QED  BY <4>1, FS_Interval, Zenon
    <3>. QED  BY <3>1, <3>2, Zenon
  <2>. QED  BY <2>1, <2>2, FS_Product DEF ReadNodes
<1>2. ASSUME NEW S \in SUBSET ReadNodes, NEW i \in {0, 1}
      PROVE  IsFiniteSet(part(S, i)) /\ count(S, i) \in Nat
  <2>1. part(S, i) \subseteq ReadNodes
    OBVIOUS
  <2>. QED  BY <1>1, <2>1, FS_Subset, FS_CardinalityType
<1>3. \A S \in SUBSET ReadNodes : ReadWeightOf[S] = count(S, 0) - count(S, 1)
  BY DEF ReadWeightOf
<1>4. ReadWeightOf \in [SUBSET ReadNodes -> Int]
  <2>1. ReadWeightOf = [S \in SUBSET ReadNodes |-> count(S, 0) - count(S, 1)]
    BY DEF ReadWeightOf
  <2>2. \A S \in SUBSET ReadNodes : count(S, 0) - count(S, 1) \in Int
    BY <1>2
  <2>. HIDE DEF count
  <2>. QED  BY <2>1, <2>2
<1>5. ReadWeightOf[{}] = 0
  <2>1. part({}, 0) = {} /\ part({}, 1) = {}
    OBVIOUS
  <2>2. count({}, 0) = 0 /\ count({}, 1) = 0
    BY <2>1, FS_EmptySet
  <2>. HIDE DEF count
  <2>. QED  BY <1>3, <2>2
<1>6. ASSUME NEW n \in ReadNodes
      PROVE  ReadWeightOf[{n}] = ReadWeight[n]
  <2>1. n[2] \in {0, 1}
    BY DEF ReadNodes
  <2>2. ASSUME NEW i \in {0, 1}
        PROVE  count({n}, i) = IF n[2] = i THEN 1 ELSE 0
    <3>1. part({n}, i) = IF n[2] = i THEN {n} ELSE {}
      OBVIOUS
    <3>. QED  BY <3>1, FS_EmptySet, FS_Singleton
  <2>3. ReadWeightOf[{n}] = count({n}, 0) - count({n}, 1)
    BY <1>3
  <2>. HIDE DEF count
  <2>4. ReadWeight[n] = 1 - 2 * n[2]
    BY DEF ReadWeight
  <2>. QED  BY <2>1, <2>2, <2>3, <2>4
<1>7. ASSUME NEW S \in SUBSET ReadNodes, NEW T \in SUBSET (ReadNodes \ S)
      PROVE  ReadWeightOf[S \cup T] = ReadWeightOf[S] + ReadWeightOf[T]
  <2>1. ASSUME NEW i \in {0, 1}
        PROVE  count(S \cup T, i) = count(S, i) + count(T, i)
    <3>1. part(S \cup T, i) = part(S, i) \cup part(T, i) /\ part(S, i) \cap part(T, i) = {}
      OBVIOUS
    <3>2. IsFiniteSet(part(S, i)) /\ IsFiniteSet(part(T, i)) /\ count(S, i) \in Nat /\ count(T, i) \in Nat
      BY <1>2
    <3>. HIDE DEF part
    <3>3. Cardinality(part(S, i) \cup part(T, i))
            = Cardinality(part(S, i)) + Cardinality(part(T, i)) - Cardinality(part(S, i) \cap part(T, i))
      BY <3>2, FS_Union
    <3>4. Cardinality(part(S, i) \cap part(T, i)) = 0
      BY <3>1, FS_EmptySet
    <3>5. Cardinality(part(S \cup T, i)) = Cardinality(part(S, i) \cup part(T, i))
      BY <3>1, Zenon
    <3>. QED  BY <3>2, <3>3, <3>4, <3>5
  <2>2. /\ count(S, 0) \in Nat /\ count(S, 1) \in Nat /\ count(T, 0) \in Nat /\ count(T, 1) \in Nat
    BY <1>2
  <2>3. /\ ReadWeightOf[S \cup T] = count(S \cup T, 0) - count(S \cup T, 1)
        /\ ReadWeightOf[S] = count(S, 0) - count(S, 1) /\ ReadWeightOf[T] = count(T, 0) - count(T, 1)
    BY <1>3
  <2>. HIDE DEF count
  <2>. QED  BY <2>1, <2>2, <2>3
<1>8. None \notin ReadNodes /\ ReadWeight \in [ReadNodes -> Int]
  <2>1. \A n \in ReadNodes : 1 - 2 * n[2] \in Int
    BY DEF ReadNodes
  <2>. QED  BY <2>1, NodesAssumption DEF ReadWeight
<1>9. RP!TreeAssumption
  BY <1>8 DEF RP!TreeAssumption
<1>10. RP!WeightAssumption
  BY <1>4, <1>5, <1>6, <1>7 DEF RP!WeightAssumption
<1>. QED  BY <1>9, <1>10

LEMMA WritesWeights == WP!TreeAssumption /\ WP!WeightAssumption
<1>1. WP!TreeAssumption
  BY NoneAssumption DEF WP!TreeAssumption, Locks, Writers, Blocking, Readers
<1>2. WP!WeightAssumption
  BY DEF WP!WeightAssumption
<1>. QED  BY <1>1, <1>2

LEMMA PendingsWeights == PP!TreeAssumption /\ PP!WeightAssumption
<1>1. PP!TreeAssumption
  BY NoneAssumption DEF PP!TreeAssumption, Locks, Writers, Blocking, Readers
<1>2. PP!WeightAssumption
  BY DEF PP!WeightAssumption
<1>. QED  BY <1>1, <1>2

-----------------------------------------------------------------------------
(* The interface of the trees. *)

\* order is a strict total order of S.
Sorted(S, order) ==
  /\ \A x, y \in S : <<x, y>> \in order => <<y, x>> \notin order
  /\ \A x, y \in S : x # y => <<x, y>> \in order \/ <<y, x>> \in order

\* The loops that leave the tree as it is, and none.
Reading == Walking \cup {"idle", "rank"}

\* `reads` while it does not change, or is only read.
LEMMA ReadsStay ==
  ASSUME RP!TreeInvariant, UNCHANGED readsVars
  PROVE  /\ RP!TreeInvariant' /\ R!Members' = R!Members /\ R!Order' = R!Order
         /\ reads' = reads /\ readsOrder' = readsOrder /\ readsPc' = readsPc /\ readsNode' = readsNode
         /\ readsSide' = readsSide /\ readsGoal' = readsGoal /\ readsAt' = readsAt /\ readsAcc' = readsAcc
<1>1. /\ reads' = reads /\ readsOrder' = readsOrder /\ readsPc' = readsPc /\ readsNode' = readsNode
      /\ readsSide' = readsSide /\ readsGoal' = readsGoal /\ readsAt' = readsAt /\ readsAcc' = readsAcc
      /\ readsPred' = readsPred
  BY DEF readsVars
<1>2. R!Members' = R!Members /\ R!Order' = R!Order
  BY <1>1 DEF R!Members, R!Order, R!Inserting, R!Removing
<1>3. [RP!TreeNext]_(RP!tvars)
  BY <1>1 DEF RP!tvars
<1>4. RP!TreeAssumption
  BY ReadsWeights
<1>5. RP!WeightAssumption
  BY ReadsWeights
<1>6. RP!TreeInvariant'
  BY <1>3, <1>4, <1>5, RP!TreeStep
<1>. QED  BY <1>1, <1>2, <1>6

LEMMA ReadsAtRest ==
  ASSUME RP!TreeInvariant, readsPc \in Reading
  PROVE  /\ R!Members = reads.nodes /\ R!Order = readsOrder /\ reads.nodes \subseteq ReadNodes
         /\ Sorted(reads.nodes, readsOrder) /\ R!LinksAgree(reads) /\ R!RedApart(reads, None) /\ reads.ok
<1>1. readsPc \in RP!Quiet
  BY DEF RP!Quiet, Reading, Walking
<1>2. RP!TreeAssumption
  BY ReadsWeights
<1>3. RP!WeightAssumption
  BY ReadsWeights
<1>4. /\ RP!Members = reads.nodes /\ RP!Order = readsOrder /\ reads.nodes \subseteq ReadNodes
      /\ RP!TotalOrder(reads.nodes, readsOrder) /\ RP!LinksAgree(reads) /\ RP!RedApart(reads, None) /\ reads.ok
  BY <1>1, <1>2, <1>3, RP!TreeAtRest
<1>5. Sorted(reads.nodes, readsOrder)
  BY <1>4, Zenon DEF RP!TotalOrder, Sorted
<1>. QED  BY <1>4, <1>5, ReadsSame

\* The summaries of `reads`.
LEMMA ReadsSummed ==
  ASSUME RP!TreeInvariant, readsPc \in Reading
  PROVE  R!SumsExact(reads, ReadWeight)
<1>1. readsPc \in RP!Quiet
  BY DEF RP!Quiet, Reading, Walking
<1>2. RP!TreeAssumption
  BY ReadsWeights
<1>3. RP!WeightAssumption
  BY ReadsWeights
<1>4. RP!SumsExact(reads, ReadWeight)
  BY <1>1, <1>2, <1>3, RP!SumsAtRest
<1>. QED  BY <1>4, Zenon DEF R!SumsExact, RP!SumsExact, R!Sum, RP!Sum

\* The start and the end of a query.
LEMMA ReadsQuery ==
  ASSUME RP!TreeInvariant,
         \/ R!Return
         \/ \E n \in ReadNodes : R!TreeRank(n)
         \/ \E dir \in 0..1 : R!TreeExtreme(dir) \/ \E n \in ReadNodes : R!TreeNeighbor(n, dir)
         \/ \E S \in SUBSET reads.nodes : R!Upward(S) /\ R!TreeLowerBound(S)
  PROVE  /\ RP!TreeInvariant' /\ R!Members' = R!Members /\ R!Order' = R!Order
         /\ reads' = reads /\ readsOrder' = readsOrder
<1>1. \/ RP!Return
      \/ \E n \in ReadNodes : RP!TreeRank(n)
      \/ \E dir \in 0..1 : RP!TreeExtreme(dir) \/ \E n \in ReadNodes : RP!TreeNeighbor(n, dir)
      \/ \E S \in SUBSET reads.nodes : RP!Upward(S) /\ RP!TreeLowerBound(S)
  BY ReadsSame, Zenon
<1>2. RP!TreeAssumption
  BY ReadsWeights
<1>3. RP!WeightAssumption
  BY ReadsWeights
<1>4. /\ RP!TreeInvariant' /\ RP!Members' = RP!Members /\ RP!Order' = RP!Order
      /\ reads' = reads /\ readsOrder' = readsOrder
  BY <1>1, <1>2, <1>3, RP!QueryKeeps
<1>. QED  BY <1>4, ReadsSame

\* A turn of a loop.
LEMMA ReadsTurn ==
  ASSUME RP!TreeInvariant, R!LoopStep
  PROVE  /\ RP!TreeInvariant' /\ R!Members' = R!Members /\ R!Order' = R!Order /\ readsPc # "idle"
         /\ readsPc \in Walking =>
              /\ readsPc' \in Walking
              /\ reads' = reads /\ readsOrder' = readsOrder /\ readsSide' = readsSide /\ readsGoal' = readsGoal
         /\ readsPc = "rank" =>
              readsPc' = "rank" /\ reads' = reads /\ readsOrder' = readsOrder /\ readsNode' = readsNode
<1>1. RP!LoopStep
  BY ReadsLoops
<1>2. RP!TreeAssumption
  BY ReadsWeights
<1>3. RP!WeightAssumption
  BY ReadsWeights
<1>4. /\ RP!TreeInvariant' /\ RP!Members' = RP!Members /\ RP!Order' = RP!Order /\ readsPc # "idle"
      /\ readsPc \in {"search", "extreme", "ascend", "found"} =>
           /\ readsPc' \in {"search", "extreme", "ascend", "found"}
           /\ reads' = reads /\ readsOrder' = readsOrder /\ readsSide' = readsSide /\ readsGoal' = readsGoal
      /\ readsPc = "rank" =>
           readsPc' = "rank" /\ reads' = reads /\ readsOrder' = readsOrder /\ readsNode' = readsNode
  BY <1>1, <1>2, <1>3, RP!LoopKeeps
<1>. QED  BY <1>4, ReadsSame DEF Walking

\* The start of an insertion.
LEMMA ReadsInsert ==
  ASSUME RP!TreeInvariant, NEW n \in ReadNodes, NEW S \in SUBSET reads.nodes, R!Upward(S), R!TreeInsert(n, S)
  PROVE  /\ RP!TreeInvariant' /\ R!Members' = R!Members \cup {n} /\ n \notin R!Members
         /\ \A k, l \in R!Members : <<k, l>> \in R!Order' <=> <<k, l>> \in R!Order
         /\ \A k \in R!Members : <<k, n>> \in R!Order' <=> k \notin S
         /\ \A k \in R!Members : <<n, k>> \in R!Order' <=> k \in S
         /\ <<n, n>> \notin R!Order'
<1>1. RP!TreeInsert(n, S) /\ RP!Upward(S)
  BY ReadsSame
<1>2. RP!TreeAssumption
  BY ReadsWeights
<1>3. RP!WeightAssumption
  BY ReadsWeights
<1>4. /\ RP!TreeInvariant' /\ RP!Members' = RP!Members \cup {n} /\ n \notin RP!Members
      /\ \A k, l \in RP!Members : <<k, l>> \in RP!Order' <=> <<k, l>> \in RP!Order
      /\ \A k \in RP!Members : <<k, n>> \in RP!Order' <=> k \notin S
      /\ \A k \in RP!Members : <<n, k>> \in RP!Order' <=> k \in S
      /\ <<n, n>> \notin RP!Order'
  BY <1>1, <1>2, <1>3, RP!InsertKeeps
<1>. QED  BY <1>4, ReadsSame, Zenon

\* The start of a removal.
LEMMA ReadsRemove ==
  ASSUME RP!TreeInvariant, NEW n \in ReadNodes, R!TreeRemove(n)
  PROVE  /\ RP!TreeInvariant' /\ R!Members' = R!Members \ {n} /\ n \in R!Members
         /\ \A k, l \in R!Members \ {n} : <<k, l>> \in R!Order' <=> <<k, l>> \in R!Order
<1>1. RP!TreeRemove(n)
  BY ReadsSame
<1>2. RP!TreeAssumption
  BY ReadsWeights
<1>3. RP!WeightAssumption
  BY ReadsWeights
<1>4. /\ RP!TreeInvariant' /\ RP!Members' = RP!Members \ {n} /\ n \in RP!Members
      /\ \A k, l \in RP!Members \ {n} : <<k, l>> \in RP!Order' <=> <<k, l>> \in RP!Order
  BY <1>1, <1>2, <1>3, RP!RemoveKeeps
<1>. QED  BY <1>4, ReadsSame, Zenon

\* What a query has found.
LEMMA ReadsAnswer ==
  ASSUME RP!TreeInvariant, readsPc = "found"
  PROVE  \/ readsGoal = {} /\ readsAt = None
         \/ /\ readsAt \in readsGoal /\ readsAt # None /\ readsGoal \subseteq reads.nodes
            /\ \A m \in readsGoal \ {readsAt} :
                 IF readsSide = 1 THEN <<readsAt, m>> \in readsOrder ELSE <<m, readsAt>> \in readsOrder
<1>1. RP!TreeAssumption
  BY ReadsWeights
<1>2. RP!WeightAssumption
  BY ReadsWeights
<1>3. \/ readsGoal = {} /\ readsAt = None
      \/ /\ readsAt \in readsGoal /\ readsAt # None /\ readsGoal \subseteq reads.nodes
         /\ \A m \in readsGoal \ {readsAt} : RP!Ahead(readsOrder, readsAt, m, readsSide)
  BY <1>1, <1>2, RP!QueryAnswer
<1>. QED  BY <1>3 DEF RP!Ahead

\* What prefix_sum has added up.
LEMMA ReadsSum ==
  ASSUME RP!TreeInvariant, readsPc = "rank", reads.parent[readsAt] = None
  PROVE  readsAcc = ReadWeightOf[{m \in reads.nodes : <<m, readsNode>> \in readsOrder}]
<1>1. RP!TreeAssumption
  BY ReadsWeights
<1>2. RP!WeightAssumption
  BY ReadsWeights
<1>. QED  BY <1>1, <1>2, RP!RankAnswer

\* `writes` while it does not change, or is only read.
LEMMA WritesStay ==
  ASSUME WP!TreeInvariant, UNCHANGED writesVars
  PROVE  /\ WP!TreeInvariant' /\ W!Members' = W!Members /\ W!Order' = W!Order
         /\ writes' = writes /\ writesOrder' = writesOrder /\ writesPc' = writesPc /\ writesNode' = writesNode
         /\ writesSide' = writesSide /\ writesGoal' = writesGoal /\ writesAt' = writesAt /\ writesAcc' = writesAcc
<1>1. /\ writes' = writes /\ writesOrder' = writesOrder /\ writesPc' = writesPc /\ writesNode' = writesNode
      /\ writesSide' = writesSide /\ writesGoal' = writesGoal /\ writesAt' = writesAt /\ writesAcc' = writesAcc
      /\ writesPred' = writesPred
  BY DEF writesVars
<1>2. W!Members' = W!Members /\ W!Order' = W!Order
  BY <1>1 DEF W!Members, W!Order, W!Inserting, W!Removing
<1>3. [WP!TreeNext]_(WP!tvars)
  BY <1>1 DEF WP!tvars
<1>4. WP!TreeAssumption
  BY WritesWeights
<1>5. WP!WeightAssumption
  BY WritesWeights
<1>6. WP!TreeInvariant'
  BY <1>3, <1>4, <1>5, WP!TreeStep
<1>. QED  BY <1>1, <1>2, <1>6

LEMMA WritesAtRest ==
  ASSUME WP!TreeInvariant, writesPc \in Reading
  PROVE  /\ W!Members = writes.nodes /\ W!Order = writesOrder /\ writes.nodes \subseteq Writers
         /\ Sorted(writes.nodes, writesOrder) /\ W!LinksAgree(writes) /\ W!RedApart(writes, None) /\ writes.ok
<1>1. writesPc \in WP!Quiet
  BY DEF WP!Quiet, Reading, Walking
<1>2. WP!TreeAssumption
  BY WritesWeights
<1>3. WP!WeightAssumption
  BY WritesWeights
<1>4. /\ WP!Members = writes.nodes /\ WP!Order = writesOrder /\ writes.nodes \subseteq Writers
      /\ WP!TotalOrder(writes.nodes, writesOrder) /\ WP!LinksAgree(writes) /\ WP!RedApart(writes, None) /\ writes.ok
  BY <1>1, <1>2, <1>3, WP!TreeAtRest
<1>5. Sorted(writes.nodes, writesOrder)
  BY <1>4, Zenon DEF WP!TotalOrder, Sorted
<1>. QED  BY <1>4, <1>5, WritesSame

\* The start and the end of a query.
LEMMA WritesQuery ==
  ASSUME WP!TreeInvariant,
         \/ W!Return
         \/ \E n \in Writers : W!TreeRank(n)
         \/ \E dir \in 0..1 : W!TreeExtreme(dir) \/ \E n \in Writers : W!TreeNeighbor(n, dir)
         \/ \E S \in SUBSET writes.nodes : W!Upward(S) /\ W!TreeLowerBound(S)
  PROVE  /\ WP!TreeInvariant' /\ W!Members' = W!Members /\ W!Order' = W!Order
         /\ writes' = writes /\ writesOrder' = writesOrder
<1>1. \/ WP!Return
      \/ \E n \in Writers : WP!TreeRank(n)
      \/ \E dir \in 0..1 : WP!TreeExtreme(dir) \/ \E n \in Writers : WP!TreeNeighbor(n, dir)
      \/ \E S \in SUBSET writes.nodes : WP!Upward(S) /\ WP!TreeLowerBound(S)
  BY WritesSame, Zenon
<1>2. WP!TreeAssumption
  BY WritesWeights
<1>3. WP!WeightAssumption
  BY WritesWeights
<1>4. /\ WP!TreeInvariant' /\ WP!Members' = WP!Members /\ WP!Order' = WP!Order
      /\ writes' = writes /\ writesOrder' = writesOrder
  BY <1>1, <1>2, <1>3, WP!QueryKeeps
<1>. QED  BY <1>4, WritesSame

\* A turn of a loop.
LEMMA WritesTurn ==
  ASSUME WP!TreeInvariant, W!LoopStep
  PROVE  /\ WP!TreeInvariant' /\ W!Members' = W!Members /\ W!Order' = W!Order /\ writesPc # "idle"
         /\ writesPc \in Walking =>
              /\ writesPc' \in Walking
              /\ writes' = writes /\ writesOrder' = writesOrder /\ writesSide' = writesSide /\ writesGoal' = writesGoal
         /\ writesPc = "rank" =>
              writesPc' = "rank" /\ writes' = writes /\ writesOrder' = writesOrder /\ writesNode' = writesNode
<1>1. WP!LoopStep
  BY WritesLoops
<1>2. WP!TreeAssumption
  BY WritesWeights
<1>3. WP!WeightAssumption
  BY WritesWeights
<1>4. /\ WP!TreeInvariant' /\ WP!Members' = WP!Members /\ WP!Order' = WP!Order /\ writesPc # "idle"
      /\ writesPc \in {"search", "extreme", "ascend", "found"} =>
           /\ writesPc' \in {"search", "extreme", "ascend", "found"}
           /\ writes' = writes /\ writesOrder' = writesOrder /\ writesSide' = writesSide /\ writesGoal' = writesGoal
      /\ writesPc = "rank" =>
           writesPc' = "rank" /\ writes' = writes /\ writesOrder' = writesOrder /\ writesNode' = writesNode
  BY <1>1, <1>2, <1>3, WP!LoopKeeps
<1>. QED  BY <1>4, WritesSame DEF Walking

\* The start of an insertion.
LEMMA WritesInsert ==
  ASSUME WP!TreeInvariant, NEW n \in Writers, NEW S \in SUBSET writes.nodes, W!Upward(S), W!TreeInsert(n, S)
  PROVE  /\ WP!TreeInvariant' /\ W!Members' = W!Members \cup {n} /\ n \notin W!Members
         /\ \A k, l \in W!Members : <<k, l>> \in W!Order' <=> <<k, l>> \in W!Order
         /\ \A k \in W!Members : <<k, n>> \in W!Order' <=> k \notin S
         /\ \A k \in W!Members : <<n, k>> \in W!Order' <=> k \in S
         /\ <<n, n>> \notin W!Order'
<1>1. WP!TreeInsert(n, S) /\ WP!Upward(S)
  BY WritesSame
<1>2. WP!TreeAssumption
  BY WritesWeights
<1>3. WP!WeightAssumption
  BY WritesWeights
<1>4. /\ WP!TreeInvariant' /\ WP!Members' = WP!Members \cup {n} /\ n \notin WP!Members
      /\ \A k, l \in WP!Members : <<k, l>> \in WP!Order' <=> <<k, l>> \in WP!Order
      /\ \A k \in WP!Members : <<k, n>> \in WP!Order' <=> k \notin S
      /\ \A k \in WP!Members : <<n, k>> \in WP!Order' <=> k \in S
      /\ <<n, n>> \notin WP!Order'
  BY <1>1, <1>2, <1>3, WP!InsertKeeps
<1>. QED  BY <1>4, WritesSame, Zenon

\* The start of a removal.
LEMMA WritesRemove ==
  ASSUME WP!TreeInvariant, NEW n \in Writers, W!TreeRemove(n)
  PROVE  /\ WP!TreeInvariant' /\ W!Members' = W!Members \ {n} /\ n \in W!Members
         /\ \A k, l \in W!Members \ {n} : <<k, l>> \in W!Order' <=> <<k, l>> \in W!Order
<1>1. WP!TreeRemove(n)
  BY WritesSame
<1>2. WP!TreeAssumption
  BY WritesWeights
<1>3. WP!WeightAssumption
  BY WritesWeights
<1>4. /\ WP!TreeInvariant' /\ WP!Members' = WP!Members \ {n} /\ n \in WP!Members
      /\ \A k, l \in WP!Members \ {n} : <<k, l>> \in WP!Order' <=> <<k, l>> \in WP!Order
  BY <1>1, <1>2, <1>3, WP!RemoveKeeps
<1>. QED  BY <1>4, WritesSame, Zenon

\* What a query has found.
LEMMA WritesAnswer ==
  ASSUME WP!TreeInvariant, writesPc = "found"
  PROVE  \/ writesGoal = {} /\ writesAt = None
         \/ /\ writesAt \in writesGoal /\ writesAt # None /\ writesGoal \subseteq writes.nodes
            /\ \A m \in writesGoal \ {writesAt} :
                 IF writesSide = 1 THEN <<writesAt, m>> \in writesOrder ELSE <<m, writesAt>> \in writesOrder
<1>1. WP!TreeAssumption
  BY WritesWeights
<1>2. WP!WeightAssumption
  BY WritesWeights
<1>3. \/ writesGoal = {} /\ writesAt = None
      \/ /\ writesAt \in writesGoal /\ writesAt # None /\ writesGoal \subseteq writes.nodes
         /\ \A m \in writesGoal \ {writesAt} : WP!Ahead(writesOrder, writesAt, m, writesSide)
  BY <1>1, <1>2, WP!QueryAnswer
<1>. QED  BY <1>3 DEF WP!Ahead

\* `pendings` while it does not change, or is only read.
LEMMA PendingsStay ==
  ASSUME PP!TreeInvariant, UNCHANGED pendingsVars
  PROVE  /\ PP!TreeInvariant' /\ P!Members' = P!Members /\ P!Order' = P!Order
         /\ pendings' = pendings /\ pendingsOrder' = pendingsOrder /\ pendingsPc' = pendingsPc /\ pendingsNode' = pendingsNode
         /\ pendingsSide' = pendingsSide /\ pendingsGoal' = pendingsGoal /\ pendingsAt' = pendingsAt /\ pendingsAcc' = pendingsAcc
<1>1. /\ pendings' = pendings /\ pendingsOrder' = pendingsOrder /\ pendingsPc' = pendingsPc /\ pendingsNode' = pendingsNode
      /\ pendingsSide' = pendingsSide /\ pendingsGoal' = pendingsGoal /\ pendingsAt' = pendingsAt /\ pendingsAcc' = pendingsAcc
      /\ pendingsPred' = pendingsPred
  BY DEF pendingsVars
<1>2. P!Members' = P!Members /\ P!Order' = P!Order
  BY <1>1 DEF P!Members, P!Order, P!Inserting, P!Removing
<1>3. [PP!TreeNext]_(PP!tvars)
  BY <1>1 DEF PP!tvars
<1>4. PP!TreeAssumption
  BY PendingsWeights
<1>5. PP!WeightAssumption
  BY PendingsWeights
<1>6. PP!TreeInvariant'
  BY <1>3, <1>4, <1>5, PP!TreeStep
<1>. QED  BY <1>1, <1>2, <1>6

LEMMA PendingsAtRest ==
  ASSUME PP!TreeInvariant, pendingsPc \in Reading
  PROVE  /\ P!Members = pendings.nodes /\ P!Order = pendingsOrder /\ pendings.nodes \subseteq Blocking
         /\ Sorted(pendings.nodes, pendingsOrder) /\ P!LinksAgree(pendings) /\ P!RedApart(pendings, None) /\ pendings.ok
<1>1. pendingsPc \in PP!Quiet
  BY DEF PP!Quiet, Reading, Walking
<1>2. PP!TreeAssumption
  BY PendingsWeights
<1>3. PP!WeightAssumption
  BY PendingsWeights
<1>4. /\ PP!Members = pendings.nodes /\ PP!Order = pendingsOrder /\ pendings.nodes \subseteq Blocking
      /\ PP!TotalOrder(pendings.nodes, pendingsOrder) /\ PP!LinksAgree(pendings) /\ PP!RedApart(pendings, None) /\ pendings.ok
  BY <1>1, <1>2, <1>3, PP!TreeAtRest
<1>5. Sorted(pendings.nodes, pendingsOrder)
  BY <1>4, Zenon DEF PP!TotalOrder, Sorted
<1>. QED  BY <1>4, <1>5, PendingsSame

\* The start and the end of a query.
LEMMA PendingsQuery ==
  ASSUME PP!TreeInvariant,
         \/ P!Return
         \/ \E n \in Blocking : P!TreeRank(n)
         \/ \E dir \in 0..1 : P!TreeExtreme(dir) \/ \E n \in Blocking : P!TreeNeighbor(n, dir)
         \/ \E S \in SUBSET pendings.nodes : P!Upward(S) /\ P!TreeLowerBound(S)
  PROVE  /\ PP!TreeInvariant' /\ P!Members' = P!Members /\ P!Order' = P!Order
         /\ pendings' = pendings /\ pendingsOrder' = pendingsOrder
<1>1. \/ PP!Return
      \/ \E n \in Blocking : PP!TreeRank(n)
      \/ \E dir \in 0..1 : PP!TreeExtreme(dir) \/ \E n \in Blocking : PP!TreeNeighbor(n, dir)
      \/ \E S \in SUBSET pendings.nodes : PP!Upward(S) /\ PP!TreeLowerBound(S)
  BY PendingsSame, Zenon
<1>2. PP!TreeAssumption
  BY PendingsWeights
<1>3. PP!WeightAssumption
  BY PendingsWeights
<1>4. /\ PP!TreeInvariant' /\ PP!Members' = PP!Members /\ PP!Order' = PP!Order
      /\ pendings' = pendings /\ pendingsOrder' = pendingsOrder
  BY <1>1, <1>2, <1>3, PP!QueryKeeps
<1>. QED  BY <1>4, PendingsSame

\* A turn of a loop.
LEMMA PendingsTurn ==
  ASSUME PP!TreeInvariant, P!LoopStep
  PROVE  /\ PP!TreeInvariant' /\ P!Members' = P!Members /\ P!Order' = P!Order /\ pendingsPc # "idle"
         /\ pendingsPc \in Walking =>
              /\ pendingsPc' \in Walking
              /\ pendings' = pendings /\ pendingsOrder' = pendingsOrder /\ pendingsSide' = pendingsSide /\ pendingsGoal' = pendingsGoal
         /\ pendingsPc = "rank" =>
              pendingsPc' = "rank" /\ pendings' = pendings /\ pendingsOrder' = pendingsOrder /\ pendingsNode' = pendingsNode
<1>1. PP!LoopStep
  BY PendingsLoops
<1>2. PP!TreeAssumption
  BY PendingsWeights
<1>3. PP!WeightAssumption
  BY PendingsWeights
<1>4. /\ PP!TreeInvariant' /\ PP!Members' = PP!Members /\ PP!Order' = PP!Order /\ pendingsPc # "idle"
      /\ pendingsPc \in {"search", "extreme", "ascend", "found"} =>
           /\ pendingsPc' \in {"search", "extreme", "ascend", "found"}
           /\ pendings' = pendings /\ pendingsOrder' = pendingsOrder /\ pendingsSide' = pendingsSide /\ pendingsGoal' = pendingsGoal
      /\ pendingsPc = "rank" =>
           pendingsPc' = "rank" /\ pendings' = pendings /\ pendingsOrder' = pendingsOrder /\ pendingsNode' = pendingsNode
  BY <1>1, <1>2, <1>3, PP!LoopKeeps
<1>. QED  BY <1>4, PendingsSame DEF Walking

\* The start of an insertion.
LEMMA PendingsInsert ==
  ASSUME PP!TreeInvariant, NEW n \in Blocking, NEW S \in SUBSET pendings.nodes, P!Upward(S), P!TreeInsert(n, S)
  PROVE  /\ PP!TreeInvariant' /\ P!Members' = P!Members \cup {n} /\ n \notin P!Members
         /\ \A k, l \in P!Members : <<k, l>> \in P!Order' <=> <<k, l>> \in P!Order
         /\ \A k \in P!Members : <<k, n>> \in P!Order' <=> k \notin S
         /\ \A k \in P!Members : <<n, k>> \in P!Order' <=> k \in S
         /\ <<n, n>> \notin P!Order'
<1>1. PP!TreeInsert(n, S) /\ PP!Upward(S)
  BY PendingsSame
<1>2. PP!TreeAssumption
  BY PendingsWeights
<1>3. PP!WeightAssumption
  BY PendingsWeights
<1>4. /\ PP!TreeInvariant' /\ PP!Members' = PP!Members \cup {n} /\ n \notin PP!Members
      /\ \A k, l \in PP!Members : <<k, l>> \in PP!Order' <=> <<k, l>> \in PP!Order
      /\ \A k \in PP!Members : <<k, n>> \in PP!Order' <=> k \notin S
      /\ \A k \in PP!Members : <<n, k>> \in PP!Order' <=> k \in S
      /\ <<n, n>> \notin PP!Order'
  BY <1>1, <1>2, <1>3, PP!InsertKeeps
<1>. QED  BY <1>4, PendingsSame, Zenon

\* The start of a removal.
LEMMA PendingsRemove ==
  ASSUME PP!TreeInvariant, NEW n \in Blocking, P!TreeRemove(n)
  PROVE  /\ PP!TreeInvariant' /\ P!Members' = P!Members \ {n} /\ n \in P!Members
         /\ \A k, l \in P!Members \ {n} : <<k, l>> \in P!Order' <=> <<k, l>> \in P!Order
<1>1. PP!TreeRemove(n)
  BY PendingsSame
<1>2. PP!TreeAssumption
  BY PendingsWeights
<1>3. PP!WeightAssumption
  BY PendingsWeights
<1>4. /\ PP!TreeInvariant' /\ PP!Members' = PP!Members \ {n} /\ n \in PP!Members
      /\ \A k, l \in PP!Members \ {n} : <<k, l>> \in PP!Order' <=> <<k, l>> \in PP!Order
  BY <1>1, <1>2, <1>3, PP!RemoveKeeps
<1>. QED  BY <1>4, PendingsSame, Zenon

\* What a query has found.
LEMMA PendingsAnswer ==
  ASSUME PP!TreeInvariant, pendingsPc = "found"
  PROVE  \/ pendingsGoal = {} /\ pendingsAt = None
         \/ /\ pendingsAt \in pendingsGoal /\ pendingsAt # None /\ pendingsGoal \subseteq pendings.nodes
            /\ \A m \in pendingsGoal \ {pendingsAt} :
                 IF pendingsSide = 1 THEN <<pendingsAt, m>> \in pendingsOrder ELSE <<m, pendingsAt>> \in pendingsOrder
<1>1. PP!TreeAssumption
  BY PendingsWeights
<1>2. PP!WeightAssumption
  BY PendingsWeights
<1>3. \/ pendingsGoal = {} /\ pendingsAt = None
      \/ /\ pendingsAt \in pendingsGoal /\ pendingsAt # None /\ pendingsGoal \subseteq pendings.nodes
         /\ \A m \in pendingsGoal \ {pendingsAt} : PP!Ahead(pendingsOrder, pendingsAt, m, pendingsSide)
  BY <1>1, <1>2, PP!QueryAnswer
<1>. QED  BY <1>3 DEF PP!Ahead

-----------------------------------------------------------------------------
(* The queue of insertions and removals. *)

InTurn(s) ==
  /\ s \in Seq(AllJobs)
  /\ \A i, j \in DOMAIN s :
       /\ s[i] = s[j] => i = j
       /\ s[i].tree = s[j].tree /\ s[i].job = "remove" /\ s[j].job = "insert" => i < j

\* The node of the job j, if that is the given job on the tree t.
NodeOf(j, t, job) == IF j.tree = t /\ j.job = job THEN {j.node} ELSE {}

LEMMA QueueHead ==
  ASSUME NEW s, InTurn(s), s # <<>>
  PROVE  /\ InTurn(Tail(s)) /\ Head(s) \in AllJobs
         /\ \A t, job : JobsIn(s, t, job) = JobsIn(Tail(s), t, job) \cup NodeOf(Head(s), t, job)
         /\ Head(s).node \notin JobsIn(Tail(s), Head(s).tree, Head(s).job)
         /\ Head(s).job = "insert" => JobsIn(s, Head(s).tree, "remove") = {}
<1>. DEFINE u == Tail(s)
<1>1. /\ s \in Seq(AllJobs) /\ Len(s) \in Nat /\ Len(s) > 0 /\ DOMAIN s = 1..Len(s)
      /\ \A i \in DOMAIN s : s[i] \in AllJobs
  BY DEF InTurn
<1>2. /\ u \in Seq(AllJobs) /\ DOMAIN u = 1..(Len(s) - 1) /\ \A i \in DOMAIN u : u[i] = s[i + 1]
      /\ Head(s) = s[1]
  BY <1>1
<1>. HIDE DEF u
<1>3. \A i \in DOMAIN u : i + 1 \in DOMAIN s /\ i + 1 # 1
  BY <1>1, <1>2
<1>4. \A i \in DOMAIN s : i = 1 \/ (i - 1 \in DOMAIN u /\ u[i - 1] = s[i])
  BY <1>1, <1>2
<1>5. InTurn(u)
  BY <1>1, <1>2, <1>3 DEF InTurn
<1>6. 1 \in DOMAIN s /\ Head(s) \in AllJobs
  BY <1>1, <1>2
<1>7. ASSUME NEW t, NEW job
      PROVE  JobsIn(s, t, job) = JobsIn(u, t, job) \cup NodeOf(Head(s), t, job)
  <2>1. ASSUME NEW n \in JobsIn(s, t, job)
        PROVE  n \in JobsIn(u, t, job) \cup NodeOf(Head(s), t, job)
    <3>1. PICK i \in DOMAIN s : s[i].tree = t /\ s[i].job = job /\ n = s[i].node
      BY DEF JobsIn
    <3>2. CASE i = 1
      BY <1>2, <3>1, <3>2 DEF NodeOf
    <3>3. CASE i - 1 \in DOMAIN u /\ u[i - 1] = s[i]
      BY <3>1, <3>3 DEF JobsIn
    <3>. QED  BY <1>4, <3>2, <3>3
  <2>2. NodeOf(Head(s), t, job) \subseteq JobsIn(s, t, job)
    BY <1>2, <1>6 DEF NodeOf, JobsIn
  <2>3. JobsIn(u, t, job) \subseteq JobsIn(s, t, job)
    BY <1>2, <1>3 DEF JobsIn
  <2>. QED  BY <2>1, <2>2, <2>3
<1>8. Head(s).node \notin JobsIn(u, Head(s).tree, Head(s).job)
  <2>1. SUFFICES ASSUME NEW i \in DOMAIN u, u[i].tree = Head(s).tree, u[i].job = Head(s).job,
                        u[i].node = Head(s).node
                 PROVE  FALSE
    BY DEF JobsIn
  <2>2. u[i] = s[i + 1] /\ i + 1 \in DOMAIN s /\ i + 1 # 1
    BY <1>2, <1>3
  <2>3. s[i + 1] \in AllJobs
    BY <1>1, <2>2
  <2>4. s[i + 1] = s[1]
    <3>1. \A x, y \in AllJobs : x.tree = y.tree /\ x.job = y.job /\ x.node = y.node => x = y
      BY DEF AllJobs
    <3>. HIDE DEF u
    <3>. QED  BY <1>2, <1>6, <2>1, <2>2, <2>3, <3>1, Zenon
  <2>. QED  BY <1>6, <2>2, <2>4 DEF InTurn
<1>9. ASSUME Head(s).job = "insert"
      PROVE  JobsIn(s, Head(s).tree, "remove") = {}
  <2>1. ASSUME NEW i \in DOMAIN s, s[i].tree = Head(s).tree, s[i].job = "remove"
        PROVE  FALSE
    <3>1. i < 1
      BY <1>2, <1>6, <1>9, <2>1 DEF InTurn
    <3>. QED  BY <1>1, <3>1
  <2>. QED  BY <2>1 DEF JobsIn
<1>. QED  BY <1>5, <1>6, <1>7, <1>8, <1>9 DEF u

LEMMA NoJobs == InTurn(<<>>) /\ \A t, job : JobsIn(<<>>, t, job) = {}
  BY DEF InTurn, JobsIn

LEMMA OneJob ==
  ASSUME NEW a \in AllJobs
  PROVE  InTurn(<<a>>) /\ \A t, job : JobsIn(<<a>>, t, job) = NodeOf(a, t, job)
<1>1. /\ <<a>> \in Seq(AllJobs) /\ DOMAIN <<a>> = {1} /\ <<a>>[1] = a
  OBVIOUS
<1>2. a.job = "remove" => a.job # "insert"
  OBVIOUS
<1>. QED  BY <1>1, <1>2 DEF InTurn, JobsIn, NodeOf

LEMMA TwoJobs ==
  ASSUME NEW a \in AllJobs, NEW b \in AllJobs, a # b,
         ~(a.tree = b.tree /\ a.job = "insert" /\ b.job = "remove")
  PROVE  InTurn(<<a, b>>) /\ \A t, job : JobsIn(<<a, b>>, t, job) = NodeOf(a, t, job) \cup NodeOf(b, t, job)
<1>. DEFINE s == <<a, b>>
<1>1. s \in Seq(AllJobs) /\ DOMAIN s = {1, 2} /\ s[1] = a /\ s[2] = b
  OBVIOUS
<1>. HIDE DEF s
<1>2. InTurn(s)
  BY <1>1 DEF InTurn
<1>3. ASSUME NEW t, NEW job
      PROVE  JobsIn(s, t, job) = NodeOf(a, t, job) \cup NodeOf(b, t, job)
  BY <1>1 DEF JobsIn, NodeOf
<1>. QED  BY <1>2, <1>3 DEF s

\* Jobs on different trees, one after the other.
LEMMA MoreJobs ==
  ASSUME NEW s, NEW u, InTurn(s), InTurn(u),
         \A i \in DOMAIN s, j \in DOMAIN u : s[i].tree # u[j].tree
  PROVE  InTurn(s \o u) /\ \A t, job : JobsIn(s \o u, t, job) = JobsIn(s, t, job) \cup JobsIn(u, t, job)
<1>. DEFINE w == s \o u
<1>1. s \in Seq(AllJobs) /\ u \in Seq(AllJobs) /\ Len(s) \in Nat /\ Len(u) \in Nat
  BY DEF InTurn
<1>2. /\ w \in Seq(AllJobs) /\ DOMAIN w = 1..(Len(s) + Len(u))
      /\ DOMAIN s = 1..Len(s) /\ DOMAIN u = 1..Len(u)
      /\ \A i \in DOMAIN s : w[i] = s[i] /\ i \in DOMAIN w
      /\ \A j \in DOMAIN u : w[Len(s) + j] = u[j] /\ Len(s) + j \in DOMAIN w
  BY <1>1
<1>. HIDE DEF w
<1>3. \A i \in DOMAIN w : \/ i \in DOMAIN s /\ w[i] = s[i]
                          \/ i - Len(s) \in DOMAIN u /\ w[i] = u[i - Len(s)]
  <2>1. ASSUME NEW i \in DOMAIN w
        PROVE  i \in DOMAIN s \/ (i - Len(s) \in DOMAIN u /\ Len(s) + (i - Len(s)) = i)
    BY <1>1, <1>2
  <2>. QED  BY <1>2, <2>1
<1>4. InTurn(w)
  <2>1. ASSUME NEW i \in DOMAIN w, NEW j \in DOMAIN w
        PROVE  /\ w[i] = w[j] => i = j
               /\ w[i].tree = w[j].tree /\ w[i].job = "remove" /\ w[j].job = "insert" => i < j
    <3>1. CASE i \in DOMAIN s /\ w[i] = s[i] /\ j \in DOMAIN s /\ w[j] = s[j]
      BY <3>1 DEF InTurn
    <3>2. CASE i - Len(s) \in DOMAIN u /\ w[i] = u[i - Len(s)] /\ j - Len(s) \in DOMAIN u /\ w[j] = u[j - Len(s)]
      <4>1. /\ w[i] = w[j] => i - Len(s) = j - Len(s)
            /\ w[i].tree = w[j].tree /\ w[i].job = "remove" /\ w[j].job = "insert" => i - Len(s) < j - Len(s)
        BY <3>2 DEF InTurn
      <4>. QED  BY <1>1, <1>2, <4>1
    <3>3. CASE i \in DOMAIN s /\ w[i] = s[i] /\ j - Len(s) \in DOMAIN u /\ w[j] = u[j - Len(s)]
      <4>1. w[i].tree # w[j].tree
        BY <3>3
      <4>. QED  BY <4>1
    <3>4. CASE i - Len(s) \in DOMAIN u /\ w[i] = u[i - Len(s)] /\ j \in DOMAIN s /\ w[j] = s[j]
      <4>1. w[j].tree # w[i].tree
        BY <3>4
      <4>. QED  BY <4>1
    <3>. QED  BY <1>3, <3>1, <3>2, <3>3, <3>4
  <2>. QED  BY <1>2, <2>1 DEF InTurn
<1>5. ASSUME NEW t, NEW job
      PROVE  JobsIn(w, t, job) = JobsIn(s, t, job) \cup JobsIn(u, t, job)
  <2>1. JobsIn(s, t, job) \subseteq JobsIn(w, t, job)
    BY <1>2 DEF JobsIn
  <2>2. JobsIn(u, t, job) \subseteq JobsIn(w, t, job)
    BY <1>2 DEF JobsIn
  <2>3. JobsIn(w, t, job) \subseteq JobsIn(s, t, job) \cup JobsIn(u, t, job)
    BY <1>3 DEF JobsIn
  <2>. QED  BY <2>1, <2>2, <2>3
<1>. QED  BY <1>4, <1>5 DEF w

\* What the jobs s insert into, and remove from, the three trees.
Does(s, readsIn, readsOut, writesIn, writesOut, pendingsIn, pendingsOut) ==
  /\ InTurn(s)
  /\ JobsIn(s, "reads", "insert") = readsIn       /\ JobsIn(s, "reads", "remove") = readsOut
  /\ JobsIn(s, "writes", "insert") = writesIn     /\ JobsIn(s, "writes", "remove") = writesOut
  /\ JobsIn(s, "pendings", "insert") = pendingsIn /\ JobsIn(s, "pendings", "remove") = pendingsOut

LEMMA JobTypes ==
  ASSUME NEW l \in Locks
  PROVE  /\ l \in Readers => /\ <<l, 0>> \in ReadNodes /\ <<l, 1>> \in ReadNodes /\ <<l, 0>> # <<l, 1>>
                             /\ Put("reads", <<l, 0>>) \in AllJobs /\ Put("reads", <<l, 1>>) \in AllJobs
                             /\ Take("reads", <<l, 0>>) \in AllJobs /\ Take("reads", <<l, 1>>) \in AllJobs
         /\ Put("writes", l) \in AllJobs /\ Take("writes", l) \in AllJobs
         /\ Put("pendings", l) \in AllJobs /\ Take("pendings", l) \in AllJobs
  BY DEF ReadNodes, AllJobs, Put, Take

LEMMA BorrowJobsDo ==
  ASSUME NEW l \in Locks
  PROVE  Does(BorrowJobs(l), IF l \in Readers THEN {<<l, 0>>, <<l, 1>>} ELSE {}, {},
              IF l \in Readers THEN {} ELSE {l}, {}, {}, {})
<1>1. CASE l \in Readers
  <2>. DEFINE a == Put("reads", <<l, 0>>)
              b == Put("reads", <<l, 1>>)
  <2>1. a \in AllJobs /\ b \in AllJobs
    BY <1>1, JobTypes
  <2>2. a.tree = "reads" /\ a.job = "insert" /\ a.node = <<l, 0>> /\ b.tree = "reads" /\ b.job = "insert" /\ b.node = <<l, 1>>
    BY DEF Put
  <2>3. a # b /\ BorrowJobs(l) = <<a, b>>
    BY <1>1, <2>2, JobTypes DEF BorrowJobs
  <2>. HIDE DEF a, b
  <2>4. InTurn(<<a, b>>) /\ \A t, job : JobsIn(<<a, b>>, t, job) = NodeOf(a, t, job) \cup NodeOf(b, t, job)
    BY <2>1, <2>2, <2>3, TwoJobs
  <2>. QED  BY <1>1, <2>2, <2>3, <2>4 DEF Does, NodeOf
<1>2. CASE l \notin Readers
  <2>. DEFINE a == Put("writes", l)
  <2>1. a \in AllJobs /\ BorrowJobs(l) = <<a>>
    BY <1>2, JobTypes DEF BorrowJobs
  <2>2. a.tree = "writes" /\ a.job = "insert" /\ a.node = l
    BY DEF Put
  <2>. HIDE DEF a
  <2>. QED  BY <1>2, <2>1, <2>2, OneJob DEF Does, NodeOf
<1>. QED  BY <1>1, <1>2

LEMMA MoveJobsDo ==
  ASSUME NEW l \in Locks
  PROVE  LET n == IF l \in Readers THEN {<<l, 1>>} ELSE {}
         IN  Does(MoveJobs(l), n, n, {}, {}, {}, {})
<1>1. CASE l \in Readers
  <2>. DEFINE a == Take("reads", <<l, 1>>)
              b == Put("reads", <<l, 1>>)
  <2>1. a \in AllJobs /\ b \in AllJobs
    BY <1>1, JobTypes
  <2>2. a.tree = "reads" /\ a.job = "remove" /\ a.node = <<l, 1>> /\ b.tree = "reads" /\ b.job = "insert" /\ b.node = <<l, 1>>
    BY DEF Put, Take
  <2>3. a # b /\ MoveJobs(l) = <<a, b>>
    BY <1>1, <2>2 DEF MoveJobs
  <2>. HIDE DEF a, b
  <2>4. InTurn(<<a, b>>) /\ \A t, job : JobsIn(<<a, b>>, t, job) = NodeOf(a, t, job) \cup NodeOf(b, t, job)
    BY <2>1, <2>2, <2>3, TwoJobs
  <2>. QED  BY <1>1, <2>2, <2>3, <2>4 DEF Does, NodeOf
<1>2. CASE l \notin Readers
  BY <1>2, NoJobs DEF MoveJobs, Does
<1>. QED  BY <1>1, <1>2

\* The nodes of a borrow are taken out, in either order.
LEMMA TakeJobsDo ==
  ASSUME NEW l \in Locks
  PROVE  /\ l \in Readers =>
              /\ Does(<<Take("reads", <<l, 0>>), Take("reads", <<l, 1>>)>>, {}, {<<l, 0>>, <<l, 1>>}, {}, {}, {}, {})
              /\ Does(<<Take("reads", <<l, 1>>), Take("reads", <<l, 0>>)>>, {}, {<<l, 0>>, <<l, 1>>}, {}, {}, {}, {})
         /\ Does(<<Take("writes", l)>>, {}, {}, {}, {l}, {}, {})
         /\ Does(<<Take("pendings", l)>>, {}, {}, {}, {}, {}, {l})
         /\ Does(<<Put("pendings", l)>>, {}, {}, {}, {}, {l}, {})
         /\ Does(<<Take("pendings", l), Put("pendings", l)>>, {}, {}, {}, {}, {l}, {l})
<1>1. ASSUME l \in Readers
      PROVE  /\ Does(<<Take("reads", <<l, 0>>), Take("reads", <<l, 1>>)>>, {}, {<<l, 0>>, <<l, 1>>}, {}, {}, {}, {})
             /\ Does(<<Take("reads", <<l, 1>>), Take("reads", <<l, 0>>)>>, {}, {<<l, 0>>, <<l, 1>>}, {}, {}, {}, {})
  <2>. DEFINE a == Take("reads", <<l, 0>>)
              b == Take("reads", <<l, 1>>)
  <2>1. a \in AllJobs /\ b \in AllJobs
    BY <1>1, JobTypes
  <2>2. a.tree = "reads" /\ a.job = "remove" /\ a.node = <<l, 0>> /\ b.tree = "reads" /\ b.job = "remove" /\ b.node = <<l, 1>>
    BY DEF Take
  <2>3. a # b /\ b # a
    BY <1>1, <2>2, JobTypes
  <2>. HIDE DEF a, b
  <2>4. InTurn(<<a, b>>) /\ \A t, job : JobsIn(<<a, b>>, t, job) = NodeOf(a, t, job) \cup NodeOf(b, t, job)
    BY <2>1, <2>2, <2>3, TwoJobs
  <2>5. InTurn(<<b, a>>) /\ \A t, job : JobsIn(<<b, a>>, t, job) = NodeOf(b, t, job) \cup NodeOf(a, t, job)
    BY <2>1, <2>2, <2>3, TwoJobs
  <2>6. Does(<<a, b>>, {}, {<<l, 0>>, <<l, 1>>}, {}, {}, {}, {})
    BY <2>2, <2>4 DEF Does, NodeOf
  <2>7. Does(<<b, a>>, {}, {<<l, 0>>, <<l, 1>>}, {}, {}, {}, {})
    BY <2>2, <2>5 DEF Does, NodeOf
  <2>. QED  BY <2>6, <2>7 DEF a, b
<1>2. ASSUME NEW a \in AllJobs
      PROVE  Does(<<a>>, NodeOf(a, "reads", "insert"), NodeOf(a, "reads", "remove"),
                  NodeOf(a, "writes", "insert"), NodeOf(a, "writes", "remove"),
                  NodeOf(a, "pendings", "insert"), NodeOf(a, "pendings", "remove"))
  BY OneJob DEF Does
<1>3. Does(<<Take("writes", l)>>, {}, {}, {}, {l}, {}, {})
  <2>. DEFINE a == Take("writes", l)
  <2>1. a \in AllJobs /\ a.tree = "writes" /\ a.job = "remove" /\ a.node = l
    BY JobTypes DEF Take
  <2>. HIDE DEF a
  <2>2. Does(<<a>>, {}, {}, {}, {l}, {}, {})
    BY <1>2, <2>1 DEF NodeOf
  <2>. QED  BY <2>2 DEF a
<1>4. Does(<<Take("pendings", l)>>, {}, {}, {}, {}, {}, {l})
  <2>. DEFINE a == Take("pendings", l)
  <2>1. a \in AllJobs /\ a.tree = "pendings" /\ a.job = "remove" /\ a.node = l
    BY JobTypes DEF Take
  <2>. HIDE DEF a
  <2>2. Does(<<a>>, {}, {}, {}, {}, {}, {l})
    BY <1>2, <2>1 DEF NodeOf
  <2>. QED  BY <2>2 DEF a
<1>5. Does(<<Put("pendings", l)>>, {}, {}, {}, {}, {l}, {})
  <2>. DEFINE a == Put("pendings", l)
  <2>1. a \in AllJobs /\ a.tree = "pendings" /\ a.job = "insert" /\ a.node = l
    BY JobTypes DEF Put
  <2>. HIDE DEF a
  <2>2. Does(<<a>>, {}, {}, {}, {}, {l}, {})
    BY <1>2, <2>1 DEF NodeOf
  <2>. QED  BY <2>2 DEF a
<1>6. Does(<<Take("pendings", l), Put("pendings", l)>>, {}, {}, {}, {}, {l}, {l})
  <2>. DEFINE a == Take("pendings", l)
              b == Put("pendings", l)
  <2>1. a \in AllJobs /\ a.tree = "pendings" /\ a.job = "remove" /\ a.node = l
    BY JobTypes DEF Take
  <2>2. b \in AllJobs /\ b.tree = "pendings" /\ b.job = "insert" /\ b.node = l
    BY JobTypes DEF Put
  <2>3. a # b
    BY <2>1, <2>2
  <2>. HIDE DEF a, b
  <2>4. InTurn(<<a, b>>) /\ \A t, job : JobsIn(<<a, b>>, t, job) = NodeOf(a, t, job) \cup NodeOf(b, t, job)
    BY <2>1, <2>2, <2>3, TwoJobs
  <2>5. Does(<<a, b>>, {}, {}, {}, {}, {l}, {l})
    BY <2>1, <2>2, <2>4 DEF Does, NodeOf
  <2>. QED  BY <2>5 DEF a, b
<1>. QED  BY <1>1, <1>3, <1>4, <1>5, <1>6

\* Jobs on `reads` and `writes`, and jobs on `pendings`, one after the other.
LEMMA BothDo ==
  ASSUME NEW s, NEW u, NEW ri, NEW ro, NEW wi, NEW wo, NEW pi, NEW po,
         Does(s, ri, ro, wi, wo, {}, {}), Does(u, {}, {}, {}, {}, pi, po)
  PROVE  Does(s \o u, ri, ro, wi, wo, pi, po) /\ Does(u \o s, ri, ro, wi, wo, pi, po)
<1>1. \A i \in DOMAIN s, j \in DOMAIN u : s[i].tree # u[j].tree
  <2>1. \A i \in DOMAIN s : s[i] \in AllJobs /\ s[i].node \in JobsIn(s, s[i].tree, s[i].job)
    BY DEF Does, InTurn, JobsIn
  <2>2. \A j \in DOMAIN u : u[j] \in AllJobs /\ u[j].node \in JobsIn(u, u[j].tree, u[j].job)
    BY DEF Does, InTurn, JobsIn
  <2>3. \A i \in DOMAIN s : s[i].tree \in {"reads", "writes"}
    <3>1. \A i \in DOMAIN s : s[i].tree \in {"reads", "writes", "pendings"} /\ s[i].job \in {"insert", "remove"}
      BY <2>1 DEF AllJobs
    <3>. QED  BY <2>1, <3>1 DEF Does
  <2>4. \A j \in DOMAIN u : u[j].tree = "pendings"
    <3>1. \A j \in DOMAIN u : u[j].tree \in {"reads", "writes", "pendings"} /\ u[j].job \in {"insert", "remove"}
      BY <2>2 DEF AllJobs
    <3>. QED  BY <2>2, <3>1 DEF Does
  <2>. QED  BY <2>3, <2>4
<1>2. InTurn(s \o u) /\ \A t, job : JobsIn(s \o u, t, job) = JobsIn(s, t, job) \cup JobsIn(u, t, job)
  BY <1>1, MoreJobs DEF Does
<1>3. InTurn(u \o s) /\ \A t, job : JobsIn(u \o s, t, job) = JobsIn(u, t, job) \cup JobsIn(s, t, job)
  BY <1>1, MoreJobs DEF Does
<1>. QED  BY <1>2, <1>3 DEF Does

-----------------------------------------------------------------------------
(* Searching for conflicts *)

\* Every tree is sound, whatever it is in the middle of.
Trees == RP!TreeInvariant /\ WP!TreeInvariant /\ PP!TreeInvariant

\* Between operations the trees have the nodes in the cells, in order.
LEMMA AllDone ==
  ASSUME TreesIInv, todo = <<>>
  PROVE  /\ R!Members = Reads \X {0, 1} /\ W!Members = Writes /\ P!Members = Waits \ Cancelled
         /\ \A m, n \in Reads \X {0, 1} : <<m, n>> \in R!Order => Index(m) <= Index(n)
         /\ \A m, n \in Writes : <<m, n>> \in W!Order => borrow[m].start <= borrow[n].start
         /\ \A m, n \in Waits \ Cancelled : <<m, n>> \in P!Order <=> Before(m, n)
<1>1. \A t, job : Jobs(t, job) = {}
  BY DEF Jobs, JobsIn
<1>2. /\ \A members : Staying("reads", members) = members
      /\ \A members : Staying("writes", members) = members
      /\ \A members : Staying("pendings", members) = members
  BY <1>1 DEF Staying
<1>3. R!Members = Reads \X {0, 1} /\ W!Members = Writes /\ P!Members = Waits \ Cancelled
  BY <1>1, <1>2 DEF TreesIInv, ReadsInOrder, WritesInOrder, PendingsInOrder, WillHave
<1>4. /\ \A m, n \in R!Members : <<m, n>> \in R!Order => Index(m) <= Index(n)
      /\ \A m, n \in W!Members : <<m, n>> \in W!Order => borrow[m].start <= borrow[n].start
      /\ \A m, n \in P!Members : <<m, n>> \in P!Order <=> Before(m, n)
  BY <1>2, Zenon DEF TreesIInv, ReadsInOrder, WritesInOrder, PendingsInOrder
<1>. QED  BY <1>3, <1>4, Zenon

\* The first write borrow that ends above r.start, in the order of the tree, is
\* the one that first_write_borrow_in_range asks for.
LEMMA WriteSearch ==
  ASSUME TypeOK, NEW r, r.start \in Indices, NEW order, NEW n,
         \A x, y \in Writes : <<x, y>> \in order => borrow[x].start <= borrow[y].start,
         IsFirst(n, {m \in Writes : borrow[m].end > r.start}, order)
  PROVE  first_write_borrow_in_range(r)
           = IF n # None /\ borrow[n].start < r.end THEN MaxOf(borrow[n].start, r.start) ELSE None
<1>. DEFINE after == {l \in Writes : borrow[l].end > r.start}
            least(l) == \A k \in after : borrow[l].start <= borrow[k].start
            first == CHOOSE l \in after : least(l)
<1>1. first_write_borrow_in_range(r)
        = IF after # {} /\ borrow[first].start < r.end THEN MaxOf(borrow[first].start, r.start) ELSE None
  BY DEF first_write_borrow_in_range
<1>2. \A l \in after : l \in Writes /\ borrow[l].start \in Nat /\ l # None
  <2>1. \A l \in Writes : l \in Locks /\ borrow[l] # None
    BY DEF Writes, Locks
  <2>2. \A l \in Writes : borrow[l].start \in Nat
    BY <2>1, BorrowType
  <2>3. None \notin Locks
    BY NoneAssumption
  <2>. QED  BY <2>1, <2>2, <2>3
<1>3. CASE n \in after /\ \A m \in after \ {n} : <<n, m>> \in order
  <2>1. least(n)
    <3>1. ASSUME NEW k \in after
          PROVE  borrow[n].start <= borrow[k].start
      <4>1. CASE k = n
        BY <1>2, <1>3, <4>1
      <4>2. CASE k # n
        <5>1. n \in Writes /\ k \in Writes /\ <<n, k>> \in order
          BY <1>3, <4>2
        <5>. QED  BY <5>1
      <4>. QED  BY <4>1, <4>2
    <3>. QED  BY <3>1
  <2>2. first \in after /\ least(first)
    <3>. HIDE DEF after, least
    <3>. QED  BY <1>3, <2>1
  <2>3. borrow[first].start = borrow[n].start
    BY <1>2, <1>3, <2>1, <2>2
  <2>. HIDE DEF first
  <2>. QED  BY <1>1, <1>2, <1>3, <2>3
<1>4. CASE n = None /\ after = {}
  BY <1>1, <1>4
<1>. QED  BY <1>3, <1>4 DEF IsFirst

\* As many nodes as borrows.
LEMMA Tagged ==
  ASSUME NEW S, IsFiniteSet(S), NEW i
  PROVE  Cardinality({<<l, i>> : l \in S}) = Cardinality(S)
<1>. DEFINE T == {<<l, i>> : l \in S}
            f == [l \in S |-> <<l, i>>]
<1>1. f \in [S -> T]
  OBVIOUS
<1>2. \A x, y \in S : f[x] = f[y] => x = y
  OBVIOUS
<1>3. \A y \in T : \E x \in S : f[x] = y
  OBVIOUS
<1>4. f \in Bijection(S, T)
  BY <1>1, <1>2, <1>3 DEF Bijection, Injection, Surjection, IsInjective
<1>5. ExistsBijection(S, T)
  BY <1>4 DEF ExistsBijection
<1>. QED  BY <1>5, FS_Bijection

\* The nodes up to an index weigh as much as prefix_sum says.
LEMMA WeightUpTo ==
  ASSUME NEW i
  PROVE  ReadWeightOf[{m \in Reads \X {0, 1} : Index(m) <= i}] = prefix_sum(i)
<1>. DEFINE T == {m \in Reads \X {0, 1} : Index(m) <= i}
            A == {l \in Reads : borrow[l].start <= i}
            B == {l \in Reads : borrow[l].end <= i}
<1>1. {n \in T : n[2] = 0} = {<<l, 0>> : l \in A}
  BY DEF Index
<1>2. {n \in T : n[2] = 1} = {<<l, 1>> : l \in B}
  BY DEF Index
<1>3. IsFiniteSet(A) /\ IsFiniteSet(B)
  <2>1. A \subseteq Locks /\ B \subseteq Locks
    BY DEF Reads, Locks
  <2>. QED  BY <2>1, LocksFinite, FS_Subset
<1>4. T \in SUBSET ReadNodes
  BY DEF Reads, ReadNodes
<1>5. ReadWeightOf[T] = Cardinality({n \in T : n[2] = 0}) - Cardinality({n \in T : n[2] = 1})
  BY <1>4 DEF ReadWeightOf
<1>6. Cardinality({<<l, 0>> : l \in A}) = Cardinality(A) /\ Cardinality({<<l, 1>> : l \in B}) = Cardinality(B)
  BY <1>3, Tagged
<1>7. prefix_sum(i) = Cardinality(A) - Cardinality(B)
  BY DEF prefix_sum
<1>. HIDE DEF T, A, B
<1>8. ReadWeightOf[T] = prefix_sum(i)
  BY <1>1, <1>2, <1>5, <1>6, <1>7
<1>. QED  BY <1>8 DEF T

\* The value of an endpoint.
LEMMA IndexType ==
  ASSUME TypeOK, NEW m \in Reads \X {0, 1}
  PROVE  /\ m[1] \in Reads /\ m[2] \in {0, 1} /\ m = <<m[1], m[2]>> /\ Index(m) \in Nat
         /\ Index(m) \in Endpoints /\ m \in ReadNodes
<1>1. m[1] \in Reads /\ m[2] \in {0, 1} /\ m = <<m[1], m[2]>> /\ m[1] \in Locks /\ borrow[m[1]] # None
      /\ m \in ReadNodes
  BY DEF Reads, Locks, ReadNodes
<1>2. borrow[m[1]].start \in Nat /\ borrow[m[1]].end \in Nat
  BY <1>1, BorrowType
<1>3. Index(m) \in {borrow[m[1]].start, borrow[m[1]].end}
  BY DEF Index
<1>4. {borrow[m[1]].start, borrow[m[1]].end} \subseteq Endpoints
  BY <1>1 DEF Endpoints
<1>. QED  BY <1>1, <1>2, <1>3, <1>4

\* Every endpoint is the index of a node.
LEMMA EndpointNode ==
  ASSUME NEW i \in Endpoints
  PROVE  \E m \in Reads \X {0, 1} : Index(m) = i
<1>1. \A l \in Reads : /\ <<l, 0>> \in Reads \X {0, 1} /\ Index(<<l, 0>>) = borrow[l].start
                       /\ <<l, 1>> \in Reads \X {0, 1} /\ Index(<<l, 1>>) = borrow[l].end
  BY DEF Index
<1>2. PICK l \in Reads : i = borrow[l].start \/ i = borrow[l].end
  BY DEF Endpoints
<1>. QED  BY <1>1, <1>2

\* The first endpoint above r.start, in the order of the tree: what precedes it
\* is what prefix_sum adds up, and first_read_borrow_in_range follows from it.
LEMMA ReadSearch ==
  ASSUME TypeOK, UpperBoundsMatched, NEW r, r.start \in Indices, NEW order, NEW n,
         Sorted(Reads \X {0, 1}, order),
         \A x, y \in Reads \X {0, 1} : <<x, y>> \in order => Index(x) <= Index(y),
         n # None, IsFirst(n, {m \in Reads \X {0, 1} : Index(m) > r.start}, order)
  PROVE  /\ {m \in Reads \X {0, 1} : <<m, n>> \in order} = {m \in Reads \X {0, 1} : Index(m) <= r.start}
         /\ Index(n) > r.start
         /\ prefix_sum(r.start) <= 0 => n[2] = 0 /\ prefix_sum(r.start) = 0
         /\ first_read_borrow_in_range(r) = IF prefix_sum(r.start) > 0 THEN r.start
                                            ELSE IF Index(n) < r.end THEN Index(n) ELSE None
<1>. DEFINE nodes == Reads \X {0, 1}
            sum == prefix_sum(r.start)
<1>1. /\ n \in nodes /\ Index(n) > r.start /\ n[1] \in Reads /\ n[2] \in {0, 1}
      /\ \A m \in nodes : m # n /\ Index(m) > r.start => <<n, m>> \in order
  BY IndexType DEF IsFirst
<1>2. r.start \in Nat /\ \A m \in nodes : Index(m) \in Nat
  BY IndexType, IndexAssumption DEF Indices
<1>3. ASSUME NEW m \in nodes
      PROVE  <<m, n>> \in order <=> Index(m) <= r.start
  <2>1. CASE Index(m) > r.start
    <3>1. <<m, n>> \notin order
      <4>1. CASE m = n
        BY <1>1, <4>1 DEF Sorted
      <4>2. CASE m # n
        <5>1. <<n, m>> \in order
          BY <1>1, <2>1, <4>2
        <5>. QED  BY <1>1, <5>1 DEF Sorted
      <4>. QED  BY <4>1, <4>2
    <3>. QED  BY <1>2, <2>1, <3>1
  <2>2. CASE Index(m) <= r.start
    <3>1. m # n
      BY <1>1, <1>2, <2>2
    <3>2. <<n, m>> \notin order
      <4>1. <<n, m>> \in order => Index(n) <= Index(m)
        BY <1>1
      <4>. QED  BY <1>1, <1>2, <2>2, <4>1
    <3>. QED  BY <1>1, <2>2, <3>1, <3>2 DEF Sorted
  <2>. QED  BY <1>2, <2>1, <2>2
<1>4. sum \in Int /\ sum >= 0
  <2>. DEFINE A == {l \in Reads : borrow[l].start <= r.start}
              B == {l \in Reads : borrow[l].end <= r.start}
  <2>1. A \subseteq Locks /\ B \subseteq Locks
    BY DEF Reads, Locks
  <2>2. Cardinality(A) \in Nat /\ Cardinality(B) \in Nat
    BY <2>1, LocksFinite, FS_Subset, FS_CardinalityType
  <2>3. sum = Cardinality(A) - Cardinality(B)
    BY DEF prefix_sum
  <2>. HIDE DEF A, B
  <2>4. sum >= 0
    BY DEF UpperBoundsMatched
  <2>. HIDE DEF sum
  <2>. QED  BY <2>2, <2>3, <2>4
<1>. HIDE DEF sum
<1>5. \A m \in nodes : Index(m) > r.start => Index(n) <= Index(m)
  <2>1. ASSUME NEW m \in nodes, Index(m) > r.start
        PROVE  Index(n) <= Index(m)
    <3>1. CASE m = n
      BY <1>1, <1>2, <3>1
    <3>2. CASE m # n
      <4>1. <<n, m>> \in order
        BY <1>1, <2>1, <3>2
      <4>. QED  BY <1>1, <4>1
    <3>. QED  BY <3>1, <3>2
  <2>. QED  BY <2>1
<1>6. sum <= 0 => n[2] = 0 /\ sum = 0
  <2>1. ASSUME sum = 0, n[2] = 1
        PROVE  FALSE
    <3>1. borrow[n[1]].end > r.start /\ Index(n) = borrow[n[1]].end
      BY <1>1, <2>1 DEF Index
    <3>2. PICK k \in Reads : r.start < borrow[k].start /\ borrow[k].start < borrow[n[1]].end
      BY <1>1, <2>1, <3>1 DEF UpperBoundsMatched, sum
    <3>3. <<k, 0>> \in nodes /\ Index(<<k, 0>>) = borrow[k].start
      BY DEF Index
    <3>4. Index(n) <= borrow[k].start /\ borrow[k].start \in Nat
      BY <1>2, <1>5, <3>2, <3>3
    <3>. QED  BY <1>1, <1>2, <3>1, <3>2, <3>4
  <2>. QED  BY <1>1, <1>4, <2>1
<1>7. first_read_borrow_in_range(r) = IF sum > 0 THEN r.start
                                      ELSE IF Index(n) < r.end THEN Index(n) ELSE None
  <2>. DEFINE after == {i \in Endpoints : i > r.start}
              least(i) == \A j \in after : i <= j
              first == CHOOSE i \in after : least(i)
  <2>1. Index(n) \in after
    BY <1>1, IndexType
  <2>2. least(Index(n))
    <3>1. ASSUME NEW i \in after
          PROVE  Index(n) <= i
      <4>1. PICK m \in nodes : Index(m) = i
        BY EndpointNode
      <4>. QED  BY <1>5, <4>1
    <3>. QED  BY <3>1
  <2>3. first \in after /\ least(first)
    <3>. HIDE DEF after, least
    <3>. QED  BY <2>1, <2>2
  <2>4. first = Index(n)
    <3>1. first <= Index(n) /\ Index(n) <= first
      BY <2>1, <2>2, <2>3
    <3>2. PICK m \in nodes : Index(m) = first
      BY <2>3, EndpointNode
    <3>. HIDE DEF first
    <3>. QED  BY <1>1, <1>2, <3>1, <3>2
  <2>5. first_read_borrow_in_range(r) = IF after = {} THEN None
          ELSE IF sum > 0 THEN r.start ELSE IF first < r.end THEN first ELSE None
    BY DEF first_read_borrow_in_range, sum
  <2>. HIDE DEF first, after, least
  <2>. QED  BY <2>1, <2>4, <2>5
<1>8. {m \in nodes : <<m, n>> \in order} = {m \in nodes : Index(m) <= r.start}
  BY <1>3, Zenon
<1>. QED  BY <1>1, <1>6, <1>7, <1>8 DEF sum

\* No endpoint above r.start: nothing is borrowed there.
LEMMA ReadSearchNone ==
  ASSUME TypeOK, NEW r, NEW order, IsFirst(None, {m \in Reads \X {0, 1} : Index(m) > r.start}, order)
  PROVE  first_read_borrow_in_range(r) = None
<1>1. \A m \in Reads \X {0, 1} : m # None
  BY IndexType, NodesAssumption
<1>2. {m \in Reads \X {0, 1} : Index(m) > r.start} = {}
  BY <1>1 DEF IsFirst
<1>3. {i \in Endpoints : i > r.start} = {}
  BY <1>2, EndpointNode
<1>. QED  BY <1>3 DEF first_read_borrow_in_range

\* The conflict depends on the range alone.
LEMMA ConflictOfRange ==
  ASSUME NEW l, NEW r, NEW s, r.start = s.start, r.end = s.end
  PROVE  FirstConflict(l, r) = FirstConflict(l, s)
<1>. DEFINE range(i, j) == [start |-> i, end |-> j]
            w(i, j) == first_write_borrow_in_range(range(i, j))
            u(i, j) == first_read_borrow_in_range(range(i, j))
<1>2. /\ first_write_borrow_in_range(r) = w(r.start, r.end)
      /\ first_write_borrow_in_range(s) = w(s.start, s.end)
  BY DEF first_write_borrow_in_range
<1>3. /\ first_read_borrow_in_range(r) = u(r.start, r.end)
      /\ first_read_borrow_in_range(s) = u(s.start, s.end)
  BY DEF first_read_borrow_in_range
<1>. HIDE DEF w, u
<1>4. w(r.start, r.end) = w(s.start, s.end) /\ u(r.start, r.end) = u(s.start, s.end)
  OBVIOUS
<1>5. /\ first_write_borrow_in_range(r) = first_write_borrow_in_range(s)
      /\ first_read_borrow_in_range(r) = first_read_borrow_in_range(s)
  BY <1>2, <1>3, <1>4
<1>. QED  BY <1>5, Zenon DEF FirstConflict, first_conflict_for_write

-----------------------------------------------------------------------------
(* Steps that leave the cells as they are *)

\* The trees and the queue.
Stored == Queued /\ ReadsInOrder /\ WritesInOrder /\ PendingsInOrder

SameMembers ==
  /\ R!Members' = R!Members /\ W!Members' = W!Members /\ P!Members' = P!Members
  /\ R!Order' = R!Order /\ W!Order' = W!Order /\ P!Order' = P!Order

\* Without the nodes `out` and with the nodes `in`, the members are the nodes.
Settles(members, out, in, nodes) ==
  /\ out \subseteq members
  /\ (members \ out) \cap in = {}
  /\ (members \ out) \cup in = nodes

LEMMA QueuedNext == Queued' <=> InTurn(todo')
  BY Zenon DEF Queued, InTurn

LEMMA JobsNext ==
  /\ Jobs("reads", "insert")' = JobsIn(todo', "reads", "insert")
  /\ Jobs("reads", "remove")' = JobsIn(todo', "reads", "remove")
  /\ Jobs("writes", "insert")' = JobsIn(todo', "writes", "insert")
  /\ Jobs("writes", "remove")' = JobsIn(todo', "writes", "remove")
  /\ Jobs("pendings", "insert")' = JobsIn(todo', "pendings", "insert")
  /\ Jobs("pendings", "remove")' = JobsIn(todo', "pendings", "remove")
  BY Zenon DEF Jobs, JobsIn

LEMMA ReadsInOrderNow ==
  ReadsInOrder <=>
    /\ Settles(R!Members, Jobs("reads", "remove"), Jobs("reads", "insert"), Reads \X {0, 1})
    /\ \A m, n \in R!Members \ Jobs("reads", "remove") : <<m, n>> \in R!Order => Index(m) <= Index(n)
  BY Zenon DEF ReadsInOrder, WillHave, Staying, Settles

LEMMA ReadsInOrderNext ==
  ReadsInOrder' <=>
    /\ Settles(R!Members', JobsIn(todo', "reads", "remove"), JobsIn(todo', "reads", "insert"), (Reads \X {0, 1})')
    /\ \A m, n \in R!Members' \ JobsIn(todo', "reads", "remove") : <<m, n>> \in R!Order' => Index(m)' <= Index(n)'
<1>1. ReadsInOrder' <=>
    /\ Settles(R!Members', Jobs("reads", "remove")', Jobs("reads", "insert")', (Reads \X {0, 1})')
    /\ \A m, n \in R!Members' \ Jobs("reads", "remove")' : <<m, n>> \in R!Order' => Index(m)' <= Index(n)'
  BY Zenon DEF ReadsInOrder, WillHave, Staying, Settles
<1>. QED  BY <1>1, JobsNext, Zenon

LEMMA WritesInOrderNow ==
  WritesInOrder <=>
    /\ Settles(W!Members, Jobs("writes", "remove"), Jobs("writes", "insert"), Writes)
    /\ \A m, n \in W!Members \ Jobs("writes", "remove") :
         <<m, n>> \in W!Order => borrow[m].start <= borrow[n].start
  BY Zenon DEF WritesInOrder, WillHave, Staying, Settles

LEMMA WritesInOrderNext ==
  WritesInOrder' <=>
    /\ Settles(W!Members', JobsIn(todo', "writes", "remove"), JobsIn(todo', "writes", "insert"), Writes')
    /\ \A m, n \in W!Members' \ JobsIn(todo', "writes", "remove") :
         <<m, n>> \in W!Order' => borrow'[m].start <= borrow'[n].start
<1>1. WritesInOrder' <=>
    /\ Settles(W!Members', Jobs("writes", "remove")', Jobs("writes", "insert")', Writes')
    /\ \A m, n \in W!Members' \ Jobs("writes", "remove")' :
         <<m, n>> \in W!Order' => borrow'[m].start <= borrow'[n].start
  BY Zenon DEF WritesInOrder, WillHave, Staying, Settles
<1>. QED  BY <1>1, JobsNext, Zenon

LEMMA PendingsInOrderNow ==
  PendingsInOrder <=>
    /\ Settles(P!Members, Jobs("pendings", "remove"), Jobs("pendings", "insert"), Waits \ Cancelled)
    /\ \A m, n \in P!Members \ Jobs("pendings", "remove") : <<m, n>> \in P!Order <=> Before(m, n)
    /\ \A l \in Jobs("pendings", "insert") : older[l] = Waits \ {l}
  BY Zenon DEF PendingsInOrder, WillHave, Staying, Settles

LEMMA PendingsInOrderNext ==
  PendingsInOrder' <=>
    /\ Settles(P!Members', JobsIn(todo', "pendings", "remove"), JobsIn(todo', "pendings", "insert"),
               Waits' \ Cancelled')
    /\ \A m, n \in P!Members' \ JobsIn(todo', "pendings", "remove") : <<m, n>> \in P!Order' <=> Before(m, n)'
    /\ \A l \in JobsIn(todo', "pendings", "insert") : older'[l] = Waits' \ {l}
<1>1. PendingsInOrder' <=>
    /\ Settles(P!Members', Jobs("pendings", "remove")', Jobs("pendings", "insert")', Waits' \ Cancelled')
    /\ \A m, n \in P!Members' \ Jobs("pendings", "remove")' : <<m, n>> \in P!Order' <=> Before(m, n)'
    /\ \A l \in Jobs("pendings", "insert")' : older'[l] = Waits' \ {l}
  BY Zenon DEF PendingsInOrder, WillHave, Staying, Settles
<1>. QED  BY <1>1, JobsNext, Zenon

LEMMA ReadsInOrderStays ==
  ASSUME ReadsInOrder, UNCHANGED vars, R!Members' = R!Members, R!Order' = R!Order,
         JobsIn(todo', "reads", "insert") = Jobs("reads", "insert"),
         JobsIn(todo', "reads", "remove") = Jobs("reads", "remove")
  PROVE  ReadsInOrder'
<1>1. (Reads \X {0, 1})' = Reads \X {0, 1} /\ \A n : Index(n)' = Index(n)
  BY Zenon DEF vars, Reads, Index
<1>. QED  BY <1>1, ReadsInOrderNow, ReadsInOrderNext, Zenon

LEMMA WritesInOrderStays ==
  ASSUME WritesInOrder, UNCHANGED vars, W!Members' = W!Members, W!Order' = W!Order,
         JobsIn(todo', "writes", "insert") = Jobs("writes", "insert"),
         JobsIn(todo', "writes", "remove") = Jobs("writes", "remove")
  PROVE  WritesInOrder'
<1>1. Writes' = Writes /\ borrow' = borrow
  BY Zenon DEF vars, Writes
<1>. QED  BY <1>1, WritesInOrderNow, WritesInOrderNext, Zenon

LEMMA PendingsInOrderStays ==
  ASSUME PendingsInOrder, UNCHANGED vars, Cancelled' = Cancelled, P!Members' = P!Members, P!Order' = P!Order,
         JobsIn(todo', "pendings", "insert") = Jobs("pendings", "insert"),
         JobsIn(todo', "pendings", "remove") = Jobs("pendings", "remove")
  PROVE  PendingsInOrder'
<1>1. Waits' = Waits /\ older' = older /\ pending' = pending
  BY Zenon DEF vars, Waits
<1>2. \A m, n : Before(m, n)' <=> Before(m, n)
  BY <1>1, Zenon DEF Before
<1>. QED  BY <1>1, <1>2, PendingsInOrderNow, PendingsInOrderNext, Zenon

LEMMA StoredStays ==
  ASSUME Stored, UNCHANGED <<vars, todo>>, Cancelled' = Cancelled, SameMembers
  PROVE  Stored'
<1>1. \A t, job : JobsIn(todo', t, job) = Jobs(t, job)
  BY Zenon DEF Jobs
<1>2. Queued'
  BY DEF Stored, Queued
<1>. QED
  BY <1>1, <1>2, ReadsInOrderStays, WritesInOrderStays, PendingsInOrderStays DEF Stored, SameMembers

\* What is asked for stays asked for.
LEMMA AskedStays ==
  ASSUME Asked, UNCHANGED <<vars, ask, upcoming>>
  PROVE  Asked'
<1>1. /\ claimed' = claimed /\ borrow' = borrow /\ pending' = pending /\ older' = older /\ op' = op
      /\ ask' = ask /\ upcoming' = upcoming
  BY DEF vars
<1>. QED
  BY <1>1, SMT DEF Asked, MayLock, InLoop, MustTruncate, IsMax, WaitersBefore, Waits, Before

LEMMA UpcomingStays ==
  ASSUME UNCHANGED <<vars, upcoming>>, IsMax(upcoming, WaitersBefore(op.cur))
  PROVE  IsMax(upcoming, WaitersBefore(op.cur))'
<1>1. borrow' = borrow /\ pending' = pending /\ older' = older /\ op' = op /\ upcoming' = upcoming
  BY DEF vars
<1>. QED  BY <1>1, SMT DEF IsMax, WaitersBefore, Waits, Before

LEMMA ConflictStays ==
  ASSUME UNCHANGED vars, NEW l, NEW r
  PROVE  /\ FirstConflict(l, r)' = FirstConflict(l, r)
         /\ first_write_borrow_in_range(r)' = first_write_borrow_in_range(r)
         /\ first_read_borrow_in_range(r)' = first_read_borrow_in_range(r)
<1>1. borrow' = borrow
  BY DEF vars
<1>2. first_write_borrow_in_range(r)' = first_write_borrow_in_range(r)
  BY <1>1, SMT DEF first_write_borrow_in_range, Writes
<1>3. first_read_borrow_in_range(r)' = first_read_borrow_in_range(r)
  BY <1>1, SMT DEF first_read_borrow_in_range, Endpoints, prefix_sum, Reads
<1>. QED  BY <1>2, <1>3, SMT DEF FirstConflict, first_conflict_for_write

LEMMA LowestStays ==
  ASSUME UNCHANGED <<vars, ask, lowest>>, lowest = first_write_borrow_in_range(ask.range)
  PROVE  (lowest = first_write_borrow_in_range(ask.range))'
<1>1. borrow' = borrow /\ ask' = ask /\ lowest' = lowest
  BY DEF vars
<1>. QED  BY <1>1, SMT DEF first_write_borrow_in_range, Writes

LEMMA AgreementStays ==
  ASSUME UNCHANGED <<vars, ask, lowest, stage>>, SearchesAgree
  PROVE  SearchesAgree'
<1>1. borrow' = borrow /\ ask' = ask /\ lowest' = lowest /\ stage' = stage
  BY DEF vars
<1>2. FirstConflict(ask.lock, ask.range)' = FirstConflict(ask.lock, ask.range)
  BY <1>1, SMT DEF FirstConflict, first_conflict_for_write, first_write_borrow_in_range, Writes,
     first_read_borrow_in_range, Endpoints, prefix_sum, Reads
<1>. QED  BY <1>1, <1>2, SMT DEF SearchesAgree

\* While a loop of a tree runs, and when the next job is taken up, the searches
\* are where they are.
LEMMA SearchingStays ==
  ASSUME Searching, UNCHANGED <<vars, stage, locals>>,
         stage \in {"write", "read", "sum", "decide"} => todo' = todo /\ pendingsPc' = pendingsPc,
         stage \in {"read", "sum", "decide"} => writesPc' = writesPc,
         stage \in {"write", "decide"} => readsPc' = readsPc,
         stage = "write" => /\ writesPc' \in Walking /\ writesSide' = writesSide /\ writesGoal' = writesGoal
                            /\ writes' = writes,
         stage = "read" => /\ readsPc' \in Walking /\ readsSide' = readsSide /\ readsGoal' = readsGoal
                           /\ reads' = reads,
         stage = "sum" => /\ readsPc' = "idle" \/ (readsPc' = "rank" /\ readsNode' = found)
                          /\ reads' = reads /\ readsOrder' = readsOrder
  PROVE  Searching'
<1>1. borrow' = borrow /\ stage' = stage /\ ask' = ask /\ lowest' = lowest /\ found' = found /\ upcoming' = upcoming
  BY DEF vars, locals
<1>2. stage \in {"write", "read", "sum", "decide"} => Asked'
  BY <1>1, AskedStays DEF Searching
<1>3. stage \in {"read", "sum"} => (lowest = first_write_borrow_in_range(ask.range))'
  BY <1>1, LowestStays DEF Searching
<1>4. stage' = "write" => writesGoal' = {m \in writes'.nodes : borrow'[m].end > ask'.range.start}
  BY <1>1, SMT DEF Searching
<1>5. stage' = "read" => readsGoal' = {m \in reads'.nodes : Index(m)' > ask'.range.start}
  BY <1>1, SMT DEF Searching, Index
<1>6. stage' = "sum" => IsFirst(found, {m \in reads.nodes : Index(m) > ask.range.start}, readsOrder)'
  BY <1>1, SMT DEF Searching, Index, IsFirst
<1>7. /\ stage' \in {"write", "read", "sum", "decide"} => Asked' /\ todo' = <<>> /\ pendingsPc' = "idle"
      /\ stage' \in {"read", "sum", "decide"} => writesPc' = "idle"
      /\ stage' \in {"write", "decide"} => readsPc' = "idle"
      /\ stage' = "write" => writesPc' \in Walking /\ writesSide' = 1
      /\ stage' = "read" => readsPc' \in Walking /\ readsSide' = 1
      /\ stage' \in {"read", "sum"} => ask'.lock \in Writers
      /\ stage' = "sum" => /\ readsPc' = "idle" \/ (readsPc' = "rank" /\ readsNode' = found')
                           /\ found' # None
  BY <1>1, <1>2 DEF Searching
<1>. QED  BY <1>3, <1>4, <1>5, <1>6, <1>7, <1>1, Zenon DEF Searching, Walking

\* So are the walks of the unlock methods.
LEMMA UnlockingStays ==
  ASSUME Unlocking, UNCHANGED <<vars, stage, locals>>,
         stage \in {"above", "last", "enter", "next"} =>
           /\ todo' = todo /\ readsPc' = readsPc /\ writesPc' = writesPc
           /\ pendings' = pendings /\ pendingsOrder' = pendingsOrder,
         stage \in {"above", "enter", "next"} =>
           pendingsPc' \in Walking /\ pendingsSide' = pendingsSide /\ pendingsGoal' = pendingsGoal,
         stage = "last" => pendingsPc' = pendingsPc
  PROVE  Unlocking'
<1>1. /\ claimed' = claimed /\ borrow' = borrow /\ pending' = pending /\ older' = older /\ op' = op
      /\ stage' = stage /\ ask' = ask /\ found' = found /\ upcoming' = upcoming
  BY DEF vars, locals
<1>2. stage' = "above" => pendingsGoal' = {m \in pendings'.nodes : pending'[m].start >= borrow'[ask'.lock].end}
  BY <1>1, SMT DEF Unlocking
<1>3. stage' = "last" =>
        IsFirst(found, {m \in pendings.nodes : pending[m].start >= borrow[ask.lock].end}, pendingsOrder)'
  BY <1>1, SMT DEF Unlocking, IsFirst
<1>4. stage' = "enter" => pendingsGoal' = {m \in pendings'.nodes : pending'[m].start < borrow'[ask'.lock].end}
  BY <1>1, SMT DEF Unlocking
<1>5. stage' = "next" => pendingsGoal' = {m \in pendings'.nodes : Before(m, op.cur)'}
  BY <1>1, SMT DEF Unlocking, Before
<1>6. stage' = "turn" => IsMax(upcoming, WaitersBefore(op.cur))'
  BY <1>1, UpcomingStays DEF Unlocking
<1>7. /\ stage' \in {"cancel", "above", "last", "enter"} => op' = None /\ ask'.lock \in Locks /\ claimed'[ask'.lock]
      /\ stage' \in {"above", "last", "enter"} => borrow'[ask'.lock] # None
      /\ stage' \in {"next", "turn"} => InLoop'
      /\ stage' \in {"above", "last", "enter", "next"} => todo' = <<>> /\ readsPc' = "idle" /\ writesPc' = "idle"
      /\ stage' \in {"above", "enter", "next"} => pendingsPc' \in Walking
      /\ stage' = "above" => pendingsSide' = 1
      /\ stage' = "last" => pendingsPc' = "idle"
      /\ stage' \in {"enter", "next"} => pendingsSide' = 0
  BY <1>1 DEF Unlocking, InLoop
<1>. QED  BY <1>2, <1>3, <1>4, <1>5, <1>6, <1>7, Zenon DEF Unlocking, Walking

LEMMA TreesSplit == TreesIInv <=> Stored /\ Searching /\ Unlocking /\ SearchesAgree
  BY Zenon DEF TreesIInv, Stored

LEMMA TreesSplitNext == TreesIInv' <=> Stored' /\ Searching' /\ Unlocking' /\ SearchesAgree'
  BY Zenon DEF TreesIInv, Stored

\* A turn of a loop of a tree.
LEMMA LoopsKeep ==
  ASSUME TreesIInv, Trees, TreeLoops
  PROVE  TreesIInv' /\ Trees' /\ UNCHANGED vars
<1>1. UNCHANGED <<vars, stage, locals, todo>> /\ Cancelled' = Cancelled
  BY DEF TreeLoops, Cancelled, locals
<1>2. Stored /\ Searching /\ Unlocking /\ SearchesAgree
  BY TreesSplit
<1>3. SearchesAgree'
  BY <1>1, <1>2, AgreementStays DEF locals
<1>4. ASSUME Trees', SameMembers, Searching', Unlocking'
      PROVE  TreesIInv' /\ Trees' /\ UNCHANGED vars
  <2>1. Stored'
    BY <1>1, <1>2, <1>4, StoredStays
  <2>. QED  BY <1>1, <1>3, <1>4, <2>1, TreesSplitNext
<1>5. CASE R!LoopStep /\ UNCHANGED <<writesVars, pendingsVars>>
  <2>1. /\ RP!TreeInvariant' /\ R!Members' = R!Members /\ R!Order' = R!Order /\ readsPc # "idle"
        /\ readsPc \in Walking =>
             /\ readsPc' \in Walking
             /\ reads' = reads /\ readsOrder' = readsOrder /\ readsSide' = readsSide /\ readsGoal' = readsGoal
        /\ readsPc = "rank" =>
             readsPc' = "rank" /\ reads' = reads /\ readsOrder' = readsOrder /\ readsNode' = readsNode
    BY <1>5, ReadsTurn DEF Trees
  <2>2. Trees' /\ SameMembers
    BY <1>5, <2>1, WritesStay, PendingsStay DEF Trees, SameMembers
  <2>3. /\ stage \notin {"write", "decide", "above", "last", "enter", "next"}
        /\ stage = "read" => readsPc \in Walking
        /\ stage = "sum" => readsPc = "rank" /\ readsNode = found
    BY <1>2, <2>1, Zenon DEF Searching, Unlocking
  <2>4. writesPc' = writesPc /\ pendingsPc' = pendingsPc /\ pendings' = pendings /\ pendingsOrder' = pendingsOrder
    BY <1>5 DEF writesVars, pendingsVars
  <2>5. Searching'
    BY <1>1, <1>2, <2>1, <2>3, <2>4, SearchingStays
  <2>6. Unlocking'
    BY <1>1, <1>2, <2>3, UnlockingStays
  <2>. QED  BY <1>4, <2>2, <2>5, <2>6
<1>6. CASE W!LoopStep /\ UNCHANGED <<readsVars, pendingsVars>>
  <2>1. /\ WP!TreeInvariant' /\ W!Members' = W!Members /\ W!Order' = W!Order /\ writesPc # "idle"
        /\ writesPc \in Walking =>
             /\ writesPc' \in Walking
             /\ writes' = writes /\ writesOrder' = writesOrder /\ writesSide' = writesSide /\ writesGoal' = writesGoal
    BY <1>6, WritesTurn DEF Trees
  <2>2. Trees' /\ SameMembers
    BY <1>6, <2>1, ReadsStay, PendingsStay DEF Trees, SameMembers
  <2>3. /\ stage \notin {"read", "sum", "decide", "above", "last", "enter", "next"}
        /\ stage = "write" => writesPc \in Walking
    BY <1>2, <2>1, Zenon DEF Searching, Unlocking
  <2>4. readsPc' = readsPc /\ pendingsPc' = pendingsPc /\ pendings' = pendings /\ pendingsOrder' = pendingsOrder
    BY <1>6 DEF readsVars, pendingsVars
  <2>5. Searching'
    BY <1>1, <1>2, <2>1, <2>3, <2>4, SearchingStays
  <2>6. Unlocking'
    BY <1>1, <1>2, <2>3, UnlockingStays
  <2>. QED  BY <1>4, <2>2, <2>5, <2>6
<1>7. CASE P!LoopStep /\ UNCHANGED <<readsVars, writesVars>>
  <2>1. /\ PP!TreeInvariant' /\ P!Members' = P!Members /\ P!Order' = P!Order /\ pendingsPc # "idle"
        /\ pendingsPc \in Walking =>
             /\ pendingsPc' \in Walking
             /\ pendings' = pendings /\ pendingsOrder' = pendingsOrder /\ pendingsSide' = pendingsSide
             /\ pendingsGoal' = pendingsGoal
    BY <1>7, PendingsTurn DEF Trees
  <2>2. Trees' /\ SameMembers
    BY <1>7, <2>1, ReadsStay, WritesStay DEF Trees, SameMembers
  <2>3. /\ stage \notin {"write", "read", "sum", "decide", "last"}
        /\ stage \in {"above", "enter", "next"} => pendingsPc \in Walking
    BY <1>2, <2>1, Zenon DEF Searching, Unlocking
  <2>4. readsPc' = readsPc /\ writesPc' = writesPc
    BY <1>7 DEF readsVars, writesVars
  <2>5. Searching'
    BY <1>1, <1>2, <2>3, SearchingStays
  <2>6. Unlocking'
    BY <1>1, <1>2, <2>1, <2>3, <2>4, UnlockingStays
  <2>. QED  BY <1>4, <2>2, <2>5, <2>6
<1>. QED  BY <1>5, <1>6, <1>7 DEF TreeLoops

=============================================================================
