----------------------------- MODULE TreeProofs -----------------------------
(***************************************************************************)
(* What the turns of the loops that restore the red-black invariants do to *)
(* a tree: rotations, recolouring, the repair after an insertion           *)
(* (FixInsertTurn) and the repair after a removal (FixRemoveTurn).         *)
(*                                                                         *)
(* The subtrees `below` and the black heights `height` are witnesses, not  *)
(* definitions by recursion over the tree: a lemma takes those of the tree *)
(* before the turn and says which are those of the tree after it.  A       *)
(* rotation changes the subtrees of two nodes (Rotated), so that agreement *)
(* of the links (RotateSound), order (RotateOrder), summaries (RotateSums) *)
(* and the colour and height conditions (RotateRed, RotateBlack) are each  *)
(* shown once, and every case of both repairs is an instance.              *)
(***************************************************************************)
EXTENDS OrderedTree, TLAPS

\* A linked node other than the root is its parent's child on the side Side,
\* and not on the other.
LEMMA SideIs ==
  ASSUME NEW t \in Trees, LinksAgree(t), NEW n \in t.nodes, n # t.root
  PROVE  /\ t.parent[n] \in t.nodes /\ t.parent[n] # Nil
         /\ Side(t, n) \in 0..1
         /\ t.child[t.parent[n]][Side(t, n)] = n
         /\ t.child[t.parent[n]][1 - Side(t, n)] # n
BY TreeAssumption DEF LinksAgree, Side, Trees

\* Replace changes the one cell that refers to n, and its assertion about
\* that cell holds.
LEMMA ReplaceEffect ==
  ASSUME NEW t \in Trees, LinksAgree(t), NEW n \in t.nodes, NEW m \in Nodes \cup {Nil}
  PROVE  /\ Replace(t, n, m) \in Trees
         /\ Replace(t, n, m).ok = t.ok
         /\ Replace(t, n, m).nodes = t.nodes
         /\ Replace(t, n, m).parent = t.parent
         /\ Replace(t, n, m).color = t.color
         /\ Replace(t, n, m).sum = t.sum
         /\ Replace(t, n, m).root = IF n = t.root THEN m ELSE t.root
         /\ \A k \in Nodes : Replace(t, n, m).child[k] =
              IF n # t.root /\ k = t.parent[n]
                THEN [t.child[k] EXCEPT ![Side(t, n)] = m] ELSE t.child[k]
<1>. DEFINE r == Replace(t, n, m)
<1>1. CASE n = t.root
  <2>1. r = [t EXCEPT !.ok = t.ok, !.root = m]
    BY <1>1, TreeAssumption DEF LinksAgree, Replace, Check, Trees
  <2>. QED  BY <1>1, <2>1 DEF Trees
<1>2. CASE n # t.root
  <2>. DEFINE p == t.parent[n]
              s == Side(t, n)
  <2>0. p \in t.nodes /\ p # Nil /\ s \in 0..1 /\ t.child[p][s] = n
    BY <1>2, SideIs
  <2>1. r = [t EXCEPT !.ok = t.ok, !.child = [t.child EXCEPT ![p] = [t.child[p] EXCEPT ![s] = m]]]
    BY <1>2, <2>0 DEF Replace, Check, Trees
  <2>2. [t.child[p] EXCEPT ![s] = m] \in [0..1 -> Nodes \cup {Nil}]
    BY <2>0 DEF Trees
  <2>. HIDE DEF r, s
  <2>3. r \in Trees /\ r.child = [t.child EXCEPT ![p] = [t.child[p] EXCEPT ![s] = m]]
    BY <2>0, <2>1, <2>2 DEF Trees
  <2>4. /\ r.ok = t.ok /\ r.nodes = t.nodes /\ r.parent = t.parent /\ r.color = t.color
        /\ r.sum = t.sum /\ r.root = t.root
    BY <2>1 DEF Trees
  <2>. USE DEF s
  <2>. QED  BY <1>2, <2>0, <2>3, <2>4 DEF Trees, r
<1>. QED  BY <1>1, <1>2

-----------------------------------------------------------------------------

\* The links of t agree, and below are the subtrees they make.
Sound(t, below) ==
  /\ t \in Trees /\ below \in [Nodes -> SUBSET Nodes]
  /\ LinksAgree(t) /\ Subtrees(t, below)

\* A child, its parent and what is below each of the two.
LEMMA Children ==
  ASSUME NEW t, NEW below, Sound(t, below), NEW n \in t.nodes, NEW dir \in 0..1,
         NEW c, c = t.child[n][dir], c # Nil
  PROVE  /\ n \in Nodes /\ c \in t.nodes /\ c \in Nodes /\ t.parent[c] = n /\ c # n
         /\ n # Nil /\ c # t.child[n][1 - dir] /\ c # t.root
         /\ n \notin below[c] /\ c \in below[c] /\ n \in below[n]
         /\ below[c] \subseteq below[n] /\ below[n] \subseteq t.nodes
         /\ below[c] \cap Below(below, t.child[n][1 - dir]) = {}
         /\ below[n] = {n} \cup below[c] \cup Below(below, t.child[n][1 - dir])
<1>1. /\ n \in Nodes /\ c \in t.nodes /\ c \in Nodes /\ t.parent[c] = n /\ n # Nil
      /\ c # t.child[n][1 - dir] /\ c # t.root
  BY TreeAssumption DEF Sound, LinksAgree, Trees
<1>2. dir = 0 \/ dir = 1
  OBVIOUS
<1>3. /\ c \in below[c] /\ n \notin below[c] /\ n \in below[n] /\ below[n] \subseteq t.nodes
      /\ below[c] \cap Below(below, t.child[n][1 - dir]) = {}
      /\ below[n] = {n} \cup below[c] \cup Below(below, t.child[n][1 - dir])
  BY <1>1, <1>2 DEF Sound, Subtrees, Below
<1>. QED  BY <1>1, <1>3

\* What is below each node after rotate(t, n, dir).
Rotated(t, below, n, dir) ==
  LET up == t.child[n][1 - dir]
  IN  [below EXCEPT ![n] = (below[n] \ below[up]) \cup Below(below, t.child[up][dir]),
                    ![up] = below[n]]

\* r is t after the rotation at n in the direction dir and b its subtrees; up
\* is the child that takes the place of n, and the others are those whose
\* subtrees stay as they are.
Rotation(t, below, n, dir, up, mid, x, y, r, b) ==
  /\ Sound(t, below) /\ n \in t.nodes /\ dir \in 0..1
  /\ up = t.child[n][1 - dir] /\ up # Nil
  /\ mid = t.child[up][dir] /\ x = t.child[up][1 - dir] /\ y = t.child[n][dir]
  /\ r = rotate(t, n, dir) /\ b = Rotated(t, below, n, dir)

\* What rotate does to each field; its assertion and its expect() hold.
LEMMA RotateEffect ==
  ASSUME NEW t, NEW below, NEW n, NEW dir, NEW up, NEW mid, NEW x, NEW y, NEW r, NEW b,
         Rotation(t, below, n, dir, up, mid, x, y, r, b)
  PROVE  /\ r \in Trees /\ r.ok = t.ok /\ r.nodes = t.nodes /\ r.color = t.color
         /\ r.root = IF n = t.root THEN up ELSE t.root
         /\ r.child[n][dir] = y /\ r.child[n][1 - dir] = mid
         /\ r.child[up][dir] = n /\ r.child[up][1 - dir] = x
         /\ \A m \in t.nodes \ {n, up}, d \in 0..1 :
              r.child[m][d] = IF t.child[m][d] = n THEN up ELSE t.child[m][d]
         /\ \A m \in t.nodes :
              r.parent[m] = IF m = up THEN t.parent[n] ELSE IF m = n THEN up
                            ELSE IF m = mid THEN n ELSE t.parent[m]
         /\ \A m \in t.nodes :
              r.sum[m] = IF m = up THEN t.sum[n]
                         ELSE IF m = n THEN t.sum[n] - t.sum[up] + Sum(t, mid)
                         ELSE t.sum[m]
<1>. DEFINE q == Replace(t, n, up)
            ch == [m \in Nodes |-> IF m = n THEN [q.child[m] EXCEPT ![1 - dir] = mid]
                                   ELSE IF m = up THEN [q.child[m] EXCEPT ![dir] = n]
                                   ELSE q.child[m]]
            pa == [m \in Nodes |-> IF m = up THEN t.parent[n] ELSE IF m = n THEN up
                                   ELSE IF m = mid THEN n ELSE t.parent[m]]
            su == [t.sum EXCEPT ![up] = t.sum[n], ![n] = t.sum[n] - t.sum[up] + Sum(t, mid)]
<1>0. /\ Sound(t, below) /\ n \in t.nodes /\ dir \in 0..1 /\ up = t.child[n][1 - dir] /\ up # Nil
      /\ mid = t.child[up][dir] /\ x = t.child[up][1 - dir] /\ y = t.child[n][dir]
      /\ r = rotate(t, n, dir)
  BY DEF Rotation
<1>1. /\ n \in Nodes /\ up \in t.nodes /\ up \in Nodes /\ n # up /\ up # t.root /\ 1 - dir \in 0..1
      /\ t.parent[up] = n /\ n # Nil /\ 1 - (1 - dir) = dir
  BY <1>0, Children
<1>2. mid \in Nodes \cup {Nil} /\ mid # n /\ mid # up
  <2>1. mid \in Nodes \cup {Nil}
    BY <1>0, <1>1 DEF Sound, Trees
  <2>2. CASE mid # Nil
    BY <1>0, <1>1, <2>2, Children, SMTT(20)
  <2>. QED  BY <1>0, <1>1, <2>1, <2>2, TreeAssumption
<1>3. /\ q \in Trees /\ q.ok = t.ok /\ q.nodes = t.nodes /\ q.parent = t.parent
      /\ q.color = t.color /\ q.sum = t.sum /\ q.root = IF n = t.root THEN up ELSE t.root
      /\ \A k \in Nodes : q.child[k] = IF n # t.root /\ k = t.parent[n]
                                         THEN [t.child[k] EXCEPT ![Side(t, n)] = up] ELSE t.child[k]
  BY <1>0, <1>1, ReplaceEffect, SMTT(20) DEF Sound
<1>. HIDE DEF q
<1>4. r = [q EXCEPT !.child = ch, !.parent = pa, !.sum = su]
  <2>1. r = [q EXCEPT !.child = [m \in DOMAIN q.child |->
                                   IF m = n THEN [q.child[m] EXCEPT ![1 - dir] = mid]
                                   ELSE IF m = up THEN [q.child[m] EXCEPT ![dir] = n]
                                   ELSE q.child[m]],
                      !.parent = [m \in DOMAIN q.parent |->
                                    IF m = up THEN t.parent[n] ELSE IF m = n THEN up
                                    ELSE IF m = mid THEN n ELSE q.parent[m]],
                      !.sum = [q.sum EXCEPT ![up] = t.sum[n],
                                            ![n] = t.sum[n] - t.sum[up] + Sum(t, mid)]]
    BY <1>0, Zenon DEF rotate, q
  <2>2. DOMAIN q.parent = Nodes /\ DOMAIN q.child = Nodes
    BY <1>0, <1>3 DEF Trees
  <2>. QED  BY <2>1, <2>2, <1>3, Zenon
<1>5. ch \in [Nodes -> [0..1 -> Nodes \cup {Nil}]]
  BY <1>0, <1>1, <1>2, <1>3 DEF Trees
<1>6. pa \in [Nodes -> Nodes \cup {Nil}] /\ su \in [Nodes -> Int]
  BY <1>0, <1>1, <1>2, SMTT(20) DEF Trees, Sum, Sound
<1>. HIDE DEF ch, pa, su
<1>7. /\ r \in Trees /\ r.ok = t.ok /\ r.nodes = t.nodes /\ r.color = t.color
      /\ r.root = IF n = t.root THEN up ELSE t.root
      /\ r.child = ch /\ r.parent = pa /\ r.sum = su
  BY <1>0, <1>3, <1>4, <1>5, <1>6 DEF Trees
<1>8. t.parent[n] # n /\ t.parent[n] # up
  <2>1. CASE n = t.root
    BY <1>0, <1>1, <2>1, TreeAssumption DEF Sound, LinksAgree
  <2>2. CASE n # t.root
    <3>1. PICK d \in 0..1 : t.parent[n] \in t.nodes /\ t.child[t.parent[n]][d] = n
      BY <1>0, <2>2 DEF Sound, LinksAgree
    <3>2. t.parent[n] \notin below[n] /\ t.parent[n] # n
      BY <1>0, <1>1, <3>1, Children
    <3>3. up \in below[n]
      BY <1>0, <1>1, Children
    <3>. QED  BY <1>0, <3>2, <3>3
  <2>. QED  BY <1>0, <2>1, <2>2
<1>9. /\ ch[n] = [q.child[n] EXCEPT ![1 - dir] = mid] /\ ch[up] = [q.child[up] EXCEPT ![dir] = n]
      /\ \A m \in t.nodes \ {n, up} : ch[m] = q.child[m]
  BY <1>0, <1>1, <1>3 DEF ch, Trees
<1>10. q.child[n] = t.child[n] /\ q.child[up] = t.child[up]
  BY <1>0, <1>1, <1>3, <1>8
<1>11. \A m \in t.nodes, d \in 0..1 : t.child[m][d] = n =>
          n # t.root /\ m = t.parent[n] /\ d = Side(t, n)
  BY <1>0, <1>1, SideIs, Children, SMTT(20) DEF Sound
<1>12. \A m \in t.nodes \ {n, up}, d \in 0..1 :
              ch[m][d] = IF t.child[m][d] = n THEN up ELSE t.child[m][d]
  <2>. SUFFICES ASSUME NEW m \in t.nodes \ {n, up}, NEW d \in 0..1
                PROVE  ch[m][d] = IF t.child[m][d] = n THEN up ELSE t.child[m][d]
    OBVIOUS
  <2>1. CASE n # t.root /\ m = t.parent[n]
    <3>. DEFINE s == Side(t, n)
    <3>1. s \in 0..1 /\ t.child[m][s] = n /\ t.child[m][1 - s] # n
      BY <1>0, <2>1, SideIs DEF Sound
    <3>2. ch[m] = [t.child[m] EXCEPT ![s] = up] /\ m \in Nodes
      BY <1>0, <1>3, <1>9, <2>1 DEF Sound, Trees
    <3>3. t.child[m] \in [0..1 -> Nodes \cup {Nil}]
      BY <1>0, <3>2 DEF Sound, Trees
    <3>. HIDE DEF s
    <3>4. d = s \/ d = 1 - s
      BY <1>0, <3>1
    <3>. QED  BY <1>0, <3>1, <3>2, <3>3, <3>4
  <2>2. CASE ~(n # t.root /\ m = t.parent[n])
    BY <1>0, <1>3, <1>9, <1>11, <2>2 DEF Sound, Trees
  <2>. QED  BY <1>0, <2>1, <2>2
<1>13. /\ ch[n][dir] = t.child[n][dir] /\ ch[n][1 - dir] = mid
       /\ ch[up][dir] = n /\ ch[up][1 - dir] = t.child[up][1 - dir]
  BY <1>0, <1>1, <1>9, <1>10 DEF Sound, Trees
<1>14. \A m \in t.nodes : /\ pa[m] = IF m = up THEN t.parent[n] ELSE IF m = n THEN up
                                     ELSE IF m = mid THEN n ELSE t.parent[m]
                          /\ su[m] = IF m = up THEN t.sum[n]
                                     ELSE IF m = n THEN t.sum[n] - t.sum[up] + Sum(t, mid)
                                     ELSE t.sum[m]
  BY <1>0, <1>1 DEF pa, su, Sound, Trees
<1>. QED  BY <1>0, <1>7, <1>12, <1>13, <1>14

\* What is below a node is the node itself and, apart, what is below its
\* children.
LEMMA NodeBelow ==
  ASSUME NEW t, NEW below, Sound(t, below), NEW n \in t.nodes, NEW d \in 0..1
  PROVE  /\ n \in Nodes /\ n # Nil /\ below[n] \subseteq t.nodes
         /\ below[n] = {n} \cup Below(below, t.child[n][d]) \cup Below(below, t.child[n][1 - d])
         /\ n \notin Below(below, t.child[n][d]) /\ n \notin Below(below, t.child[n][1 - d])
         /\ Below(below, t.child[n][d]) \cap Below(below, t.child[n][1 - d]) = {}
         /\ 1 - d \in 0..1 /\ 1 - (1 - d) = d
<1>1. n \in Nodes /\ n # Nil
  BY TreeAssumption DEF Sound, Trees
<1>2. CASE d = 0
  <2>1. 1 - d = 1
    BY <1>2
  <2>. QED  BY <1>1, <1>2, <2>1 DEF Sound, Subtrees
<1>3. CASE d = 1
  <2>1. 1 - d = 0
    BY <1>3
  <2>. QED  BY <1>1, <1>3, <2>1 DEF Sound, Subtrees
<1>. QED  BY <1>2, <1>3

\* Subtrees are nested, and closed under parents up to their own root.
LEMMA Nested ==
  ASSUME NEW t, NEW below, Sound(t, below), NEW m \in t.nodes, NEW k \in below[m]
  PROVE  /\ k \in t.nodes /\ below[k] \subseteq below[m] /\ m \in below[m] /\ k \in below[k]
         /\ k # m => t.parent[k] \in below[m] /\ t.parent[k] \in t.nodes
BY DEF Sound, Subtrees

\* The subtrees before and after a rotation, as unions of disjoint parts.
LEMMA RotateBelow ==
  ASSUME NEW t, NEW below, NEW n, NEW dir, NEW up, NEW mid, NEW x, NEW y, NEW r, NEW b,
         Rotation(t, below, n, dir, up, mid, x, y, r, b)
  PROVE  /\ b \in [Nodes -> SUBSET Nodes]
         /\ b[up] = below[n]
         /\ b[n] = {n} \cup Below(below, mid) \cup Below(below, y)
         /\ \A m \in Nodes : m # n /\ m # up => b[m] = below[m]
         /\ below[n] = {n} \cup {up} \cup Below(below, mid) \cup Below(below, x) \cup Below(below, y)
         /\ below[up] = {up} \cup Below(below, mid) \cup Below(below, x)
         /\ n # up /\ n \notin Below(below, mid) /\ n \notin Below(below, x) /\ n \notin Below(below, y)
         /\ up \notin Below(below, mid) /\ up \notin Below(below, x) /\ up \notin Below(below, y)
         /\ Below(below, mid) \cap Below(below, x) = {} /\ Below(below, mid) \cap Below(below, y) = {}
         /\ Below(below, x) \cap Below(below, y) = {}
<1>0. /\ Sound(t, below) /\ n \in t.nodes /\ dir \in 0..1 /\ up = t.child[n][1 - dir] /\ up # Nil
      /\ mid = t.child[up][dir] /\ x = t.child[up][1 - dir] /\ y = t.child[n][dir]
      /\ b = Rotated(t, below, n, dir)
  BY DEF Rotation
<1>1. up \in t.nodes /\ up \in Nodes /\ up # n /\ up \in below[up] /\ 1 - dir \in 0..1
  BY <1>0, Children
<1>2. /\ n \in Nodes /\ Below(below, up) = below[up]
      /\ below[n] = {n} \cup Below(below, y) \cup Below(below, up)
      /\ n \notin Below(below, y) /\ n \notin Below(below, up)
      /\ Below(below, y) \cap Below(below, up) = {}
  BY <1>0, NodeBelow, SMTT(20) DEF Below
<1>3. /\ below[up] = {up} \cup Below(below, mid) \cup Below(below, x)
      /\ up \notin Below(below, mid) /\ up \notin Below(below, x)
      /\ Below(below, mid) \cap Below(below, x) = {}
  BY <1>0, <1>1, NodeBelow, SMTT(20)
<1>4. Below(below, mid) \subseteq Nodes
  BY <1>0, <1>1, <1>3 DEF Sound
<1>5. /\ b \in [Nodes -> SUBSET Nodes] /\ b[up] = below[n]
      /\ b[n] = (below[n] \ below[up]) \cup Below(below, mid)
      /\ \A m \in Nodes : m # n /\ m # up => b[m] = below[m]
  BY <1>0, <1>1, <1>2, <1>4 DEF Rotated, Sound
<1>6. b[n] = {n} \cup Below(below, mid) \cup Below(below, y)
  BY <1>1, <1>2, <1>3, <1>5
<1>7. below[n] = {n} \cup {up} \cup Below(below, mid) \cup Below(below, x) \cup Below(below, y)
  BY <1>2, <1>3
<1>8. /\ n \notin Below(below, mid) /\ n \notin Below(below, x) /\ up \notin Below(below, y)
      /\ Below(below, mid) \cap Below(below, y) = {} /\ Below(below, x) \cap Below(below, y) = {}
  BY <1>1, <1>2, <1>3
<1>. QED  BY <1>1, <1>2, <1>3, <1>5, <1>6, <1>7, <1>8, Zenon

\* After a rotation the links agree, with the subtrees Rotated.
LEMMA RotateSound ==
  ASSUME NEW t, NEW below, NEW n, NEW dir, NEW up, NEW mid, NEW x, NEW y, NEW r, NEW b,
         Rotation(t, below, n, dir, up, mid, x, y, r, b)
  PROVE  Sound(r, b)
<1>0. /\ Sound(t, below) /\ n \in t.nodes /\ dir \in 0..1 /\ up = t.child[n][1 - dir] /\ up # Nil
      /\ mid = t.child[up][dir] /\ x = t.child[up][1 - dir] /\ y = t.child[n][dir]
      /\ r = rotate(t, n, dir)
  BY DEF Rotation
<1>a. Sound(t, below) /\ n \in t.nodes /\ dir \in 0..1
  BY <1>0
<1>1. /\ r \in Trees /\ r.nodes = t.nodes
      /\ r.root = IF n = t.root THEN up ELSE t.root
      /\ r.child[n][dir] = y /\ r.child[n][1 - dir] = mid
      /\ r.child[up][dir] = n /\ r.child[up][1 - dir] = x
      /\ \A m \in t.nodes \ {n, up}, d \in 0..1 :
           r.child[m][d] = IF t.child[m][d] = n THEN up ELSE t.child[m][d]
      /\ \A m \in t.nodes :
           r.parent[m] = IF m = up THEN t.parent[n] ELSE IF m = n THEN up
                         ELSE IF m = mid THEN n ELSE t.parent[m]
  BY RotateEffect
<1>2. /\ b \in [Nodes -> SUBSET Nodes]
      /\ b[up] = below[n]
      /\ b[n] = {n} \cup Below(below, mid) \cup Below(below, y)
      /\ \A m \in Nodes : m # n /\ m # up => b[m] = below[m]
      /\ below[n] = {n} \cup {up} \cup Below(below, mid) \cup Below(below, x) \cup Below(below, y)
      /\ n # up /\ n \notin Below(below, mid) /\ n \notin Below(below, x) /\ n \notin Below(below, y)
      /\ up \notin Below(below, mid) /\ up \notin Below(below, x) /\ up \notin Below(below, y)
      /\ Below(below, mid) \cap Below(below, x) = {} /\ Below(below, mid) \cap Below(below, y) = {}
      /\ Below(below, x) \cap Below(below, y) = {}
  BY RotateBelow
<1>3. /\ t \in Trees /\ LinksAgree(t) /\ up \in t.nodes /\ up \in Nodes /\ n \in Nodes /\ up # t.root
      /\ t.parent[up] = n /\ 1 - dir \in 0..1 /\ 1 - (1 - dir) = dir /\ n # Nil /\ up # Nil
      /\ mid \in Nodes \cup {Nil} /\ x \in Nodes \cup {Nil} /\ y \in Nodes \cup {Nil}
  BY <1>0, Children DEF Sound, Trees
<1>4. \A d \in 0..1 : d = dir \/ d = 1 - dir
  BY <1>0
<1>5. /\ mid # n /\ x # n /\ y # n /\ mid # up /\ x # up /\ y # up
      /\ mid # Nil => mid \in t.nodes /\ t.parent[mid] = up /\ mid # x /\ mid # y
      /\ x # Nil => x \in t.nodes /\ t.parent[x] = up /\ x # y
      /\ y # Nil => y \in t.nodes /\ t.parent[y] = n
  <2>1. mid # Nil => mid \in t.nodes /\ t.parent[mid] = up /\ mid # x
    BY <1>0, <1>3 DEF LinksAgree
  <2>2. x # Nil => x \in t.nodes /\ t.parent[x] = up
    BY <1>0, <1>3 DEF LinksAgree
  <2>3. y # Nil => y \in t.nodes /\ t.parent[y] = n
    BY <1>0, <1>3 DEF LinksAgree
  <2>4. \A c \in t.nodes : c \in below[c]
    BY <1>0, NodeBelow
  <2>. QED  BY <1>2, <1>3, <2>1, <2>2, <2>3, <2>4 DEF Below
<1>6. LinksAgree(r)
  <2>1. r.root = Nil <=> r.nodes = {}
    BY <1>1, <1>3 DEF LinksAgree
  <2>2. r.root # Nil => r.root \in r.nodes /\ r.parent[r.root] = Nil
    BY <1>1, <1>3, <1>5 DEF LinksAgree
  <2>3. ASSUME NEW m \in r.nodes, m # r.root
        PROVE  r.parent[m] \in r.nodes /\ \E d \in 0..1 : r.child[r.parent[m]][d] = m
    <3>1. CASE m = up
      <4>1. n # t.root /\ t.parent[n] \in t.nodes
        BY <1>1, <1>3, <2>3, <3>1 DEF LinksAgree
      <4>2. PICK d \in 0..1 : t.child[t.parent[n]][d] = n
        BY <1>3, <4>1 DEF LinksAgree
      <4>3. t.parent[n] # n /\ t.parent[n] # up
        <5>1. Sound(t, below) /\ up \in below[n] /\ n \in below[n]
          BY <1>0, <1>2
        <5>2. t.parent[n] \notin below[n]
          BY <1>3, <4>1, <4>2, <5>1, Children
        <5>. QED  BY <5>1, <5>2
      <4>. QED  BY <1>1, <3>1, <4>1, <4>2, <4>3
    <3>2. CASE m = n
      BY <1>1, <1>3, <3>2
    <3>3. CASE m = mid
      BY <1>0, <1>1, <1>3, <1>5, <3>3
    <3>4. CASE m \notin {n, up, mid}
      <4>1. m \in t.nodes /\ m # t.root /\ r.parent[m] = t.parent[m]
        BY <1>1, <2>3, <3>4
      <4>2. PICK d \in 0..1 : t.parent[m] \in t.nodes /\ t.child[t.parent[m]][d] = m
        BY <1>3, <4>1 DEF LinksAgree
      <4>3. CASE t.parent[m] \notin {n, up}
        BY <1>1, <3>4, <4>1, <4>2, <4>3
      <4>4. CASE t.parent[m] = n
        <5>1. m = y
          BY <1>0, <1>4, <3>4, <4>2, <4>4
        <5>. QED  BY <1>0, <1>1, <4>1, <4>4, <5>1, SMTT(20)
      <4>5. CASE t.parent[m] = up
        <5>1. m = x
          BY <1>0, <1>4, <3>4, <4>2, <4>5
        <5>. QED  BY <1>1, <1>3, <4>1, <4>5, <5>1
      <4>. QED  BY <4>3, <4>4, <4>5
    <3>. QED  BY <3>1, <3>2, <3>3, <3>4
  <2>4. ASSUME NEW m \in r.nodes, NEW d \in 0..1, r.child[m][d] # Nil
        PROVE  /\ r.child[m][d] \in r.nodes /\ r.parent[r.child[m][d]] = m
               /\ r.child[m][d] # r.child[m][1 - d]
    <3>1. CASE m = n
      BY <1>1, <1>3, <1>4, <1>5, <2>4, <3>1
    <3>2. CASE m = up
      BY <1>a, <1>1, <1>3, <1>4, <1>5, <2>4, <3>2
    <3>3. CASE m \notin {n, up}
      <4>. DEFINE c == t.child[m][d]
      <4>1. 1 - d \in 0..1 /\ m \in t.nodes /\ c # Nil
        BY <1>1, <1>3, <2>4, <3>3
      <4>2. c \in t.nodes /\ t.parent[c] = m /\ c # t.child[m][1 - d] /\ c # up /\ t.child[m][1 - d] # up
        BY <1>3, <3>3, <4>1 DEF LinksAgree
      <4>3. c # mid
        BY <1>5, <3>3, <4>1, <4>2
      <4>. HIDE DEF c
      <4>4. r.child[m][d] = IF c = n THEN up ELSE c
        BY <1>1, <3>3, <4>1 DEF c
      <4>5. r.child[m][1 - d] = IF t.child[m][1 - d] = n THEN up ELSE t.child[m][1 - d]
        BY <1>1, <3>3, <4>1
      <4>6. CASE c = n
        BY <1>1, <1>3, <4>2, <4>4, <4>5, <4>6
      <4>7. CASE c # n
        BY <1>1, <1>3, <4>2, <4>3, <4>4, <4>5, <4>7
      <4>. QED  BY <4>6, <4>7
    <3>. QED  BY <3>1, <3>2, <3>3
  <2>. QED  BY <2>1, <2>2, <2>3, <2>4 DEF LinksAgree
<1>7. \A c \in Nodes \cup {Nil} : c # n /\ c # up => Below(b, c) = Below(below, c)
  BY <1>2 DEF Below
<1>8. r.root # Nil => b[r.root] = r.nodes
  <2>1. CASE n = t.root
    BY <1>a, <1>1, <1>2, <1>3, <2>1 DEF Sound, Subtrees
  <2>2. CASE n # t.root /\ t.root # Nil
    <3>1. t.root \in Nodes /\ t.root # up /\ below[t.root] = t.nodes
      BY <1>0, <1>3, <2>2 DEF Sound, Subtrees, Trees
    <3>. QED  BY <1>1, <1>2, <2>2, <3>1
  <2>. QED  BY <1>1, <1>3, <2>1, <2>2
<1>9. ASSUME NEW m \in t.nodes
      PROVE  \A d \in 0..1 :
               /\ b[m] = {m} \cup Below(b, r.child[m][d]) \cup Below(b, r.child[m][1 - d])
               /\ m \notin Below(b, r.child[m][d])
               /\ Below(b, r.child[m][d]) \cap Below(b, r.child[m][1 - d]) = {}
               /\ b[m] \subseteq t.nodes
  <2>. SUFFICES ASSUME NEW d \in 0..1
                PROVE  /\ b[m] = {m} \cup Below(b, r.child[m][d]) \cup Below(b, r.child[m][1 - d])
                       /\ m \notin Below(b, r.child[m][d])
                       /\ Below(b, r.child[m][d]) \cap Below(b, r.child[m][1 - d]) = {}
                       /\ b[m] \subseteq t.nodes
    OBVIOUS
  <2>0. below[n] \subseteq t.nodes /\ below[m] \subseteq t.nodes /\ m \in Nodes
    BY <1>0, NodeBelow
  <2>1. CASE m = n
    <3>1. \/ r.child[m][d] = y /\ r.child[m][1 - d] = mid
          \/ r.child[m][d] = mid /\ r.child[m][1 - d] = y
      BY <1>1, <1>3, <1>4, <2>1
    <3>2. Below(b, y) = Below(below, y) /\ Below(b, mid) = Below(below, mid)
      BY <1>3, <1>5, <1>7
    <3>. QED  BY <1>2, <2>0, <2>1, <3>1, <3>2
  <2>2. CASE m = up
    <3>1. \/ r.child[m][d] = n /\ r.child[m][1 - d] = x
          \/ r.child[m][d] = x /\ r.child[m][1 - d] = n
      BY <1>1, <1>3, <1>4, <2>2
    <3>2. Below(b, x) = Below(below, x) /\ Below(b, n) = b[n]
      BY <1>3, <1>5, <1>7 DEF Below
    <3>. QED  BY <1>2, <2>0, <2>2, <3>1, <3>2
  <2>3. CASE m \notin {n, up}
    <3>0. 1 - d \in 0..1
      BY <1>3
    <3>1. \A e \in 0..1 : t.child[m][e] \in Nodes \cup {Nil} /\ t.child[m][e] # up
      BY <1>3, <2>0, <2>3 DEF LinksAgree, Trees
    <3>2. \A e \in 0..1 : Below(b, r.child[m][e]) = Below(below, t.child[m][e])
      <4>. SUFFICES ASSUME NEW e \in 0..1
                    PROVE  Below(b, r.child[m][e]) = Below(below, t.child[m][e])
        OBVIOUS
      <4>1. CASE t.child[m][e] = n
        <5>1. r.child[m][e] = up
          BY <1>1, <2>3, <4>1
        <5>. QED  BY <1>2, <1>3, <4>1, <5>1 DEF Below
      <4>2. CASE t.child[m][e] # n
        BY <1>1, <1>7, <2>3, <3>1, <4>2
      <4>. QED  BY <4>1, <4>2
    <3>3. /\ below[m] = {m} \cup Below(below, t.child[m][d]) \cup Below(below, t.child[m][1 - d])
          /\ m \notin Below(below, t.child[m][d])
          /\ Below(below, t.child[m][d]) \cap Below(below, t.child[m][1 - d]) = {}
      BY <1>0, NodeBelow
    <3>. QED  BY <1>2, <2>0, <2>3, <3>0, <3>2, <3>3
  <2>. QED  BY <2>1, <2>2, <2>3
<1>10. ASSUME NEW m \in t.nodes, NEW k \in b[m]
       PROVE  b[k] \subseteq b[m] /\ (k # m => r.parent[k] \in b[m])
  <2>0. k \in t.nodes /\ k \in Nodes /\ m \in Nodes /\ b[n] \subseteq below[n]
    <3>1. k \in t.nodes
      BY <1>9
    <3>. QED  BY <1>0, <3>1, <1>2, NodeBelow
  <2>1. CASE m = up
    <3>1. below[k] \subseteq below[n] /\ (k # n => t.parent[k] \in below[n]) /\ n \in below[n] /\ up \in below[n]
      BY <1>0, <1>2, <2>1, Nested
    <3>. QED  BY <1>1, <1>2, <2>0, <2>1, <3>1
  <2>2. CASE m = n
    <3>1. CASE k = n
      BY <2>2, <3>1
    <3>2. CASE k \in Below(below, mid)
      <4>1. mid \in t.nodes /\ k \in below[mid] /\ Below(below, mid) = below[mid]
        BY <1>5, <3>2 DEF Below
      <4>0. Sound(t, below) /\ mid \in t.nodes /\ k \in below[mid]
        BY <1>0, <4>1
      <4>2. below[k] \subseteq below[mid] /\ (k # mid => t.parent[k] \in below[mid])
        BY <4>0, Nested
      <4>3. k # n /\ k # up
        BY <1>2, <3>2
      <4>. QED  BY <1>1, <1>2, <2>0, <2>2, <4>1, <4>2, <4>3
    <3>3. CASE k \in Below(below, y)
      <4>1. y \in t.nodes /\ k \in below[y] /\ Below(below, y) = below[y] /\ t.parent[y] = n
        BY <1>5, <3>3 DEF Below
      <4>2. below[k] \subseteq below[y] /\ (k # y => t.parent[k] \in below[y])
        BY <1>0, <4>1, Nested
      <4>3. k # n /\ k # up
        BY <1>2, <3>3
      <4>. QED  BY <1>1, <1>2, <2>0, <2>2, <4>1, <4>2, <4>3
    <3>. QED  BY <1>2, <2>2, <3>1, <3>2, <3>3
  <2>3. CASE m \notin {n, up}
    <3>1. b[m] = below[m] /\ k \in below[m]
      BY <1>2, <2>0, <2>3
    <3>2. \A j \in below[m] : below[j] \subseteq below[m] /\ (j # m => t.parent[j] \in below[m])
      BY <1>0, Nested
    <3>3. CASE k = up
      BY <1>1, <1>2, <1>3, <2>0, <2>3, <3>1, <3>2, <3>3
    <3>4. CASE k = n
      BY <1>1, <1>2, <1>3, <2>0, <2>3, <3>1, <3>2, <3>4
    <3>5. CASE k \notin {n, up}
      <4>1. b[k] = below[k]
        BY <1>2, <2>0, <3>5
      <4>2. CASE k = mid
        <5>1. t.parent[k] = up /\ r.parent[k] = n
          BY <1>1, <1>5, <2>0, <3>5, <4>2, TreeAssumption
        <5>. QED  BY <1>3, <2>3, <3>1, <3>2, <4>1, <5>1
      <4>3. CASE k # mid
        BY <1>1, <2>0, <3>1, <3>2, <3>5, <4>1, <4>3
      <4>. QED  BY <4>2, <4>3
    <3>. QED  BY <3>3, <3>4, <3>5
  <2>. QED  BY <2>1, <2>2, <2>3
<1>11. Subtrees(r, b)
  <2>. SUFFICES ASSUME NEW m \in t.nodes
                PROVE  LET b0 == Below(b, r.child[m][0])
                           b1 == Below(b, r.child[m][1])
                       IN  /\ b[m] = {m} \cup b0 \cup b1
                           /\ m \notin b0 /\ m \notin b1 /\ b0 \cap b1 = {}
                           /\ b[m] \subseteq r.nodes
                           /\ \A k \in b[m] : b[k] \subseteq b[m]
                           /\ \A k \in b[m] : k # m => r.parent[k] \in b[m]
    BY <1>1, <1>8, Zenon DEF Subtrees
  <2>1. 0 \in 0..1 /\ 1 \in 0..1 /\ 1 - 0 = 1 /\ 1 - 1 = 0
    OBVIOUS
  <2>2. /\ b[m] = {m} \cup Below(b, r.child[m][0]) \cup Below(b, r.child[m][1])
        /\ m \notin Below(b, r.child[m][0])
        /\ Below(b, r.child[m][0]) \cap Below(b, r.child[m][1]) = {}
        /\ b[m] \subseteq t.nodes
    BY <1>9, <2>1
  <2>3. m \notin Below(b, r.child[m][1])
    BY <1>9, <2>1
  <2>. QED  BY <1>1, <1>10, <2>2, <2>3, Zenon
<1>. QED  BY <1>1, <1>2, <1>6, <1>11 DEF Sound
-----------------------------------------------------------------------------

\* Ahead is a strict total order in either direction.
LEMMA OrderFacts ==
  ASSUME NEW S, NEW order, TotalOrder(S, order), NEW d \in 0..1
  PROVE  /\ \A x, y \in S : Ahead(order, x, y, d) => ~Ahead(order, y, x, d) /\ x # y
         /\ \A x, y \in S : x # y => Ahead(order, x, y, d) \/ Ahead(order, y, x, d)
         /\ \A x, y, z \in S :
              Ahead(order, x, y, d) /\ Ahead(order, y, z, d) => Ahead(order, x, z, d)
         /\ \A x, y \in S : Ahead(order, x, y, 1 - d) <=> Ahead(order, y, x, d)
BY DEF TotalOrder, Ahead

\* t is a search tree for the order.
SearchTree(t, order, below) ==
  Sound(t, below) /\ TotalOrder(t.nodes, order) /\ InOrder(t, order, below, Nil)

\* What precedes one node of a subtree it is not in precedes all of them.
LEMMA Convex ==
  ASSUME NEW t, NEW order, NEW below, SearchTree(t, order, below),
         NEW n \in t.nodes, NEW m \in t.nodes \ below[n], NEW x \in below[n], NEW y \in below[n],
         <<m, x>> \in order
  PROVE  <<m, y>> \in order
<1>1. InOrder(t, order, below, Nil) /\ below[n] \subseteq t.nodes /\ Nil \notin t.nodes
  BY TreeAssumption DEF SearchTree, Sound, Trees, Subtrees
<1>. QED  BY <1>1 DEF InOrder

\* The two parts of InOrder for either direction.
LEMMA SearchTreeFacts ==
  ASSUME NEW t, NEW order, NEW below, SearchTree(t, order, below), NEW d \in 0..1
  PROVE  /\ \A n \in t.nodes : \A m \in Below(below, t.child[n][d]) :
              m \in t.nodes /\ Ahead(order, n, m, d)
         /\ \A n \in t.nodes : \A m \in t.nodes \ below[n], x, y \in below[n] :
              /\ Ahead(order, m, x, d) => Ahead(order, m, y, d)
              /\ Ahead(order, x, m, d) => Ahead(order, y, m, d)
<1>1. Sound(t, below) /\ TotalOrder(t.nodes, order) /\ InOrder(t, order, below, Nil) /\ Nil \notin t.nodes
  BY TreeAssumption DEF SearchTree, Sound, Trees
<1>2. \A n \in t.nodes : below[n] \subseteq t.nodes /\ Below(below, t.child[n][d]) \subseteq t.nodes
  BY <1>1, NodeBelow
<1>3. ASSUME NEW n \in t.nodes, NEW m \in Below(below, t.child[n][d])
      PROVE  m \in t.nodes /\ Ahead(order, n, m, d)
  BY <1>1, <1>2 DEF InOrder
<1>4. ASSUME NEW n \in t.nodes, NEW m \in t.nodes \ below[n], NEW x \in below[n], NEW y \in below[n]
      PROVE  <<m, x>> \in order => <<m, y>> \in order
  BY Convex
<1>5. ASSUME NEW n \in t.nodes, NEW m \in t.nodes \ below[n], NEW x \in below[n], NEW y \in below[n]
      PROVE  <<x, m>> \in order => <<y, m>> \in order
  <2>1. x \in t.nodes /\ y \in t.nodes /\ y # m
    BY <1>2
  <2>2. <<m, y>> \in order => <<m, x>> \in order
    BY <1>4
  <2>. QED  BY <1>1, <2>1, <2>2 DEF TotalOrder
<1>. QED  BY <1>3, <1>4, <1>5 DEF Ahead

\* A rotation keeps the in-order sequence of the nodes.
LEMMA RotateOrder ==
  ASSUME NEW t, NEW below, NEW n, NEW dir, NEW up, NEW mid, NEW x, NEW y, NEW r, NEW b,
         Rotation(t, below, n, dir, up, mid, x, y, r, b),
         NEW order, SearchTree(t, order, below)
  PROVE  SearchTree(r, order, b)
<1>0. /\ Sound(t, below) /\ n \in t.nodes /\ dir \in 0..1 /\ 1 - dir \in 0..1 /\ up = t.child[n][1 - dir] /\ up # Nil
      /\ mid = t.child[up][dir] /\ x = t.child[up][1 - dir] /\ y = t.child[n][dir] /\ 1 - (1 - dir) = dir
  BY DEF Rotation
<1>1. /\ r \in Trees /\ r.nodes = t.nodes
      /\ r.child[n][dir] = y /\ r.child[n][1 - dir] = mid
      /\ r.child[up][dir] = n /\ r.child[up][1 - dir] = x
      /\ \A m \in t.nodes \ {n, up}, d \in 0..1 :
           r.child[m][d] = IF t.child[m][d] = n THEN up ELSE t.child[m][d]
  BY RotateEffect
<1>2. /\ b[up] = below[n]
      /\ b[n] = {n} \cup Below(below, mid) \cup Below(below, y)
      /\ \A m \in Nodes : m # n /\ m # up => b[m] = below[m]
      /\ below[n] = {n} \cup {up} \cup Below(below, mid) \cup Below(below, x) \cup Below(below, y)
      /\ below[up] = {up} \cup Below(below, mid) \cup Below(below, x)
  BY RotateBelow
<1>3. Sound(r, b)
  BY RotateSound
<1>4. /\ up \in t.nodes /\ up \in Nodes /\ n \in Nodes /\ up # n /\ t.parent[up] = n /\ Below(below, up) = below[up]
      /\ t.nodes \subseteq Nodes /\ Nil \notin Nodes /\ n # Nil /\ Below(b, n) = b[n]
      /\ mid \in Nodes \cup {Nil} /\ x \in Nodes \cup {Nil} /\ y \in Nodes \cup {Nil}
      /\ mid # n /\ mid # up /\ x # n /\ x # up /\ y # n /\ y # up
  <2>1. /\ up \in t.nodes /\ up \in Nodes /\ n \in Nodes /\ up # n /\ t.parent[up] = n
        /\ t.nodes \subseteq Nodes /\ Nil \notin Nodes /\ n # Nil
    BY <1>0, Children, TreeAssumption DEF Sound, Trees
  <2>2. mid \in Nodes \cup {Nil} /\ x \in Nodes \cup {Nil} /\ y \in Nodes \cup {Nil}
    BY <1>0, <2>1 DEF Sound, Trees
  <2>3. \A m \in t.nodes : m \in below[m]
    BY <1>0, NodeBelow
  <2>4. /\ n \notin Below(below, mid) /\ n \notin Below(below, x) /\ n \notin Below(below, y)
        /\ up \notin Below(below, mid) /\ up \notin Below(below, x) /\ up \notin Below(below, y)
    BY RotateBelow
  <2>. QED  BY <1>0, <2>1, <2>2, <2>3, <2>4 DEF Below
<1>5. TotalOrder(t.nodes, order)
  BY DEF SearchTree
<1>6. \A d \in 0..1 : d = dir \/ d = 1 - dir
  BY <1>0
<1>7. /\ \A m \in Below(below, y) : m \in t.nodes /\ Ahead(order, n, m, dir)
      /\ \A m \in below[up] : m \in t.nodes /\ Ahead(order, n, m, 1 - dir)
      /\ \A m \in Below(below, mid) : m \in t.nodes /\ Ahead(order, up, m, dir)
      /\ \A m \in Below(below, x) : m \in t.nodes /\ Ahead(order, up, m, 1 - dir)
  <2>1. up \in t.nodes /\ Below(below, t.child[n][1 - dir]) = below[up]
    BY <1>0, <1>4
  <2>. QED  BY <1>0, <2>1, SearchTreeFacts
<1>8. \A m \in b[n] : m \in t.nodes /\ Ahead(order, up, m, dir)
  <2>1. Ahead(order, up, n, dir)
    <3>1. Ahead(order, n, up, 1 - dir)
      BY <1>2, <1>7
    <3>. QED  BY <1>0, <1>4, <1>5, <3>1, OrderFacts, SMTT(20)
  <2>2. \A m \in Below(below, y) : Ahead(order, up, m, dir)
    BY <1>0, <1>4, <1>5, <1>7, <2>1, OrderFacts, SMTT(20)
  <2>. QED  BY <1>0, <1>2, <1>7, <2>1, <2>2
<1>9. ASSUME NEW m \in t.nodes, NEW d \in 0..1, NEW k \in Below(b, r.child[m][d])
      PROVE  Ahead(order, m, k, d)
  <2>0. \A c \in Nodes \cup {Nil} : c # n /\ c # up => Below(b, c) = Below(below, c)
    BY <1>2 DEF Below
  <2>1. CASE m = n
    BY <1>1, <1>2, <1>4, <1>6, <1>7, <1>9, <2>0, <2>1
  <2>2. CASE m = up
    BY <1>1, <1>4, <1>6, <1>7, <1>8, <1>9, <2>0, <2>2
  <2>3. CASE m \notin {n, up}
    <3>1. t.child[m][d] \in Nodes \cup {Nil} /\ t.child[m][d] # up
      BY <1>0, <1>4, <2>3, SMTT(20) DEF Sound, LinksAgree, Trees
    <3>2. Below(b, r.child[m][d]) = Below(below, t.child[m][d])
      <4>1. CASE t.child[m][d] = n
        <5>1. r.child[m][d] = up
          BY <1>1, <2>3, <4>1
        <5>. QED  BY <1>0, <1>2, <1>4, <4>1, <5>1 DEF Below
      <4>2. CASE t.child[m][d] # n
        BY <1>1, <2>0, <2>3, <3>1, <4>2
      <4>. QED  BY <4>1, <4>2
    <3>. QED  BY <1>9, <3>2, SearchTreeFacts
  <2>. QED  BY <2>1, <2>2, <2>3
<1>10. ASSUME NEW k \in t.nodes, NEW m \in t.nodes \ b[k], NEW u \in b[k], NEW v \in b[k], <<m, u>> \in order
       PROVE  <<m, v>> \in order
  <2>1. CASE k \notin {n, up}
    <3>1. b[k] = below[k]
      BY <1>2, <1>4, <2>1
    <3>. QED  BY <1>10, <3>1, Convex
  <2>2. CASE k = up
    BY <1>0, <1>2, <1>10, <2>2, Convex
  <2>3. CASE k = n
    <3>1. CASE m \notin below[n]
      <4>1. u \in below[n] /\ v \in below[n]
        BY <1>2, <2>3
      <4>. QED  BY <1>0, <1>10, <3>1, <4>1, Convex
    <3>2. CASE m \in below[n]
      <4>1. m = up \/ m \in Below(below, x)
        BY <1>2, <2>3, <3>2
      <4>2. Ahead(order, m, u, dir) /\ Ahead(order, m, v, dir)
        <5>1. Ahead(order, up, u, dir) /\ Ahead(order, up, v, dir) /\ u \in t.nodes /\ v \in t.nodes
          BY <1>8, <2>3
        <5>2. m # up => Ahead(order, m, up, dir)
          BY <1>0, <1>4, <1>5, <1>7, <4>1, OrderFacts, SMTT(20)
        <5>. QED  BY <1>0, <1>4, <1>5, <5>1, <5>2, OrderFacts, SMTT(20)
      <4>3. u \in t.nodes /\ v \in t.nodes
        BY <1>8, <2>3
      <4>. QED  BY <1>0, <1>5, <1>10, <4>2, <4>3 DEF Ahead, TotalOrder
    <3>. QED  BY <3>1, <3>2
  <2>. QED  BY <2>1, <2>2, <2>3
<1>11. InOrder(r, order, b, Nil)
  BY <1>1, <1>9, <1>10, Zenon DEF InOrder
<1>. QED  BY <1>1, <1>3, <1>5, <1>11 DEF SearchTree
-----------------------------------------------------------------------------

\* Every summary is the weight of the subtree.
Summed(t, below) == \A m \in t.nodes : t.sum[m] = WeightOf[below[m]]

\* The weight of two disjoint sets is the sum of theirs.
LEMMA WeightUnion ==
  ASSUME NEW S \in SUBSET Nodes, NEW T \in SUBSET Nodes, S \cap T = {}
  PROVE  /\ WeightOf[S \cup T] = WeightOf[S] + WeightOf[T]
         /\ WeightOf[S] \in Int /\ WeightOf[T] \in Int
<1>1. T \in SUBSET (Nodes \ S)
  OBVIOUS
<1>. QED  BY <1>1, WeightAssumption

\* The weight of a subtree is that of its root and of its children's
\* subtrees.
LEMMA WeightSplit ==
  ASSUME NEW t, NEW below, Sound(t, below), NEW n \in t.nodes, NEW d \in 0..1
  PROVE  /\ WeightOf[below[n]] = Weight[n] + WeightOf[Below(below, t.child[n][d])]
                                           + WeightOf[Below(below, t.child[n][1 - d])]
         /\ WeightOf[below[n]] \in Int /\ Weight[n] \in Int
         /\ WeightOf[Below(below, t.child[n][d])] \in Int
         /\ WeightOf[Below(below, t.child[n][1 - d])] \in Int
<1>. DEFINE B == Below(below, t.child[n][d])
            C == Below(below, t.child[n][1 - d])
<1>1. /\ below[n] \subseteq Nodes /\ n \in Nodes /\ below[n] = {n} \cup B \cup C
      /\ n \notin B /\ n \notin C /\ B \cap C = {}
  <2>1. t.nodes \subseteq Nodes
    BY DEF Sound, Trees
  <2>. QED  BY <2>1, NodeBelow
<1>. HIDE DEF B, C
<1>2. {n} \in SUBSET Nodes /\ B \in SUBSET Nodes /\ C \in SUBSET Nodes /\ {n} \cup B \in SUBSET Nodes
  BY <1>1
<1>3. {n} \cap B = {} /\ ({n} \cup B) \cap C = {}
  BY <1>1
<1>4. WeightOf[{n} \cup B] = WeightOf[{n}] + WeightOf[B] /\ WeightOf[B] \in Int
  BY <1>2, <1>3, WeightUnion
<1>5. WeightOf[({n} \cup B) \cup C] = WeightOf[{n} \cup B] + WeightOf[C] /\ WeightOf[C] \in Int
  BY <1>2, <1>3, WeightUnion
<1>6. WeightOf[{n}] = Weight[n] /\ Weight[n] \in Int
  <2>1. \A m \in Nodes : WeightOf[{m}] = Weight[m]
    BY WeightAssumption, Zenon
  <2>2. Weight \in [Nodes -> Int]
    BY TreeAssumption
  <2>. QED  BY <1>1, <2>1, <2>2
<1>7. WeightOf[below[n]] = Weight[n] + WeightOf[B] + WeightOf[C]
  BY <1>1, <1>4, <1>5, <1>6
<1>. QED  BY <1>4, <1>5, <1>6, <1>7 DEF B, C

\* The summary of a child, or of a missing one, is the weight of what is
\* below it.
LEMMA SumIs ==
  ASSUME NEW t, NEW below, Summed(t, below), NEW c, c = Nil \/ c \in t.nodes
  PROVE  Sum(t, c) = WeightOf[Below(below, c)]
<1>1. CASE c = Nil
  BY <1>1, WeightAssumption DEF Sum, Below
<1>2. CASE c # Nil
  BY <1>2 DEF Sum, Below, Summed
<1>. QED  BY <1>1, <1>2

\* The two summaries that rotate computes by difference are exact.
LEMMA RotateSums ==
  ASSUME NEW t, NEW below, NEW n, NEW dir, NEW up, NEW mid, NEW x, NEW y, NEW r, NEW b,
         Rotation(t, below, n, dir, up, mid, x, y, r, b), Summed(t, below)
  PROVE  Summed(r, b)
<1>0. /\ Sound(t, below) /\ n \in t.nodes /\ dir \in 0..1 /\ 1 - dir \in 0..1 /\ up = t.child[n][1 - dir] /\ up # Nil
      /\ mid = t.child[up][dir] /\ x = t.child[up][1 - dir] /\ y = t.child[n][dir] /\ 1 - (1 - dir) = dir
  BY DEF Rotation
<1>1. /\ r.nodes = t.nodes
      /\ r.child[n][dir] = y /\ r.child[n][1 - dir] = mid
      /\ \A m \in t.nodes :
           r.sum[m] = IF m = up THEN t.sum[n]
                      ELSE IF m = n THEN t.sum[n] - t.sum[up] + Sum(t, mid)
                      ELSE t.sum[m]
  BY RotateEffect
<1>2. b[up] = below[n] /\ (\A m \in Nodes : m # n /\ m # up => b[m] = below[m]) /\ Sound(r, b)
  BY RotateBelow, RotateSound
<1>3. up \in t.nodes /\ up # n /\ (mid = Nil \/ mid \in t.nodes) /\ t.nodes \subseteq Nodes
  BY <1>0, Children, SMTT(20) DEF Sound, Trees, LinksAgree
<1>4. WeightOf[Below(below, up)] = WeightOf[below[up]] /\ t.sum[n] = WeightOf[below[n]] /\ t.sum[up] = WeightOf[below[up]]
  BY <1>0, <1>3 DEF Below, Summed
<1>5. /\ WeightOf[below[n]] = Weight[n] + WeightOf[Below(below, y)] + WeightOf[Below(below, up)]
      /\ WeightOf[Below(below, y)] \in Int /\ WeightOf[Below(below, up)] \in Int /\ Weight[n] \in Int
  BY <1>0, WeightSplit
<1>6. /\ WeightOf[b[n]] = Weight[n] + WeightOf[Below(b, y)] + WeightOf[Below(b, mid)]
      /\ WeightOf[Below(b, mid)] \in Int /\ WeightOf[Below(b, y)] \in Int
  BY <1>0, <1>1, <1>2, WeightSplit, SMTT(20)
<1>7. Below(b, y) = Below(below, y) /\ Below(b, mid) = Below(below, mid)
  <2>1. \A m \in t.nodes : m \in below[m]
    BY <1>0, NodeBelow
  <2>2. /\ n \notin Below(below, mid) /\ n \notin Below(below, y)
        /\ up \notin Below(below, mid) /\ up \notin Below(below, y)
    BY RotateBelow
  <2>3. y = Nil \/ y \in t.nodes
    BY <1>0 DEF Sound, LinksAgree
  <2>. QED  BY <1>2, <1>0, <1>3, <2>1, <2>2, <2>3 DEF Below
<1>8. Sum(t, mid) = WeightOf[Below(b, mid)]
  BY <1>3, <1>7, SumIs
<1>9. r.sum[n] = WeightOf[b[n]]
  <2>1. r.sum[n] = t.sum[n] - t.sum[up] + Sum(t, mid)
    BY <1>0, <1>1, <1>3
  <2>2. r.sum[n] = Weight[n] + WeightOf[Below(below, y)] + WeightOf[Below(below, up)]
                     - WeightOf[Below(below, up)] + WeightOf[Below(b, mid)]
    BY <1>4, <1>5, <1>8, <2>1
  <2>3. WeightOf[Below(b, y)] = WeightOf[Below(below, y)]
    BY <1>7
  <2>. QED  BY <1>5, <1>6, <2>2, <2>3
<1>10. r.sum[up] = WeightOf[b[up]]
  BY <1>1, <1>2, <1>3, <1>4
<1>11. ASSUME NEW m \in t.nodes, m # n, m # up
       PROVE  r.sum[m] = WeightOf[b[m]]
  BY <1>1, <1>2, <1>3, <1>11 DEF Summed
<1>. QED  BY <1>1, <1>9, <1>10, <1>11 DEF Summed
-----------------------------------------------------------------------------

\* A search tree with exact summaries, and no assertion has failed.
Good(t, order, below) == SearchTree(t, order, below) /\ Summed(t, below) /\ t.ok

\* A rotation keeps order and summaries.
LEMMA RotateGood ==
  ASSUME NEW t, NEW below, NEW n, NEW dir, NEW up, NEW mid, NEW x, NEW y, NEW r, NEW b,
         Rotation(t, below, n, dir, up, mid, x, y, r, b),
         NEW order, Good(t, order, below)
  PROVE  Good(r, order, b) /\ b \in [Nodes -> SUBSET Nodes]
<1>1. SearchTree(t, order, below) /\ Summed(t, below) /\ t.ok
  BY DEF Good
<1>2. SearchTree(r, order, b)
  BY <1>1, RotateOrder
<1>3. Summed(r, b)
  BY <1>1, RotateSums
<1>4. r.ok
  BY <1>1, RotateEffect
<1>5. b \in [Nodes -> SUBSET Nodes]
  BY RotateBelow
<1>. QED  BY <1>2, <1>3, <1>4, <1>5 DEF Good

\* q is t but for the colours.
SameShape(t, q) ==
  /\ q \in Trees /\ q.root = t.root /\ q.nodes = t.nodes /\ q.child = t.child
  /\ q.parent = t.parent /\ q.sum = t.sum /\ q.ok = t.ok

\* Paint changes one colour.
LEMMA PaintEffect ==
  ASSUME NEW t \in Trees, NEW n \in Nodes, NEW c \in {"Red", "Black"}
  PROVE  /\ SameShape(t, Paint(t, n, c))
         /\ \A m \in Nodes : Paint(t, n, c).color[m] = IF m = n THEN c ELSE t.color[m]
<1>. DEFINE col == [t.color EXCEPT ![n] = c]
            q == Paint(t, n, c)
<1>1. col \in [Nodes -> {"Red", "Black"}]
  BY DEF Trees
<1>2. q = [t EXCEPT !.color = col]
  BY DEF Paint
<1>. HIDE DEF q, col
<1>3. SameShape(t, q) /\ q.color = col
  BY <1>1, <1>2 DEF SameShape, Trees
<1>4. \A m \in Nodes : col[m] = IF m = n THEN c ELSE t.color[m]
  BY DEF col, Trees
<1>. QED  BY <1>3, <1>4 DEF q

\* Two Paints change two colours, the later one last.
LEMMA Paint2 ==
  ASSUME NEW t \in Trees, NEW n1 \in Nodes, NEW c1 \in {"Red", "Black"},
         NEW n2 \in Nodes, NEW c2 \in {"Red", "Black"}
  PROVE  /\ SameShape(t, Paint(Paint(t, n1, c1), n2, c2))
         /\ \A m \in Nodes : Paint(Paint(t, n1, c1), n2, c2).color[m] =
               IF m = n2 THEN c2 ELSE IF m = n1 THEN c1 ELSE t.color[m]
<1>. DEFINE q == Paint(t, n1, c1)
            r == Paint(q, n2, c2)
<1>1. SameShape(t, q) /\ \A m \in Nodes : q.color[m] = IF m = n1 THEN c1 ELSE t.color[m]
  BY PaintEffect
<1>2. q \in Trees
  BY <1>1 DEF SameShape
<1>. HIDE DEF q
<1>3. SameShape(q, r) /\ \A m \in Nodes : r.color[m] = IF m = n2 THEN c2 ELSE q.color[m]
  BY <1>2, PaintEffect
<1>. HIDE DEF r
<1>4. SameShape(t, r) /\ \A m \in Nodes : r.color[m] = IF m = n2 THEN c2 ELSE IF m = n1 THEN c1 ELSE t.color[m]
  BY <1>1, <1>3 DEF SameShape
<1>. QED  BY <1>4 DEF r, q

\* An assertion that holds changes nothing.
LEMMA CheckTrue ==
  ASSUME NEW t \in Trees, NEW e, e = TRUE
  PROVE  Check(t, e) = t
BY DEF Check, Trees

\* Colours do not matter for order and summaries.
LEMMA SameShapeGood ==
  ASSUME NEW t, NEW q, SameShape(t, q), NEW order, NEW below, Good(t, order, below)
  PROVE  Good(q, order, below)
<1>1. Sound(q, below)
  <2>1. LinksAgree(q)
    BY DEF SameShape, Good, SearchTree, Sound, LinksAgree
  <2>2. Subtrees(q, below)
    BY DEF SameShape, Good, SearchTree, Sound, Subtrees
  <2>. QED  BY <2>1, <2>2 DEF SameShape, Good, SearchTree, Sound
<1>2. InOrder(q, order, below, Nil) /\ TotalOrder(q.nodes, order)
  BY DEF SameShape, Good, SearchTree, InOrder
<1>3. Summed(q, below) /\ q.ok
  BY DEF SameShape, Good, Summed
<1>. QED  BY <1>1, <1>2, <1>3 DEF Good, SearchTree

\* EquallyBlack for one child of one node.
LEMMA HeightIs ==
  ASSUME NEW t \in Trees, NEW height \in [Nodes -> Nat], NEW p, NEW s, EquallyBlack(t, height, p, s),
         NEW m \in t.nodes, NEW e \in 0..1
  PROVE  /\ height[m] \in Nat /\ Height(height, t.child[m][e]) \in Nat /\ Black(t, m) \in 0..1
         /\ ~(m = p /\ e = s) => height[m] = Height(height, t.child[m][e]) + Black(t, m)
         /\ m = p /\ e = s => height[m] = Height(height, t.child[m][e]) + Black(t, m) + 1
<1>1. m \in Nodes /\ t.child[m][e] \in Nodes \cup {Nil}
  BY DEF Trees
<1>2. height[m] \in Nat /\ Height(height, t.child[m][e]) \in Nat /\ Black(t, m) \in 0..1
  BY <1>1 DEF Height, Black
<1>3. height[m] = Height(height, t.child[m][e]) + Black(t, m) + IF m = p /\ e = s THEN 1 ELSE 0
  BY DEF EquallyBlack
<1>4. ~(m = p /\ e = s) => height[m] = Height(height, t.child[m][e]) + Black(t, m)
  BY <1>2, <1>3
<1>. QED  BY <1>2, <1>3, <1>4

\* EquallyBlack follows from what HeightIs says of every child.
LEMMA HeightsAre ==
  ASSUME NEW t \in Trees, NEW height \in [Nodes -> Nat], NEW p, NEW s,
         \A m \in t.nodes, e \in 0..1 :
           /\ ~(m = p /\ e = s) => height[m] = Height(height, t.child[m][e]) + Black(t, m)
           /\ m = p /\ e = s => height[m] = Height(height, t.child[m][e]) + Black(t, m) + 1
  PROVE  EquallyBlack(t, height, p, s)
<1>1. ASSUME NEW m \in t.nodes, NEW e \in 0..1
      PROVE  height[m] = Height(height, t.child[m][e]) + Black(t, m) + IF m = p /\ e = s THEN 1 ELSE 0
  <2>1. m \in Nodes /\ t.child[m][e] \in Nodes \cup {Nil}
    BY DEF Trees
  <2>2. Height(height, t.child[m][e]) \in Nat /\ Black(t, m) \in 0..1
    BY <2>1 DEF Height, Black
  <2>3. CASE m = p /\ e = s
    BY <2>3
  <2>4. CASE ~(m = p /\ e = s)
    BY <2>2, <2>4
  <2>. QED  BY <2>3, <2>4
<1>. QED  BY <1>1 DEF EquallyBlack

\* up takes over the height of n, and only n, up and x have another one.
HeightMoved(t, height, h, n, up, x) ==
  /\ h[up] = height[n]
  /\ \A m \in t.nodes : m # n /\ m # up /\ m # x => h[m] = height[m]

\* Away from the rotation the heights of children stay as they are.
LEMMA RotateHeights ==
  ASSUME NEW t, NEW below, NEW n, NEW dir, NEW up, NEW mid, NEW x, NEW y, NEW r, NEW b,
         Rotation(t, below, n, dir, up, mid, x, y, r, b),
         NEW height, NEW h, HeightMoved(t, height, h, n, up, x),
         NEW m \in t.nodes, m # n, m # up, NEW d \in 0..1
  PROVE  Height(h, r.child[m][d]) = Height(height, t.child[m][d])
<1>0. /\ Sound(t, below) /\ n \in t.nodes /\ dir \in 0..1 /\ 1 - dir \in 0..1 /\ up = t.child[n][1 - dir] /\ up # Nil
      /\ x = t.child[up][1 - dir]
  BY DEF Rotation
<1>1. up \in t.nodes /\ t.parent[up] = n /\ n # Nil
  BY <1>0, Children
<1>2. x # Nil => t.parent[x] = up
  BY <1>0, <1>1, SMTT(20) DEF Sound, LinksAgree
<1>3. r.child[m][d] = IF t.child[m][d] = n THEN up ELSE t.child[m][d]
  BY RotateEffect
<1>4. t.child[m][d] # Nil => t.child[m][d] \in t.nodes /\ t.parent[t.child[m][d]] = m
  BY <1>0 DEF Sound, LinksAgree
<1>. QED  BY <1>0, <1>1, <1>2, <1>3, <1>4 DEF Height, HeightMoved

\* The colours and heights of a rotated tree add up around the rotation.
LocallyBlack(t, r, height, h, n, dir, up, mid, x, y, p, p2, s) ==
  /\ \A m \in t.nodes : m # n /\ m # up =>
       /\ m = p <=> m = p2
       /\ m # x => h[m] = height[m] /\ r.color[m] = t.color[m]
  /\ x # Nil => x # p /\ h[x] - Black(r, x) = height[x] - Black(t, x)
  /\ up # p2 /\ h[up] = height[n]
  /\ h[up] = h[n] + Black(r, up) /\ h[up] = Height(h, x) + Black(r, up)
  /\ h[n] = Height(h, mid) + Black(r, n) /\ ~(n = p2 /\ 1 - dir = s)
  /\ ~(n = p2 /\ dir = s) => h[n] = Height(h, y) + Black(r, n)
  /\ n = p2 /\ dir = s => h[n] = Height(h, y) + Black(r, n) + 1

\* If the heights add up around a rotation they add up everywhere.
LEMMA RotateBlack ==
  ASSUME NEW t, NEW below, NEW n, NEW dir, NEW up, NEW mid, NEW x, NEW y, NEW q, NEW b, NEW r,
         Rotation(t, below, n, dir, up, mid, x, y, q, b), SameShape(q, r),
         NEW height \in [Nodes -> Nat], NEW h \in [Nodes -> Nat], NEW p, NEW p2, NEW s,
         EquallyBlack(t, height, p, s),
         LocallyBlack(t, r, height, h, n, dir, up, mid, x, y, p, p2, s)
  PROVE  EquallyBlack(r, h, p2, s)
<1>0. /\ Sound(t, below) /\ n \in t.nodes /\ dir \in 0..1 /\ 1 - dir \in 0..1 /\ up = t.child[n][1 - dir] /\ up # Nil
      /\ x = t.child[up][1 - dir] /\ t \in Trees
  BY DEF Rotation, Sound
<1>1. /\ r \in Trees /\ r.nodes = t.nodes
      /\ r.child[n][dir] = y /\ r.child[n][1 - dir] = mid
      /\ r.child[up][dir] = n /\ r.child[up][1 - dir] = x /\ r.child = q.child
  BY RotateEffect DEF SameShape
<1>2. \A e \in 0..1 : e = dir \/ e = 1 - dir
  BY <1>0
<1>3. n # Nil /\ t.nodes \subseteq Nodes
  BY <1>0, TreeAssumption DEF Trees
<1>. SUFFICES ASSUME NEW m \in t.nodes, NEW e \in 0..1
              PROVE  /\ ~(m = p2 /\ e = s) => h[m] = Height(h, r.child[m][e]) + Black(r, m)
                     /\ m = p2 /\ e = s => h[m] = Height(h, r.child[m][e]) + Black(r, m) + 1
  BY <1>1, HeightsAre
<1>4. CASE m = n
  BY <1>1, <1>2, <1>4 DEF LocallyBlack
<1>5. CASE m = up
  <2>1. r.child[m][e] = n \/ r.child[m][e] = x
    BY <1>1, <1>2, <1>5
  <2>2. Height(h, n) = h[n]
    BY <1>3 DEF Height
  <2>. QED  BY <1>5, <2>1, <2>2 DEF LocallyBlack
<1>6. CASE m # n /\ m # up
  <2>1. Height(h, r.child[m][e]) = Height(height, t.child[m][e])
    <3>1. HeightMoved(t, height, h, n, up, x)
      BY DEF HeightMoved, LocallyBlack
    <3>2. Height(h, q.child[m][e]) = Height(height, t.child[m][e])
      BY <1>6, <3>1, RotateHeights
    <3>. QED  BY <1>1, <3>2
  <2>2. /\ height[m] \in Nat /\ Height(height, t.child[m][e]) \in Nat /\ Black(t, m) \in 0..1
        /\ ~(m = p /\ e = s) => height[m] = Height(height, t.child[m][e]) + Black(t, m)
        /\ m = p /\ e = s => height[m] = Height(height, t.child[m][e]) + Black(t, m) + 1
    BY <1>0, HeightIs
  <2>3. CASE m # x
    <3>1. Black(r, m) = Black(t, m) /\ h[m] = height[m]
      BY <1>6, <2>3 DEF Black, IsRed, LocallyBlack
    <3>2. m = p <=> m = p2
      BY <1>6 DEF LocallyBlack
    <3>. QED  BY <2>1, <2>2, <3>1, <3>2
  <2>4. CASE m = x
    <3>1. x # Nil /\ h[x] \in Nat /\ Black(r, x) \in 0..1 /\ m # p /\ m # p2
      BY <1>3, <1>6, <2>4, TreeAssumption DEF Black, LocallyBlack
    <3>2. h[m] - Black(r, m) = Height(height, t.child[m][e])
      BY <2>2, <2>4, <3>1 DEF LocallyBlack
    <3>. QED  BY <2>1, <2>2, <2>4, <3>1, <3>2
  <2>. QED  BY <2>3, <2>4
<1>. QED  BY <1>4, <1>5, <1>6

\* If red nodes are apart around a rotation they are apart everywhere.
LEMMA RotateRed ==
  ASSUME NEW t, NEW below, NEW n, NEW dir, NEW up, NEW mid, NEW x, NEW y, NEW q, NEW b, NEW r,
         Rotation(t, below, n, dir, up, mid, x, y, q, b), SameShape(q, r),
         NEW o, NEW o2, RedApart(t, o), o # Nil => t.parent[o] \in {n, up},
         \A m \in t.nodes : m # n /\ m # up /\ IsRed(r, m) => IsRed(t, m),
         IsRed(r, up) => IsRed(t, n) /\ ~IsRed(r, x),
         IsRed(r, up) /\ IsRed(r, n) => n = o2,
         IsRed(r, n) => ~IsRed(r, y) /\ ~IsRed(r, mid)
  PROVE  RedApart(r, o2)
<1>0. /\ Sound(t, below) /\ n \in t.nodes /\ dir \in 0..1 /\ 1 - dir \in 0..1 /\ up = t.child[n][1 - dir] /\ up # Nil
  BY DEF Rotation
<1>1. /\ r.nodes = t.nodes
      /\ r.child[n][dir] = y /\ r.child[n][1 - dir] = mid
      /\ r.child[up][dir] = n /\ r.child[up][1 - dir] = x
      /\ \A m \in t.nodes \ {n, up}, d \in 0..1 :
           r.child[m][d] = IF t.child[m][d] = n THEN up ELSE t.child[m][d]
  BY RotateEffect DEF SameShape
<1>2. \A e \in 0..1 : e = dir \/ e = 1 - dir
  BY <1>0
<1>3. t.parent[up] = n
  BY <1>0, Children
<1>. SUFFICES ASSUME NEW m \in t.nodes, NEW e \in 0..1, IsRed(r, m), IsRed(r, r.child[m][e])
              PROVE  r.child[m][e] = o2
  BY <1>1 DEF RedApart
<1>4. CASE m = n
  BY <1>1, <1>2, <1>4
<1>5. CASE m = up
  BY <1>1, <1>2, <1>5
<1>6. CASE m # n /\ m # up
  <2>. DEFINE c == t.child[m][e]
  <2>1. c # Nil /\ c # up
    <3>1. r.child[m][e] = IF c = n THEN up ELSE c
      BY <1>1, <1>6
    <3>2. c # Nil
      BY <1>0, <3>1, Children DEF IsRed
    <3>3. t.parent[c] = m
      BY <1>0, <3>2, Children
    <3>. QED  BY <1>3, <1>6, <3>2, <3>3
  <2>2. c \in t.nodes /\ t.parent[c] = m
    BY <1>0, <2>1, Children
  <2>3. IsRed(t, m)
    BY <1>6
  <2>4. c # n => r.child[m][e] = c
    BY <1>1, <1>6
  <2>5. c = n => r.child[m][e] = up
    BY <1>1, <1>6
  <2>6. IsRed(t, c)
    BY <2>1, <2>2, <2>4, <2>5
  <2>7. c = o
    BY <2>3, <2>6 DEF RedApart
  <2>. QED  BY <1>6, <2>1, <2>2, <2>7
<1>. QED  BY <1>4, <1>5, <1>6

\* What the repair of an insertion establishes.
InsertRepaired(t, order, s, r, next) ==
  /\ r.nodes = t.nodes
  /\ \E b \in [Nodes -> SUBSET Nodes], h \in [Nodes -> Nat] :
       /\ Good(r, order, b)
       /\ RedApart(r, next)
       /\ EquallyBlack(r, h, Nil, s)
  /\ next # Nil => next \in r.nodes /\ next # r.root /\ IsRed(r, next)

\* The last rotation of insert, over a black uncle, ends the repair.
LEMMA FixInsertOuter ==
  ASSUME NEW t, NEW order, NEW below, NEW height \in [Nodes -> Nat], NEW s, NEW g, NEW d \in 0..1,
         NEW top, NEW o, NEW r,
         Good(t, order, below), RedApart(t, o), EquallyBlack(t, height, Nil, s),
         g \in t.nodes, top = t.child[g][d], o = t.child[top][d],
         ~IsRed(t, g), IsRed(t, top), IsRed(t, o), ~IsRed(t, t.child[g][1 - d]),
         r = Paint(Paint(rotate(t, g, 1 - d), top, "Black"), g, "Red")
  PROVE  InsertRepaired(t, order, s, r, Nil)
<1>. DEFINE mid == t.child[top][1 - d]
            y == t.child[g][1 - d]
            q == rotate(t, g, 1 - d)
            b == Rotated(t, below, g, 1 - d)
            q1 == Paint(q, top, "Black")
            h == [height EXCEPT ![top] = height[g], ![g] = height[g] - 1]
<1>1. /\ Sound(t, below) /\ 1 - d \in 0..1 /\ 1 - (1 - d) = d /\ top # Nil /\ o # Nil /\ t \in Trees
      /\ t.nodes \subseteq Nodes /\ g \in Nodes /\ Nil \notin Nodes
  BY TreeAssumption DEF Good, SearchTree, Sound, Trees, IsRed
<1>2. Rotation(t, below, g, 1 - d, top, mid, o, y, q, b)
  BY <1>1 DEF Rotation
<1>3. /\ top \in t.nodes /\ top # g /\ o \in t.nodes /\ o # top /\ o # g /\ o # mid /\ top \in Nodes /\ o \in Nodes
      /\ mid # top /\ mid # g /\ y # g /\ y # top
  <2>1. top \in t.nodes /\ top # g /\ top # y /\ t.parent[top] = g /\ top \in Nodes
    BY <1>1, Children
  <2>2. o \in t.nodes /\ o # top /\ o # mid /\ t.parent[o] = top /\ o \in Nodes
    BY <1>1, <2>1, Children, SMTT(20)
  <2>3. g \notin below[top] /\ top \in below[top] /\ o \in below[top]
    <3>1. g \notin below[top] /\ top \in below[top]
      BY <1>1, <2>1, Children
    <3>2. below[o] \subseteq below[top] /\ o \in below[o]
      BY <1>1, <2>1, Children, SMTT(20)
    <3>. QED  BY <3>1, <3>2
  <2>4. mid # Nil => mid # top /\ mid \in below[top]
    <3>1. mid # Nil => mid # top /\ mid \in below[mid] /\ below[mid] \subseteq below[top]
      BY <1>1, <2>1, Children, SMTT(20)
    <3>. QED  BY <3>1
  <2>5. y # Nil => y # g
    BY <1>1, Children
  <2>. QED  BY <1>1, <2>1, <2>2, <2>3, <2>4, <2>5
<1>4. /\ q \in Trees /\ q.nodes = t.nodes /\ q.color = t.color
      /\ q.child[g][1 - d] = y /\ q.child[g][d] = mid
      /\ q.child[top][1 - d] = g /\ q.child[top][d] = o
      /\ \A m \in t.nodes \ {g, top}, e \in 0..1 :
           q.child[m][e] = IF t.child[m][e] = g THEN top ELSE t.child[m][e]
  <2>. HIDE DEF q, mid, y, b
  <2>. QED  BY <1>1, <1>2, RotateEffect, SMTT(20)
<1>5. Good(q, order, b) /\ b \in [Nodes -> SUBSET Nodes]
  <2>. HIDE DEF q, mid, y, b
  <2>. QED  BY <1>2, RotateGood
<1>6. height[g] = height[top] + 1 /\ height[g] = Height(height, y) + 1 /\ Height(height, y) \in Nat
  <2>1. Black(t, g) = 1 /\ Height(height, top) = height[top] /\ g # Nil
    BY <1>1 DEF Black, Height
  <2>. QED  BY <1>1, <2>1, HeightIs
<1>7. height[top] = height[o] /\ height[top] = Height(height, mid) /\ height[top] \in Nat /\ height[g] \in Nat
  <2>1. Black(t, top) = 0 /\ Height(height, o) = height[o] /\ top # Nil
    BY <1>1 DEF Black, Height
  <2>2. /\ t \in Trees /\ height \in [Nodes -> Nat] /\ EquallyBlack(t, height, Nil, s)
        /\ top \in t.nodes /\ g \in t.nodes /\ d \in 0..1 /\ 1 - d \in 0..1 /\ top # Nil
    BY <1>1, <1>3, <2>1
  <2>3. height[top] \in Nat /\ height[top] = Height(height, t.child[top][d]) + Black(t, top)
    BY <2>2, HeightIs
  <2>4. height[g] \in Nat
    BY <2>2, HeightIs
  <2>5. height[top] = Height(height, t.child[top][1 - d]) + Black(t, top) /\ Height(height, t.child[top][1 - d]) \in Nat
    BY <2>2, HeightIs
  <2>6. height[top] = height[o] + 0 /\ height[o] \in Nat
    BY <1>1, <1>3, <2>1, <2>3
  <2>7. height[top] = Height(height, mid) + 0 /\ Height(height, mid) \in Nat
    BY <2>1, <2>5
  <2>. HIDE DEF mid
  <2>. QED  BY <2>3, <2>4, <2>6, <2>7, SMTT(20)
<1>8. /\ h \in [Nodes -> Nat] /\ h[top] = height[g] /\ h[g] = height[g] - 1
      /\ \A m \in Nodes : m # g /\ m # top => h[m] = height[m]
  <2>1. height[g] - 1 \in Nat
    BY <1>6, <1>7, SMTT(20)
  <2>. QED  BY <1>1, <1>3, <1>7, <2>1
<1>9. ~IsRed(t, mid)
  BY <1>1, <1>3 DEF RedApart
<1>. HIDE DEF q, b, mid, h, y
<1>10. /\ SameShape(q, q1) /\ \A m \in Nodes : q1.color[m] = IF m = top THEN "Black" ELSE q.color[m]
  BY <1>3, <1>4, PaintEffect, SMTT(20)
<1>. HIDE DEF q1
<1>11. /\ SameShape(q1, r) /\ \A m \in Nodes : r.color[m] = IF m = g THEN "Red" ELSE q1.color[m]
  <2>1. q1 \in Trees /\ r = Paint(q1, g, "Red")
    BY <1>10 DEF SameShape, q1, q
  <2>. QED  BY <1>1, <2>1, PaintEffect
<1>12. /\ r.nodes = t.nodes /\ r.child = q.child
       /\ \A m \in Nodes : r.color[m] = IF m = g THEN "Red" ELSE IF m = top THEN "Black" ELSE t.color[m]
  BY <1>3, <1>4, <1>10, <1>11, SMTT(20) DEF SameShape
<1>13. Good(r, order, b)
  BY <1>5, <1>10, <1>11, SameShapeGood
<1>14. \A m \in Nodes \cup {Nil} : IsRed(r, m) <=> m = g \/ (IsRed(t, m) /\ m # top)
  BY <1>1, <1>3, <1>12 DEF IsRed
<1>15. SameShape(q, r) /\ t.parent[o] = top /\ g # Nil /\ o # Nil /\ mid \in Nodes \cup {Nil} /\ y \in Nodes \cup {Nil}
  <2>1. t.parent[o] = top
    BY <1>1, <1>3, Children, SMTT(20)
  <2>2. mid \in Nodes \cup {Nil} /\ y \in Nodes \cup {Nil}
    BY <1>1, <1>3 DEF mid, y, Trees
  <2>. QED  BY <1>1, <1>10, <1>11, <2>1, <2>2 DEF SameShape
<1>16. RedApart(r, Nil)
  <2>1. /\ \A m \in t.nodes : m # g /\ m # top /\ IsRed(r, m) => IsRed(t, m)
        /\ ~IsRed(r, top) /\ ~IsRed(r, y) /\ ~IsRed(r, mid)
    BY <1>1, <1>3, <1>9, <1>14, <1>15 DEF y
  <2>. QED  BY <1>2, <1>15, <2>1, RotateRed, SMTT(20)
<1>17. EquallyBlack(r, h, Nil, s)
  <2>1. /\ Black(r, top) = 1 /\ Black(r, g) = 0 /\ Black(r, o) = Black(t, o) /\ Black(t, o) \in 0..1
    BY <1>1, <1>3, <1>14 DEF Black
  <2>2. /\ Height(h, o) = height[o] /\ Height(h, mid) = Height(height, mid) /\ Height(h, y) = Height(height, y)
        /\ h[o] = height[o]
    BY <1>3, <1>8, <1>15 DEF Height
  <2>3. h[top] = h[g] + 1 /\ h[top] = Height(h, o) + 1 /\ h[g] = Height(h, mid) + 0 /\ h[g] = Height(h, y) + 0
    <3>1. h[top] = height[g] /\ h[g] = height[g] - 1
      BY <1>8
    <3>2. height[top] = height[g] - 1 /\ Height(height, y) = height[g] - 1
      BY <1>6, <1>7
    <3>3. Height(h, mid) = height[g] - 1 /\ Height(h, y) = height[g] - 1 /\ Height(h, o) = height[g] - 1
      BY <1>7, <2>2, <3>2
    <3>. QED  BY <1>7, <3>1, <3>3
  <2>4. \A m \in t.nodes : m # g /\ m # top => h[m] = height[m] /\ r.color[m] = t.color[m]
    BY <1>1, <1>8, <1>12
  <2>5. LocallyBlack(t, r, height, h, g, 1 - d, top, mid, o, y, Nil, Nil, s)
    BY <1>1, <1>3, <1>8, <1>15, <2>1, <2>2, <2>3, <2>4 DEF LocallyBlack
  <2>. QED  BY <1>2, <1>8, <1>15, <2>5, RotateBlack, SMTT(20)
<1>. QED  BY <1>5, <1>8, <1>12, <1>13, <1>16, <1>17 DEF InsertRepaired

\* The first rotation of insert brings an inner red node to the outside.
LEMMA FixInsertInner ==
  ASSUME NEW t, NEW order, NEW below, NEW height \in [Nodes -> Nat], NEW s, NEW n, NEW d \in 0..1,
         NEW p, NEW q,
         Good(t, order, below), RedApart(t, n), EquallyBlack(t, height, Nil, s),
         p \in t.nodes, n = t.child[p][1 - d], IsRed(t, p), IsRed(t, n),
         q = rotate(t, p, d)
  PROVE  /\ Good(q, order, Rotated(t, below, p, d)) /\ Rotated(t, below, p, d) \in [Nodes -> SUBSET Nodes]
         /\ RedApart(q, p) /\ EquallyBlack(q, height, Nil, s)
         /\ q.nodes = t.nodes /\ q.color = t.color /\ q.child[n][d] = p /\ q \in Trees
         /\ \A m \in t.nodes, e \in 0..1 : t.child[m][e] = p => q.child[m][e] = n
         /\ \A m \in t.nodes, e \in 0..1 : m # p /\ m # n /\ t.child[m][e] # p => q.child[m][e] = t.child[m][e]
<1>. DEFINE mid == t.child[n][d]
            x == t.child[n][1 - d]
            y == t.child[p][d]
            b == Rotated(t, below, p, d)
<1>1. /\ Sound(t, below) /\ 1 - d \in 0..1 /\ 1 - (1 - d) = d /\ n # Nil /\ t \in Trees
      /\ t.nodes \subseteq Nodes /\ p \in Nodes /\ Nil \notin Nodes /\ p # Nil
  BY TreeAssumption DEF Good, SearchTree, Sound, Trees, IsRed
<1>2. Rotation(t, below, p, d, n, mid, x, y, q, b)
  BY <1>1 DEF Rotation
<1>3. /\ n \in t.nodes /\ n # p /\ n \in Nodes /\ t.parent[n] = p
      /\ mid \in Nodes \cup {Nil} /\ x \in Nodes \cup {Nil} /\ y \in Nodes \cup {Nil}
      /\ y # n /\ mid # n /\ x # n /\ mid # p /\ x # p
  <2>1. n \in t.nodes /\ n # p /\ n \in Nodes /\ t.parent[n] = p /\ n # y /\ p \notin below[n]
    BY <1>1, Children
  <2>2. mid \in Nodes \cup {Nil} /\ x \in Nodes \cup {Nil} /\ y \in Nodes \cup {Nil}
    BY <1>1, <2>1 DEF Trees
  <2>3. mid # Nil => mid # n /\ mid \in below[mid] /\ below[mid] \subseteq below[n]
    BY <1>1, <2>1, Children
  <2>4. x # Nil => x # n /\ x \in below[x] /\ below[x] \subseteq below[n]
    BY <1>1, <2>1, Children
  <2>. QED  BY <1>1, <2>1, <2>2, <2>3, <2>4
<1>4. ~IsRed(t, mid) /\ ~IsRed(t, x) /\ ~IsRed(t, y)
  BY <1>1, <1>3 DEF RedApart
<1>5. height[p] = height[n] /\ height[p] = Height(height, y) /\ height[n] \in Nat
  <2>1. Black(t, p) = 0 /\ Height(height, n) = height[n]
    BY <1>1 DEF Black, Height
  <2>. QED  BY <1>1, <1>3, <2>1, HeightIs
<1>6. height[n] = Height(height, mid) /\ height[n] = Height(height, x)
  <2>1. Black(t, n) = 0
    BY <1>1 DEF Black
  <2>. QED  BY <1>1, <1>3, <2>1, HeightIs
<1>. HIDE DEF mid, x, y, b
<1>7. /\ q \in Trees /\ q.nodes = t.nodes /\ q.color = t.color
      /\ q.child[p][d] = y /\ q.child[p][1 - d] = mid
      /\ q.child[n][d] = p /\ q.child[n][1 - d] = x
      /\ \A m \in t.nodes \ {p, n}, e \in 0..1 :
           q.child[m][e] = IF t.child[m][e] = p THEN n ELSE t.child[m][e]
  BY <1>2, RotateEffect
<1>8. Good(q, order, b) /\ b \in [Nodes -> SUBSET Nodes]
  BY <1>2, RotateGood
<1>9. SameShape(q, q)
  BY <1>7 DEF SameShape
<1>10. \A m \in Nodes \cup {Nil} : IsRed(q, m) <=> IsRed(t, m)
  BY <1>7 DEF IsRed
<1>11. RedApart(q, p)
  <2>1. ~IsRed(q, mid) /\ ~IsRed(q, x) /\ ~IsRed(q, y)
    BY <1>3, <1>4, <1>10
  <2>2. \A m \in t.nodes : m # p /\ m # n /\ IsRed(q, m) => IsRed(t, m)
    BY <1>1, <1>10
  <2>. QED  BY <1>2, <1>3, <1>9, <2>1, <2>2, RotateRed
<1>12. EquallyBlack(q, height, Nil, s)
  <2>1. Black(q, n) = 0 /\ Black(q, p) = 0 /\ (x # Nil => Black(q, x) = Black(t, x))
    BY <1>1, <1>3, <1>10 DEF Black
  <2>2. /\ height[n] = height[p] + 0 /\ height[n] = Height(height, x) + 0
        /\ height[p] = Height(height, mid) + 0 /\ height[p] = Height(height, y) + 0
    <3>1. \A k \in Nat : k = k + 0
      OBVIOUS
    <3>. QED  BY <1>5, <1>6, <3>1
  <2>3. LocallyBlack(t, q, height, height, p, d, n, mid, x, y, Nil, Nil, s)
    BY <1>1, <1>3, <1>5, <1>7, <2>1, <2>2 DEF LocallyBlack
  <2>. QED  BY <1>1, <1>2, <1>9, <2>3, RotateBlack
<1>13. \A m \in t.nodes, e \in 0..1 : t.child[m][e] = p => q.child[m][e] = n
  <2>. SUFFICES ASSUME NEW m \in t.nodes, NEW e \in 0..1, t.child[m][e] = p
                PROVE  q.child[m][e] = n
    OBVIOUS
  <2>1. m # p /\ m \notin below[p]
    BY <1>1, Children
  <2>2. n \in below[p]
    <3>1. n \in below[n] /\ below[n] \subseteq below[p]
      BY <1>1, Children
    <3>. QED  BY <3>1
  <2>. QED  BY <1>7, <2>1, <2>2
<1>. QED  BY <1>7, <1>8, <1>11, <1>12, <1>13 DEF b

\* Recolouring moves the red pair two levels up, or ends the repair at the
\* root.
LEMMA FixInsertRecolor ==
  ASSUME NEW t, NEW order, NEW below \in [Nodes -> SUBSET Nodes], NEW height \in [Nodes -> Nat], NEW s, NEW n, NEW d \in 0..1,
         NEW p, NEW g, NEW uncle, NEW r,
         Good(t, order, below), RedApart(t, n), EquallyBlack(t, height, Nil, s),
         g \in t.nodes, p = t.child[g][d], uncle = t.child[g][1 - d], p = t.parent[n], n \in t.nodes, n # t.root,
         ~IsRed(t, g), IsRed(t, p), IsRed(t, uncle),
         r = Paint(Paint(Paint(t, p, "Black"), uncle, "Black"), g, "Red")
  PROVE  InsertRepaired(t, order, s, r, IF t.parent[g] # Nil THEN g ELSE Nil)
<1>. DEFINE r1 == Paint(t, p, "Black")
            r2 == Paint(r1, uncle, "Black")
            h == [height EXCEPT ![p] = height[p] + 1, ![uncle] = height[uncle] + 1]
<1>1. /\ Sound(t, below) /\ 1 - d \in 0..1 /\ 1 - (1 - d) = d /\ p # Nil /\ uncle # Nil /\ t \in Trees
      /\ t.nodes \subseteq Nodes /\ g \in Nodes /\ Nil \notin Nodes
  BY TreeAssumption DEF Good, SearchTree, Sound, Trees, IsRed
<1>2. p \in t.nodes /\ p # g /\ t.parent[p] = g /\ p # uncle /\ uncle \in t.nodes /\ uncle # g /\ t.parent[uncle] = g
  <2>1. p \in t.nodes /\ p # g /\ t.parent[p] = g /\ p # uncle
    <3>1. ASSUME NEW c, c = t.child[g][d], c # Nil
          PROVE  c \in t.nodes /\ c # g /\ t.parent[c] = g /\ c # t.child[g][1 - d]
      BY <1>1, <3>1, Children
    <3>. QED  BY <1>1, <3>1
  <2>2. uncle \in t.nodes /\ uncle # g /\ t.parent[uncle] = g
    BY <1>1, Children
  <2>. QED  BY <2>1, <2>2
<1>3. SameShape(t, r1) /\ \A m \in Nodes : r1.color[m] = IF m = p THEN "Black" ELSE t.color[m]
  BY <1>1, <1>2, PaintEffect
<1>. HIDE DEF r1
<1>4. SameShape(r1, r2) /\ \A m \in Nodes : r2.color[m] = IF m = uncle THEN "Black" ELSE r1.color[m]
  <2>1. r1 \in Trees /\ uncle \in Nodes
    BY <1>1, <1>2, <1>3 DEF SameShape
  <2>. QED  BY <2>1, PaintEffect
<1>. HIDE DEF r2
<1>5. SameShape(r2, r) /\ \A m \in Nodes : r.color[m] = IF m = g THEN "Red" ELSE r2.color[m]
  <2>1. r = Paint(r2, g, "Red") /\ r2 \in Trees
    BY <1>4 DEF SameShape, r1, r2
  <2>. QED  BY <1>1, <2>1, PaintEffect
<1>6. SameShape(t, r) /\ r.child = t.child /\ r.nodes = t.nodes /\ r.root = t.root /\ r \in Trees
  BY <1>3, <1>4, <1>5 DEF SameShape
<1>7. Good(r, order, below)
  BY <1>6, SameShapeGood
<1>8. \A m \in Nodes \cup {Nil} : IsRed(r, m) <=> m = g \/ (IsRed(t, m) /\ m # p /\ m # uncle)
  BY <1>1, <1>2, <1>3, <1>4, <1>5 DEF IsRed
<1>9. \A e \in 0..1 : e = d \/ e = 1 - d
  OBVIOUS
<1>10. /\ h \in [Nodes -> Nat] /\ h[p] = height[p] + 1 /\ h[uncle] = height[uncle] + 1
       /\ \A m \in Nodes : m # p /\ m # uncle => h[m] = height[m]
  BY <1>1, <1>2
<1>. HIDE DEF h
<1>11. RedApart(r, IF t.parent[g] # Nil THEN g ELSE Nil)
  <2>. SUFFICES ASSUME NEW m \in t.nodes, NEW e \in 0..1, IsRed(r, m), IsRed(r, t.child[m][e])
                PROVE  t.child[m][e] = IF t.parent[g] # Nil THEN g ELSE Nil
    BY <1>6, SMTT(20) DEF RedApart
  <2>1. t.child[m][e] # Nil
    BY DEF IsRed
  <2>2. t.child[m][e] \in t.nodes /\ t.parent[t.child[m][e]] = m /\ m # Nil
    BY <1>1, <2>1, Children
  <2>3. CASE t.child[m][e] = g
    BY <2>2, <2>3
  <2>4. CASE t.child[m][e] # g
    <3>1. IsRed(t, t.child[m][e]) /\ t.child[m][e] # p /\ t.child[m][e] # uncle
      BY <1>1, <1>8, <2>2, <2>4
    <3>2. m # g
      BY <1>9, <3>1
    <3>3. IsRed(t, m) /\ m # p
      BY <1>1, <1>8, <3>2
    <3>4. t.child[m][e] = n
      BY <3>1, <3>3 DEF RedApart
    <3>. QED  BY <2>2, <3>3, <3>4
  <2>. QED  BY <2>3, <2>4
<1>12. EquallyBlack(r, h, Nil, s)
  <2>. SUFFICES ASSUME NEW m \in t.nodes, NEW e \in 0..1
                PROVE  h[m] = Height(h, t.child[m][e]) + Black(r, m)
    <3>1. Nil \notin r.nodes
      BY <1>1, <1>6
    <3>. QED  BY <1>6, <1>10, <3>1, HeightsAre
  <2>0. /\ height[m] = Height(height, t.child[m][e]) + Black(t, m)
        /\ height[m] \in Nat /\ Height(height, t.child[m][e]) \in Nat
    BY <1>1, HeightIs
  <2>00. m \in Nodes /\ m # Nil /\ t.child[m][e] \in Nodes \cup {Nil}
    BY <1>1 DEF Trees
  <2>1. CASE m = g
    <3>1. t.child[m][e] = p \/ t.child[m][e] = uncle
      BY <1>9, <2>1
    <3>2. Black(t, m) = 1 /\ Black(r, m) = 0 /\ h[m] = height[m]
      BY <1>1, <1>2, <1>8, <1>10, <2>1 DEF Black
    <3>3. Height(h, t.child[m][e]) = Height(height, t.child[m][e]) + 1
      BY <1>1, <1>10, <3>1 DEF Height
    <3>. QED  BY <2>0, <3>2, <3>3
  <2>2. CASE m # g
    <3>1. Height(h, t.child[m][e]) = Height(height, t.child[m][e])
      <4>1. t.child[m][e] # p /\ t.child[m][e] # uncle
        <5>1. t.child[m][e] # Nil => t.parent[t.child[m][e]] = m
          BY <1>1, Children
        <5>. QED  BY <1>1, <1>2, <2>2, <5>1
      <4>. QED  BY <1>10, <2>00, <4>1 DEF Height
    <3>2. CASE m = p \/ m = uncle
      <4>1. Black(t, m) = 0 /\ Black(r, m) = 1 /\ h[m] = height[m] + 1
        BY <1>2, <1>8, <1>10, <2>00, <3>2 DEF Black
      <4>. QED  BY <2>0, <3>1, <4>1
    <3>3. CASE m # p /\ m # uncle
      <4>1. Black(t, m) = Black(r, m) /\ h[m] = height[m]
        BY <1>8, <1>10, <2>00, <2>2, <3>3 DEF Black
      <4>. QED  BY <2>0, <3>1, <4>1
    <3>. QED  BY <3>2, <3>3
  <2>. QED  BY <2>1, <2>2
<1>13. t.parent[g] # Nil => g \in r.nodes /\ g # r.root /\ IsRed(r, g)
  BY <1>1, <1>6, <1>8 DEF Sound, LinksAgree
<1>. QED  BY <1>6, <1>7, <1>10, <1>11, <1>12, <1>13 DEF InsertRepaired

\* One turn of insert's repair loop: the tree is repaired, or only the next
\* node may still have a red parent; none of the assertions of the turn
\* fails.
LEMMA FixInsertTurn ==
  ASSUME NEW t, NEW order, NEW below \in [Nodes -> SUBSET Nodes], NEW height \in [Nodes -> Nat], NEW s, NEW n,
         Good(t, order, below), RedApart(t, n), EquallyBlack(t, height, Nil, s),
         n \in t.nodes, n # t.root, IsRed(t, n)
  PROVE  InsertRepaired(t, order, s, FixInsertBody(t, n), FixInsertNext(t, n))
<1>. DEFINE p == t.parent[n]
            g == t.parent[p]
            d == Side(t, p)
            uncle == t.child[g][1 - d]
            inner == Side(t, n) # d
            r == FixInsertBody(t, n)
            next == FixInsertNext(t, n)
<1>. SUFFICES InsertRepaired(t, order, s, r, next)
  OBVIOUS
<1>1. Sound(t, below) /\ t \in Trees /\ LinksAgree(t) /\ t.nodes \subseteq Nodes /\ Nil \notin Nodes
  BY TreeAssumption DEF Good, SearchTree, Sound, Trees
<1>2. p \in t.nodes /\ p # Nil /\ Side(t, n) \in 0..1 /\ t.child[p][Side(t, n)] = n /\ p # n
  <2>1. p \in t.nodes /\ p # Nil /\ Side(t, n) \in 0..1 /\ t.child[p][Side(t, n)] = n
    BY <1>1, SideIs
  <2>2. n # Nil
    BY <1>1
  <2>. QED  BY <1>1, <2>1, <2>2, Children
<1>3. Check(t, IsRed(t, n) /\ t.child[p][Side(t, n)] = n) = t
  BY <1>1, <1>2, CheckTrue
<1>4. CASE ~IsRed(t, p)
  <2>1. r = t /\ next = Nil
    BY <1>3, <1>4 DEF FixInsertBody, FixInsertNext
  <2>2. RedApart(t, Nil)
    <3>. SUFFICES ASSUME NEW m \in t.nodes, NEW e \in 0..1, IsRed(t, m), IsRed(t, t.child[m][e])
                  PROVE  FALSE
      BY DEF RedApart
    <3>1. t.child[m][e] = n /\ n # Nil
      BY DEF RedApart, IsRed
    <3>2. t.parent[n] = m
      BY <1>1, <3>1 DEF LinksAgree
    <3>. QED  BY <1>4, <3>2
  <2>. HIDE DEF r, next
  <2>. QED  BY <2>1, <2>2 DEF InsertRepaired
<1>5. CASE IsRed(t, p) /\ g = Nil
  <2>. DEFINE h == [height EXCEPT ![p] = height[p] + 1]
  <2>1. r = Paint(t, p, "Black") /\ next = Nil
    BY <1>3, <1>5 DEF FixInsertBody, FixInsertNext
  <2>2. /\ SameShape(t, r) /\ \A m \in Nodes : r.color[m] = IF m = p THEN "Black" ELSE t.color[m]
    BY <1>1, <1>2, <2>1, PaintEffect
  <2>. HIDE DEF r, next
  <2>3. Good(r, order, below) /\ r.nodes = t.nodes /\ r.child = t.child /\ r \in Trees
    BY <2>2, SameShapeGood DEF SameShape
  <2>4. \A m \in Nodes \cup {Nil} : IsRed(r, m) <=> IsRed(t, m) /\ m # p
    BY <1>1, <1>2, <2>2 DEF IsRed
  <2>5. \A m \in t.nodes, e \in 0..1 : t.child[m][e] # p
    BY <1>1, <1>2, <1>5 DEF LinksAgree
  <2>6. h \in [Nodes -> Nat] /\ h[p] = height[p] + 1 /\ \A m \in Nodes : m # p => h[m] = height[m]
    BY <1>1, <1>2
  <2>. HIDE DEF h
  <2>7. RedApart(r, Nil)
    <3>. SUFFICES ASSUME NEW m \in t.nodes, NEW e \in 0..1, IsRed(r, m), IsRed(r, t.child[m][e])
                  PROVE  FALSE
      BY <2>3 DEF RedApart
    <3>1. t.child[m][e] \in Nodes \cup {Nil}
      BY <1>1 DEF Trees
    <3>2. IsRed(t, m) /\ IsRed(t, t.child[m][e]) /\ m # p
      BY <1>1, <2>4, <3>1
    <3>3. t.child[m][e] = n /\ n # Nil
      BY <3>2 DEF RedApart, IsRed
    <3>4. t.parent[n] = m
      BY <1>1, <3>3 DEF LinksAgree
    <3>. QED  BY <3>2, <3>4
  <2>8. EquallyBlack(r, h, Nil, s)
    <3>. SUFFICES ASSUME NEW m \in t.nodes, NEW e \in 0..1
                  PROVE  h[m] = Height(h, t.child[m][e]) + Black(r, m)
      <4>1. Nil \notin r.nodes
        BY <1>1, <2>3
      <4>. QED  BY <2>3, <2>6, <4>1, HeightsAre
    <3>1. /\ height[m] = Height(height, t.child[m][e]) + Black(t, m)
          /\ height[m] \in Nat /\ Height(height, t.child[m][e]) \in Nat
      BY <1>1, HeightIs
    <3>2. m \in Nodes /\ m # Nil /\ t.child[m][e] \in Nodes \cup {Nil}
      BY <1>1 DEF Trees
    <3>3. Height(h, t.child[m][e]) = Height(height, t.child[m][e])
      BY <2>5, <2>6, <3>2 DEF Height
    <3>4. CASE m = p
      <4>1. Black(t, m) = 0 /\ Black(r, m) = 1 /\ h[m] = height[m] + 1
        BY <1>5, <2>4, <2>6, <3>2, <3>4 DEF Black
      <4>. QED  BY <3>1, <3>3, <4>1
    <3>5. CASE m # p
      <4>1. Black(t, m) = Black(r, m) /\ h[m] = height[m]
        BY <2>4, <2>6, <3>2, <3>5 DEF Black
      <4>. QED  BY <3>1, <3>3, <4>1
    <3>. QED  BY <3>4, <3>5
  <2>. QED  BY <2>1, <2>3, <2>6, <2>7, <2>8 DEF InsertRepaired
<1>6. CASE IsRed(t, p) /\ g # Nil
  <2>1. p # t.root
    BY <1>1, <1>2, <1>6 DEF LinksAgree
  <2>2. g \in t.nodes /\ d \in 0..1 /\ t.child[g][d] = p /\ t.child[g][1 - d] # p /\ 1 - d \in 0..1
    BY <1>1, <1>2, <2>1, SideIs
  <2>3. ~IsRed(t, g)
    BY <1>2, <1>6, <2>2 DEF RedApart
  <2>4. Check(t, t.child[g][d] = p /\ ~IsRed(t, g)) = t
    BY <1>1, <2>2, <2>3, CheckTrue
  <2>5. CASE IsRed(t, uncle)
    <3>1. r = Paint(Paint(Paint(t, p, "Black"), uncle, "Black"), g, "Red")
      BY <1>3, <1>6, <2>4, <2>5 DEF FixInsertBody
    <3>2. next = IF t.parent[g] # Nil THEN g ELSE Nil
      BY <1>6, <2>5 DEF FixInsertNext
    <3>. HIDE DEF r, next, g, d, uncle
    <3>3. uncle = t.child[g][1 - d]
      BY DEF uncle
    <3>. HIDE DEF p
    <3>4. p = t.parent[n]
      BY DEF p
    <3>. QED  BY <1>6, <2>2, <2>3, <2>5, <3>1, <3>2, <3>3, <3>4, FixInsertRecolor
  <2>6. CASE ~IsRed(t, uncle)
    <3>1. next = Nil
      BY <2>6 DEF FixInsertNext
    <3>2. CASE ~inner
      <4>1. r = Paint(Paint(rotate(t, g, 1 - d), p, "Black"), g, "Red")
        BY <1>3, <1>6, <2>4, <2>6, <3>2 DEF FixInsertBody
      <4>2. t.child[p][d] = n
        BY <1>2, <3>2
      <4>3. ~IsRed(t, t.child[g][1 - d])
        BY <2>6
      <4>. HIDE DEF r, next, g, d, uncle, p
      <4>. QED  BY <1>6, <2>2, <2>3, <3>1, <4>1, <4>2, <4>3, FixInsertOuter
    <3>3. CASE inner
      <4>. DEFINE q == rotate(t, p, d)
                  b == Rotated(t, below, p, d)
      <4>1. r = Paint(Paint(rotate(q, g, 1 - d), n, "Black"), g, "Red")
        BY <1>3, <1>6, <2>4, <2>6, <3>3 DEF FixInsertBody
      <4>2. n = t.child[p][1 - d]
        BY <1>2, <2>2, <3>3
      <4>3. g # p /\ g # n
        <5>1. g # p /\ g \notin below[p]
          BY <1>1, <1>2, <2>2, Children
        <5>2. n \in below[p]
          <6>1. n # Nil
            BY <1>1
          <6>2. below[n] \subseteq below[p] /\ n \in below[n]
            BY <1>1, <1>2, <6>1, Children
          <6>. QED  BY <6>2
        <5>. QED  BY <5>1, <5>2
      <4>4. ~IsRed(t, t.child[g][1 - d])
        BY <2>6
      <4>. HIDE DEF r, next, g, d, uncle, p, q, b
      <4>5. q = rotate(t, p, d) /\ b = Rotated(t, below, p, d)
        BY DEF q, b
      <4>6. /\ Good(q, order, b) /\ b \in [Nodes -> SUBSET Nodes]
            /\ RedApart(q, p) /\ EquallyBlack(q, height, Nil, s)
            /\ q.nodes = t.nodes /\ q.color = t.color /\ q.child[n][d] = p /\ q \in Trees
            /\ \A m \in t.nodes, e \in 0..1 : t.child[m][e] = p => q.child[m][e] = n
            /\ \A m \in t.nodes, e \in 0..1 : m # p /\ m # n /\ t.child[m][e] # p => q.child[m][e] = t.child[m][e]
        BY <1>2, <1>6, <2>2, <4>2, <4>5, FixInsertInner
      <4>7. q.child[g][d] = n /\ q.child[g][1 - d] = t.child[g][1 - d]
        BY <2>2, <4>3, <4>6
      <4>8. ~IsRed(q, g) /\ IsRed(q, n) /\ IsRed(q, p) /\ ~IsRed(q, q.child[g][1 - d])
        BY <1>6, <2>3, <4>4, <4>6, <4>7 DEF IsRed
      <4>9. InsertRepaired(q, order, s, r, Nil)
        BY <2>2, <4>1, <4>6, <4>7, <4>8, FixInsertOuter
      <4>. QED  BY <3>1, <4>6, <4>9 DEF InsertRepaired
    <3>. QED  BY <3>2, <3>3
  <2>. QED  BY <2>5, <2>6
<1>. QED  BY <1>4, <1>5, <1>6
-----------------------------------------------------------------------------

\* The subtree of p on the side s is one black node short.
Short(t, order, below, height, p, s) ==
  /\ Good(t, order, below) /\ RedApart(t, Nil) /\ EquallyBlack(t, height, p, s)
  /\ below \in [Nodes -> SUBSET Nodes] /\ height \in [Nodes -> Nat]
  /\ p \in t.nodes /\ s \in 0..1 /\ ~IsRed(t, t.child[p][s])

\* What the repair of a removal establishes.
RemoveRepaired(t, order, r, next, s) ==
  /\ r.nodes = t.nodes
  /\ \E b \in [Nodes -> SUBSET Nodes], h \in [Nodes -> Nat] :
       Good(r, order, b) /\ RedApart(r, Nil) /\ EquallyBlack(r, h, next, s)
  /\ next # Nil => next \in r.nodes /\ s \in 0..1 /\ ~IsRed(r, r.child[next][s])

\* The children of p, and those of the one that is not short.
Family(t, p, s, sib, short, close, distant) ==
  /\ sib = t.child[p][1 - s] /\ short = t.child[p][s]
  /\ close = t.child[sib][s] /\ distant = t.child[sib][1 - s]

\* Next to a subtree that is short there is a sibling; the heights of the
\* family.
LEMMA ShortFacts ==
  ASSUME NEW t, NEW order, NEW below, NEW height, NEW p, NEW s, Short(t, order, below, height, p, s),
         NEW sib, NEW short, NEW close, NEW distant, Family(t, p, s, sib, short, close, distant)
  PROVE  /\ Sound(t, below) /\ t \in Trees /\ t.nodes \subseteq Nodes /\ Nil \notin Nodes
         /\ 1 - s \in 0..1 /\ 1 - (1 - s) = s /\ s # 1 - s /\ p # Nil /\ p \in Nodes
         /\ sib # Nil /\ sib \in t.nodes /\ sib \in Nodes /\ sib # p /\ sib # short /\ short # p
         /\ close # sib /\ distant # sib /\ close # p /\ distant # p
         /\ short \in Nodes \cup {Nil} /\ close \in Nodes \cup {Nil} /\ distant \in Nodes \cup {Nil}
         /\ close # Nil => close \in t.nodes /\ close # distant /\ t.parent[close] = sib
         /\ distant # Nil => distant \in t.nodes /\ close # distant /\ t.parent[distant] = sib
         /\ height[sib] \in Nat /\ height[p] \in Nat /\ Height(height, short) \in Nat
         /\ Height(height, close) \in Nat /\ Height(height, distant) \in Nat
         /\ Black(t, p) \in 0..1 /\ Black(t, sib) \in 0..1
         /\ height[sib] = Height(height, short) + 1
         /\ height[p] = height[sib] + Black(t, p)
         /\ height[sib] = Height(height, close) + Black(t, sib)
         /\ height[sib] = Height(height, distant) + Black(t, sib)
<1>1. /\ Sound(t, below) /\ t \in Trees /\ t.nodes \subseteq Nodes /\ Nil \notin Nodes
      /\ p \in t.nodes /\ s \in 0..1 /\ height \in [Nodes -> Nat] /\ EquallyBlack(t, height, p, s)
  BY TreeAssumption DEF Short, Good, SearchTree, Sound, Trees
<1>0. /\ sib = t.child[p][1 - s] /\ short = t.child[p][s]
      /\ close = t.child[sib][s] /\ distant = t.child[sib][1 - s]
  BY DEF Family
<1>2. 1 - s \in 0..1 /\ 1 - (1 - s) = s /\ s # 1 - s /\ p # Nil /\ p \in Nodes
  BY <1>1
<1>3. /\ height[p] \in Nat /\ Height(height, short) \in Nat /\ Height(height, sib) \in Nat /\ Black(t, p) \in 0..1
      /\ height[p] = Height(height, short) + Black(t, p) + 1
      /\ height[p] = Height(height, sib) + Black(t, p)
  BY <1>0, <1>1, <1>2, HeightIs
<1>4. sib # Nil /\ Height(height, sib) = height[sib] /\ Height(height, sib) = Height(height, short) + 1
  <2>1. Height(height, sib) = Height(height, short) + 1
    BY <1>3
  <2>. QED  BY <1>3, <2>1 DEF Height
<1>5. sib \in t.nodes /\ sib # p /\ p \notin below[sib] /\ sib # short
  BY <1>0, <1>1, <1>2, <1>4, Children
<1>6. short # Nil => short # p
  BY <1>0, <1>1, Children
<1>7. close # Nil => close # sib /\ close \in below[sib] /\ close \in t.nodes /\ close # distant /\ t.parent[close] = sib
  <2>1. close # Nil => /\ close # sib /\ close \in t.nodes /\ close # distant /\ t.parent[close] = sib
                       /\ close \in below[close] /\ below[close] \subseteq below[sib]
    <3>1. SUFFICES ASSUME close # Nil
                   PROVE  /\ close # sib /\ close \in t.nodes /\ close # distant /\ t.parent[close] = sib
                          /\ close \in below[close] /\ below[close] \subseteq below[sib]
      OBVIOUS
    <3>2. Sound(t, below) /\ sib \in t.nodes /\ s \in 0..1 /\ close = t.child[sib][s]
      BY <1>0, <1>1, <1>2, <1>5
    <3>3. /\ close \in t.nodes /\ t.parent[close] = sib /\ close # sib /\ close # t.child[sib][1 - s]
          /\ close \in below[close] /\ below[close] \subseteq below[sib]
      BY <3>1, <3>2, Children
    <3>. QED  BY <1>0, <1>2, <3>3
  <2>. QED  BY <2>1
<1>8. distant # Nil => distant # sib /\ distant \in below[sib] /\ distant \in t.nodes /\ close # distant /\ t.parent[distant] = sib
  <2>1. distant # Nil => /\ distant # sib /\ distant \in t.nodes /\ close # distant /\ t.parent[distant] = sib
                         /\ distant \in below[distant] /\ below[distant] \subseteq below[sib]
    <3>1. SUFFICES ASSUME distant # Nil
                   PROVE  /\ distant # sib /\ distant \in t.nodes /\ close # distant /\ t.parent[distant] = sib
                          /\ distant \in below[distant] /\ below[distant] \subseteq below[sib]
      OBVIOUS
    <3>2. Sound(t, below) /\ sib \in t.nodes /\ 1 - s \in 0..1 /\ distant = t.child[sib][1 - s]
      BY <1>0, <1>1, <1>2, <1>5
    <3>3. /\ distant \in t.nodes /\ t.parent[distant] = sib /\ distant # sib /\ distant # t.child[sib][1 - (1 - s)]
          /\ distant \in below[distant] /\ below[distant] \subseteq below[sib]
      BY <3>1, <3>2, Children
    <3>. QED  BY <1>0, <1>2, <3>3
  <2>. QED  BY <2>1
<1>9. short \in Nodes \cup {Nil} /\ close \in Nodes \cup {Nil} /\ distant \in Nodes \cup {Nil}
  BY <1>0, <1>1, <1>2, <1>5 DEF Trees
<1>10. /\ height[sib] \in Nat /\ Height(height, close) \in Nat /\ Height(height, distant) \in Nat
       /\ Black(t, sib) \in 0..1
       /\ height[sib] = Height(height, close) + Black(t, sib)
       /\ height[sib] = Height(height, distant) + Black(t, sib)
  BY <1>0, <1>1, <1>2, <1>5, HeightIs, SMTT(20)
<1>11. sib \in Nodes /\ (close # Nil => close # p) /\ (distant # Nil => distant # p)
  BY <1>0, <1>1, <1>5, <1>7, <1>8
<1>12. sib # Nil /\ p # Nil /\ short # p /\ close # sib /\ distant # sib /\ close # p /\ distant # p
  BY <1>2, <1>4, <1>6, <1>7, <1>8, <1>11
<1>13. height[sib] = Height(height, short) + 1 /\ height[p] = height[sib] + Black(t, p)
  BY <1>3, <1>4
<1>. QED  BY <1>0, <1>1, <1>2, <1>3, <1>5, <1>7, <1>8, <1>9, <1>10, <1>11, <1>12, <1>13, Zenon

\* remove, red sibling: none of the arms marked unreachable is reached, and
\* the rotation leaves p short with a black sibling.
LEMMA FixRemoveRed ==
  ASSUME NEW t, NEW order, NEW below, NEW height, NEW p, NEW s, Short(t, order, below, height, p, s),
         NEW sib, NEW short, NEW close, NEW distant, Family(t, p, s, sib, short, close, distant),
         IsRed(t, sib)
  PROVE  /\ RemoveRepaired(t, order, Paint(Paint(rotate(t, p, s), p, "Red"), sib, "Black"), p, s)
         /\ close # Nil /\ distant # Nil /\ ~IsRed(t, p) /\ ~IsRed(t, close) /\ ~IsRed(t, distant)
<1>. DEFINE q == rotate(t, p, s)
            b == Rotated(t, below, p, s)
            r == Paint(Paint(q, p, "Red"), sib, "Black")
            h == [height EXCEPT ![sib] = height[p], ![p] = height[p] - 1]
<1>0. /\ sib = t.child[p][1 - s] /\ short = t.child[p][s]
      /\ close = t.child[sib][s] /\ distant = t.child[sib][1 - s]
  BY DEF Family
<1>1. /\ Sound(t, below) /\ t \in Trees /\ t.nodes \subseteq Nodes /\ Nil \notin Nodes
      /\ 1 - s \in 0..1 /\ 1 - (1 - s) = s /\ s # 1 - s /\ p # Nil /\ p \in Nodes
      /\ sib # Nil /\ sib \in t.nodes /\ sib \in Nodes /\ sib # p /\ sib # short /\ short # p
      /\ close # sib /\ distant # sib /\ close # p /\ distant # p
      /\ short \in Nodes \cup {Nil} /\ close \in Nodes \cup {Nil} /\ distant \in Nodes \cup {Nil}
  BY ShortFacts
<1>2. /\ height[sib] \in Nat /\ height[p] \in Nat /\ Height(height, short) \in Nat
      /\ Height(height, close) \in Nat /\ Height(height, distant) \in Nat
      /\ height[sib] = Height(height, short) + 1
      /\ height[p] = height[sib] + Black(t, p)
      /\ height[sib] = Height(height, close) + Black(t, sib)
      /\ height[sib] = Height(height, distant) + Black(t, sib)
      /\ Black(t, p) \in 0..1
  BY ShortFacts
<1>3. /\ Good(t, order, below) /\ RedApart(t, Nil) /\ EquallyBlack(t, height, p, s) /\ height \in [Nodes -> Nat]
      /\ p \in t.nodes /\ s \in 0..1 /\ ~IsRed(t, short)
  BY <1>0 DEF Short
<1>4. ~IsRed(t, p) /\ ~IsRed(t, close) /\ ~IsRed(t, distant)
  BY <1>0, <1>1, <1>3 DEF RedApart, IsRed
<1>5. Black(t, p) = 1 /\ Black(t, sib) = 0
  BY <1>4 DEF Black
<1>6. /\ height[p] - 1 = height[sib] /\ height[sib] = Height(height, close) /\ height[sib] = Height(height, distant)
  <2>1. height[p] = height[sib] + 1 /\ height[sib] = Height(height, close) + 0 /\ height[sib] = Height(height, distant) + 0
    BY <1>2, <1>5
  <2>. QED  BY <1>2, <2>1
<1>7. close # Nil /\ distant # Nil
  BY <1>2, <1>6 DEF Height
<1>8. Rotation(t, below, p, s, sib, close, distant, short, q, b)
  BY <1>0, <1>1, <1>3 DEF Rotation
<1>9. /\ h \in [Nodes -> Nat] /\ h[sib] = height[p] /\ h[p] = height[p] - 1
      /\ \A m \in Nodes : m # p /\ m # sib => h[m] = height[m]
  <2>1. height[p] - 1 \in Nat
    BY <1>2, <1>6
  <2>. QED  BY <1>1, <1>2, <1>3, <2>1
<1>. HIDE DEF q, b, h
<1>10. q \in Trees /\ q.nodes = t.nodes /\ q.color = t.color /\ q.child[p][s] = short
  BY <1>8, RotateEffect
<1>11. Good(q, order, b) /\ b \in [Nodes -> SUBSET Nodes]
  BY <1>3, <1>8, RotateGood
<1>12. /\ SameShape(q, r)
       /\ \A m \in Nodes : r.color[m] = IF m = sib THEN "Black" ELSE IF m = p THEN "Red" ELSE q.color[m]
  BY <1>1, <1>10, Paint2, SMTT(20)
<1>. HIDE DEF r
<1>13. r.nodes = t.nodes /\ r.child = q.child
  BY <1>10, <1>12 DEF SameShape
<1>14. Good(r, order, b)
  BY <1>11, <1>12, SameShapeGood
<1>15. \A m \in Nodes \cup {Nil} : IsRed(r, m) <=> m = p \/ (IsRed(t, m) /\ m # sib)
  BY <1>1, <1>10, <1>12 DEF IsRed
<1>16. RedApart(r, Nil)
  <2>1. /\ \A m \in t.nodes : m # p /\ m # sib /\ IsRed(r, m) => IsRed(t, m)
        /\ ~IsRed(r, sib) /\ ~IsRed(r, short) /\ ~IsRed(r, close)
    BY <1>1, <1>3, <1>4, <1>15
  <2>. QED  BY <1>3, <1>8, <1>12, <2>1, RotateRed
<1>17. EquallyBlack(r, h, p, s)
  <2>1. Black(r, sib) = 1 /\ Black(r, p) = 0 /\ Black(r, distant) = Black(t, distant)
    BY <1>1, <1>15 DEF Black
  <2>2. /\ Height(h, distant) = Height(height, distant) /\ Height(h, close) = Height(height, close)
        /\ Height(h, short) = Height(height, short) /\ h[distant] = height[distant]
    BY <1>1, <1>7, <1>9 DEF Height
  <2>3. h[sib] = h[p] + 1
    BY <1>2, <1>9
  <2>4. h[p] = height[sib]
    BY <1>6, <1>9
  <2>5. h[sib] = Height(h, distant) + 1 /\ h[p] = Height(h, close) + 0 /\ h[p] = Height(h, short) + 0 + 1
    <3>1. \A k \in Nat : k + 0 = k
      OBVIOUS
    <3>2. Height(h, distant) = h[p] /\ Height(h, close) = h[p] /\ h[p] \in Nat
      BY <1>2, <1>6, <2>2, <2>4
    <3>3. h[p] = Height(h, short) + 1 /\ Height(h, short) \in Nat
      BY <1>2, <2>2, <2>4
    <3>. QED  BY <2>3, <3>1, <3>2, <3>3
  <2>6. \A m \in t.nodes : m # p /\ m # sib => h[m] = height[m] /\ r.color[m] = t.color[m]
    BY <1>1, <1>9, <1>10, <1>12
  <2>7. LocallyBlack(t, r, height, h, p, s, sib, close, distant, short, p, p, s)
    BY <1>1, <1>9, <2>1, <2>2, <2>3, <2>5, <2>6 DEF LocallyBlack
  <2>. QED  BY <1>3, <1>8, <1>9, <1>12, <2>7, RotateBlack
<1>18. ~IsRed(r, r.child[p][s])
  BY <1>1, <1>3, <1>10, <1>13, <1>15
<1>19. RemoveRepaired(t, order, r, p, s)
  BY <1>3, <1>9, <1>11, <1>13, <1>14, <1>16, <1>17, <1>18 DEF RemoveRepaired
<1>. QED  BY <1>4, <1>7, <1>19 DEF r, q

\* remove, red distant nephew: the rotation ends the repair.
LEMMA FixRemoveDistant ==
  ASSUME NEW t, NEW order, NEW below, NEW height, NEW p, NEW s, Short(t, order, below, height, p, s),
         NEW sib, NEW short, NEW close, NEW distant, Family(t, p, s, sib, short, close, distant),
         ~IsRed(t, sib), IsRed(t, distant)
  PROVE  RemoveRepaired(t, order,
           Paint(Paint(Paint(rotate(t, p, s), sib, t.color[p]), p, "Black"), distant, "Black"), Nil, s)
<1>. DEFINE q == rotate(t, p, s)
            b == Rotated(t, below, p, s)
            r == Paint(Paint(Paint(q, sib, t.color[p]), p, "Black"), distant, "Black")
            h == [height EXCEPT ![sib] = height[p], ![p] = height[sib], ![distant] = height[distant] + 1]
<1>0. /\ sib = t.child[p][1 - s] /\ short = t.child[p][s]
      /\ close = t.child[sib][s] /\ distant = t.child[sib][1 - s]
  BY DEF Family
<1>1. /\ Sound(t, below) /\ t \in Trees /\ t.nodes \subseteq Nodes /\ Nil \notin Nodes
      /\ 1 - s \in 0..1 /\ 1 - (1 - s) = s /\ s # 1 - s /\ p # Nil /\ p \in Nodes
      /\ sib # Nil /\ sib \in t.nodes /\ sib \in Nodes /\ sib # p /\ sib # short /\ short # p
      /\ close # sib /\ distant # sib /\ close # p /\ distant # p
      /\ short \in Nodes \cup {Nil} /\ close \in Nodes \cup {Nil} /\ distant \in Nodes \cup {Nil}
  BY ShortFacts
<1>2. /\ height[sib] \in Nat /\ height[p] \in Nat /\ Height(height, short) \in Nat
      /\ Height(height, close) \in Nat /\ Height(height, distant) \in Nat
      /\ height[sib] = Height(height, short) + 1
      /\ height[p] = height[sib] + Black(t, p)
      /\ height[sib] = Height(height, close) + Black(t, sib)
      /\ height[sib] = Height(height, distant) + Black(t, sib)
      /\ Black(t, p) \in 0..1
  BY ShortFacts
<1>3. /\ Good(t, order, below) /\ RedApart(t, Nil) /\ EquallyBlack(t, height, p, s) /\ height \in [Nodes -> Nat]
      /\ p \in t.nodes /\ s \in 0..1 /\ ~IsRed(t, short)
  BY <1>0 DEF Short
<1>4. distant # Nil /\ Height(height, distant) = height[distant] /\ distant \in Nodes
  BY <1>1 DEF IsRed, Height
<1>5. distant \in t.nodes /\ close # distant /\ t.parent[distant] = sib
  BY <1>4, ShortFacts
<1>6. short # distant
  <2>1. short # Nil => t.parent[short] = p
    BY <1>0, <1>1, <1>3, Children, SMTT(20)
  <2>. QED  BY <1>1, <1>4, <1>5, <2>1
<1>7. Rotation(t, below, p, s, sib, close, distant, short, q, b)
  BY <1>0, <1>1, <1>3 DEF Rotation
<1>8. /\ h \in [Nodes -> Nat] /\ h[sib] = height[p] /\ h[p] = height[sib] /\ h[distant] = height[distant] + 1
      /\ \A m \in Nodes : m # p /\ m # sib /\ m # distant => h[m] = height[m]
  <2>1. height[distant] \in Nat
    BY <1>2, <1>4
  <2>. QED  BY <1>1, <1>2, <1>3, <1>4, <2>1
<1>. HIDE DEF q, b, h
<1>9. q \in Trees /\ q.nodes = t.nodes /\ q.color = t.color
  BY <1>7, RotateEffect
<1>10. Good(q, order, b) /\ b \in [Nodes -> SUBSET Nodes]
  BY <1>3, <1>7, RotateGood
<1>11. /\ SameShape(q, r)
       /\ \A m \in Nodes : r.color[m] = IF m = distant THEN "Black" ELSE IF m = p THEN "Black"
                                         ELSE IF m = sib THEN t.color[p] ELSE q.color[m]
  <2>1. t.color[p] \in {"Red", "Black"}
    BY <1>1 DEF Trees
  <2>2. q \in Trees /\ sib \in Nodes /\ p \in Nodes /\ distant \in Nodes
    BY <1>1, <1>4, <1>9
  <2>. DEFINE z == Paint(Paint(q, sib, t.color[p]), p, "Black")
  <2>3. /\ SameShape(q, z)
        /\ \A m \in Nodes : z.color[m] = IF m = p THEN "Black" ELSE IF m = sib THEN t.color[p] ELSE q.color[m]
    BY <2>1, <2>2, Paint2
  <2>4. r = Paint(z, distant, "Black") /\ z \in Trees
    BY <2>3 DEF SameShape
  <2>. HIDE DEF z, r
  <2>5. SameShape(z, r) /\ \A m \in Nodes : r.color[m] = IF m = distant THEN "Black" ELSE z.color[m]
    BY <2>2, <2>4, PaintEffect
  <2>. QED  BY <2>3, <2>5 DEF SameShape
<1>. HIDE DEF r
<1>12. r.nodes = t.nodes
  BY <1>9, <1>11 DEF SameShape
<1>13. Good(r, order, b)
  BY <1>10, <1>11, SameShapeGood
<1>14. /\ \A m \in Nodes : m # p /\ m # sib /\ m # distant => (IsRed(r, m) <=> IsRed(t, m))
       /\ ~IsRed(r, p) /\ ~IsRed(r, distant) /\ (IsRed(r, sib) <=> IsRed(t, p))
  BY <1>1, <1>4, <1>9, <1>11 DEF IsRed
<1>15. RedApart(r, Nil)
  <2>1. \A m \in t.nodes : m # p /\ m # sib /\ IsRed(r, m) => IsRed(t, m)
    BY <1>1, <1>14
  <2>. QED  BY <1>3, <1>7, <1>11, <1>14, <2>1, RotateRed
<1>16. EquallyBlack(r, h, Nil, s)
  <2>1. /\ Black(r, sib) = Black(t, p) /\ Black(r, p) = 1 /\ Black(r, distant) = 1
        /\ Black(t, distant) = 0 /\ Black(t, sib) = 1
    BY <1>14 DEF Black
  <2>2. close # Nil => close # p /\ close # sib /\ close # distant
    BY <1>1, <1>5
  <2>3. /\ Height(h, distant) = height[distant] + 1 /\ Height(h, close) = Height(height, close)
        /\ Height(h, short) = Height(height, short)
    BY <1>1, <1>4, <1>6, <1>8, <2>2 DEF Height
  <2>4. height[sib] = Height(height, close) + 1 /\ height[sib] = height[distant] + 1
    BY <1>2, <1>4, <2>1
  <2>5. h[sib] = h[p] + Black(t, p) /\ h[sib] = Height(h, distant) + Black(t, p)
    BY <1>2, <1>8, <2>3, <2>4
  <2>6. h[p] = Height(h, close) + 1 /\ h[p] = Height(h, short) + 1
    BY <1>2, <1>8, <2>3, <2>4
  <2>7. h[distant] - 1 = height[distant] - 0
    <3>1. height[distant] \in Nat /\ h[distant] = height[distant] + 1
      BY <1>2, <1>4, <1>8
    <3>. QED  BY <3>1
  <2>8. \A m \in t.nodes : m # p /\ m # sib /\ m # distant => h[m] = height[m] /\ r.color[m] = t.color[m]
    BY <1>1, <1>8, <1>9, <1>11
  <2>9. \A m \in t.nodes : m # p => (m = p <=> m = Nil)
    BY <1>1
  <2>10. LocallyBlack(t, r, height, h, p, s, sib, close, distant, short, p, Nil, s)
    BY <1>1, <1>8, <2>1, <2>5, <2>6, <2>7, <2>8, <2>9 DEF LocallyBlack
  <2>. QED  BY <1>3, <1>7, <1>8, <1>11, <2>10, RotateBlack
<1>17. RemoveRepaired(t, order, r, Nil, s)
  BY <1>8, <1>10, <1>12, <1>13, <1>15, <1>16 DEF RemoveRepaired
<1>. QED  BY <1>17 DEF r, q

\* remove, red close nephew: the rotation makes it the distant one.
LEMMA FixRemoveClose ==
  ASSUME NEW t, NEW order, NEW below, NEW height, NEW p, NEW s, Short(t, order, below, height, p, s),
         NEW sib, NEW short, NEW close, NEW distant, Family(t, p, s, sib, short, close, distant),
         ~IsRed(t, sib), ~IsRed(t, distant), IsRed(t, close)
  PROVE  RemoveRepaired(t, order, Paint(Paint(rotate(t, sib, 1 - s), sib, "Red"), close, "Black"), p, s)
<1>. DEFINE mid == t.child[close][1 - s]
            x == t.child[close][s]
            q == rotate(t, sib, 1 - s)
            b == Rotated(t, below, sib, 1 - s)
            r == Paint(Paint(q, sib, "Red"), close, "Black")
            h == [height EXCEPT ![close] = height[sib], ![sib] = height[sib] - 1]
<1>0. /\ sib = t.child[p][1 - s] /\ short = t.child[p][s]
      /\ close = t.child[sib][s] /\ distant = t.child[sib][1 - s]
  BY DEF Family
<1>1. /\ Sound(t, below) /\ t \in Trees /\ t.nodes \subseteq Nodes /\ Nil \notin Nodes
      /\ 1 - s \in 0..1 /\ 1 - (1 - s) = s /\ s # 1 - s /\ p # Nil /\ p \in Nodes
      /\ sib # Nil /\ sib \in t.nodes /\ sib \in Nodes /\ sib # p /\ sib # short /\ short # p
      /\ close # sib /\ distant # sib /\ close # p /\ distant # p
      /\ short \in Nodes \cup {Nil} /\ close \in Nodes \cup {Nil} /\ distant \in Nodes \cup {Nil}
  BY ShortFacts
<1>2. /\ height[sib] \in Nat /\ height[p] \in Nat /\ Height(height, short) \in Nat
      /\ Height(height, close) \in Nat /\ Height(height, distant) \in Nat
      /\ height[sib] = Height(height, short) + 1
      /\ height[p] = height[sib] + Black(t, p)
      /\ height[sib] = Height(height, close) + Black(t, sib)
      /\ height[sib] = Height(height, distant) + Black(t, sib)
      /\ Black(t, p) \in 0..1
  BY ShortFacts
<1>3. /\ Good(t, order, below) /\ RedApart(t, Nil) /\ EquallyBlack(t, height, p, s) /\ height \in [Nodes -> Nat]
      /\ p \in t.nodes /\ s \in 0..1 /\ ~IsRed(t, short)
  BY <1>0 DEF Short
<1>4. close # Nil /\ Height(height, close) = height[close] /\ close \in Nodes
  BY <1>1 DEF IsRed, Height
<1>5. close \in t.nodes /\ close # distant /\ t.parent[close] = sib
  BY <1>4, ShortFacts
<1>6. distant # close
  BY <1>5
<1>7. mid \in Nodes \cup {Nil} /\ x \in Nodes \cup {Nil} /\ ~IsRed(t, mid) /\ ~IsRed(t, x)
  <2>1. mid \in Nodes \cup {Nil} /\ x \in Nodes \cup {Nil}
    BY <1>1, <1>3, <1>5 DEF Trees
  <2>. QED  BY <1>1, <1>3, <1>5, <2>1 DEF RedApart, IsRed
<1>8. mid # close /\ x # close /\ mid # sib /\ x # sib /\ x # p
  <2>0. Sound(t, below) /\ sib \in t.nodes /\ s \in 0..1 /\ close = t.child[sib][s] /\ close # Nil
    BY <1>0, <1>1, <1>3, <1>4
  <2>1. sib \notin below[close] /\ below[close] \subseteq below[sib]
    BY <2>0, Children
  <2>00. p \in t.nodes /\ 1 - s \in 0..1 /\ sib = t.child[p][1 - s] /\ sib # Nil
    BY <1>0, <1>1, <1>3
  <2>2. p \notin below[sib]
    BY <2>0, <2>00, Children
  <2>3. mid # Nil => mid # close /\ mid \in below[mid] /\ below[mid] \subseteq below[close]
    BY <1>1, <1>5, Children
  <2>4. x # Nil => x # close /\ x \in below[x] /\ below[x] \subseteq below[close]
    BY <1>1, <1>3, <1>5, Children
  <2>. QED  BY <1>1, <1>4, <2>1, <2>2, <2>3, <2>4
<1>. HIDE DEF mid, x
<1>9. /\ height[close] = Height(height, mid) /\ height[close] = Height(height, x)
      /\ Height(height, mid) \in Nat /\ Height(height, x) \in Nat
  <2>1. Black(t, close) = 0 /\ close # p
    BY <1>1 DEF Black
  <2>2. height[close] = Height(height, mid) + Black(t, close) /\ Height(height, mid) \in Nat
    BY <1>1, <1>3, <1>5, <2>1, HeightIs DEF mid
  <2>3. height[close] = Height(height, x) + Black(t, close) /\ Height(height, x) \in Nat
    BY <1>1, <1>3, <1>5, <2>1, HeightIs DEF x
  <2>. QED  BY <2>1, <2>2, <2>3
<1>10. Rotation(t, below, sib, 1 - s, close, mid, x, distant, q, b)
  BY <1>0, <1>1, <1>3, <1>4 DEF Rotation, mid, x
<1>11. height[sib] - 1 = height[close] /\ height[sib] - 1 = Height(height, distant)
  <2>1. Black(t, sib) = 1
    BY DEF Black
  <2>2. height[sib] = Height(height, close) + 1 /\ height[sib] = Height(height, distant) + 1
    BY <1>2, <2>1
  <2>. QED  BY <1>2, <1>4, <2>2
<1>12. /\ h \in [Nodes -> Nat] /\ h[close] = height[sib] /\ h[sib] = height[sib] - 1
       /\ \A m \in Nodes : m # sib /\ m # close => h[m] = height[m]
  <2>1. height[sib] - 1 \in Nat
    BY <1>2, <1>4, <1>11
  <2>. QED  BY <1>1, <1>2, <1>3, <1>4, <2>1
<1>. HIDE DEF q, b, h
<1>13. /\ q \in Trees /\ q.nodes = t.nodes /\ q.color = t.color
       /\ \A m \in t.nodes \ {sib, close}, e \in 0..1 :
            q.child[m][e] = IF t.child[m][e] = sib THEN close ELSE t.child[m][e]
  BY <1>10, RotateEffect
<1>14. Good(q, order, b) /\ b \in [Nodes -> SUBSET Nodes]
  BY <1>3, <1>10, RotateGood
<1>15. /\ SameShape(q, r)
       /\ \A m \in Nodes : r.color[m] = IF m = close THEN "Black" ELSE IF m = sib THEN "Red" ELSE q.color[m]
  <2>1. q \in Trees /\ sib \in Nodes /\ close \in Nodes
    BY <1>1, <1>4, <1>13
  <2>. QED  BY <2>1, Paint2
<1>. HIDE DEF r
<1>16. r.nodes = t.nodes /\ r.child = q.child
  BY <1>13, <1>15 DEF SameShape
<1>17. Good(r, order, b)
  BY <1>14, <1>15, SameShapeGood
<1>18. \A m \in Nodes \cup {Nil} : IsRed(r, m) <=> m = sib \/ (IsRed(t, m) /\ m # close)
  BY <1>1, <1>13, <1>15 DEF IsRed
<1>19. RedApart(r, Nil)
  <2>1. /\ \A m \in t.nodes : m # sib /\ m # close /\ IsRed(r, m) => IsRed(t, m)
        /\ ~IsRed(r, close) /\ ~IsRed(r, distant) /\ ~IsRed(r, mid)
    BY <1>1, <1>4, <1>7, <1>8, <1>18
  <2>. QED  BY <1>3, <1>10, <1>15, <2>1, RotateRed
<1>20. EquallyBlack(r, h, p, s)
  <2>1. Black(r, close) = 1 /\ Black(r, sib) = 0 /\ (x # Nil => Black(r, x) = Black(t, x))
    BY <1>1, <1>4, <1>7, <1>8, <1>18 DEF Black
  <2>2. /\ Height(h, distant) = Height(height, distant) /\ Height(h, mid) = Height(height, mid)
        /\ Height(h, x) = Height(height, x) /\ (x # Nil => h[x] = height[x])
    BY <1>1, <1>6, <1>7, <1>8, <1>12 DEF Height
  <2>3. h[close] = h[sib] + 1 /\ h[sib] = height[close]
    <3>1. h[close] = height[sib] /\ h[sib] = height[sib] - 1
      BY <1>12
    <3>. QED  BY <1>2, <1>11, <3>1
  <2>4. \A k \in Nat : k + 0 = k
    OBVIOUS
  <2>5. Height(h, x) = h[sib] /\ Height(h, mid) = h[sib] /\ Height(h, distant) = h[sib] /\ h[sib] \in Nat
    BY <1>9, <1>11, <2>2, <2>3
  <2>6. /\ h[close] = Height(h, x) + 1 /\ h[sib] = Height(h, mid) + 0 /\ h[sib] = Height(h, distant) + 0
    BY <2>3, <2>4, <2>5
  <2>7. \A m \in t.nodes : m # sib /\ m # close => h[m] = height[m] /\ r.color[m] = t.color[m]
    BY <1>1, <1>12, <1>13, <1>15
  <2>8. LocallyBlack(t, r, height, h, sib, 1 - s, close, mid, x, distant, p, p, s)
    BY <1>1, <1>8, <1>12, <2>1, <2>2, <2>3, <2>6, <2>7 DEF LocallyBlack
  <2>. QED  BY <1>3, <1>10, <1>12, <1>15, <2>8, RotateBlack
<1>21. ~IsRed(r, r.child[p][s])
  <2>1. p \in t.nodes \ {sib, close} /\ s \in 0..1 /\ t.child[p][s] # sib /\ t.child[p][s] = short
    BY <1>0, <1>1, <1>3
  <2>2. r.child[p][s] = short
    BY <1>13, <1>16, <2>1
  <2>. QED  BY <1>1, <1>3, <1>18, <2>2
<1>22. RemoveRepaired(t, order, r, p, s)
  BY <1>3, <1>12, <1>14, <1>16, <1>17, <1>19, <1>20, <1>21 DEF RemoveRepaired
<1>. QED  BY <1>22 DEF r, q

\* remove, no red nephew: recolouring ends the repair or moves the deficit
\* one level up.
LEMMA FixRemoveRecolor ==
  ASSUME NEW t, NEW order, NEW below, NEW height, NEW p, NEW s, Short(t, order, below, height, p, s),
         NEW sib, NEW short, NEW close, NEW distant, Family(t, p, s, sib, short, close, distant),
         ~IsRed(t, sib), ~IsRed(t, distant), ~IsRed(t, close)
  PROVE  LET r == Paint(Paint(t, sib, "Red"), p, "Black")
         IN  /\ IsRed(t, p) => RemoveRepaired(t, order, r, Nil, s)
             /\ ~IsRed(t, p) => RemoveRepaired(t, order, r, t.parent[p], Side(t, p))
<1>. DEFINE r == Paint(Paint(t, sib, "Red"), p, "Black")
            h == [height EXCEPT ![sib] = height[sib] - 1,
                                ![p] = IF IsRed(t, p) THEN height[p] ELSE height[p] - 1]
<1>0. /\ sib = t.child[p][1 - s] /\ short = t.child[p][s]
      /\ close = t.child[sib][s] /\ distant = t.child[sib][1 - s]
  BY DEF Family
<1>1. /\ Sound(t, below) /\ t \in Trees /\ t.nodes \subseteq Nodes /\ Nil \notin Nodes
      /\ 1 - s \in 0..1 /\ 1 - (1 - s) = s /\ s # 1 - s /\ p # Nil /\ p \in Nodes
      /\ sib # Nil /\ sib \in t.nodes /\ sib \in Nodes /\ sib # p /\ sib # short /\ short # p
      /\ close # sib /\ distant # sib /\ close # p /\ distant # p
      /\ short \in Nodes \cup {Nil} /\ close \in Nodes \cup {Nil} /\ distant \in Nodes \cup {Nil}
  BY ShortFacts
<1>2. /\ height[sib] \in Nat /\ height[p] \in Nat /\ Height(height, short) \in Nat
      /\ Height(height, close) \in Nat /\ Height(height, distant) \in Nat
      /\ height[sib] = Height(height, short) + 1
      /\ height[p] = height[sib] + Black(t, p)
      /\ height[sib] = Height(height, close) + Black(t, sib)
      /\ height[sib] = Height(height, distant) + Black(t, sib)
  BY ShortFacts
<1>3. /\ Good(t, order, below) /\ RedApart(t, Nil) /\ EquallyBlack(t, height, p, s) /\ height \in [Nodes -> Nat]
      /\ p \in t.nodes /\ s \in 0..1 /\ ~IsRed(t, short) /\ below \in [Nodes -> SUBSET Nodes]
  BY <1>0 DEF Short
<1>4. height[sib] - 1 \in Nat /\ height[p] - 1 \in Nat
  <2>1. Black(t, p) \in 0..1
    BY DEF Black
  <2>. QED  BY <1>2, <2>1
<1>5. /\ h \in [Nodes -> Nat] /\ h[sib] = height[sib] - 1
      /\ h[p] = IF IsRed(t, p) THEN height[p] ELSE height[p] - 1
      /\ \A m \in Nodes : m # p /\ m # sib => h[m] = height[m]
  BY <1>1, <1>2, <1>3, <1>4
<1>. HIDE DEF h
<1>6. /\ SameShape(t, r)
      /\ \A m \in Nodes : r.color[m] = IF m = p THEN "Black" ELSE IF m = sib THEN "Red" ELSE t.color[m]
  BY <1>1, Paint2
<1>. HIDE DEF r
<1>7. r.nodes = t.nodes /\ r.child = t.child /\ r \in Trees
  BY <1>6 DEF SameShape
<1>8. Good(r, order, below)
  BY <1>3, <1>6, SameShapeGood
<1>9. \A m \in Nodes \cup {Nil} : IsRed(r, m) <=> m = sib \/ (IsRed(t, m) /\ m # p)
  BY <1>1, <1>6 DEF IsRed
<1>10. \A m \in t.nodes, e \in 0..1 : /\ t.child[m][e] \in Nodes \cup {Nil}
                                      /\ t.child[m][e] # Nil => t.parent[t.child[m][e]] = m
  BY <1>1 DEF Sound, LinksAgree, Trees
<1>11. t.parent[sib] = p /\ \A e \in 0..1 : e = s \/ e = 1 - s
  BY <1>0, <1>1, <1>3, <1>10, SMTT(20)
<1>12. RedApart(r, Nil)
  <2>. SUFFICES ASSUME NEW m \in t.nodes, NEW e \in 0..1, IsRed(r, m), IsRed(r, t.child[m][e])
                PROVE  FALSE
    BY <1>7 DEF RedApart
  <2>1. t.child[m][e] \in Nodes \cup {Nil} /\ (t.child[m][e] # Nil => t.parent[t.child[m][e]] = m)
    BY <1>10
  <2>2. m # p
    BY <1>1, <1>9
  <2>3. t.child[m][e] # sib
    BY <1>1, <1>11, <2>1, <2>2
  <2>4. IsRed(t, t.child[m][e])
    BY <1>9, <2>1, <2>3
  <2>5. CASE m = sib
    BY <1>0, <1>11, <2>4, <2>5
  <2>6. CASE m # sib
    <3>1. IsRed(t, m)
      BY <1>1, <1>9, <2>6
    <3>. QED  BY <1>3, <2>4, <3>1 DEF RedApart, IsRed
  <2>. QED  BY <2>5, <2>6
<1>13. ASSUME NEW m \in t.nodes, NEW e \in 0..1
       PROVE  /\ m # p => /\ Black(r, m) = Black(t, m) + (IF m = sib THEN -1 ELSE 0)
                          /\ h[m] = height[m] + (IF m = sib THEN -1 ELSE 0)
              /\ Black(r, p) = 1 /\ Black(t, sib) = 1
              /\ t.child[m][e] # p /\ t.child[m][e] # sib => Height(h, t.child[m][e]) = Height(height, t.child[m][e])
  <2>1. Black(r, p) = 1 /\ Black(t, sib) = 1 /\ Black(r, sib) = 0
    BY <1>1, <1>9 DEF Black
  <2>2. m # p /\ m # sib => Black(r, m) = Black(t, m) /\ h[m] = height[m] /\ Black(t, m) \in Int /\ height[m] \in Int
    BY <1>1, <1>3, <1>5, <1>9 DEF Black
  <2>3. h[sib] = height[sib] - 1
    BY <1>5
  <2>4. m # p => /\ Black(r, m) = Black(t, m) + (IF m = sib THEN -1 ELSE 0)
                 /\ h[m] = height[m] + (IF m = sib THEN -1 ELSE 0)
    BY <1>2, <2>1, <2>2, <2>3
  <2>5. t.child[m][e] # p /\ t.child[m][e] # sib => Height(h, t.child[m][e]) = Height(height, t.child[m][e])
    BY <1>5, <1>10 DEF Height
  <2>. QED  BY <2>1, <2>4, <2>5
<1>14. ASSUME NEW e \in 0..1
       PROVE  Height(h, t.child[p][e]) = height[sib] - 1
  <2>1. CASE e = s
    <3>1. Height(h, short) = Height(height, short)
      BY <1>1, <1>5 DEF Height
    <3>2. Height(height, short) = height[sib] - 1
      BY <1>2
    <3>. QED  BY <1>0, <2>1, <3>1, <3>2
  <2>2. CASE e = 1 - s
    BY <1>0, <1>1, <1>5, <2>2 DEF Height
  <2>. QED  BY <1>11, <2>1, <2>2
<1>15. ASSUME NEW m \in t.nodes, m # p, NEW e \in 0..1, t.child[m][e] # p
       PROVE  h[m] = Height(h, t.child[m][e]) + Black(r, m)
  <2>1. t.child[m][e] # sib
    BY <1>1, <1>10, <1>11, <1>15
  <2>2. Height(h, t.child[m][e]) = Height(height, t.child[m][e])
    BY <1>13, <1>15, <2>1
  <2>3. /\ height[m] = Height(height, t.child[m][e]) + Black(t, m)
        /\ height[m] \in Nat /\ Height(height, t.child[m][e]) \in Nat /\ Black(t, m) \in 0..1
    BY <1>1, <1>3, <1>15, HeightIs
  <2>4. CASE m = sib
    <3>1. Black(r, m) = 0 /\ h[m] = height[m] - 1 /\ Black(t, m) = 1
      BY <1>1, <1>5, <1>9, <2>4 DEF Black
    <3>. QED  BY <2>2, <2>3, <3>1
  <2>5. CASE m # sib
    <3>1. Black(r, m) = Black(t, m) /\ h[m] = height[m]
      BY <1>1, <1>5, <1>9, <1>15, <2>5 DEF Black
    <3>. QED  BY <2>2, <2>3, <3>1
  <2>. QED  BY <2>4, <2>5
<1>16. CASE IsRed(t, p)
  <2>1. h[p] = height[p] /\ Black(r, p) = 1 /\ height[p] = height[sib] + 0
    BY <1>1, <1>2, <1>5, <1>9, <1>16 DEF Black
  <2>2. EquallyBlack(r, h, Nil, s)
    <3>. SUFFICES ASSUME NEW m \in t.nodes, NEW e \in 0..1
                  PROVE  h[m] = Height(h, t.child[m][e]) + Black(r, m)
      <4>1. Nil \notin r.nodes
        BY <1>1, <1>7
      <4>. QED  BY <1>5, <1>7, <4>1, HeightsAre
    <3>1. CASE m = p
      <4>1. Height(h, t.child[m][e]) = height[sib] - 1
        BY <1>14, <3>1
      <4>. QED  BY <1>2, <2>1, <3>1, <4>1
    <3>2. CASE m # p /\ t.child[m][e] # p
      BY <1>15, <3>2
    <3>3. CASE m # p /\ t.child[m][e] = p
      <4>1. Height(h, p) = Height(height, p)
        BY <1>1, <2>1 DEF Height
      <4>2. height[m] = Height(height, p) + Black(t, m)
        BY <1>1, <1>3, <3>3, HeightIs
      <4>3. m # sib
        <5>1. t.parent[p] = m /\ p # Nil
          BY <1>1, <1>10, <3>3
        <5>2. CASE m = sib
          <6>1. p = close \/ p = distant
            BY <1>0, <1>11, <3>3, <5>2
          <6>. QED  BY <1>1, <6>1
        <5>. QED  BY <5>2
      <4>4. Black(r, m) = Black(t, m) /\ h[m] = height[m]
        BY <1>1, <1>5, <1>9, <3>3, <4>3 DEF Black
      <4>. QED  BY <3>3, <4>1, <4>2, <4>4
    <3>. QED  BY <3>1, <3>2, <3>3
  <2>3. RemoveRepaired(t, order, r, Nil, s)
    BY <1>3, <1>5, <1>7, <1>8, <1>12, <2>2 DEF RemoveRepaired
  <2>. QED  BY <1>16, <2>3 DEF r
<1>17. CASE ~IsRed(t, p)
  <2>. DEFINE g == t.parent[p]
              d == Side(t, p)
  <2>0. LinksAgree(t)
    BY <1>1 DEF Sound
  <2>1. h[p] = height[p] - 1 /\ Black(r, p) = 1 /\ height[p] = height[sib] + 1
    BY <1>1, <1>2, <1>5, <1>9, <1>17 DEF Black
  <2>2. \A m \in t.nodes, e \in 0..1 : t.child[m][e] = p => m = g /\ e = d /\ p # t.root
    <3>. SUFFICES ASSUME NEW m \in t.nodes, NEW e \in 0..1, t.child[m][e] = p
                  PROVE  m = g /\ e = d /\ p # t.root
      OBVIOUS
    <3>1. t.parent[p] = m
      BY <1>1, <1>10
    <3>2. p # t.root
      BY <1>1, <2>0, <3>1 DEF LinksAgree
    <3>3. d \in 0..1 /\ t.child[m][1 - d] # p
      BY <1>1, <1>3, <2>0, <3>1, <3>2, SideIs
    <3>4. e = d
      <4>. HIDE DEF d
      <4>1. e = d \/ e = 1 - d
        BY <3>3
      <4>. QED  BY <3>3, <4>1
    <3>. QED  BY <3>1, <3>2, <3>4
  <2>3. g # Nil => p # t.root /\ g \in t.nodes /\ d \in 0..1 /\ t.child[g][d] = p
    <3>1. g # Nil => p # t.root
      BY <1>1, <2>0 DEF LinksAgree
    <3>. QED  BY <1>1, <1>3, <2>0, <3>1, SideIs
  <2>. HIDE DEF g, d
  <2>4. EquallyBlack(r, h, g, d)
    <3>. SUFFICES ASSUME NEW m \in t.nodes, NEW e \in 0..1
                  PROVE  /\ ~(m = g /\ e = d) => h[m] = Height(h, t.child[m][e]) + Black(r, m)
                         /\ m = g /\ e = d => h[m] = Height(h, t.child[m][e]) + Black(r, m) + 1
      BY <1>5, <1>7, HeightsAre
    <3>1. CASE m = p
      <4>1. Height(h, t.child[m][e]) = height[sib] - 1
        BY <1>14, <3>1
      <4>2. h[m] = Height(h, t.child[m][e]) + Black(r, m)
        BY <1>2, <2>1, <3>1, <4>1
      <4>3. m # g
        <5>1. CASE g = p
          <6>1. t.child[p][d] = p /\ d \in 0..1
            BY <1>1, <2>3, <5>1
          <6>. QED  BY <1>1, <1>3, <6>1, Children
        <5>. QED  BY <5>1, <3>1
      <4>. QED  BY <4>2, <4>3
    <3>2. CASE m # p /\ t.child[m][e] # p
      <4>1. ~(m = g /\ e = d)
        <5>1. m # Nil
          BY <1>1
        <5>. QED  BY <2>3, <3>2, <5>1
      <4>. QED  BY <1>15, <3>2, <4>1
    <3>3. CASE m # p /\ t.child[m][e] = p
      <4>0. m = g /\ e = d
        BY <2>2, <3>3
      <4>1. Height(h, p) = height[p] - 1 /\ Height(height, p) = height[p]
        BY <1>1, <2>1 DEF Height
      <4>2. height[m] = Height(height, p) + Black(t, m) /\ Black(t, m) \in 0..1
        BY <1>1, <1>3, <3>3, HeightIs
      <4>3. m # sib
        <5>1. CASE m = sib
          <6>1. p = close \/ p = distant
            BY <1>0, <1>11, <3>3, <5>1
          <6>. QED  BY <1>1, <6>1
        <5>. QED  BY <5>1
      <4>4. Black(r, m) = Black(t, m) /\ h[m] = height[m]
        BY <1>1, <1>5, <1>9, <3>3, <4>3 DEF Black
      <4>5. h[m] = (height[p] - 1) + Black(r, m) + 1
        BY <1>2, <4>1, <4>2, <4>4
      <4>. QED  BY <3>3, <4>0, <4>1, <4>5
    <3>. QED  BY <3>1, <3>2, <3>3
  <2>5. g # Nil => ~IsRed(r, r.child[g][d])
    BY <1>1, <1>7, <1>9, <2>3
  <2>6. RemoveRepaired(t, order, r, g, d)
    BY <1>3, <1>5, <1>7, <1>8, <1>12, <2>3, <2>4, <2>5 DEF RemoveRepaired
  <2>. QED  BY <1>17, <2>6 DEF r, g, d
<1>. QED  BY <1>16, <1>17

\* Where nothing is short, no side is.
LEMMA NothingShort ==
  ASSUME NEW t \in Trees, NEW height, NEW s, EquallyBlack(t, height, Nil, s), NEW e
  PROVE  EquallyBlack(t, height, Nil, e)
BY TreeAssumption DEF EquallyBlack, Trees

\* The same for the outcome of a repair.
LEMMA NoneShort ==
  ASSUME NEW t, NEW order, NEW r, NEW s, RemoveRepaired(t, order, r, Nil, s), NEW e
  PROVE  RemoveRepaired(t, order, r, Nil, e)
<1>1. PICK b \in [Nodes -> SUBSET Nodes], h \in [Nodes -> Nat] :
        Good(r, order, b) /\ RedApart(r, Nil) /\ EquallyBlack(r, h, Nil, s)
  BY DEF RemoveRepaired
<1>2. r \in Trees
  BY <1>1 DEF Good, SearchTree, Sound
<1>3. EquallyBlack(r, h, Nil, e)
  BY <1>1, <1>2, NothingShort
<1>. QED  BY <1>1, <1>3 DEF RemoveRepaired

\* One turn of remove's repair loop: the black height is restored, or
\* exactly the next place is short; unwrap() finds a sibling and no arm
\* marked unreachable_unchecked is reached.
LEMMA FixRemoveTurn ==
  ASSUME NEW t, NEW order, NEW below, NEW height, NEW p, NEW s, Short(t, order, below, height, p, s)
  PROVE  LET next == FixRemoveNext(t, p, s)
         IN  RemoveRepaired(t, order, FixRemoveBody(t, p, s), next,
                            IF next = Nil THEN 0 ELSE FixRemoveSide(t, p, s))
<1>. DEFINE sib     == t.child[p][1 - s]
            short   == t.child[p][s]
            close   == t.child[sib][s]
            distant == t.child[sib][1 - s]
            next    == FixRemoveNext(t, p, s)
            r       == FixRemoveBody(t, p, s)
            e       == IF next = Nil THEN 0 ELSE FixRemoveSide(t, p, s)
<1>. SUFFICES RemoveRepaired(t, order, r, next, e)
  OBVIOUS
<1>1. Family(t, p, s, sib, short, close, distant)
  BY DEF Family
<1>. HIDE DEF sib, short, close, distant
<1>2. sib # Nil /\ p # Nil /\ p \in t.nodes
  BY <1>1, ShortFacts DEF Short
<1>3. CASE IsRed(t, sib)
  <2>1. /\ RemoveRepaired(t, order, Paint(Paint(rotate(t, p, s), p, "Red"), sib, "Black"), p, s)
        /\ close # Nil /\ distant # Nil /\ ~IsRed(t, p) /\ ~IsRed(t, close) /\ ~IsRed(t, distant)
    BY <1>1, <1>3, FixRemoveRed
  <2>2. r = Paint(Paint(rotate(t, p, s), p, "Red"), sib, "Black")
    BY <1>2, <1>3, <2>1 DEF FixRemoveBody, sib, close, distant
  <2>3. next = p
    BY <1>2, <1>3 DEF FixRemoveNext, sib
  <2>4. e = s
    BY <1>2, <2>3 DEF FixRemoveSide
  <2>. QED  BY <2>1, <2>2, <2>3, <2>4
<1>4. CASE ~IsRed(t, sib) /\ IsRed(t, distant)
  <2>1. RemoveRepaired(t, order,
          Paint(Paint(Paint(rotate(t, p, s), sib, t.color[p]), p, "Black"), distant, "Black"), Nil, s)
    BY <1>1, <1>4, FixRemoveDistant
  <2>2. r = Paint(Paint(Paint(rotate(t, p, s), sib, t.color[p]), p, "Black"), distant, "Black")
    BY <1>2, <1>4 DEF FixRemoveBody, sib, distant
  <2>3. next = Nil
    BY <1>2, <1>4 DEF FixRemoveNext, sib, close, distant
  <2>. HIDE DEF r, next, e
  <2>. QED  BY <2>1, <2>2, <2>3, NoneShort
<1>5. CASE ~IsRed(t, sib) /\ ~IsRed(t, distant) /\ IsRed(t, close)
  <2>1. RemoveRepaired(t, order, Paint(Paint(rotate(t, sib, 1 - s), sib, "Red"), close, "Black"), p, s)
    BY <1>1, <1>5, FixRemoveClose
  <2>2. r = Paint(Paint(rotate(t, sib, 1 - s), sib, "Red"), close, "Black")
    BY <1>2, <1>5 DEF FixRemoveBody, sib, close, distant
  <2>3. next = p
    BY <1>2, <1>5 DEF FixRemoveNext, sib, close, distant
  <2>4. e = s
    BY <1>2, <2>3 DEF FixRemoveSide
  <2>. QED  BY <2>1, <2>2, <2>3, <2>4
<1>6. CASE ~IsRed(t, sib) /\ ~IsRed(t, distant) /\ ~IsRed(t, close)
  <2>. DEFINE q == Paint(Paint(t, sib, "Red"), p, "Black")
  <2>1. /\ IsRed(t, p) => RemoveRepaired(t, order, q, Nil, s)
        /\ ~IsRed(t, p) => RemoveRepaired(t, order, q, t.parent[p], Side(t, p))
    BY <1>1, <1>6, FixRemoveRecolor
  <2>2. r = q
    BY <1>2, <1>6 DEF FixRemoveBody, sib, close, distant
  <2>3. next = IF IsRed(t, p) THEN Nil ELSE t.parent[p]
    BY <1>2, <1>6 DEF FixRemoveNext, sib, close, distant
  <2>4. CASE next = Nil
    <3>1. \E d : RemoveRepaired(t, order, q, Nil, d)
      BY <2>1, <2>3, <2>4
    <3>. HIDE DEF r, next, e, q
    <3>. QED  BY <2>2, <2>4, <3>1, NoneShort
  <2>5. CASE next # Nil
    <3>1. next = t.parent[p] /\ ~IsRed(t, p)
      BY <2>3, <2>5
    <3>2. t.parent[p] # p
      <4>1. Sound(t, below)
        BY <1>1, ShortFacts
      <4>2. p # t.root
        BY <1>2, <2>5, <3>1, <4>1 DEF Sound, LinksAgree
      <4>3. PICK d \in 0..1 : t.parent[p] \in t.nodes /\ t.child[t.parent[p]][d] = p
        BY <1>2, <4>1, <4>2 DEF Sound, LinksAgree
      <4>. QED  BY <1>2, <4>1, <4>3, Children
    <3>3. e = Side(t, p)
      BY <2>5, <3>1, <3>2 DEF FixRemoveSide
    <3>. QED  BY <2>1, <2>2, <3>1, <3>3
  <2>. QED  BY <2>4, <2>5
<1>. QED  BY <1>3, <1>4, <1>5, <1>6
=============================================================================
