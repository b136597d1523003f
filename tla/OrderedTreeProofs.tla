-------------------------- MODULE OrderedTreeProofs --------------------------
(***************************************************************************)
(* The loop invariant of OrderedTree is inductive, and the properties      *)
(* follow from it.                                                         *)
(*                                                                         *)
(* First the other changes to the tree: linking a leaf (LinkLeaf), the     *)
(* exchange of a node with its in-order predecessor, which is shown to be a*)
(* renaming of two nodes (SwapRenames, SwapTurn), and unlinking a node     *)
(* (UnlinkTurn).  Then one lemma for each action; the witnesses below and  *)
(* height stay as they are in loops that do not change links or colours.   *)
(* The theorems are at the end.                                            *)
(***************************************************************************)
EXTENDS TreeProofs

\* r is t with the new leaf x below p on the side dir.
Leaf(t, below, p, dir, x, w, r, b) ==
  /\ Sound(t, below) /\ p \in t.nodes /\ dir \in 0..1 /\ t.child[p][dir] = Nil
  /\ x \in Nodes \ t.nodes /\ w \in Int
  /\ r = DescendBody(t, p, dir, x, w)
  /\ b = [m \in Nodes |-> IF m = x THEN {x}
                          ELSE IF p \in below[m] THEN below[m] \cup {x} ELSE below[m]]

\* What linking a leaf does to each field and subtree.
LEMMA LeafEffect ==
  ASSUME NEW t, NEW below, NEW p, NEW dir, NEW x, NEW w, NEW r, NEW b, Leaf(t, below, p, dir, x, w, r, b)
  PROVE  /\ r \in Trees /\ r.ok = t.ok /\ r.root = t.root /\ r.nodes = t.nodes \cup {x}
         /\ \A d \in 0..1 : r.child[x][d] = Nil
         /\ r.child[p][dir] = x /\ r.child[p][1 - dir] = t.child[p][1 - dir]
         /\ \A m \in t.nodes : m # p => r.child[m] = t.child[m]
         /\ r.parent[x] = p /\ \A m \in t.nodes : r.parent[m] = t.parent[m]
         /\ r.color[x] = "Red" /\ \A m \in t.nodes : r.color[m] = t.color[m]
         /\ r.sum[x] = w /\ r.sum[p] = t.sum[p] + w
         /\ \A m \in t.nodes : m # p => r.sum[m] = t.sum[m]
         /\ b \in [Nodes -> SUBSET Nodes] /\ b[x] = {x}
         /\ \A m \in t.nodes : (p \in below[m] => b[m] = below[m] \cup {x}) /\ (p \notin below[m] => b[m] = below[m])
<1>. DEFINE ch == [t.child EXCEPT ![x] = NoChildren, ![p] = [t.child[p] EXCEPT ![dir] = x]]
            pa == [t.parent EXCEPT ![x] = p]
            co == [t.color EXCEPT ![x] = "Red"]
            su == [t.sum EXCEPT ![x] = w, ![p] = t.sum[p] + w]
<1>1. /\ Sound(t, below) /\ p \in t.nodes /\ dir \in 0..1 /\ t.child[p][dir] = Nil
      /\ x \in Nodes /\ x \notin t.nodes /\ w \in Int /\ r = DescendBody(t, p, dir, x, w) /\ x # p
      /\ b = [m \in Nodes |-> IF m = x THEN {x}
                              ELSE IF p \in below[m] THEN below[m] \cup {x} ELSE below[m]]
  BY DEF Leaf
<1>2. t \in Trees /\ p \in Nodes /\ t.nodes \subseteq Nodes /\ 1 - dir \in 0..1 /\ 1 - dir # dir
  BY <1>1 DEF Sound, Trees
<1>3. NoChildren \in [0..1 -> Nodes \cup {Nil}] /\ \A d \in 0..1 : NoChildren[d] = Nil
  BY DEF NoChildren
<1>4. [t.child[p] EXCEPT ![dir] = x] \in [0..1 -> Nodes \cup {Nil}]
  BY <1>1, <1>2 DEF Trees
<1>5. /\ ch \in [Nodes -> [0..1 -> Nodes \cup {Nil}]]
      /\ pa \in [Nodes -> Nodes \cup {Nil}] /\ co \in [Nodes -> {"Red", "Black"}]
      /\ su \in [Nodes -> Int]
  BY <1>1, <1>2, <1>3, <1>4 DEF Trees
<1>6. r = [t EXCEPT !.nodes = t.nodes \cup {x}, !.child = ch, !.parent = pa, !.color = co, !.sum = su]
  BY <1>1, Zenon DEF DescendBody
<1>7. /\ ch[x] = NoChildren /\ ch[p] = [t.child[p] EXCEPT ![dir] = x]
      /\ \A m \in t.nodes : m # p => ch[m] = t.child[m]
      /\ pa[x] = p /\ \A m \in t.nodes : pa[m] = t.parent[m]
      /\ co[x] = "Red" /\ \A m \in t.nodes : co[m] = t.color[m]
      /\ su[x] = w /\ su[p] = t.sum[p] + w
      /\ \A m \in t.nodes : m # p => su[m] = t.sum[m]
  BY <1>1, <1>2 DEF Trees
<1>8. ch[p][dir] = x /\ ch[p][1 - dir] = t.child[p][1 - dir]
  BY <1>1, <1>2, <1>7 DEF Trees
<1>. HIDE DEF ch, pa, co, su
<1>9. /\ r \in Trees /\ r.ok = t.ok /\ r.root = t.root /\ r.nodes = t.nodes \cup {x}
      /\ r.child = ch /\ r.parent = pa /\ r.color = co /\ r.sum = su
  <2>1. t.nodes \cup {x} \in SUBSET Nodes
    BY <1>1, <1>2
  <2>. QED  BY <1>2, <1>5, <1>6, <2>1 DEF Trees
<1>10. /\ b \in [Nodes -> SUBSET Nodes] /\ b[x] = {x}
       /\ \A m \in t.nodes : (p \in below[m] => b[m] = below[m] \cup {x}) /\ (p \notin below[m] => b[m] = below[m])
  BY <1>1, <1>2 DEF Sound
<1>. QED  BY <1>3, <1>7, <1>8, <1>9, <1>10

\* With the new leaf the links agree, and the leaf is below p and p's
\* ancestors.
LEMMA LeafSound ==
  ASSUME NEW t, NEW below, NEW p, NEW dir, NEW x, NEW w, NEW r, NEW b, Leaf(t, below, p, dir, x, w, r, b)
  PROVE  /\ Sound(r, b)
         /\ \A m \in t.nodes, d \in 0..1 : ~(m = p /\ d = dir) =>
              Below(b, r.child[m][d]) =
                IF p \in Below(below, t.child[m][d]) THEN Below(below, t.child[m][d]) \cup {x}
                ELSE Below(below, t.child[m][d])
<1>1. /\ Sound(t, below) /\ p \in t.nodes /\ dir \in 0..1 /\ t.child[p][dir] = Nil
      /\ x \in Nodes /\ x \notin t.nodes /\ x # p /\ x # Nil
  BY TreeAssumption DEF Leaf
<1>2. t \in Trees /\ p \in Nodes /\ t.nodes \subseteq Nodes /\ 1 - dir \in 0..1 /\ Nil \notin Nodes
      /\ LinksAgree(t) /\ \A d \in 0..1 : d = dir \/ d = 1 - dir
  BY <1>1, TreeAssumption DEF Sound, Trees
<1>3. /\ r \in Trees /\ r.ok = t.ok /\ r.root = t.root /\ r.nodes = t.nodes \cup {x}
      /\ \A d \in 0..1 : r.child[x][d] = Nil
      /\ r.child[p][dir] = x /\ r.child[p][1 - dir] = t.child[p][1 - dir]
      /\ \A m \in t.nodes : m # p => r.child[m] = t.child[m]
      /\ r.parent[x] = p /\ \A m \in t.nodes : r.parent[m] = t.parent[m]
  BY LeafEffect
<1>4. /\ b \in [Nodes -> SUBSET Nodes] /\ b[x] = {x}
      /\ \A m \in t.nodes : (p \in below[m] => b[m] = below[m] \cup {x}) /\ (p \notin below[m] => b[m] = below[m])
  BY LeafEffect
<1>5. \A m \in t.nodes, d \in 0..1 :
         r.child[m][d] = IF m = p /\ d = dir THEN x ELSE t.child[m][d]
  BY <1>1, <1>2, <1>3
<1>6. \A m \in t.nodes, d \in 0..1 : t.child[m][d] = Nil \/ t.child[m][d] \in t.nodes
  BY <1>2 DEF LinksAgree
<1>7. ASSUME NEW m \in t.nodes, NEW d \in 0..1, ~(m = p /\ d = dir)
      PROVE  Below(b, r.child[m][d]) =
                IF p \in Below(below, t.child[m][d]) THEN Below(below, t.child[m][d]) \cup {x}
                ELSE Below(below, t.child[m][d])
  <2>. DEFINE c == t.child[m][d]
  <2>1. r.child[m][d] = c /\ (c = Nil \/ c \in t.nodes)
    BY <1>5, <1>6, <1>7
  <2>. HIDE DEF c
  <2>2. CASE c = Nil
    BY <2>1, <2>2 DEF Below, c
  <2>3. CASE c # Nil
    <3>1. Below(b, c) = b[c] /\ Below(below, c) = below[c]
      BY <2>3 DEF Below
    <3>2. b[c] = IF p \in below[c] THEN below[c] \cup {x} ELSE below[c]
      BY <1>4, <2>1, <2>3
    <3>. QED  BY <2>1, <3>1, <3>2 DEF c
  <2>. QED  BY <2>2, <2>3
<1>8. LinksAgree(r)
  <2>1. r.root \in r.nodes /\ r.root # Nil /\ r.parent[r.root] = Nil /\ r.root # x
    BY <1>1, <1>2, <1>3 DEF LinksAgree
  <2>2. ASSUME NEW n \in r.nodes, n # r.root
        PROVE  r.parent[n] \in r.nodes /\ \E d \in 0..1 : r.child[r.parent[n]][d] = n
    <3>1. CASE n = x
      BY <1>1, <1>3, <3>1
    <3>2. CASE n # x
      <4>1. n \in t.nodes /\ t.parent[n] \in t.nodes /\ n # Nil
        BY <1>2, <1>3, <2>2, <3>2 DEF LinksAgree
      <4>2. PICK d \in 0..1 : t.child[t.parent[n]][d] = n
        BY <1>2, <1>3, <2>2, <4>1 DEF LinksAgree
      <4>. QED  BY <1>1, <1>3, <1>5, <4>1, <4>2
    <3>. QED  BY <3>1, <3>2
  <2>3. ASSUME NEW n \in r.nodes, NEW d \in 0..1, r.child[n][d] # Nil
        PROVE  /\ r.child[n][d] \in r.nodes /\ r.parent[r.child[n][d]] = n
               /\ r.child[n][d] # r.child[n][1 - d]
    <3>1. n \in t.nodes /\ 1 - d \in 0..1
      BY <1>3, <2>3
    <3>2. CASE n = p /\ d = dir
      BY <1>1, <1>2, <1>3, <1>6, <3>1, <3>2
    <3>3. CASE ~(n = p /\ d = dir)
      <4>1. r.child[n][d] = t.child[n][d] /\ t.child[n][d] # Nil
        BY <1>5, <2>3, <3>1, <3>3
      <4>2. t.child[n][d] \in t.nodes /\ t.parent[t.child[n][d]] = n /\ t.child[n][d] # t.child[n][1 - d]
        BY <1>2, <3>1, <4>1 DEF LinksAgree
      <4>3. r.child[n][1 - d] = x \/ r.child[n][1 - d] = t.child[n][1 - d]
        BY <1>5, <3>1
      <4>. QED  BY <1>1, <1>3, <4>1, <4>2, <4>3
    <3>. QED  BY <3>2, <3>3
  <2>. QED  BY <2>1, <2>2, <2>3 DEF LinksAgree
<1>9. ASSUME NEW m \in r.nodes, NEW d \in 0..1
      PROVE  /\ b[m] = {m} \cup Below(b, r.child[m][d]) \cup Below(b, r.child[m][1 - d])
             /\ m \notin Below(b, r.child[m][d])
             /\ Below(b, r.child[m][d]) \cap Below(b, r.child[m][1 - d]) = {}
             /\ b[m] \subseteq r.nodes
  <2>0. 1 - d \in 0..1
    OBVIOUS
  <2>1. CASE m = x
    BY <1>3, <1>4, <2>0, <2>1 DEF Below
  <2>2. CASE m # x
    <3>1. m \in t.nodes
      BY <1>3, <2>2
    <3>2. /\ below[m] \subseteq t.nodes
          /\ below[m] = {m} \cup Below(below, t.child[m][d]) \cup Below(below, t.child[m][1 - d])
          /\ m \notin Below(below, t.child[m][d]) /\ m \notin Below(below, t.child[m][1 - d])
          /\ Below(below, t.child[m][d]) \cap Below(below, t.child[m][1 - d]) = {}
      BY <1>1, <3>1, NodeBelow
    <3>3. CASE m = p
      <4>1. Below(b, x) = {x} /\ Below(below, Nil) = {}
        BY <1>1, <1>4 DEF Below
      <4>2. b[m] = below[m] \cup {x}
        BY <1>4, <3>1, <3>2, <3>3
      <4>3. CASE d = dir
        <5>1. Below(b, r.child[m][1 - d]) = Below(below, t.child[m][1 - d])
          <6>1. ~(m = p /\ 1 - d = dir) /\ p \notin Below(below, t.child[m][1 - d])
            BY <3>2, <3>3, <4>3
          <6>. QED  BY <1>7, <2>0, <3>1, <6>1
        <5>. QED  BY <1>1, <1>3, <3>2, <3>3, <4>1, <4>2, <4>3, <5>1
      <4>4. CASE d # dir
        <5>1. Below(b, r.child[m][d]) = Below(below, t.child[m][d]) /\ 1 - d = dir
          <6>1. ~(m = p /\ d = dir) /\ p \notin Below(below, t.child[m][d]) /\ 1 - d = dir
            BY <1>2, <3>2, <3>3, <4>4
          <6>. QED  BY <1>7, <3>1, <6>1
        <5>. QED  BY <1>1, <1>3, <3>2, <3>3, <4>1, <4>2, <5>1
      <4>. QED  BY <4>3, <4>4
    <3>4. CASE m # p
      <4>1. /\ Below(b, r.child[m][d]) =
                IF p \in Below(below, t.child[m][d]) THEN Below(below, t.child[m][d]) \cup {x}
                ELSE Below(below, t.child[m][d])
            /\ Below(b, r.child[m][1 - d]) =
                IF p \in Below(below, t.child[m][1 - d]) THEN Below(below, t.child[m][1 - d]) \cup {x}
                ELSE Below(below, t.child[m][1 - d])
        BY <1>7, <2>0, <3>1, <3>4
      <4>2. b[m] = IF p \in below[m] THEN below[m] \cup {x} ELSE below[m]
        BY <1>4, <3>1
      <4>. QED  BY <1>1, <1>3, <2>2, <3>2, <3>4, <4>1, <4>2
    <3>. QED  BY <3>3, <3>4
  <2>. QED  BY <2>1, <2>2
<1>10. ASSUME NEW m \in r.nodes, NEW k \in b[m]
       PROVE  b[k] \subseteq b[m] /\ (k # m => r.parent[k] \in b[m])
  <2>1. CASE m = x
    BY <1>4, <2>1
  <2>2. CASE m # x /\ k = x
    <3>1. m \in t.nodes /\ below[m] \subseteq t.nodes
      BY <1>1, <1>3, <2>2, NodeBelow
    <3>2. p \in below[m]
      BY <1>1, <1>4, <2>2, <3>1
    <3>3. b[m] = below[m] \cup {x} /\ b[k] = {x} /\ r.parent[k] = p
      BY <1>3, <1>4, <2>2, <3>1, <3>2
    <3>. QED  BY <3>2, <3>3
  <2>3. CASE m # x /\ k # x
    <3>1. m \in t.nodes
      BY <1>3, <2>3
    <3>2. k \in below[m]
      BY <1>4, <2>3, <3>1
    <3>3. /\ k \in t.nodes /\ below[k] \subseteq below[m]
          /\ k # m => t.parent[k] \in below[m]
      BY <1>1, <3>1, <3>2, Nested
    <3>. QED  BY <1>3, <1>4, <3>1, <3>3
  <2>. QED  BY <2>1, <2>2, <2>3
<1>11. b[r.root] = r.nodes
  <2>1. t.root # Nil /\ t.root \in t.nodes /\ below[t.root] = t.nodes
    BY <1>1, <1>2 DEF Sound, Subtrees, LinksAgree
  <2>. QED  BY <1>1, <1>3, <1>4, <2>1
<1>12. Subtrees(r, b)
  <2>. SUFFICES ASSUME NEW m \in r.nodes
                PROVE  LET b0 == Below(b, r.child[m][0])
                           b1 == Below(b, r.child[m][1])
                       IN  /\ b[m] = {m} \cup b0 \cup b1
                           /\ m \notin b0 /\ m \notin b1 /\ b0 \cap b1 = {}
                           /\ b[m] \subseteq r.nodes
                           /\ \A k \in b[m] : b[k] \subseteq b[m]
                           /\ \A k \in b[m] : k # m => r.parent[k] \in b[m]
    BY <1>11, Zenon DEF Subtrees
  <2>1. 0 \in 0..1 /\ 1 \in 0..1 /\ 1 - 0 = 1 /\ 1 - 1 = 0
    OBVIOUS
  <2>2. /\ b[m] = {m} \cup Below(b, r.child[m][0]) \cup Below(b, r.child[m][1])
        /\ m \notin Below(b, r.child[m][0])
        /\ Below(b, r.child[m][0]) \cap Below(b, r.child[m][1]) = {}
        /\ b[m] \subseteq r.nodes
    BY <1>9, <2>1
  <2>3. m \notin Below(b, r.child[m][1])
    BY <1>9, <2>1
  <2>. QED  BY <1>10, <2>2, <2>3, Zenon
<1>. QED  BY <1>3, <1>4, <1>7, <1>8, <1>12 DEF Sound

\* The order of S with x before the nodes of G and after the other ones.
OrderWith(S, order, x, G) ==
  order \cup {<<m, x>> : m \in S \ G} \cup {<<x, m>> : m \in G}

\* G is a subset of S that holds what comes after its nodes.
Final(S, order, G) ==
  G \subseteq S /\ \A k \in G, l \in S : <<k, l>> \in order => l \in G

\* With x put before a final part, the order is still total.
LEMMA OrderWithIs ==
  ASSUME NEW S \in SUBSET Nodes, NEW order, TotalOrder(S, order), NEW x \in Nodes \ S, NEW G, Final(S, order, G)
  PROVE  /\ TotalOrder(S \cup {x}, OrderWith(S, order, x, G))
         /\ \A k \in S : <<k, x>> \in OrderWith(S, order, x, G) <=> k \notin G
         /\ \A k \in S : <<x, k>> \in OrderWith(S, order, x, G) <=> k \in G
         /\ \A k, l \in S : <<k, l>> \in OrderWith(S, order, x, G) <=> <<k, l>> \in order
<1>. DEFINE o == OrderWith(S, order, x, G)
<1>1. order \subseteq S \X S /\ G \subseteq S
  BY DEF TotalOrder, Final
<1>2. \A k \in S : <<k, x>> \in o <=> k \notin G
  BY <1>1 DEF OrderWith
<1>3. \A k \in S : <<x, k>> \in o <=> k \in G
  BY <1>1 DEF OrderWith
<1>4. \A k, l \in S : <<k, l>> \in o <=> <<k, l>> \in order
  BY <1>1 DEF OrderWith
<1>5. <<x, x>> \notin o
  BY <1>1 DEF OrderWith
<1>6. o \subseteq (S \cup {x}) \X (S \cup {x})
  BY <1>1 DEF OrderWith
<1>. HIDE DEF o
<1>7. /\ \A k, l \in S : <<k, l>> \in order => <<l, k>> \notin order
      /\ \A k, l \in S : k # l => <<k, l>> \in order \/ <<l, k>> \in order
      /\ \A k, l, m \in S : <<k, l>> \in order /\ <<l, m>> \in order => <<k, m>> \in order
  BY DEF TotalOrder
<1>8. ASSUME NEW k \in S \cup {x}, NEW l \in S \cup {x}, <<k, l>> \in o
      PROVE  <<l, k>> \notin o
  BY <1>2, <1>3, <1>4, <1>5, <1>7, <1>8
<1>9. ASSUME NEW k \in S \cup {x}, NEW l \in S \cup {x}, k # l
      PROVE  <<k, l>> \in o \/ <<l, k>> \in o
  BY <1>2, <1>3, <1>4, <1>7, <1>9
<1>10. \A k, l \in S : k \notin G /\ l \in G => <<k, l>> \in order
  BY <1>7 DEF Final
<1>11. ASSUME NEW k \in S \cup {x}, NEW l \in S \cup {x}, NEW m \in S \cup {x},
              <<k, l>> \in o, <<l, m>> \in o
       PROVE  <<k, m>> \in o
  <2>1. CASE k \in S /\ l \in S /\ m \in S
    BY <1>4, <1>7, <1>11, <2>1
  <2>2. CASE k \in S /\ l \in S /\ m = x
    BY <1>2, <1>4, <1>11, <2>2 DEF Final
  <2>3. CASE k \in S /\ l = x /\ m \in S
    BY <1>2, <1>3, <1>4, <1>10, <1>11, <2>3
  <2>4. CASE k = x /\ l \in S /\ m \in S
    BY <1>3, <1>4, <1>11, <2>4 DEF Final
  <2>5. CASE (k = x /\ l = x) \/ (l = x /\ m = x)
    BY <1>5, <1>11, <2>5
  <2>6. CASE k = x /\ m = x /\ l \in S
    BY <1>8, <1>11, <2>6
  <2>. QED  BY <2>1, <2>2, <2>3, <2>4, <2>5, <2>6
<1>12. TotalOrder(S \cup {x}, o)
  BY <1>6, <1>8, <1>9, <1>11 DEF TotalOrder
<1>. QED  BY <1>2, <1>3, <1>4, <1>12 DEF o

\* An empty cell that the descent finds is where the new node goes.
LEMMA LeafPlace ==
  ASSUME NEW t, NEW order, NEW below, SearchTree(t, order, below), NEW p \in t.nodes,
         NEW G, Final(t.nodes, order, G),
         NEW dir, dir = IF p \in G THEN 0 ELSE 1, t.child[p][dir] = Nil,
         \A m \in t.nodes \ below[p] : <<m, p>> \in order <=> m \notin G
  PROVE  /\ \A k \in t.nodes : k # p => (k \notin G <=> <<k, p>> \in order)
         /\ p \notin G <=> dir = 1
         /\ dir \in 0..1
<1>1. dir \in 0..1 /\ (p \notin G <=> dir = 1) /\ p \in Nodes /\ Sound(t, below) /\ t.nodes \subseteq Nodes
  BY DEF SearchTree, Sound, Trees
<1>2. ASSUME NEW k \in t.nodes, k # p
      PROVE  k \notin G <=> <<k, p>> \in order
  <2>1. CASE k \notin below[p]
    BY <2>1
  <2>2. CASE k \in below[p]
    <3>1. k \in Below(below, t.child[p][1 - dir])
      BY <1>1, <1>2, <2>2, NodeBelow DEF Below
    <3>2. 1 - dir \in 0..1 /\ TotalOrder(t.nodes, order)
      BY <1>1 DEF SearchTree
    <3>3. Ahead(order, p, k, 1 - dir)
      BY <3>1, <3>2, SearchTreeFacts
    <3>4. CASE dir = 1
      <4>1. <<k, p>> \in order
        BY <3>3, <3>4 DEF Ahead
      <4>. QED  BY <1>1, <3>4, <4>1 DEF Final
    <3>5. CASE dir = 0
      <4>1. <<p, k>> \in order
        BY <3>3, <3>5 DEF Ahead
      <4>2. <<k, p>> \notin order
        BY <3>2, <4>1 DEF TotalOrder
      <4>. QED  BY <1>1, <3>5, <4>1, <4>2 DEF Final
    <3>. QED  BY <1>1, <3>4, <3>5
  <2>. QED  BY <2>1, <2>2
<1>. QED  BY <1>1, <1>2

\* The tree with the new leaf is a search tree for the new order.
LEMMA LeafOrder ==
  ASSUME NEW t, NEW below, NEW p, NEW dir, NEW x, NEW w, NEW r, NEW b, Leaf(t, below, p, dir, x, w, r, b),
         NEW order, SearchTree(t, order, below), NEW G, Final(t.nodes, order, G), dir = IF p \in G THEN 0 ELSE 1,
         \A m \in t.nodes \ below[p] : <<m, p>> \in order <=> m \notin G
  PROVE  SearchTree(r, OrderWith(t.nodes, order, x, G), b)
<1>. DEFINE o == OrderWith(t.nodes, order, x, G)
<1>1. /\ Sound(t, below) /\ p \in t.nodes /\ t.child[p][dir] = Nil /\ x \in Nodes \ t.nodes
      /\ t.nodes \in SUBSET Nodes /\ TotalOrder(t.nodes, order) /\ x # p
  BY DEF Leaf, SearchTree, Sound, Trees
<1>2. /\ \A k \in t.nodes : k # p => (k \notin G <=> <<k, p>> \in order)
      /\ p \notin G <=> dir = 1
      /\ dir \in 0..1
  BY <1>1, LeafPlace
<1>3. /\ TotalOrder(t.nodes \cup {x}, o)
      /\ \A k \in t.nodes : <<k, x>> \in o <=> k \notin G
      /\ \A k \in t.nodes : <<x, k>> \in o <=> k \in G
      /\ \A k, l \in t.nodes : <<k, l>> \in o <=> <<k, l>> \in order
  BY <1>1, OrderWithIs
<1>. HIDE DEF o
<1>4. /\ r.nodes = t.nodes \cup {x} /\ (\A d \in 0..1 : r.child[x][d] = Nil) /\ r.child[p][dir] = x
      /\ b[x] = {x}
      /\ \A m \in t.nodes : (p \in below[m] => b[m] = below[m] \cup {x}) /\ (p \notin below[m] => b[m] = below[m])
  BY LeafEffect
<1>5. /\ Sound(r, b)
      /\ \A m \in t.nodes, d \in 0..1 : ~(m = p /\ d = dir) =>
           Below(b, r.child[m][d]) =
             IF p \in Below(below, t.child[m][d]) THEN Below(below, t.child[m][d]) \cup {x}
             ELSE Below(below, t.child[m][d])
  BY LeafSound
\* Next to any other node, x is where p is.
<1>6. \A k \in t.nodes : k # p => /\ <<k, x>> \in o <=> <<k, p>> \in o
                                  /\ <<x, k>> \in o <=> <<p, k>> \in o
  <2>1. \A k \in t.nodes : k # p => (<<k, p>> \in order <=> <<p, k>> \notin order)
    BY <1>1 DEF TotalOrder
  <2>. QED  BY <1>1, <1>2, <1>3, <2>1
<1>7. \A k, l \in t.nodes, d \in 0..1 : Ahead(order, k, l, d) => Ahead(o, k, l, d)
  BY <1>3 DEF Ahead
<1>8. ASSUME NEW n \in r.nodes, NEW d \in 0..1, NEW m \in Below(b, r.child[n][d])
      PROVE  Ahead(o, n, m, d)
  <2>1. CASE n = x
    BY <1>4, <1>8, <2>1 DEF Below
  <2>2. CASE n = p /\ d = dir
    <3>1. m = x
      BY <1>1, <1>4, <1>8, <2>2, TreeAssumption DEF Below
    <3>. QED  BY <1>1, <1>2, <1>3, <2>2, <3>1 DEF Ahead
  <2>3. CASE n # x /\ ~(n = p /\ d = dir)
    <3>1. n \in t.nodes
      BY <1>4, <2>3
    <3>2. m \in Below(below, t.child[n][d]) \/ (m = x /\ p \in Below(below, t.child[n][d]))
      BY <1>5, <1>8, <2>3, <3>1
    <3>3. \A k \in Below(below, t.child[n][d]) : k \in t.nodes /\ Ahead(order, n, k, d)
      BY <3>1, SearchTreeFacts
    <3>4. CASE m \in Below(below, t.child[n][d])
      BY <1>7, <3>1, <3>3, <3>4
    <3>5. CASE m = x /\ p \in Below(below, t.child[n][d])
      <4>1. Ahead(o, n, p, d)
        BY <1>7, <3>1, <3>3, <3>5
      <4>2. n # p
        BY <1>1, <3>5, NodeBelow
      <4>. QED  BY <1>6, <3>1, <3>5, <4>1, <4>2 DEF Ahead
    <3>. QED  BY <3>2, <3>4, <3>5
  <2>. QED  BY <1>4, <2>1, <2>2, <2>3
<1>9. ASSUME NEW n \in r.nodes, NEW m \in r.nodes \ b[n], NEW u \in b[n], NEW v \in b[n], <<m, u>> \in o
      PROVE  <<m, v>> \in o
  <2>1. CASE n = x
    BY <1>4, <1>9, <2>1
  <2>2. CASE n # x
    <3>1. n \in t.nodes /\ below[n] \subseteq t.nodes
      BY <1>1, <1>4, <2>2, NodeBelow
    <3>2. \A k \in t.nodes \ below[n], y, z \in below[n] : <<k, y>> \in o => <<k, z>> \in o
      BY <1>3, <3>1, Convex
    <3>3. CASE p \in below[n]
      <4>1. m \in t.nodes /\ m \notin below[n] /\ m # p /\ (<<m, x>> \in o <=> <<m, p>> \in o)
        <5>1. b[n] = below[n] \cup {x}
          BY <1>4, <3>1, <3>3
        <5>2. m \in t.nodes /\ m \notin below[n] /\ m # p
          BY <1>4, <1>9, <3>3, <5>1
        <5>. QED  BY <1>6, <5>2
      <4>2. u \in below[n] \cup {x} /\ v \in below[n] \cup {x}
        BY <1>4, <1>9, <3>1, <3>3
      <4>3. <<m, p>> \in o
        BY <1>9, <3>2, <3>3, <4>1, <4>2
      <4>. QED  BY <3>2, <3>3, <4>1, <4>2, <4>3
    <3>4. CASE p \notin below[n]
      <4>1. u \in below[n] /\ v \in below[n] /\ m \notin below[n] /\ m \in t.nodes \cup {x}
        BY <1>4, <1>9, <3>1, <3>4
      <4>2. CASE m = x
        <5>1. u # p /\ v # p /\ u \in t.nodes /\ v \in t.nodes
          BY <3>1, <3>4, <4>1
        <5>2. <<p, u>> \in o
          BY <1>6, <1>9, <4>2, <5>1
        <5>3. <<p, v>> \in o
          BY <1>1, <3>2, <3>4, <4>1, <5>2
        <5>. QED  BY <1>6, <4>2, <5>1, <5>3
      <4>3. CASE m # x
        BY <1>9, <3>2, <4>1, <4>3
      <4>. QED  BY <4>2, <4>3
    <3>. QED  BY <3>3, <3>4
  <2>. QED  BY <2>1, <2>2
<1>10. InOrder(r, o, b, Nil)
  BY <1>8, <1>9, Zenon DEF InOrder
<1>. QED  BY <1>3, <1>4, <1>5, <1>10 DEF SearchTree, o

\* The weight of a set with one more node.
LEMMA WeightAdd ==
  ASSUME NEW S \in SUBSET Nodes, NEW x \in Nodes \ S
  PROVE  WeightOf[S \cup {x}] = WeightOf[S] + Weight[x] /\ WeightOf[S] \in Int /\ Weight[x] \in Int
<1>1. {x} \in SUBSET Nodes /\ S \cap {x} = {}
  OBVIOUS
<1>2. WeightOf[S \cup {x}] = WeightOf[S] + WeightOf[{x}] /\ WeightOf[S] \in Int
  BY <1>1, WeightUnion
<1>3. \A m \in Nodes : WeightOf[{m}] = Weight[m]
  BY WeightAssumption, Zenon
<1>4. Weight[x] \in Int
  BY TreeAssumption
<1>. QED  BY <1>2, <1>3, <1>4

\* The descent has come to the empty cell where x goes, before the nodes of G.
DescentOver(t, order, below, height, s, p, dir, x, G) ==
  /\ below \in [Nodes -> SUBSET Nodes] /\ height \in [Nodes -> Nat]
  /\ SearchTree(t, order, below) /\ t.ok /\ RedApart(t, Nil) /\ EquallyBlack(t, height, Nil, s)
  /\ p \in t.nodes /\ x \in Nodes \ t.nodes /\ Final(t.nodes, order, G)
  /\ dir = (IF p \in G THEN 0 ELSE 1) /\ t.child[p][dir] = Nil
  /\ \A m \in t.nodes \ below[p] : <<m, p>> \in order <=> m \notin G
  /\ \A m \in t.nodes :
       t.sum[m] = WeightOf[below[m]] + IF p \in below[m] /\ m # p THEN Weight[x] ELSE 0

\* What linking a leaf, the end of the descent, establishes.
LEMMA LinkLeaf ==
  ASSUME NEW t, NEW order, NEW below, NEW height, NEW s, NEW p, NEW dir, NEW x, NEW G,
         DescentOver(t, order, below, height, s, p, dir, x, G)
  PROVE  LET r == DescendBody(t, p, dir, x, Weight[x])
         IN  /\ r.nodes = t.nodes \cup {x}
             /\ \E b \in [Nodes -> SUBSET Nodes], h \in [Nodes -> Nat] :
                  /\ Good(r, OrderWith(t.nodes, order, x, G), b)
                  /\ RedApart(r, x)
                  /\ EquallyBlack(r, h, Nil, s)
             /\ x # r.root /\ IsRed(r, x)
<1>. DEFINE r == DescendBody(t, p, dir, x, Weight[x])
            b == [m \in Nodes |-> IF m = x THEN {x}
                                  ELSE IF p \in below[m] THEN below[m] \cup {x} ELSE below[m]]
            h == [height EXCEPT ![x] = 0]
<1>. /\ below \in [Nodes -> SUBSET Nodes] /\ height \in [Nodes -> Nat]
     /\ SearchTree(t, order, below) /\ t.ok /\ RedApart(t, Nil) /\ EquallyBlack(t, height, Nil, s)
     /\ p \in t.nodes /\ x \in Nodes \ t.nodes /\ Final(t.nodes, order, G)
     /\ dir = (IF p \in G THEN 0 ELSE 1) /\ t.child[p][dir] = Nil
     /\ \A m \in t.nodes \ below[p] : <<m, p>> \in order <=> m \notin G
     /\ \A m \in t.nodes :
          t.sum[m] = WeightOf[below[m]] + IF p \in below[m] /\ m # p THEN Weight[x] ELSE 0
  BY DEF DescentOver
<1>1. /\ dir \in 0..1 /\ Sound(t, below) /\ Weight[x] \in Int /\ t \in Trees /\ t.nodes \subseteq Nodes
      /\ Nil \notin Nodes
  BY TreeAssumption DEF SearchTree, Sound, Trees
<1>2. Leaf(t, below, p, dir, x, Weight[x], r, b)
  BY <1>1, Zenon DEF Leaf
<1>. HIDE DEF r, b
<1>3. SearchTree(r, OrderWith(t.nodes, order, x, G), b)
  BY <1>2, LeafOrder
<1>4. /\ r \in Trees /\ r.ok = t.ok /\ r.root = t.root /\ r.nodes = t.nodes \cup {x}
      /\ \A d \in 0..1 : r.child[x][d] = Nil
      /\ r.child[p][dir] = x /\ r.child[p][1 - dir] = t.child[p][1 - dir]
      /\ \A m \in t.nodes : m # p => r.child[m] = t.child[m]
      /\ r.parent[x] = p /\ \A m \in t.nodes : r.parent[m] = t.parent[m]
      /\ r.color[x] = "Red" /\ \A m \in t.nodes : r.color[m] = t.color[m]
  <2>1. /\ r \in Trees /\ r.ok = t.ok /\ r.root = t.root /\ r.nodes = t.nodes \cup {x}
        /\ \A d \in 0..1 : r.child[x][d] = Nil
        /\ r.child[p][dir] = x /\ r.child[p][1 - dir] = t.child[p][1 - dir]
    BY ONLY <1>2, LeafEffect
  <2>2. /\ \A m \in t.nodes : m # p => r.child[m] = t.child[m]
        /\ r.parent[x] = p /\ \A m \in t.nodes : r.parent[m] = t.parent[m]
        /\ r.color[x] = "Red" /\ \A m \in t.nodes : r.color[m] = t.color[m]
    BY <1>2, LeafEffect
  <2>. QED  BY <2>1, <2>2, Zenon
<1>5. /\ r.sum[x] = Weight[x] /\ r.sum[p] = t.sum[p] + Weight[x]
      /\ \A m \in t.nodes : m # p => r.sum[m] = t.sum[m]
      /\ b \in [Nodes -> SUBSET Nodes] /\ b[x] = {x}
      /\ \A m \in t.nodes : (p \in below[m] => b[m] = below[m] \cup {x}) /\ (p \notin below[m] => b[m] = below[m])
  BY <1>2, LeafEffect
<1>6. Summed(r, b)
  <2>1. r.sum[x] = WeightOf[b[x]]
    <3>1. \A m \in Nodes : WeightOf[{m}] = Weight[m]
      BY WeightAssumption, Zenon
    <3>. QED  BY <1>5, <3>1
  <2>2. ASSUME NEW m \in t.nodes
        PROVE  r.sum[m] = WeightOf[b[m]]
    <3>1. below[m] \subseteq t.nodes /\ m \in below[m]
      BY <1>1, NodeBelow
    <3>2. WeightOf[below[m] \cup {x}] = WeightOf[below[m]] + Weight[x] /\ WeightOf[below[m]] \in Int
      <4>1. below[m] \in SUBSET Nodes /\ x \in Nodes \ below[m]
        BY <1>1, <3>1
      <4>. QED  BY <4>1, WeightAdd
    <3>3. t.sum[m] = WeightOf[below[m]] + IF p \in below[m] /\ m # p THEN Weight[x] ELSE 0
      OBVIOUS
    <3>4. CASE p \in below[m] /\ m # p
      BY <1>5, <3>2, <3>3, <3>4
    <3>5. CASE m = p
      <4>1. t.sum[m] = WeightOf[below[m]]
        BY <3>2, <3>3, <3>5
      <4>. QED  BY <1>5, <3>1, <3>2, <3>5, <4>1
    <3>6. CASE p \notin below[m]
      <4>1. m # p /\ t.sum[m] = WeightOf[below[m]]
        BY <3>1, <3>2, <3>3, <3>6
      <4>. QED  BY <1>5, <3>6, <4>1
    <3>. QED  BY <3>4, <3>5, <3>6
  <2>. QED  BY <1>4, <2>1, <2>2 DEF Summed
<1>7. \A m \in t.nodes, d \in 0..1 :
        r.child[m][d] = IF m = p /\ d = dir THEN x ELSE t.child[m][d]
  <2>1. \A d \in 0..1 : d = dir \/ d = 1 - dir
    BY <1>1
  <2>. QED  BY <1>1, <1>4, <2>1
<1>8. RedApart(r, x)
  <2>. SUFFICES ASSUME NEW m \in r.nodes, NEW d \in 0..1, IsRed(r, m), IsRed(r, r.child[m][d])
                PROVE  r.child[m][d] = x
    BY DEF RedApart
  <2>1. m \in t.nodes
    BY <1>4 DEF IsRed
  <2>2. CASE ~(m = p /\ d = dir)
    <3>1. r.child[m][d] = t.child[m][d] /\ r.child[m][d] # Nil
      BY <1>7, <2>1, <2>2 DEF IsRed
    <3>2. t.child[m][d] \in t.nodes
      BY <1>1, <2>1, <3>1 DEF Sound, LinksAgree
    <3>3. IsRed(t, m) /\ IsRed(t, t.child[m][d])
      BY <1>4, <2>1, <3>1, <3>2 DEF IsRed
    <3>. QED  BY <2>1, <3>3 DEF RedApart, IsRed
  <2>. QED  BY <1>7, <2>1, <2>2
<1>9. h \in [Nodes -> Nat] /\ h[x] = 0 /\ \A m \in t.nodes : h[m] = height[m]
  BY <1>1
<1>. HIDE DEF h
<1>10. EquallyBlack(r, h, Nil, s)
  <2>. SUFFICES ASSUME NEW m \in r.nodes, NEW d \in 0..1
                PROVE  h[m] = Height(h, r.child[m][d]) + Black(r, m)
    <3>1. Nil \notin r.nodes
      BY <1>1, <1>4
    <3>. QED  BY <1>4, <1>9, <3>1, HeightsAre
  <2>1. CASE m = x
    BY <1>1, <1>4, <1>9, <2>1 DEF Height, Black, IsRed
  <2>2. CASE m # x
    <3>1. m \in t.nodes /\ m # Nil /\ Black(r, m) = Black(t, m)
      BY <1>1, <1>4, <2>2 DEF Black, IsRed
    <3>2. height[m] = Height(height, t.child[m][d]) + Black(t, m)
      BY <1>1, <3>1, HeightIs
    <3>3. Height(h, r.child[m][d]) = Height(height, t.child[m][d])
      <4>1. CASE m = p /\ d = dir
        BY <1>1, <1>7, <1>9, <4>1 DEF Height
      <4>2. CASE ~(m = p /\ d = dir)
        <5>1. r.child[m][d] = t.child[m][d] /\ (t.child[m][d] = Nil \/ t.child[m][d] \in t.nodes)
          BY <1>1, <1>7, <3>1, <4>2 DEF Sound, LinksAgree
        <5>. QED  BY <1>9, <5>1 DEF Height
      <4>. QED  BY <4>1, <4>2
    <3>. QED  BY <1>9, <3>1, <3>2, <3>3
  <2>. QED  BY <2>1, <2>2
<1>11. x # r.root /\ IsRed(r, x)
  BY <1>1, <1>4 DEF Sound, LinksAgree, IsRed
<1>12. Good(r, OrderWith(t.nodes, order, x, G), b)
  BY <1>3, <1>4, <1>6 DEF Good
<1>. QED  BY <1>4, <1>5, <1>8, <1>9, <1>10, <1>11, <1>12 DEF r

\* The first node of an empty tree.
LEMMA PlantFirst ==
  ASSUME NEW t, NEW order, NEW below \in [Nodes -> SUBSET Nodes], NEW s, NEW x \in Nodes,
         SearchTree(t, order, below), t.ok, t.root = Nil
  PROVE  LET r == PlantRoot(t, x, Weight[x])
         IN  /\ r \in Trees
             /\ \E b \in [Nodes -> SUBSET Nodes], h \in [Nodes -> Nat] :
                  Good(r, order, b) /\ RedApart(r, Nil) /\ EquallyBlack(r, h, Nil, s)
<1>. DEFINE r == PlantRoot(t, x, Weight[x])
            b == [m \in Nodes |-> {x}]
            h == [m \in Nodes |-> 0]
<1>1. /\ t \in Trees /\ t.nodes = {} /\ Weight[x] \in Int /\ x # Nil /\ TotalOrder({}, order)
  BY TreeAssumption DEF SearchTree, Sound, LinksAgree
<1>2. NoChildren \in [0..1 -> Nodes \cup {Nil}] /\ NoChildren[0] = Nil /\ NoChildren[1] = Nil
  BY DEF NoChildren
<1>3. /\ r \in Trees /\ r.root = x /\ r.nodes = {x} /\ r.ok = t.ok /\ r.child[x] = NoChildren
      /\ r.parent[x] = Nil /\ r.color[x] = "Red" /\ r.sum[x] = Weight[x]
  <2>. DEFINE ch == [t.child EXCEPT ![x] = NoChildren]
              pa == [t.parent EXCEPT ![x] = Nil]
              co == [t.color EXCEPT ![x] = "Red"]
              su == [t.sum EXCEPT ![x] = Weight[x]]
  <2>1. /\ ch \in [Nodes -> [0..1 -> Nodes \cup {Nil}]] /\ pa \in [Nodes -> Nodes \cup {Nil}]
        /\ co \in [Nodes -> {"Red", "Black"}] /\ su \in [Nodes -> Int]
    BY <1>1, <1>2 DEF Trees
  <2>2. ch[x] = NoChildren /\ pa[x] = Nil /\ co[x] = "Red" /\ su[x] = Weight[x]
    BY <1>1 DEF Trees
  <2>3. r = [t EXCEPT !.root = x, !.nodes = {x}, !.child = ch, !.parent = pa, !.color = co, !.sum = su]
    BY Zenon DEF PlantRoot
  <2>. HIDE DEF r, ch, pa, co, su
  <2>4. /\ r \in Trees /\ r.root = x /\ r.nodes = {x} /\ r.ok = t.ok /\ r.child = ch
        /\ r.parent = pa /\ r.color = co /\ r.sum = su
    BY <1>1, <2>1, <2>3 DEF Trees
  <2>. QED  BY <2>2, <2>4
<1>. HIDE DEF r
<1>4. b \in [Nodes -> SUBSET Nodes] /\ h \in [Nodes -> Nat] /\ b[x] = {x} /\ h[x] = 0
  OBVIOUS
<1>. HIDE DEF b, h
<1>5. \A d \in 0..1 : r.child[x][d] = Nil
  BY <1>2, <1>3
<1>6. LinksAgree(r)
  BY <1>1, <1>3, <1>5 DEF LinksAgree
<1>7. Subtrees(r, b)
  BY <1>1, <1>2, <1>3, <1>4 DEF Subtrees, Below
<1>8. TotalOrder(r.nodes, order) /\ order = {}
  BY <1>1, <1>3, TreeAssumption DEF TotalOrder
<1>9. InOrder(r, order, b, Nil)
  BY <1>1, <1>3, <1>4, <1>5, <1>8 DEF InOrder, Below
<1>10. Summed(r, b)
  <2>1. \A m \in Nodes : WeightOf[{m}] = Weight[m]
    BY WeightAssumption, Zenon
  <2>. QED  BY <1>3, <1>4, <2>1, SMTT(20) DEF Summed
<1>11. RedApart(r, Nil)
  BY <1>3, <1>5 DEF RedApart, IsRed
<1>12. EquallyBlack(r, h, Nil, s)
  BY <1>1, <1>3, <1>4, <1>5 DEF EquallyBlack, Height, Black, IsRed
<1>13. Good(r, order, b)
  BY <1>3, <1>4, <1>6, <1>7, <1>8, <1>9, <1>10 DEF Good, SearchTree, Sound
<1>. QED  BY <1>3, <1>4, <1>11, <1>12, <1>13 DEF r
-----------------------------------------------------------------------------

\* A tree with its nodes renamed by the involution s.
Involution(t, s) ==
  /\ s \in [Nodes \cup {Nil} -> Nodes \cup {Nil}] /\ s[Nil] = Nil
  /\ \A k \in Nodes \cup {Nil} : s[s[k]] = k
  /\ \A k \in t.nodes : s[k] \in t.nodes

\* r is t with its nodes renamed by s.
Renamed(t, r, s) ==
  /\ Involution(t, s)
  /\ r \in Trees /\ r.nodes = t.nodes /\ r.root = s[t.root]
  /\ \A m \in t.nodes, d \in 0..1 : r.child[m][d] = s[t.child[s[m]][d]]
  /\ \A m \in t.nodes : r.parent[m] = s[t.parent[s[m]]] /\ r.color[m] = t.color[s[m]]

\* The set S renamed by s.
Image(s, S) == {k \in Nodes : s[k] \in S}

\* Subtrees follows from what it says of each side of each node.
LEMMA SubtreesAre ==
  ASSUME NEW t, NEW below,
         t.root # Nil => below[t.root] = t.nodes,
         \A m \in t.nodes, d \in 0..1 :
           /\ below[m] = {m} \cup Below(below, t.child[m][d]) \cup Below(below, t.child[m][1 - d])
           /\ m \notin Below(below, t.child[m][d])
           /\ Below(below, t.child[m][d]) \cap Below(below, t.child[m][1 - d]) = {}
           /\ below[m] \subseteq t.nodes,
         \A m \in t.nodes : \A k \in below[m] :
           below[k] \subseteq below[m] /\ (k # m => t.parent[k] \in below[m])
  PROVE  Subtrees(t, below)
<1>. SUFFICES ASSUME NEW m \in t.nodes
              PROVE  LET b0 == Below(below, t.child[m][0])
                         b1 == Below(below, t.child[m][1])
                     IN  /\ below[m] = {m} \cup b0 \cup b1
                         /\ m \notin b0 /\ m \notin b1 /\ b0 \cap b1 = {}
                         /\ below[m] \subseteq t.nodes
                         /\ \A k \in below[m] : below[k] \subseteq below[m]
                         /\ \A k \in below[m] : k # m => t.parent[k] \in below[m]
  BY Zenon DEF Subtrees
<1>1. 0 \in 0..1 /\ 1 \in 0..1 /\ 1 - 0 = 1 /\ 1 - 1 = 0
  OBVIOUS
<1>2. /\ below[m] = {m} \cup Below(below, t.child[m][0]) \cup Below(below, t.child[m][1])
      /\ m \notin Below(below, t.child[m][0])
      /\ Below(below, t.child[m][0]) \cap Below(below, t.child[m][1]) = {}
      /\ below[m] \subseteq t.nodes
  BY <1>1
<1>3. m \notin Below(below, t.child[m][1])
  BY <1>1
<1>. QED  BY <1>2, <1>3, Zenon

\* Renaming keeps the links and subtrees.
LEMMA RenamedSound ==
  ASSUME NEW t, NEW r, NEW s, Renamed(t, r, s), NEW below, Sound(t, below),
         NEW b, b = [m \in Nodes |-> Image(s, below[s[m]])]
  PROVE  /\ Sound(r, b)
         /\ \A m \in t.nodes : b[m] = Image(s, below[s[m]])
         /\ \A m \in t.nodes, d \in 0..1 :
              Below(b, r.child[m][d]) = Image(s, Below(below, t.child[s[m]][d]))
<1>1. /\ s \in [Nodes \cup {Nil} -> Nodes \cup {Nil}] /\ s[Nil] = Nil
      /\ \A k \in Nodes \cup {Nil} : s[s[k]] = k
      /\ \A k \in t.nodes : s[k] \in t.nodes
      /\ r \in Trees /\ r.nodes = t.nodes /\ r.root = s[t.root]
  BY DEF Renamed, Involution
<1>2. /\ \A m \in t.nodes, d \in 0..1 : r.child[m][d] = s[t.child[s[m]][d]]
      /\ \A m \in t.nodes : r.parent[m] = s[t.parent[s[m]]] /\ r.color[m] = t.color[s[m]]
  BY DEF Renamed
<1>3. t \in Trees /\ LinksAgree(t) /\ Nil \notin Nodes /\ t.nodes \subseteq Nodes
  BY TreeAssumption DEF Sound, Trees
<1>4. \A m \in t.nodes : b[m] = Image(s, below[s[m]])
  BY <1>3
<1>5. \A m \in t.nodes, d \in 0..1 : t.child[m][d] = Nil \/ t.child[m][d] \in t.nodes
  BY <1>3 DEF LinksAgree
<1>6. ASSUME NEW m \in t.nodes, NEW d \in 0..1
      PROVE  Below(b, r.child[m][d]) = Image(s, Below(below, t.child[s[m]][d]))
  <2>. DEFINE c == t.child[s[m]][d]
  <2>1. c = Nil \/ c \in t.nodes
    BY <1>1, <1>5
  <2>2. r.child[m][d] = s[c]
    BY <1>2
  <2>. HIDE DEF c
  <2>3. CASE c = Nil
    BY <1>1, <2>2, <2>3 DEF Below, Image, c
  <2>4. CASE c # Nil
    <3>1. s[c] \in t.nodes /\ s[c] # Nil /\ s[s[c]] = c
      BY <1>1, <1>3, <2>1, <2>4
    <3>2. Below(b, s[c]) = b[s[c]] /\ Below(below, c) = below[c]
      BY <2>4, <3>1 DEF Below
    <3>. QED  BY <1>4, <2>2, <3>1, <3>2 DEF c
  <2>. QED  BY <2>3, <2>4
<1>7. LinksAgree(r)
  <2>1. r.root = Nil <=> t.root = Nil
    BY <1>1, <1>3 DEF Trees
  <2>2. ASSUME r.root # Nil
        PROVE  r.root \in r.nodes /\ r.parent[r.root] = Nil
    <3>1. t.root \in t.nodes /\ t.parent[t.root] = Nil
      BY <1>3, <2>1, <2>2 DEF LinksAgree
    <3>2. r.root \in t.nodes /\ s[r.root] = t.root
      BY <1>1, <1>3, <3>1
    <3>. QED  BY <1>1, <1>2, <3>1, <3>2
  <2>3. ASSUME NEW n \in r.nodes, n # r.root
        PROVE  r.parent[n] \in r.nodes /\ \E d \in 0..1 : r.child[r.parent[n]][d] = n
    <3>1. s[n] \in t.nodes /\ s[n] # t.root /\ s[s[n]] = n
      BY <1>1, <1>3, <2>3
    <3>2. PICK d \in 0..1 : t.parent[s[n]] \in t.nodes /\ t.child[t.parent[s[n]]][d] = s[n]
      BY <1>3, <3>1 DEF LinksAgree
    <3>3. r.parent[n] = s[t.parent[s[n]]] /\ r.parent[n] \in t.nodes /\ s[r.parent[n]] = t.parent[s[n]]
      BY <1>1, <1>2, <1>3, <2>3, <3>2
    <3>4. r.child[r.parent[n]][d] = n
      BY <1>2, <3>1, <3>2, <3>3
    <3>. QED  BY <1>1, <3>3, <3>4
  <2>4. ASSUME NEW n \in r.nodes, NEW d \in 0..1, r.child[n][d] # Nil
        PROVE  /\ r.child[n][d] \in r.nodes /\ r.parent[r.child[n][d]] = n
               /\ r.child[n][d] # r.child[n][1 - d]
    <3>. DEFINE c == t.child[s[n]][d]
                e == t.child[s[n]][1 - d]
    <3>1. s[n] \in t.nodes /\ r.child[n][d] = s[c] /\ r.child[n][1 - d] = s[e] /\ 1 - d \in 0..1 /\ s[s[n]] = n
      BY <1>1, <1>2, <1>3
    <3>2. c # Nil
      BY <1>1, <2>4, <3>1
    <3>3. c \in t.nodes /\ t.parent[c] = s[n] /\ c # e /\ e \in Nodes \cup {Nil}
      BY <1>3, <3>1, <3>2 DEF LinksAgree, Trees
    <3>. HIDE DEF c, e
    <3>4. s[c] \in t.nodes /\ s[s[c]] = c /\ s[s[e]] = e
      BY <1>1, <1>3, <3>3
    <3>5. r.parent[s[c]] = n
      BY <1>2, <3>1, <3>3, <3>4
    <3>. QED  BY <1>1, <3>1, <3>3, <3>4, <3>5
  <2>5. r.root = Nil <=> r.nodes = {}
    BY <1>1, <1>3, <2>1 DEF LinksAgree
  <2>. QED  BY <2>2, <2>3, <2>4, <2>5 DEF LinksAgree
<1>8. r.root # Nil => b[r.root] = r.nodes
  <2>1. SUFFICES ASSUME r.root # Nil PROVE b[r.root] = r.nodes
    OBVIOUS
  <2>2. t.root # Nil /\ t.root \in t.nodes
    BY <1>1, <1>3, <2>1 DEF LinksAgree
  <2>3. r.root \in t.nodes /\ s[r.root] = t.root
    BY <1>1, <1>3, <2>2
  <2>4. b[r.root] = Image(s, t.nodes)
    BY <1>4, <2>2, <2>3 DEF Sound, Subtrees
  <2>5. Image(s, t.nodes) = t.nodes
    BY <1>1, <1>3 DEF Image
  <2>. QED  BY <1>1, <2>4, <2>5
<1>9. ASSUME NEW m \in r.nodes, NEW d \in 0..1
      PROVE  /\ b[m] = {m} \cup Below(b, r.child[m][d]) \cup Below(b, r.child[m][1 - d])
             /\ m \notin Below(b, r.child[m][d])
             /\ Below(b, r.child[m][d]) \cap Below(b, r.child[m][1 - d]) = {}
             /\ b[m] \subseteq r.nodes
  <2>. DEFINE B == Below(below, t.child[s[m]][d])
              C == Below(below, t.child[s[m]][1 - d])
  <2>1. s[m] \in t.nodes /\ s[s[m]] = m /\ m \in t.nodes /\ m \in Nodes /\ 1 - d \in 0..1
    BY <1>1, <1>3
  <2>2. /\ below[s[m]] \subseteq t.nodes /\ below[s[m]] = {s[m]} \cup B \cup C
        /\ s[m] \notin B /\ s[m] \notin C /\ B \cap C = {}
    BY <2>1, NodeBelow
  <2>3. Below(b, r.child[m][d]) = Image(s, B) /\ Below(b, r.child[m][1 - d]) = Image(s, C)
    BY <1>6, <2>1
  <2>4. b[m] = Image(s, below[s[m]])
    BY <1>4, <2>1
  <2>. HIDE DEF B, C
  <2>5. Image(s, below[s[m]]) = {m} \cup Image(s, B) \cup Image(s, C)
    <3>1. \A k \in Nodes : s[k] = s[m] <=> k = m
      BY <1>1, <2>1
    <3>. QED  BY <2>1, <2>2, <3>1 DEF Image
  <2>6. m \notin Image(s, B) /\ Image(s, B) \cap Image(s, C) = {}
    BY <2>2 DEF Image
  <2>7. Image(s, below[s[m]]) \subseteq t.nodes
    <3>1. \A k \in Nodes : s[k] \in t.nodes => k \in t.nodes
      BY <1>1
    <3>. QED  BY <2>2, <3>1 DEF Image
  <2>. QED  BY <1>1, <2>3, <2>4, <2>5, <2>6, <2>7
<1>10. ASSUME NEW m \in r.nodes, NEW k \in b[m]
       PROVE  b[k] \subseteq b[m] /\ (k # m => r.parent[k] \in b[m])
  <2>1. m \in t.nodes /\ s[m] \in t.nodes /\ k \in Nodes /\ s[k] \in below[s[m]]
    BY <1>1, <1>4 DEF Image
  <2>2. /\ s[k] \in t.nodes /\ below[s[k]] \subseteq below[s[m]]
        /\ s[k] # s[m] => t.parent[s[k]] \in below[s[m]] /\ t.parent[s[k]] \in t.nodes
    BY <2>1, Nested
  <2>3. k \in t.nodes
    BY <1>1, <2>1, <2>2
  <2>4. b[k] \subseteq b[m]
    BY <1>4, <2>1, <2>2, <2>3 DEF Image
  <2>5. k # m => r.parent[k] \in b[m]
    <3>1. SUFFICES ASSUME k # m PROVE r.parent[k] \in b[m]
      OBVIOUS
    <3>2. s[k] # s[m]
      BY <1>1, <1>3, <2>1, <3>1
    <3>3. r.parent[k] \in t.nodes /\ s[r.parent[k]] = t.parent[s[k]]
      BY <1>1, <1>2, <1>3, <2>2, <2>3, <3>2
    <3>4. s[r.parent[k]] \in below[s[m]] /\ r.parent[k] \in Nodes
      BY <1>3, <2>2, <3>2, <3>3
    <3>. QED  BY <1>4, <2>1, <3>4 DEF Image
  <2>. QED  BY <2>4, <2>5
<1>11. Subtrees(r, b)
  <2>1. \A m \in r.nodes, d \in 0..1 :
           /\ b[m] = {m} \cup Below(b, r.child[m][d]) \cup Below(b, r.child[m][1 - d])
           /\ m \notin Below(b, r.child[m][d])
           /\ Below(b, r.child[m][d]) \cap Below(b, r.child[m][1 - d]) = {}
           /\ b[m] \subseteq r.nodes
    BY <1>9
  <2>2. \A m \in r.nodes : \A k \in b[m] : b[k] \subseteq b[m] /\ (k # m => r.parent[k] \in b[m])
    BY <1>10
  <2>. QED  BY ONLY <1>8, <2>1, <2>2, SubtreesAre
<1>12. b \in [Nodes -> SUBSET Nodes]
  BY DEF Image
<1>. QED  BY <1>1, <1>4, <1>6, <1>7, <1>11, <1>12 DEF Sound

\* EquallyBlack when nothing is short.
LEMMA EvenlyBlack ==
  ASSUME NEW t \in Trees, NEW height \in [Nodes -> Nat], NEW s,
         \A m \in t.nodes, d \in 0..1 : height[m] = Height(height, t.child[m][d]) + Black(t, m)
  PROVE  EquallyBlack(t, height, Nil, s)
<1>1. Nil \notin t.nodes
  BY TreeAssumption DEF Trees
<1>. QED  BY <1>1, HeightsAre

\* Renaming keeps the colour and black height invariants.
LEMMA RenamedColors ==
  ASSUME NEW t, NEW r, NEW s, Renamed(t, r, s), NEW below, Sound(t, below),
         NEW height \in [Nodes -> Nat], NEW e, RedApart(t, Nil), EquallyBlack(t, height, Nil, e),
         NEW h, h = [m \in Nodes |-> height[s[m]]]
  PROVE  /\ RedApart(r, Nil)
         /\ h \in [Nodes -> Nat] /\ EquallyBlack(r, h, Nil, e)
<1>1. /\ s \in [Nodes \cup {Nil} -> Nodes \cup {Nil}] /\ s[Nil] = Nil
      /\ \A k \in Nodes \cup {Nil} : s[s[k]] = k
      /\ \A k \in t.nodes : s[k] \in t.nodes
      /\ r \in Trees /\ r.nodes = t.nodes /\ r.root = s[t.root]
  BY DEF Renamed, Involution
<1>2. /\ \A m \in t.nodes, d \in 0..1 : r.child[m][d] = s[t.child[s[m]][d]]
      /\ \A m \in t.nodes : r.parent[m] = s[t.parent[s[m]]] /\ r.color[m] = t.color[s[m]]
  BY DEF Renamed
<1>3. t \in Trees /\ LinksAgree(t) /\ Nil \notin Nodes /\ t.nodes \subseteq Nodes
  BY TreeAssumption DEF Sound, Trees
<1>4. \A m \in t.nodes, d \in 0..1 : t.child[m][d] = Nil \/ t.child[m][d] \in t.nodes
  BY <1>3 DEF LinksAgree
<1>5. \A m \in Nodes : s[m] \in Nodes
  BY <1>1, <1>3
<1>6. \A m \in t.nodes : IsRed(r, m) <=> IsRed(t, s[m])
  BY <1>1, <1>2, <1>3 DEF IsRed
<1>7. \A c \in t.nodes \cup {Nil} : IsRed(r, s[c]) <=> IsRed(t, c)
  BY <1>1, <1>2, <1>3 DEF IsRed
<1>8. RedApart(r, Nil)
  <2>. SUFFICES ASSUME NEW m \in t.nodes, NEW d \in 0..1, IsRed(r, m), IsRed(r, r.child[m][d])
                PROVE  FALSE
    BY <1>1 DEF RedApart
  <2>1. s[m] \in t.nodes /\ IsRed(t, s[m]) /\ IsRed(t, t.child[s[m]][d])
    BY <1>1, <1>2, <1>4, <1>6, <1>7
  <2>. QED  BY <2>1 DEF RedApart, IsRed
<1>9. h \in [Nodes -> Nat] /\ \A m \in Nodes : h[m] = height[s[m]]
  BY <1>5
<1>10. ASSUME NEW m \in r.nodes, NEW d \in 0..1
       PROVE  h[m] = Height(h, r.child[m][d]) + Black(r, m)
  <2>1. m \in t.nodes /\ s[m] \in t.nodes /\ s[m] # Nil
    BY <1>1, <1>3
  <2>2. height[s[m]] = Height(height, t.child[s[m]][d]) + Black(t, s[m])
    BY <1>3, <2>1, HeightIs
  <2>3. Black(r, m) = Black(t, s[m]) /\ h[m] = height[s[m]]
    BY <1>3, <1>6, <1>9, <2>1 DEF Black
  <2>4. Height(h, r.child[m][d]) = Height(height, t.child[s[m]][d])
    <3>. DEFINE c == t.child[s[m]][d]
    <3>1. r.child[m][d] = s[c] /\ (c = Nil \/ c \in t.nodes)
      BY <1>2, <1>4, <2>1
    <3>. HIDE DEF c
    <3>2. CASE c = Nil
      BY <1>1, <3>1, <3>2 DEF Height, c
    <3>3. CASE c # Nil
      <4>1. s[c] \in Nodes /\ s[c] # Nil /\ s[s[c]] = c
        BY <1>1, <1>3, <3>1, <3>3
      <4>. QED  BY <1>9, <3>1, <3>3, <4>1 DEF Height, c
    <3>. QED  BY <3>2, <3>3
  <2>. QED  BY <2>2, <2>3, <2>4
<1>11. EquallyBlack(r, h, Nil, e)
  <2>1. \A m \in r.nodes, d \in 0..1 : h[m] = Height(h, r.child[m][d]) + Black(r, m)
    BY <1>10
  <2>. QED  BY ONLY <1>1, <1>9, <2>1, EvenlyBlack
<1>. QED  BY <1>8, <1>9, <1>11

\* p is the in-order predecessor of n, which has two children.
Swappable(t, order, below, n, p) ==
  /\ SearchTree(t, order, below) /\ n \in t.nodes
  /\ t.child[n][0] # Nil /\ t.child[n][1] # Nil
  /\ p \in below[t.child[n][0]]
  /\ \A m \in below[t.child[n][0]] : m = p \/ <<m, p>> \in order
  /\ t.child[p][1] = Nil
  /\ \A m \in t.nodes : p \in below[m] => m \in below[n] \/ n \in below[m]

\* The renaming that exchanges n and p.
Exchange(n, p) == [k \in Nodes \cup {Nil} |-> IF k = n THEN p ELSE IF k = p THEN n ELSE k]

\* Where the in-order predecessor p of n is in the order and in the
\* subtrees.
Predecessor(t, order, below, n, p) ==
  /\ Sound(t, below) /\ TotalOrder(t.nodes, order) /\ t.nodes \subseteq Nodes /\ Nil \notin Nodes
  /\ n \in t.nodes /\ p \in t.nodes /\ n # p /\ p # t.root
  /\ below[t.child[n][0]] \subseteq below[n] /\ p \in below[n] /\ n \notin below[p]
  /\ below[p] \subseteq below[t.child[n][0]]
  /\ \A m \in below[t.child[n][0]] : m = p \/ (<<m, p>> \in order /\ <<p, m>> \notin order)
  /\ <<p, n>> \in order
  /\ p \notin below[t.child[n][1]] /\ p # t.child[n][1]

\* A node found by following right links in the left subtree of n is the in-
\* order predecessor of n.
LEMMA SwapFacts ==
  ASSUME NEW t, NEW order, NEW below, NEW n, NEW p, Swappable(t, order, below, n, p)
  PROVE  Predecessor(t, order, below, n, p)
<1>. DEFINE left == t.child[n][0]
            right == t.child[n][1]
            up == t.parent[p]
<1>1. /\ SearchTree(t, order, below) /\ n \in t.nodes /\ left # Nil /\ right # Nil /\ p \in below[left]
      /\ \A m \in below[left] : m = p \/ <<m, p>> \in order
      /\ t.child[p][1] = Nil
  BY DEF Swappable
<1>2. /\ Sound(t, below) /\ TotalOrder(t.nodes, order) /\ t.nodes \subseteq Nodes /\ Nil \notin Nodes
      /\ LinksAgree(t)
  BY <1>1, TreeAssumption DEF SearchTree, Sound, Trees
<1>3. /\ left \in t.nodes /\ n \notin below[left] /\ below[left] \subseteq below[n] /\ below[n] \subseteq t.nodes
      /\ below[left] \cap Below(below, t.child[n][1 - 0]) = {} /\ left # n
  <2>1. 0 \in 0..1 /\ left = t.child[n][0] /\ left # Nil /\ n \in t.nodes /\ Sound(t, below)
    BY <1>1, <1>2
  <2>. HIDE DEF left
  <2>. QED  BY ONLY <2>1, Children
<1>4. /\ right \in t.nodes /\ right \in below[right] /\ below[left] \cap below[right] = {}
  <2>1. right \in t.nodes /\ right \in below[right]
    BY <1>1, <1>2, Children
  <2>2. Below(below, t.child[n][1 - 0]) = below[right]
    BY <1>1 DEF Below
  <2>. QED  BY <1>3, <2>1, <2>2
<1>5. p \in t.nodes /\ n # p /\ p \in below[n] /\ p \notin below[right] /\ p # right
  BY <1>1, <1>3, <1>4
<1>6. below[p] \subseteq below[left] /\ (p # left => up \in below[left])
  BY <1>1, <1>2, <1>3, Nested
<1>7. <<p, n>> \in order
  <2>1. Ahead(order, n, p, 0)
    <3>1. p \in Below(below, t.child[n][0])
      BY <1>1 DEF Below
    <3>. QED  BY <1>1, <3>1, SearchTreeFacts
  <2>. QED  BY <2>1 DEF Ahead
<1>8. \A m \in below[left] : m = p \/ (<<m, p>> \in order /\ <<p, m>> \notin order)
  BY <1>1, <1>2, <1>3, <1>5 DEF TotalOrder
<1>9. p # t.root
  <2>1. CASE p = t.root
    <3>1. below[p] = t.nodes
      BY <1>2, <1>5, <2>1 DEF Sound, Subtrees
    <3>. QED  BY <1>1, <1>3, <1>6, <3>1
  <2>. QED  BY <2>1
<1>. QED  BY <1>1, <1>2, <1>3, <1>5, <1>6, <1>7, <1>8, <1>9 DEF Predecessor

\* Which links lead to the predecessor p and to n.
PredecessorLinks(t, below, n, p) ==
  /\ t.parent[p] \in t.nodes /\ t.parent[p] # p
  /\ t.child[n][0] = p => t.parent[p] = n
  /\ t.child[n][0] # p =>
       /\ t.parent[p] # n /\ t.parent[p] \in below[n]
       /\ t.child[t.parent[p]][1] = p /\ t.child[t.parent[p]][0] # p
  /\ t.parent[n] \notin below[n]

\* The predecessor is the left child of n, or a right child further down.
LEMMA SwapParents ==
  ASSUME NEW t, NEW order, NEW below, NEW n, NEW p, Swappable(t, order, below, n, p)
  PROVE  PredecessorLinks(t, below, n, p)
<1>. DEFINE left == t.child[n][0]
            right == t.child[n][1]
            up == t.parent[p]
<1>1. /\ SearchTree(t, order, below) /\ n \in t.nodes /\ left # Nil /\ right # Nil /\ p \in below[left]
      /\ \A m \in below[left] : m = p \/ <<m, p>> \in order
      /\ t.child[p][1] = Nil
  BY DEF Swappable
<1>2. /\ Sound(t, below) /\ TotalOrder(t.nodes, order) /\ t.nodes \subseteq Nodes /\ Nil \notin Nodes
      /\ LinksAgree(t)
  BY <1>1, TreeAssumption DEF SearchTree, Sound, Trees
<1>3. /\ left \in t.nodes /\ n \notin below[left] /\ below[left] \subseteq below[n] /\ below[n] \subseteq t.nodes
      /\ below[left] \cap Below(below, t.child[n][1 - 0]) = {} /\ left # n
  <2>1. 0 \in 0..1 /\ left = t.child[n][0] /\ left # Nil /\ n \in t.nodes /\ Sound(t, below)
    BY <1>1, <1>2
  <2>. HIDE DEF left
  <2>. QED  BY ONLY <2>1, Children
<1>4. /\ right \in t.nodes /\ right \in below[right] /\ below[left] \cap below[right] = {}
  <2>1. right \in t.nodes /\ right \in below[right]
    BY <1>1, <1>2, Children
  <2>2. Below(below, t.child[n][1 - 0]) = below[right]
    BY <1>1 DEF Below
  <2>. QED  BY <1>3, <2>1, <2>2
<1>5. p \in t.nodes /\ n # p /\ p \in below[n] /\ p \notin below[right] /\ p # right
  BY <1>1, <1>3, <1>4
<1>6. below[p] \subseteq below[left] /\ (p # left => up \in below[left])
  BY <1>1, <1>2, <1>3, Nested
<1>7. <<p, n>> \in order
  <2>1. Ahead(order, n, p, 0)
    <3>1. p \in Below(below, t.child[n][0])
      BY <1>1 DEF Below
    <3>. QED  BY <1>1, <3>1, SearchTreeFacts
  <2>. QED  BY <2>1 DEF Ahead
<1>8. \A m \in below[left] : m = p \/ (<<m, p>> \in order /\ <<p, m>> \notin order)
  BY <1>1, <1>2, <1>3, <1>5 DEF TotalOrder
<1>9. p # t.root
  <2>1. CASE p = t.root
    <3>1. below[p] = t.nodes
      BY <1>2, <1>5, <2>1 DEF Sound, Subtrees
    <3>. QED  BY <1>1, <1>3, <1>6, <3>1
  <2>. QED  BY <2>1
<1>10. PICK d \in 0..1 : up \in t.nodes /\ t.child[up][d] = p
  BY <1>2, <1>5, <1>9 DEF LinksAgree
<1>11. up # p /\ p # Nil /\ p \in Below(below, t.child[up][d]) /\ p # t.child[up][1 - d]
  <2>1. p # Nil
    BY <1>2, <1>5
  <2>2. up # p /\ p \in below[p] /\ p # t.child[up][1 - d]
    BY <1>2, <1>10, <2>1, Children
  <2>. QED  BY <1>10, <2>1, <2>2 DEF Below
<1>12. CASE p = left
  <2>1. up = n
    BY <1>1, <1>2, <1>12 DEF LinksAgree
  <2>2. up \in t.nodes /\ up # p /\ t.child[n][0] = p
    BY <1>10, <1>11, <1>12
  <2>3. t.parent[n] \notin below[n]
    <3>1. CASE n = t.root
      <4>1. t.parent[n] = Nil
        BY <1>1, <1>2, <3>1 DEF LinksAgree
      <4>. QED  BY <1>2, <1>3, <4>1
    <3>2. CASE n # t.root
      <4>1. PICK f \in 0..1 : t.parent[n] \in t.nodes /\ t.child[t.parent[n]][f] = n
        BY <1>1, <1>2, <3>2 DEF LinksAgree
      <4>2. n # Nil
        BY <1>1, <1>2
      <4>. QED  BY <1>2, <4>1, <4>2, Children
    <3>. QED  BY <3>1, <3>2
  <2>. QED  BY <1>1, <1>2, <1>3, <1>5, <1>6, <1>7, <1>8, <1>9, <2>1, <2>2, <2>3 DEF PredecessorLinks
<1>13. CASE p # left
  <2>1. up \in below[left] /\ up # n /\ up \in below[n]
    BY <1>3, <1>6, <1>13
  <2>2. d = 1
    <3>1. CASE d = 0
      <4>1. Ahead(order, up, p, 0)
        BY <1>1, <1>10, <1>11, <3>1, SearchTreeFacts
      <4>2. <<p, up>> \in order
        BY <4>1 DEF Ahead
      <4>. HIDE DEF up, left
      <4>. QED  BY <1>8, <1>11, <2>1, <4>2
    <3>. QED  BY <3>1
  <2>3. t.child[up][1] = p /\ t.child[up][0] # p
    BY <1>10, <1>11, <2>2
  <2>4. t.parent[n] \notin below[n]
    <3>1. CASE n = t.root
      <4>1. t.parent[n] = Nil
        BY <1>1, <1>2, <3>1 DEF LinksAgree
      <4>. QED  BY <1>2, <1>3, <4>1
    <3>2. CASE n # t.root
      <4>1. PICK f \in 0..1 : t.parent[n] \in t.nodes /\ t.child[t.parent[n]][f] = n
        BY <1>1, <1>2, <3>2 DEF LinksAgree
      <4>2. n # Nil
        BY <1>1, <1>2
      <4>. QED  BY <1>2, <4>1, <4>2, Children
    <3>. QED  BY <3>1, <3>2
  <2>. QED  BY <1>1, <1>2, <1>3, <1>5, <1>6, <1>7, <1>8, <1>9, <1>10, <1>11, <1>13, <2>1, <2>3, <2>4 DEF PredecessorLinks
<1>. QED  BY <1>12, <1>13

\* The fields after SwapWithPredecessor.
Swapped(t, n, p, r) ==
  /\ r \in Trees /\ r.nodes = t.nodes /\ r.ok = t.ok
  /\ r.root = IF n = t.root THEN p ELSE t.root
  /\ \A m \in t.nodes : r.child[m] =
       IF m = p THEN [t.child[n] EXCEPT ![0] = IF t.parent[p] = n THEN n ELSE t.child[n][0]]
       ELSE IF m = n THEN t.child[p]
       ELSE IF m = t.parent[p] THEN [Replace(t, n, p).child[m] EXCEPT ![1] = n]
       ELSE Replace(t, n, p).child[m]
  /\ \A m \in t.nodes : r.parent[m] =
       IF m = p THEN t.parent[n]
       ELSE IF m = n THEN (IF t.parent[p] = n THEN p ELSE t.parent[p])
       ELSE IF m \in {t.child[n][0], t.child[n][1]} THEN p
       ELSE IF m = t.child[p][0] THEN n ELSE t.parent[m]
  /\ \A m \in t.nodes : /\ r.color[m] = t.color[IF m = n THEN p ELSE IF m = p THEN n ELSE m]
                        /\ r.sum[m] = t.sum[IF m = n THEN p ELSE IF m = p THEN n ELSE m]

\* What SwapWithPredecessor does to each field; its assertion holds.
LEMMA SwapFields ==
  ASSUME NEW t, NEW order, NEW below, NEW n, NEW p, Swappable(t, order, below, n, p),
         NEW r, r = SwapWithPredecessor(t, n, p)
  PROVE  Swapped(t, n, p, r)
<1>. DEFINE q == Replace(t, n, p)
            up == t.parent[p]
            ch == [m \in Nodes |->
                     IF m = p THEN [t.child[n] EXCEPT ![0] = IF up = n THEN n ELSE t.child[n][0]]
                     ELSE IF m = n THEN t.child[p]
                     ELSE IF m = up THEN [q.child[m] EXCEPT ![1] = n] ELSE q.child[m]]
            pa == [m \in Nodes |->
                     IF m = p THEN t.parent[n]
                     ELSE IF m = n THEN (IF up = n THEN p ELSE up)
                     ELSE IF m \in {t.child[n][0], t.child[n][1]} THEN p
                     ELSE IF m = t.child[p][0] THEN n ELSE q.parent[m]]
            co == [q.color EXCEPT ![n] = t.color[p], ![p] = t.color[n]]
            su == [q.sum EXCEPT ![n] = t.sum[p], ![p] = t.sum[n]]
<1>1. /\ t \in Trees /\ LinksAgree(t) /\ n \in t.nodes /\ p \in t.nodes /\ n \in Nodes /\ p \in Nodes
      /\ t.nodes \subseteq Nodes /\ n # p /\ up \in Nodes
  <2>1. Predecessor(t, order, below, n, p) /\ PredecessorLinks(t, below, n, p)
    BY SwapFacts, SwapParents
  <2>. QED  BY <2>1 DEF Predecessor, PredecessorLinks, Sound
<1>2. /\ q \in Trees /\ q.ok = t.ok /\ q.nodes = t.nodes /\ q.parent = t.parent
      /\ q.color = t.color /\ q.sum = t.sum /\ q.root = IF n = t.root THEN p ELSE t.root
  BY <1>1, ReplaceEffect
<1>. HIDE DEF q, up
<1>3. r = [q EXCEPT !.child = ch, !.parent = pa, !.color = co, !.sum = su]
  <2>1. r = [q EXCEPT
               !.child  = [m \in DOMAIN q.child |->
                     IF m = p THEN [t.child[n] EXCEPT ![0] = IF up = n THEN n ELSE t.child[n][0]]
                     ELSE IF m = n THEN t.child[p]
                     ELSE IF m = up THEN [q.child[m] EXCEPT ![1] = n] ELSE q.child[m]],
               !.parent = [m \in DOMAIN q.parent |->
                     IF m = p THEN t.parent[n]
                     ELSE IF m = n THEN (IF up = n THEN p ELSE up)
                     ELSE IF m \in {t.child[n][0], t.child[n][1]} THEN p
                     ELSE IF m = t.child[p][0] THEN n ELSE q.parent[m]],
               !.color  = co, !.sum = su]
    BY Zenon DEF SwapWithPredecessor, q, up
  <2>2. DOMAIN q.parent = Nodes /\ DOMAIN q.child = Nodes
    BY <1>2 DEF Trees
  <2>. QED  BY <2>1, <2>2, Zenon
<1>4. ch \in [Nodes -> [0..1 -> Nodes \cup {Nil}]]
  <2>1. \A m \in Nodes : [q.child[m] EXCEPT ![1] = n] \in [0..1 -> Nodes \cup {Nil}]
    BY <1>1, <1>2 DEF Trees
  <2>2. [t.child[n] EXCEPT ![0] = IF up = n THEN n ELSE t.child[n][0]] \in [0..1 -> Nodes \cup {Nil}]
    BY <1>1 DEF Trees
  <2>3. \A m \in Nodes : q.child[m] \in [0..1 -> Nodes \cup {Nil}] /\ t.child[m] \in [0..1 -> Nodes \cup {Nil}]
    BY <1>1, <1>2 DEF Trees
  <2>. QED  BY <1>1, <2>1, <2>2, <2>3
<1>5. pa \in [Nodes -> Nodes \cup {Nil}]
  BY <1>1, <1>2 DEF Trees
<1>6. co \in [Nodes -> {"Red", "Black"}] /\ su \in [Nodes -> Int]
  BY <1>1, <1>2 DEF Trees
<1>7. \A m \in t.nodes : ch[m] =
              IF m = p THEN [t.child[n] EXCEPT ![0] = IF up = n THEN n ELSE t.child[n][0]]
              ELSE IF m = n THEN t.child[p]
              ELSE IF m = up THEN [q.child[m] EXCEPT ![1] = n] ELSE q.child[m]
  BY <1>1, Zenon
<1>8. \A m \in t.nodes : pa[m] =
              IF m = p THEN t.parent[n]
              ELSE IF m = n THEN (IF up = n THEN p ELSE up)
              ELSE IF m \in {t.child[n][0], t.child[n][1]} THEN p
              ELSE IF m = t.child[p][0] THEN n ELSE t.parent[m]
  BY <1>1, <1>2
<1>9. \A m \in t.nodes : /\ co[m] = t.color[IF m = n THEN p ELSE IF m = p THEN n ELSE m]
                         /\ su[m] = t.sum[IF m = n THEN p ELSE IF m = p THEN n ELSE m]
  BY <1>1, <1>2 DEF Trees
<1>. HIDE DEF ch, pa, co, su
<1>10. /\ r \in Trees /\ r.nodes = t.nodes /\ r.ok = t.ok /\ r.root = IF n = t.root THEN p ELSE t.root
       /\ r.child = ch /\ r.parent = pa /\ r.color = co /\ r.sum = su
  BY <1>2, <1>3, <1>4, <1>5, <1>6 DEF Trees
<1>. USE DEF q, up
<1>. QED  BY <1>7, <1>8, <1>9, <1>10, Zenon DEF Swapped

\* s exchanges n and p and leaves all other nodes.
Exchanges(s, n, p) ==
  /\ s \in [Nodes \cup {Nil} -> Nodes \cup {Nil}]
  /\ s[n] = p /\ s[p] = n /\ \A k \in Nodes \cup {Nil} : k # n /\ k # p => s[k] = k
  /\ s[Nil] = Nil /\ \A k \in Nodes \cup {Nil} : s[s[k]] = k

\* Exchange is a renaming of that kind.
LEMMA ExchangeIs ==
  ASSUME NEW n \in Nodes, NEW p \in Nodes
  PROVE  Exchanges(Exchange(n, p), n, p)
BY TreeAssumption DEF Exchange, Exchanges

\* All the pointer assignments of the exchange amount to renaming n and p,
\* also when p is the child of n.
LEMMA SwapRenames ==
  ASSUME NEW t, NEW order, NEW below, NEW n, NEW p, Swappable(t, order, below, n, p),
         NEW r, r = SwapWithPredecessor(t, n, p), NEW s, s = Exchange(n, p)
  PROVE  /\ Renamed(t, r, s) /\ r.ok = t.ok
         /\ \A m \in t.nodes : r.sum[m] = t.sum[s[m]]
<1>. DEFINE up == t.parent[p]
            left == t.child[n][0]
            right == t.child[n][1]
<1>0. Swappable(t, order, below, n, p) /\ r = SwapWithPredecessor(t, n, p)
  OBVIOUS
<1>a. Predecessor(t, order, below, n, p) /\ PredecessorLinks(t, below, n, p) /\ Swapped(t, n, p, r)
  BY ONLY <1>0, SwapFacts, SwapParents, SwapFields
<1>1. /\ t \in Trees /\ LinksAgree(t) /\ n \in t.nodes /\ p \in t.nodes /\ n \in Nodes /\ p \in Nodes
      /\ t.nodes \subseteq Nodes /\ n # p /\ p # t.root /\ Nil \notin Nodes /\ Sound(t, below)
      /\ up \in t.nodes /\ up # p /\ p # right /\ p \in below[n] /\ t.parent[n] \notin below[n]
      /\ n \in below[n]
  <2>1. n \in t.nodes /\ Sound(t, below)
    BY <1>a DEF Predecessor
  <2>2. n \in below[n]
    BY <2>1, NodeBelow
  <2>3. /\ Sound(t, below) /\ n \in t.nodes /\ p \in t.nodes
        /\ t.nodes \subseteq Nodes /\ n # p /\ p # t.root /\ Nil \notin Nodes
        /\ t.parent[p] \in t.nodes /\ t.parent[p] # p /\ p # t.child[n][1] /\ p \in below[n]
        /\ t.parent[n] \notin below[n]
    BY <1>a DEF Predecessor, PredecessorLinks
  <2>. QED  BY <2>2, <2>3 DEF Sound
<1>2. /\ left = p => up = n
      /\ left # p => /\ up # n /\ up \in below[n]
                     /\ t.child[up][1] = p /\ t.child[up][0] # p
  BY <1>a DEF PredecessorLinks
<1>3. /\ s \in [Nodes \cup {Nil} -> Nodes \cup {Nil}]
      /\ s[n] = p /\ s[p] = n /\ \A k \in Nodes \cup {Nil} : k # n /\ k # p => s[k] = k
      /\ s[Nil] = Nil /\ \A k \in Nodes \cup {Nil} : s[s[k]] = k
  <2>1. n \in Nodes /\ p \in Nodes /\ s = Exchange(n, p)
    BY <1>1
  <2>2. Exchanges(s, n, p)
    BY ONLY <2>1, ExchangeIs
  <2>. QED  BY <2>2 DEF Exchanges
<1>4. left # Nil /\ right # Nil /\ t.child[p][1] = Nil
  BY DEF Swappable
<1>5. /\ r \in Trees /\ r.nodes = t.nodes /\ r.ok = t.ok
      /\ r.root = IF n = t.root THEN p ELSE t.root
  BY <1>a DEF Swapped
<1>6. \A m \in t.nodes : r.child[m] =
         IF m = p THEN [t.child[n] EXCEPT ![0] = IF t.parent[p] = n THEN n ELSE t.child[n][0]]
         ELSE IF m = n THEN t.child[p]
         ELSE IF m = t.parent[p] THEN [Replace(t, n, p).child[m] EXCEPT ![1] = n]
         ELSE Replace(t, n, p).child[m]
  BY <1>a, Zenon DEF Swapped
<1>7. \A m \in t.nodes : r.parent[m] =
         IF m = p THEN t.parent[n]
         ELSE IF m = n THEN (IF t.parent[p] = n THEN p ELSE t.parent[p])
         ELSE IF m \in {t.child[n][0], t.child[n][1]} THEN p
         ELSE IF m = t.child[p][0] THEN n ELSE t.parent[m]
  BY <1>a, Zenon DEF Swapped
<1>8. \A m \in t.nodes : /\ r.color[m] = t.color[IF m = n THEN p ELSE IF m = p THEN n ELSE m]
                         /\ r.sum[m] = t.sum[IF m = n THEN p ELSE IF m = p THEN n ELSE m]
  BY <1>a, Zenon DEF Swapped
<1>. HIDE DEF up, left, right
<1>9. \A m \in t.nodes : r.color[m] = t.color[s[m]] /\ r.sum[m] = t.sum[s[m]]
  BY <1>1, <1>3, <1>8
<1>10. r.root = s[t.root] /\ \A k \in t.nodes : s[k] \in t.nodes
  <2>1. t.root \in Nodes \cup {Nil}
    BY <1>1 DEF Trees
  <2>. QED  BY <1>1, <1>3, <1>5, <2>1
<1>11. \A m \in t.nodes, d \in 0..1 : t.child[m][d] \in Nodes \cup {Nil} /\ (t.child[m][d] # Nil => t.parent[t.child[m][d]] = m)
  BY <1>1 DEF LinksAgree, Trees
<1>12. ASSUME NEW m \in t.nodes, NEW d \in 0..1
       PROVE  r.child[m][d] = s[t.child[s[m]][d]]
  <2>0. d = 0 \/ d = 1
    OBVIOUS
  <2>1. CASE m = p
    <3>1. r.child[m] = [t.child[n] EXCEPT ![0] = IF up = n THEN n ELSE left]
      BY <1>6, <2>1 DEF up, left
    <3>2. r.child[m][0] = (IF up = n THEN n ELSE left) /\ r.child[m][1] = right
      BY <1>1, <3>1 DEF Trees, right
    <3>3. s[left] = (IF up = n THEN n ELSE left)
      <4>1. left \in Nodes \cup {Nil} /\ left # n
        BY <1>1, <1>4, Children DEF left, Trees
      <4>. QED  BY <1>2, <1>3, <4>1
    <3>4. s[right] = right
      <4>1. right \in Nodes \cup {Nil} /\ right # n
        BY <1>1, <1>4, Children DEF right, Trees
      <4>. QED  BY <1>1, <1>3, <4>1
    <3>. QED  BY <1>3, <2>0, <2>1, <3>2, <3>3, <3>4 DEF left, right
  <2>2. CASE m = n
    <3>1. r.child[m][d] = t.child[p][d]
      BY <1>1, <1>6, <2>2
    <3>2. t.child[p][d] # p /\ t.child[p][d] # n
      <4>1. t.child[p][d] # Nil => t.parent[t.child[p][d]] = p
        BY <1>1, <1>11
      <4>2. t.parent[n] # p
        BY <1>1
      <4>. QED  BY <1>1, <4>1, <4>2 DEF up
    <3>3. t.child[p][d] \in Nodes \cup {Nil}
      BY <1>1, <1>11
    <3>. QED  BY <1>3, <2>2, <3>1, <3>2, <3>3
  <2>3. CASE m # p /\ m # n
    <3>. DEFINE q == Replace(t, n, p)
    <3>1. q.child[m] = IF n # t.root /\ m = t.parent[n]
                         THEN [t.child[m] EXCEPT ![Side(t, n)] = p] ELSE t.child[m]
      BY <1>1, ReplaceEffect
    <3>. HIDE DEF q
    <3>2. s[m] = m
      BY <1>1, <1>3, <2>3
    <3>3. t.child[m] \in [0..1 -> Nodes \cup {Nil}]
      BY <1>1 DEF Trees
    <3>4. CASE m = up
      <4>1. m # t.parent[n] /\ q.child[m] = t.child[m] /\ t.child[m][1] = p /\ t.child[m][0] # p
        BY <1>1, <1>2, <2>3, <3>1, <3>4
      <4>2. r.child[m] = [t.child[m] EXCEPT ![1] = n]
        BY <1>6, <2>3, <3>4, <4>1 DEF up, q
      <4>3. t.child[m][0] # n
        BY <1>1, <1>11, <4>1
      <4>4. r.child[m][1] = n /\ r.child[m][0] = t.child[m][0]
        BY <3>3, <4>2
      <4>5. t.child[m][0] \in Nodes \cup {Nil}
        BY <3>3
      <4>. QED  BY <1>3, <2>0, <3>2, <4>1, <4>3, <4>4, <4>5
    <3>5. CASE m # up
      <4>1. r.child[m] = q.child[m]
        BY <1>6, <2>3, <3>5 DEF up, q
      <4>2. t.child[m][d] # p
        BY <1>1, <1>11, <3>5 DEF up
      <4>3. CASE n # t.root /\ m = t.parent[n]
        <5>. DEFINE e == Side(t, n)
        <5>1. e \in 0..1 /\ t.child[m][e] = n /\ t.child[m][1 - e] # n
          BY <1>1, <4>3, SideIs
        <5>2. r.child[m] = [t.child[m] EXCEPT ![e] = p]
          BY <3>1, <4>1, <4>3
        <5>. HIDE DEF e
        <5>3. CASE d = e
          BY <1>3, <3>2, <3>3, <5>1, <5>2, <5>3
        <5>4. CASE d # e
          <6>1. r.child[m][d] = t.child[m][d] /\ d = 1 - e
            BY <3>3, <5>1, <5>2, <5>4
          <6>2. t.child[m][d] # n /\ t.child[m][d] \in Nodes \cup {Nil}
            BY <3>3, <5>1, <6>1
          <6>. QED  BY <1>3, <3>2, <4>2, <6>1, <6>2
        <5>. QED  BY <5>3, <5>4
      <4>4. CASE ~(n # t.root /\ m = t.parent[n])
        <5>1. t.child[m][d] # n
          <6>1. CASE t.child[m][d] = n
            <7>1. t.parent[n] = m
              BY <1>1, <1>11, <6>1
            <7>2. n # t.root
              BY <1>1, <7>1 DEF LinksAgree
            <7>. QED  BY <4>4, <7>1, <7>2
          <6>. QED  BY <6>1
        <5>2. t.child[m][d] \in Nodes \cup {Nil}
          BY <3>3
        <5>. QED  BY <1>3, <3>1, <3>2, <4>1, <4>2, <4>4, <5>1, <5>2
      <4>. QED  BY <4>3, <4>4
    <3>. QED  BY <3>4, <3>5
  <2>. QED  BY <2>1, <2>2, <2>3
<1>13. ASSUME NEW m \in t.nodes
       PROVE  r.parent[m] = s[t.parent[s[m]]]
  <2>0. t.parent[m] \in Nodes \cup {Nil} /\ t.parent[n] \in Nodes \cup {Nil} /\ up \in Nodes \cup {Nil}
    BY <1>1 DEF Trees
  <2>1. CASE m = p
    <3>1. t.parent[n] # n /\ t.parent[n] # p
      BY <1>1
    <3>2. r.parent[m] = t.parent[n]
      BY <1>7, <2>1
    <3>. QED  BY <1>3, <2>0, <2>1, <3>1, <3>2
  <2>2. CASE m = n
    <3>1. r.parent[m] = IF up = n THEN p ELSE up
      BY <1>1, <1>7, <2>2 DEF up
    <3>2. t.parent[s[m]] = up
      BY <1>3, <2>2 DEF up
    <3>3. s[up] = IF up = n THEN p ELSE up
      BY <1>1, <1>3, <2>0
    <3>. QED  BY <3>1, <3>2, <3>3
  <2>3. CASE m # p /\ m # n
    <3>1. s[m] = m
      BY <1>1, <1>3, <2>3
    <3>2. r.parent[m] = IF m \in {left, right} THEN p ELSE IF m = t.child[p][0] THEN n ELSE t.parent[m]
      BY <1>7, <2>3 DEF left, right
    <3>3. 0 \in 0..1 /\ 1 \in 0..1 /\ m # Nil
      BY <1>1
    <3>4. CASE m \in {left, right}
      <4>1. t.parent[m] = n
        BY <1>1, <1>4, <1>11, <3>3, <3>4 DEF left, right
      <4>. QED  BY <1>3, <3>1, <3>2, <3>4, <4>1
    <3>5. CASE m \notin {left, right} /\ m = t.child[p][0]
      <4>1. t.parent[m] = p
        BY <1>1, <1>11, <3>3, <3>5
      <4>. QED  BY <1>3, <3>1, <3>2, <3>5, <4>1
    <3>6. CASE m \notin {left, right} /\ m # t.child[p][0]
      <4>1. t.parent[m] # n /\ t.parent[m] # p
        <5>1. CASE m = t.root
          <6>1. t.parent[m] = Nil
            BY <1>1, <3>3, <5>1 DEF LinksAgree
          <6>. QED  BY <1>1, <6>1
        <5>2. CASE m # t.root
          <6>1. PICK d \in 0..1 : t.child[t.parent[m]][d] = m
            BY <1>1, <5>2 DEF LinksAgree
          <6>2. d = 0 \/ d = 1
            OBVIOUS
          <6>. QED  BY <1>4, <3>3, <3>6, <6>1, <6>2 DEF left, right
        <5>. QED  BY <5>1, <5>2
      <4>. QED  BY <1>3, <2>0, <3>1, <3>2, <3>6, <4>1
    <3>. QED  BY <3>4, <3>5, <3>6
  <2>. QED  BY <2>1, <2>2, <2>3
<1>14. Involution(t, s)
  BY <1>3, <1>10 DEF Involution
<1>. QED  BY <1>5, <1>9, <1>10, <1>12, <1>13, <1>14 DEF Renamed

\* Which of the two nodes are below a node.
LEMMA SwapImage ==
  ASSUME NEW t, NEW order, NEW below, NEW n, NEW p, Swappable(t, order, below, n, p),
         NEW s, s = Exchange(n, p), NEW S \in SUBSET Nodes
  PROVE  /\ n \in S /\ p \in S => Image(s, S) = S
         /\ n \notin S /\ p \notin S => Image(s, S) = S
         /\ n \notin S /\ p \in S => Image(s, S) = (S \ {p}) \cup {n}
<1>1. Predecessor(t, order, below, n, p)
  BY SwapFacts
<1>2. n \in Nodes /\ p \in Nodes /\ n # p
  BY <1>1 DEF Predecessor
<1>3. Exchanges(s, n, p)
  BY <1>2, ExchangeIs
<1>4. s[n] = p /\ s[p] = n /\ \A k \in Nodes : k # n /\ k # p => s[k] = k
  BY <1>3 DEF Exchanges
<1>. QED  BY <1>2, <1>4 DEF Image

\* After the exchange the tree is in order but for the node n.
LEMMA SwapOrder ==
  ASSUME NEW t, NEW order, NEW below, NEW n, NEW p, Swappable(t, order, below, n, p),
         NEW r, r = SwapWithPredecessor(t, n, p), NEW s, s = Exchange(n, p),
         NEW b, b = [m \in Nodes |-> Image(s, below[s[m]])]
  PROVE  /\ Sound(r, b) /\ TotalOrder(r.nodes, order) /\ InOrder(r, order, b, n)
         /\ r.nodes = t.nodes
         /\ b[p] = below[n]
         /\ \A m \in t.nodes : m # n /\ m # p => b[m] = Image(s, below[m])
<1>0. Swappable(t, order, below, n, p) /\ s = Exchange(n, p)
  OBVIOUS
<1>1. Predecessor(t, order, below, n, p) /\ Renamed(t, r, s)
  BY SwapFacts, SwapRenames
<1>2. /\ Sound(t, below) /\ TotalOrder(t.nodes, order) /\ t.nodes \subseteq Nodes /\ Nil \notin Nodes
      /\ n \in t.nodes /\ p \in t.nodes /\ n # p
      /\ below[t.child[n][0]] \subseteq below[n] /\ p \in below[n] /\ n \notin below[p]
      /\ below[p] \subseteq below[t.child[n][0]] /\ <<p, n>> \in order
      /\ p \notin below[t.child[n][1]]
  BY <1>1 DEF Predecessor
<1>3. \A m \in below[t.child[n][0]] : m = p \/ (<<m, p>> \in order /\ <<p, m>> \notin order)
  BY <1>1 DEF Predecessor
<1>4. /\ SearchTree(t, order, below) /\ t.child[n][0] # Nil /\ t.child[n][1] # Nil
      /\ \A m \in t.nodes : p \in below[m] => m \in below[n] \/ n \in below[m]
  BY DEF Swappable
<1>5. Exchanges(s, n, p)
  BY <1>2, ExchangeIs
<1>6. s[n] = p /\ s[p] = n /\ (\A k \in Nodes : k # n /\ k # p => s[k] = k) /\ r.nodes = t.nodes
  BY <1>1, <1>5 DEF Exchanges, Renamed
<1>7. /\ Sound(r, b)
      /\ \A m \in t.nodes : b[m] = Image(s, below[s[m]])
      /\ \A m \in t.nodes, d \in 0..1 :
           Below(b, r.child[m][d]) = Image(s, Below(below, t.child[s[m]][d]))
  BY <1>1, <1>2, RenamedSound
<1>8. \A m \in t.nodes : below[m] \subseteq t.nodes /\ m \in below[m] /\ \A k \in below[m] : below[k] \subseteq below[m]
  BY <1>2, Nested, NodeBelow
<1>9. below[n] \in SUBSET Nodes /\ n \in below[n] /\ b[p] = below[n]
  <2>1. below[n] \in SUBSET Nodes /\ n \in below[n]
    BY <1>2, <1>8
  <2>2. Image(s, below[n]) = below[n]
    BY <1>0, <1>2, <2>1, SwapImage
  <2>. QED  BY <1>2, <1>6, <1>7, <2>1, <2>2
<1>10. \A m \in t.nodes : m # n /\ m # p => b[m] = Image(s, below[m])
  BY <1>2, <1>6, <1>7
<1>11. b[n] = (below[p] \ {p}) \cup {n}
  <2>1. below[p] \in SUBSET Nodes /\ p \in below[p]
    BY <1>2, <1>8
  <2>2. Image(s, below[p]) = (below[p] \ {p}) \cup {n}
    BY <1>0, <1>2, <2>1, SwapImage
  <2>. QED  BY <1>2, <1>6, <1>7, <2>2
<1>12. ASSUME NEW m \in r.nodes, NEW d \in 0..1, NEW k \in Below(b, r.child[m][d]), m # n, k # n
       PROVE  Ahead(order, m, k, d)
  <2>1. k \in Nodes /\ s[k] \in Below(below, t.child[s[m]][d]) /\ m \in t.nodes
    BY <1>6, <1>7, <1>12 DEF Image
  <2>2. CASE m = p
    <3>1. s[k] \in Below(below, t.child[n][d])
      BY <1>6, <2>1, <2>2
    <3>2. n \notin Below(below, t.child[n][d]) /\ Below(below, t.child[n][d]) \subseteq t.nodes
      BY <1>2, NodeBelow
    <3>3. k # p /\ s[k] = k /\ k \in t.nodes /\ k \in Below(below, t.child[n][d])
      BY <1>6, <1>12, <2>1, <3>1, <3>2
    <3>4. CASE d = 0
      <4>1. k \in below[t.child[n][0]]
        BY <1>4, <3>3, <3>4 DEF Below
      <4>2. <<k, p>> \in order
        BY <1>3, <3>3, <4>1
      <4>. QED  BY <2>2, <3>4, <4>2 DEF Ahead
    <3>5. CASE d = 1
      <4>1. Ahead(order, n, k, 1)
        BY <1>2, <1>4, <3>3, <3>5, SearchTreeFacts
      <4>2. <<n, k>> \in order
        BY <4>1 DEF Ahead
      <4>3. <<p, k>> \in order
        BY <1>2, <3>3, <4>2 DEF TotalOrder
      <4>. QED  BY <2>2, <3>5, <4>3 DEF Ahead
    <3>. QED  BY <3>4, <3>5
  <2>3. CASE m # p
    <3>1. s[m] = m /\ s[k] \in Below(below, t.child[m][d])
      BY <1>2, <1>6, <1>12, <2>1, <2>3
    <3>2. \A l \in Below(below, t.child[m][d]) : l \in t.nodes /\ Ahead(order, m, l, d)
      BY <1>4, <2>1, SearchTreeFacts
    <3>3. CASE k # p
      BY <1>6, <1>12, <2>1, <3>1, <3>2, <3>3
    <3>4. CASE k = p
      <4>1. n \in Below(below, t.child[m][d])
        BY <1>6, <3>1, <3>4
      <4>2. t.child[m][d] # Nil /\ n \in below[t.child[m][d]]
        BY <4>1 DEF Below
      <4>3. t.child[m][d] \in t.nodes
        BY <1>2, <2>1, <4>2 DEF Sound, LinksAgree
      <4>4. p \in below[t.child[m][d]]
        BY <1>2, <1>8, <4>2, <4>3
      <4>5. p \in Below(below, t.child[m][d])
        BY <4>2, <4>4 DEF Below
      <4>. QED  BY <3>2, <3>4, <4>5
    <3>. QED  BY <3>3, <3>4
  <2>. QED  BY <2>2, <2>3
<1>13. ASSUME NEW k \in r.nodes, NEW m \in r.nodes \ b[k], NEW x \in b[k], NEW y \in b[k],
              m # n, x # n, y # n, <<m, x>> \in order
       PROVE  <<m, y>> \in order
  <2>0. k \in t.nodes /\ m \in t.nodes
    BY <1>6
  <2>1. CASE k = n
    <3>1. x \in below[p] /\ y \in below[p] /\ x # p /\ y # p
      BY <1>11, <1>13, <2>1
    <3>2. m # p
      <4>1. <<p, x>> \notin order
        BY <1>2, <1>3, <3>1
      <4>. QED  BY <1>13, <4>1
    <3>3. m \in t.nodes \ below[p]
      BY <1>11, <1>13, <2>0, <2>1, <3>2
    <3>. QED  BY <1>2, <1>4, <1>13, <3>1, <3>3, Convex
  <2>2. CASE k = p
    BY <1>2, <1>4, <1>9, <1>13, <2>0, <2>2, Convex
  <2>3. CASE k # n /\ k # p
    <3>1. below[k] \in SUBSET Nodes /\ b[k] = Image(s, below[k])
      BY <1>2, <1>8, <1>10, <2>0, <2>3
    <3>2. CASE b[k] = below[k]
      BY <1>4, <1>13, <2>0, <3>2, Convex
    <3>3. CASE b[k] # below[k]
      <4>1. n \notin below[k] /\ p \in below[k] /\ b[k] = (below[k] \ {p}) \cup {n}
        <5>1. n \in below[k] => p \in below[k]
          BY <1>2, <1>8, <2>0
        <5>. QED  BY <1>0, <3>1, <3>3, <5>1, SwapImage
      <4>2. k \in below[n]
        BY <1>4, <2>0, <4>1
      <4>3. k \in below[t.child[n][0]]
        <5>1. k \in below[t.child[n][0]] \/ k \in below[t.child[n][1]]
          BY <1>2, <1>4, <2>3, <4>2 DEF Sound, Subtrees, Below
        <5>2. CASE k \in below[t.child[n][1]]
          <6>1. t.child[n][1] \in t.nodes
            BY <1>2, <1>4 DEF Sound, LinksAgree
          <6>. QED  BY <1>2, <1>8, <4>1, <5>2, <6>1
        <5>. QED  BY <5>1, <5>2
      <4>4. below[k] \subseteq below[t.child[n][0]]
        <5>1. t.child[n][0] \in t.nodes
          BY <1>2, <1>4 DEF Sound, LinksAgree
        <5>. QED  BY <1>8, <4>3, <5>1
      <4>5. x \in below[k] /\ y \in below[k] /\ x # p /\ y # p
        BY <1>2, <1>13, <4>1
      <4>6. m # p
        <5>1. <<p, x>> \notin order
          BY <1>3, <4>4, <4>5
        <5>. QED  BY <1>13, <5>1
      <4>7. m \in t.nodes \ below[k]
        BY <1>13, <2>0, <4>1, <4>6
      <4>. QED  BY <1>4, <1>13, <2>0, <4>5, <4>7, Convex
    <3>. QED  BY <3>2, <3>3
  <2>. QED  BY <2>1, <2>2, <2>3
<1>14. InOrder(r, order, b, n)
  <2>1. \A k \in r.nodes, d \in 0..1 : \A m \in Below(b, r.child[k][d]) :
          k # n /\ m # n => Ahead(order, k, m, d)
    BY <1>12
  <2>2. \A k \in r.nodes : \A m \in r.nodes \ b[k], x, y \in b[k] :
          m # n /\ x # n /\ y # n /\ <<m, x>> \in order => <<m, y>> \in order
    BY <1>13
  <2>. QED  BY ONLY <2>1, <2>2, Zenon DEF InOrder
<1>. QED  BY <1>2, <1>6, <1>7, <1>9, <1>10, <1>14

\* The summaries before the exchange: without n, and without its predecessor
\* p between the two.
Deducted(t, below, n, p) ==
  \A m \in t.nodes : t.sum[m] = WeightOf[below[m] \ {n}]
    - IF p \in below[m] /\ m # p /\ n \notin below[m] THEN Weight[p] ELSE 0

\* What the exchange of a node with its predecessor establishes: only the
\* node itself is out of order, and every other summary is without it.
Exchanged(t, order, n, r, e) ==
  /\ r.nodes = t.nodes /\ n \in t.nodes /\ r.ok /\ r.child[n][1] = Nil
  /\ \E b \in [Nodes -> SUBSET Nodes], h \in [Nodes -> Nat] :
       /\ Sound(r, b) /\ TotalOrder(r.nodes, order) /\ InOrder(r, order, b, n)
       /\ RedApart(r, Nil) /\ EquallyBlack(r, h, Nil, e)
       /\ \A m \in r.nodes : m # n => r.sum[m] = WeightOf[b[m] \ {n}]

\* The exchange of a node with its predecessor: order, colours and
\* summaries.
LEMMA SwapTurn ==
  ASSUME NEW t, NEW order, NEW below, NEW height \in [Nodes -> Nat], NEW e, NEW n, NEW p,
         Swappable(t, order, below, n, p), t.ok, RedApart(t, Nil), EquallyBlack(t, height, Nil, e),
         Deducted(t, below, n, p)
  PROVE  Exchanged(t, order, n, SwapWithPredecessor(t, n, p), e)
<1>. DEFINE r == SwapWithPredecessor(t, n, p)
            s == Exchange(n, p)
            b == [m \in Nodes |-> Image(s, below[s[m]])]
            h == [m \in Nodes |-> height[s[m]]]
<1>0. Swappable(t, order, below, n, p)
  OBVIOUS
<1>1. Predecessor(t, order, below, n, p) /\ PredecessorLinks(t, below, n, p)
  BY ONLY <1>0, SwapFacts, SwapParents
<1>2. Renamed(t, r, s) /\ r.ok = t.ok /\ \A m \in t.nodes : r.sum[m] = t.sum[s[m]]
  BY ONLY <1>0, SwapRenames
<1>3. /\ Sound(r, b) /\ TotalOrder(r.nodes, order) /\ InOrder(r, order, b, n)
      /\ r.nodes = t.nodes /\ b[p] = below[n]
      /\ \A m \in t.nodes : m # n /\ m # p => b[m] = Image(s, below[m])
  BY ONLY <1>0, SwapOrder
<1>4. /\ Sound(t, below) /\ t.nodes \subseteq Nodes /\ n \in t.nodes /\ p \in t.nodes /\ n # p
      /\ p \in below[n] /\ n \notin below[p]
  BY <1>1 DEF Predecessor
<1>5. RedApart(r, Nil) /\ h \in [Nodes -> Nat] /\ EquallyBlack(r, h, Nil, e)
  BY <1>2, <1>4, RenamedColors
<1>6. Exchanges(s, n, p)
  BY <1>4, ExchangeIs
<1>7. s[n] = p /\ s[p] = n /\ (\A k \in Nodes : k # n /\ k # p => s[k] = k) /\ s[Nil] = Nil
  BY <1>6 DEF Exchanges
<1>8. r.child[n][1] = Nil
  <2>1. r.child[n][1] = s[t.child[s[n]][1]] /\ t.child[p][1] = Nil
    BY <1>2, <1>4 DEF Renamed, Swappable
  <2>. QED  BY <1>7, <2>1
<1>. HIDE DEF r, s, b, h
<1>9. ASSUME NEW m \in t.nodes, m # n
      PROVE  r.sum[m] = WeightOf[b[m] \ {n}]
  <2>0. /\ below[m] \in SUBSET Nodes /\ m \in below[m] /\ n \in below[n] /\ below[n] \in SUBSET Nodes
        /\ n \in below[m] => p \in below[m]
    BY <1>4, NodeBelow, Nested
  <2>00. WeightOf \in [SUBSET Nodes -> Int]
    BY WeightAssumption
  <2>1. CASE m = p
    <3>1. r.sum[m] = t.sum[n]
      BY <1>2, <1>7, <2>1
    <3>2. t.sum[n] = WeightOf[below[n] \ {n}] - 0
      BY <1>4, <2>0 DEF Deducted
    <3>3. WeightOf[below[n] \ {n}] \in Int
      BY <2>0, <2>00
    <3>4. r.sum[m] = WeightOf[below[n] \ {n}]
      BY ONLY <3>1, <3>2, <3>3
    <3>. QED  BY <1>3, <2>1, <3>4, Zenon
  <2>2. CASE m # p
    <3>1. r.sum[m] = t.sum[m] /\ b[m] = Image(s, below[m])
      BY <1>2, <1>3, <1>4, <1>7, <1>9, <2>2
    <3>2. WeightOf[below[m] \ {n}] \in Int
      BY <2>0, <2>00
    <3>3. CASE n \notin below[m] /\ p \in below[m]
      <4>1. t.sum[m] = WeightOf[below[m] \ {n}] - Weight[p]
        BY <2>2, <3>3 DEF Deducted
      <4>2. below[m] \ {n} = below[m] /\ below[m] = (below[m] \ {p}) \cup {p}
        BY <3>3
      <4>3. /\ WeightOf[(below[m] \ {p}) \cup {p}] = WeightOf[below[m] \ {p}] + Weight[p]
            /\ WeightOf[below[m] \ {p}] \in Int /\ Weight[p] \in Int
        <5>1. below[m] \ {p} \in SUBSET Nodes /\ p \in Nodes \ (below[m] \ {p})
          BY <1>4, <2>0
        <5>. QED  BY ONLY <5>1, WeightAdd
      <4>4. b[m] = (below[m] \ {p}) \cup {n}
        BY <1>0, <2>0, <3>1, <3>3, SwapImage DEF s
      <4>5. b[m] \ {n} = below[m] \ {p}
        BY <3>3, <4>4
      <4>6. WeightOf[below[m] \ {n}] = WeightOf[below[m] \ {p}] + Weight[p]
        BY <4>2, <4>3
      <4>7. t.sum[m] = (WeightOf[below[m] \ {p}] + Weight[p]) - Weight[p]
        BY <4>1, <4>6, Zenon
      <4>8. t.sum[m] = WeightOf[below[m] \ {p}]
        BY ONLY <4>3, <4>7
      <4>. QED  BY <3>1, <4>5, <4>8, Zenon
    <3>4. CASE ~(n \notin below[m] /\ p \in below[m])
      <4>1. b[m] = below[m]
        BY <1>0, <2>0, <3>1, <3>4, SwapImage DEF s
      <4>2. t.sum[m] = WeightOf[below[m] \ {n}] - 0
        BY <2>2, <3>4 DEF Deducted
      <4>. QED  BY <3>1, <3>2, <4>1, <4>2
    <3>. QED  BY <3>3, <3>4
  <2>. QED  BY <2>1, <2>2
<1>10. b \in [Nodes -> SUBSET Nodes]
  BY <1>3 DEF Sound
<1>11. \A m \in r.nodes : m # n => r.sum[m] = WeightOf[b[m] \ {n}]
  BY <1>3, <1>9
<1>12. r.ok
  BY <1>2
<1>13. \E bb \in [Nodes -> SUBSET Nodes], hh \in [Nodes -> Nat] :
         /\ Sound(r, bb) /\ TotalOrder(r.nodes, order) /\ InOrder(r, order, bb, n)
         /\ RedApart(r, Nil) /\ EquallyBlack(r, hh, Nil, e)
         /\ \A m \in r.nodes : m # n => r.sum[m] = WeightOf[bb[m] \ {n}]
  BY <1>3, <1>5, <1>10, <1>11, Zenon
<1>. QED  BY <1>3, <1>4, <1>8, <1>12, <1>13, Zenon DEF Exchanged, r
-----------------------------------------------------------------------------

\* n, which has at most one child, may be out of order; all the rest is not.
Removable(t, order, below, n) ==
  /\ Sound(t, below) /\ TotalOrder(t.nodes, order) /\ InOrder(t, order, below, n)
  /\ n \in t.nodes /\ (t.child[n][0] = Nil \/ t.child[n][1] = Nil)
  /\ t.ok /\ \A m \in t.nodes : m # n => t.sum[m] = WeightOf[below[m] \ {n}]

\* The only child of n, if any, takes the place of n.
Unlinked(t, n, only, r) ==
  /\ r \in Trees /\ r.ok = t.ok /\ r.nodes = t.nodes \ {n}
  /\ r.root = IF n = t.root THEN only ELSE t.root
  /\ \A m \in t.nodes, d \in 0..1 : m # n =>
       r.child[m][d] = IF t.child[m][d] = n THEN only ELSE t.child[m][d]
  /\ \A m \in t.nodes : m # n =>
       /\ r.parent[m] = IF m = only THEN t.parent[n] ELSE t.parent[m]
       /\ r.color[m] = IF m = only THEN "Black" ELSE t.color[m]
       /\ r.sum[m] = t.sum[m]

\* What n and its only child are.
OnlyChild(t, below, n, only) ==
  /\ n \in Nodes /\ n # Nil /\ n \in below[n]
  /\ only \in Nodes \cup {Nil} /\ only # n
  /\ only # Nil => only \in t.nodes /\ t.parent[only] = n /\ only # t.root
  /\ below[n] = {n} \cup Below(below, only) /\ n \notin Below(below, only)
  /\ \A d \in 0..1 : t.child[n][d] = Nil \/ t.child[n][d] = only
  /\ \A m \in t.nodes : t.parent[m] = n => m = only
  /\ \A m \in t.nodes, d \in 0..1 : t.child[m][d] = n => n # t.root /\ m = t.parent[n] /\ m # n
  /\ \A m \in t.nodes, d \in 0..1 : t.child[m][d] = only /\ only # Nil => m = n
  /\ n = t.root => t.parent[n] = Nil
  /\ n # t.root => t.parent[n] \in t.nodes /\ t.parent[n] # n

\* A node that is to be unlinked has at most one child.
LEMMA OnlyChildIs ==
  ASSUME NEW t, NEW order, NEW below, NEW n, Removable(t, order, below, n)
  PROVE  OnlyChild(t, below, n, Only(t, n))
<1>. DEFINE only == Only(t, n)
<1>1. /\ Sound(t, below) /\ n \in t.nodes /\ (t.child[n][0] = Nil \/ t.child[n][1] = Nil)
      /\ t \in Trees /\ LinksAgree(t) /\ Nil \notin Nodes /\ t.nodes \subseteq Nodes
  BY TreeAssumption DEF Removable, Sound, Trees
<1>2. /\ below[n] = {n} \cup Below(below, t.child[n][0]) \cup Below(below, t.child[n][1])
      /\ n \notin Below(below, t.child[n][0]) /\ n \notin Below(below, t.child[n][1])
  BY <1>1 DEF Sound, Subtrees
<1>3. /\ only = t.child[n][0] \/ only = t.child[n][1]
      /\ \A d \in 0..1 : t.child[n][d] = Nil \/ t.child[n][d] = only
  BY <1>1 DEF Only
<1>4. below[n] = {n} \cup Below(below, only) /\ n \notin Below(below, only)
  <2>1. CASE t.child[n][0] = Nil
    <3>1. only = t.child[n][1] /\ Below(below, t.child[n][0]) = {}
      BY <2>1 DEF Only, Below
    <3>. HIDE DEF only
    <3>. QED  BY <1>2, <3>1
  <2>2. CASE t.child[n][0] # Nil
    <3>1. only = t.child[n][0] /\ Below(below, t.child[n][1]) = {}
      BY <1>1, <2>2 DEF Only, Below
    <3>. HIDE DEF only
    <3>. QED  BY <1>2, <3>1
  <2>. QED  BY <2>1, <2>2
<1>5. only \in Nodes \cup {Nil}
  BY <1>1, <1>3 DEF Trees
<1>6. n \in Nodes /\ n # Nil /\ n \in below[n]
  BY <1>1, <1>2
<1>7. only # Nil => only \in t.nodes /\ t.parent[only] = n /\ only # t.root /\ only # n
  <2>1. PICK d \in 0..1 : only = t.child[n][d]
    BY <1>3
  <2>. HIDE DEF only
  <2>. QED  BY <1>1, <2>1, Children
<1>8. ASSUME NEW m \in t.nodes, t.parent[m] = n
      PROVE  m = only
  <2>1. m # t.root
    BY <1>1, <1>6, <1>8 DEF LinksAgree
  <2>2. PICK d \in 0..1 : t.child[n][d] = m
    BY <1>1, <1>8, <2>1 DEF LinksAgree
  <2>. HIDE DEF only
  <2>. QED  BY <1>1, <1>3, <2>2
<1>9. ASSUME NEW m \in t.nodes, NEW d \in 0..1, t.child[m][d] = n
      PROVE  n # t.root /\ m = t.parent[n] /\ m # n
  BY <1>1, <1>6, <1>9, Children
<1>10. ASSUME NEW m \in t.nodes, NEW d \in 0..1, t.child[m][d] = only, only # Nil
       PROVE  m = n
  <2>1. t.parent[t.child[m][d]] = m
    BY <1>1, <1>10 DEF LinksAgree
  <2>. QED  BY <1>7, <1>10, <2>1
<1>11. n = t.root => t.parent[n] = Nil
  BY <1>1, <1>6 DEF LinksAgree
<1>12. n # t.root => t.parent[n] \in t.nodes /\ t.parent[n] # n
  <2>1. SUFFICES ASSUME n # t.root PROVE t.parent[n] \in t.nodes /\ t.parent[n] # n
    OBVIOUS
  <2>2. PICK d \in 0..1 : t.parent[n] \in t.nodes /\ t.child[t.parent[n]][d] = n
    BY <1>1, <2>1 DEF LinksAgree
  <2>. QED  BY <1>9, <2>2
<1>. HIDE DEF only
<1>13. only # n
  BY <1>6, <1>7
<1>14. /\ \A m \in t.nodes : t.parent[m] = n => m = only
       /\ \A m \in t.nodes, d \in 0..1 : t.child[m][d] = n => n # t.root /\ m = t.parent[n] /\ m # n
       /\ \A m \in t.nodes, d \in 0..1 : t.child[m][d] = only /\ only # Nil => m = n
  BY <1>8, <1>9, <1>10
<1>15. OnlyChild(t, below, n, only)
  BY <1>3, <1>4, <1>5, <1>6, <1>7, <1>11, <1>12, <1>13, <1>14, Zenon DEF OnlyChild
<1>. QED  BY <1>15 DEF only

\* The black heights leave only a red leaf, a black leaf and a black node
\* with a red leaf below it.
LEMMA OnlyChildColor ==
  ASSUME NEW t, NEW order, NEW below, NEW n, Removable(t, order, below, n),
         NEW height \in [Nodes -> Nat], NEW e, RedApart(t, Nil), EquallyBlack(t, height, Nil, e),
         NEW only, only = Only(t, n)
  PROVE  /\ IsRed(t, n) => only = Nil /\ height[n] = 0
         /\ ~IsRed(t, n) => height[n] = 1
         /\ only # Nil => IsRed(t, only) /\ height[only] = 0
<1>1. /\ Sound(t, below) /\ n \in t.nodes /\ (t.child[n][0] = Nil \/ t.child[n][1] = Nil)
      /\ t \in Trees /\ Nil \notin Nodes /\ t.nodes \subseteq Nodes
  BY TreeAssumption DEF Removable, Sound, Trees
<1>2. OnlyChild(t, below, n, only)
  BY OnlyChildIs
<1>3. n # Nil /\ n \in Nodes /\ (only # Nil => only \in t.nodes)
  BY <1>2 DEF OnlyChild
<1>4. PICK d \in 0..1 : t.child[n][d] = Nil
  BY <1>1
<1>5. height[n] = Height(height, t.child[n][d]) + Black(t, n)
  BY <1>1, <1>3, HeightIs
<1>6. height[n] = Black(t, n)
  BY <1>1, <1>4, <1>5 DEF Height, Black
<1>7. (IsRed(t, n) => height[n] = 0) /\ (~IsRed(t, n) => height[n] = 1)
  BY <1>6 DEF Black
<1>8. ASSUME only # Nil
      PROVE  IsRed(t, only) /\ height[only] = 0 /\ ~IsRed(t, n)
  <2>1. PICK f \in 0..1 : only = t.child[n][f]
    BY DEF Only
  <2>2. height[n] = Height(height, t.child[n][f]) + Black(t, n)
    BY <1>1, <1>3, HeightIs
  <2>3. Height(height, t.child[n][f]) = height[only] /\ height[only] \in Nat /\ Black(t, n) \in 0..1
    BY <1>1, <1>3, <1>8, <2>1 DEF Height, Black
  <2>4. height[only] = 0
    BY <1>6, <2>2, <2>3
  <2>5. /\ height[only] = Height(height, t.child[only][0]) + Black(t, only)
        /\ Height(height, t.child[only][0]) \in Nat /\ Black(t, only) \in 0..1
    <3>1. only \in t.nodes /\ 0 \in 0..1 /\ only # Nil
      BY <1>3, <1>8
    <3>. QED  BY <1>1, <3>1, HeightIs
  <2>6. Black(t, only) = 0
    BY <2>4, <2>5
  <2>7. IsRed(t, only)
    BY <2>6 DEF Black
  <2>8. ~IsRed(t, n)
    BY <1>1, <2>1, <2>7 DEF RedApart, IsRed
  <2>. QED  BY <2>4, <2>7, <2>8
<1>. QED  BY <1>7, <1>8

\* What Unlink does to each field; its assertions hold.
LEMMA UnlinkEffect ==
  ASSUME NEW t, NEW order, NEW below, NEW n, Removable(t, order, below, n),
         NEW only, only = Only(t, n),
         IsRed(t, n) => only = Nil, only # Nil => IsRed(t, only)
  PROVE  Unlinked(t, n, only, Unlink(t, n))
<1>. DEFINE q == Replace(t, n, only)
            pa == IF only = Nil THEN t.parent ELSE [t.parent EXCEPT ![only] = t.parent[n]]
            co == IF only = Nil THEN t.color ELSE [t.color EXCEPT ![only] = "Black"]
            u == [q EXCEPT !.parent = pa, !.color = co]
            r == [u EXCEPT !.nodes = @ \ {n}, !.child[n] = NoChildren, !.parent[n] = Nil,
                           !.color[n] = "Red", !.sum[n] = 0]
<1>1. /\ Sound(t, below) /\ n \in t.nodes /\ (t.child[n][0] = Nil \/ t.child[n][1] = Nil)
      /\ t \in Trees /\ Nil \notin Nodes /\ t.nodes \subseteq Nodes /\ LinksAgree(t)
  BY TreeAssumption DEF Removable, Sound, Trees
<1>2. OnlyChild(t, below, n, only)
  BY OnlyChildIs
<1>3. /\ n # Nil /\ n \in Nodes /\ (only # Nil => only \in t.nodes) /\ only \in Nodes \cup {Nil} /\ only # n
      /\ \A m \in t.nodes, d \in 0..1 : t.child[m][d] = n => n # t.root /\ m = t.parent[n] /\ m # n
      /\ n # t.root => t.parent[n] \in t.nodes /\ t.parent[n] # n
  BY <1>2 DEF OnlyChild
<1>4. /\ q \in Trees /\ q.ok = t.ok /\ q.nodes = t.nodes /\ q.parent = t.parent
      /\ q.color = t.color /\ q.sum = t.sum /\ q.root = IF n = t.root THEN only ELSE t.root
      /\ \A k \in Nodes : q.child[k] = IF n # t.root /\ k = t.parent[n]
                                         THEN [t.child[k] EXCEPT ![Side(t, n)] = only] ELSE t.child[k]
  BY <1>1, <1>3, ReplaceEffect
<1>5. Unlink(t, n) = r
  <2>. DEFINE t0 == Check(t, t.child[n][0] = Nil \/ t.child[n][1] = Nil)
              t1 == IF IsRed(t, n) THEN Replace(Check(t0, only = Nil), n, Nil)
                    ELSE IF only = Nil THEN Replace(t0, n, Nil)
                    ELSE [Replace(Check(t0, IsRed(t, only)), n, only) EXCEPT
                            !.parent[only] = t.parent[n], !.color[only] = "Black"]
  <2>1. Unlink(t, n) = [t1 EXCEPT !.nodes = @ \ {n}, !.child[n] = NoChildren, !.parent[n] = Nil,
                                  !.color[n] = "Red", !.sum[n] = 0]
    BY DEF Unlink, Bypass
  <2>2. t0 = t
    <3>1. (t.child[n][0] = Nil \/ t.child[n][1] = Nil) = TRUE
      BY <1>1
    <3>. QED  BY <1>1, <3>1, CheckTrue
  <2>3. only = Nil => Check(t, only = Nil) = t
    BY <1>1, CheckTrue
  <2>4. only # Nil => Check(t, IsRed(t, only)) = t
    <3>1. IsRed(t, only) \in BOOLEAN
      BY DEF IsRed
    <3>. QED  BY <1>1, <3>1, CheckTrue
  <2>. HIDE DEF t0
  <2>5. t1 = u
    <3>1. CASE only = Nil
      <4>1. t1 = q
        BY <2>2, <2>3, <3>1
      <4>2. u = q
        <5>1. pa = q.parent /\ co = q.color
          BY <1>4, <3>1
        <5>. HIDE DEF pa, co, q
        <5>. QED  BY <1>4, <5>1 DEF Trees
      <4>. QED  BY <4>1, <4>2
    <3>2. CASE only # Nil
      <4>1. ~IsRed(t, n) /\ Check(t0, IsRed(t, only)) = t
        BY <2>2, <2>4, <3>2
      <4>2. t1 = [q EXCEPT !.parent[only] = t.parent[n], !.color[only] = "Black"]
        BY <3>2, <4>1
      <4>3. pa = [q.parent EXCEPT ![only] = t.parent[n]] /\ co = [q.color EXCEPT ![only] = "Black"]
        BY <1>4, <3>2
      <4>. HIDE DEF pa, co, q, t1
      <4>. QED  BY <4>2, <4>3
    <3>. QED  BY <3>1, <3>2
  <2>. HIDE DEF t1, u
  <2>. QED  BY <2>1, <2>5
<1>6. pa \in [Nodes -> Nodes \cup {Nil}] /\ co \in [Nodes -> {"Red", "Black"}]
  BY <1>1, <1>3 DEF Trees
<1>7. \A m \in t.nodes : /\ pa[m] = IF m = only THEN t.parent[n] ELSE t.parent[m]
                         /\ co[m] = IF m = only THEN "Black" ELSE t.color[m]
  BY <1>1, <1>3 DEF Trees
<1>. HIDE DEF pa, co, q
<1>8. /\ u \in Trees /\ u.ok = t.ok /\ u.nodes = t.nodes /\ u.parent = pa /\ u.color = co
      /\ u.sum = t.sum /\ u.child = q.child /\ u.root = IF n = t.root THEN only ELSE t.root
  BY <1>4, <1>6 DEF Trees
<1>. HIDE DEF u
<1>9. /\ r \in Trees /\ r.ok = u.ok /\ r.nodes = t.nodes \ {n} /\ r.root = u.root
      /\ \A m \in Nodes : m # n => /\ r.child[m] = u.child[m] /\ r.parent[m] = u.parent[m]
                                   /\ r.color[m] = u.color[m] /\ r.sum[m] = u.sum[m]
  <2>. DEFINE rc == [u.child EXCEPT ![n] = NoChildren]
              rp == [u.parent EXCEPT ![n] = Nil]
              ro == [u.color EXCEPT ![n] = "Red"]
              rs == [u.sum EXCEPT ![n] = 0]
  <2>1. /\ rc \in [Nodes -> [0..1 -> Nodes \cup {Nil}]] /\ rp \in [Nodes -> Nodes \cup {Nil}]
        /\ ro \in [Nodes -> {"Red", "Black"}] /\ rs \in [Nodes -> Int]
    <3>1. NoChildren \in [0..1 -> Nodes \cup {Nil}] /\ 0 \in Int
      BY DEF NoChildren
    <3>2. /\ u.child \in [Nodes -> [0..1 -> Nodes \cup {Nil}]] /\ u.parent \in [Nodes -> Nodes \cup {Nil}]
          /\ u.color \in [Nodes -> {"Red", "Black"}] /\ u.sum \in [Nodes -> Int]
      BY <1>8 DEF Trees
    <3>3. n \in Nodes
      BY <1>3
    <3>. QED  BY ONLY <3>1, <3>2, <3>3
  <2>2. \A m \in Nodes : m # n => rc[m] = u.child[m] /\ rp[m] = u.parent[m] /\ ro[m] = u.color[m] /\ rs[m] = u.sum[m]
    BY <1>8 DEF Trees
  <2>3. r = [u EXCEPT !.nodes = u.nodes \ {n}, !.child = rc, !.parent = rp, !.color = ro, !.sum = rs]
    OBVIOUS
  <2>4. u.nodes \ {n} \in SUBSET Nodes
    BY <1>8 DEF Trees
  <2>. HIDE DEF rc, rp, ro, rs, r
  <2>5. /\ r \in Trees /\ r.ok = u.ok /\ r.nodes = u.nodes \ {n} /\ r.root = u.root
        /\ r.child = rc /\ r.parent = rp /\ r.color = ro /\ r.sum = rs
    BY <1>8, <2>1, <2>3, <2>4 DEF Trees
  <2>. QED  BY <1>8, <2>2, <2>5
<1>. HIDE DEF r
<1>10. ASSUME NEW m \in t.nodes, NEW d \in 0..1, m # n
       PROVE  r.child[m][d] = IF t.child[m][d] = n THEN only ELSE t.child[m][d]
  <2>1. r.child[m] = q.child[m] /\ m \in Nodes
    BY <1>1, <1>8, <1>9, <1>10
  <2>2. t.child[m] \in [0..1 -> Nodes \cup {Nil}]
    BY <1>1, <2>1 DEF Trees
  <2>3. CASE n # t.root /\ m = t.parent[n]
    <3>. DEFINE f == Side(t, n)
    <3>1. f \in 0..1 /\ t.child[m][f] = n /\ t.child[m][1 - f] # n
      BY <1>1, <2>3, SideIs
    <3>2. r.child[m] = [t.child[m] EXCEPT ![f] = only]
      BY <1>4, <2>1, <2>3
    <3>. HIDE DEF f
    <3>3. d = f \/ d = 1 - f
      BY <3>1
    <3>. QED  BY <2>2, <3>1, <3>2, <3>3
  <2>4. CASE ~(n # t.root /\ m = t.parent[n])
    BY <1>3, <1>4, <2>1, <2>4
  <2>. QED  BY <2>3, <2>4
<1>11. \A m \in t.nodes : m # n =>
         /\ r.parent[m] = IF m = only THEN t.parent[n] ELSE t.parent[m]
         /\ r.color[m] = IF m = only THEN "Black" ELSE t.color[m]
         /\ r.sum[m] = t.sum[m]
  BY <1>1, <1>7, <1>8, <1>9
<1>12. /\ r \in Trees /\ r.ok = t.ok /\ r.nodes = t.nodes \ {n}
       /\ r.root = IF n = t.root THEN only ELSE t.root
  BY <1>8, <1>9
<1>13. Unlinked(t, n, only, r)
  BY <1>10, <1>11, <1>12 DEF Unlinked
<1>. QED  BY <1>5, <1>13

\* What n leaves behind: every other subtree without n.
Without(below, n) == [m \in Nodes |-> below[m] \ {n}]

\* After Unlink the links agree.
LEMMA UnlinkLinks ==
  ASSUME NEW t, NEW order, NEW below, NEW n, Removable(t, order, below, n),
         NEW only, OnlyChild(t, below, n, only), NEW r, Unlinked(t, n, only, r)
  PROVE  LinksAgree(r)
<1>1. /\ Sound(t, below) /\ n \in t.nodes /\ t \in Trees /\ LinksAgree(t) /\ Nil \notin Nodes
      /\ t.nodes \subseteq Nodes /\ Subtrees(t, below)
  BY TreeAssumption DEF Removable, Sound, Trees
<1>2. /\ n \in Nodes /\ n # Nil /\ n \in below[n] /\ only # n
      /\ only # Nil => only \in t.nodes /\ t.parent[only] = n /\ only # t.root
      /\ below[n] = {n} \cup Below(below, only)
      /\ \A m \in t.nodes : t.parent[m] = n => m = only
      /\ \A m \in t.nodes, d \in 0..1 : t.child[m][d] = n => n # t.root /\ m = t.parent[n] /\ m # n
      /\ \A m \in t.nodes, d \in 0..1 : t.child[m][d] = only /\ only # Nil => m = n
      /\ n = t.root => t.parent[n] = Nil
      /\ n # t.root => t.parent[n] \in t.nodes /\ t.parent[n] # n
  BY DEF OnlyChild
<1>3. /\ r.nodes = t.nodes \ {n} /\ r.root = IF n = t.root THEN only ELSE t.root
      /\ \A m \in t.nodes, d \in 0..1 : m # n =>
           r.child[m][d] = IF t.child[m][d] = n THEN only ELSE t.child[m][d]
      /\ \A m \in t.nodes : m # n => r.parent[m] = IF m = only THEN t.parent[n] ELSE t.parent[m]
  BY DEF Unlinked
<1>4. t.root # Nil /\ t.root \in t.nodes /\ below[t.root] = t.nodes /\ t.parent[t.root] = Nil
  BY <1>1 DEF LinksAgree, Subtrees
<1>5. r.root = Nil <=> r.nodes = {}
  <2>1. CASE n = t.root
    <3>1. r.root = only /\ r.nodes = ({n} \cup Below(below, only)) \ {n}
      BY <1>2, <1>3, <1>4, <2>1
    <3>2. only = Nil => Below(below, only) = {}
      BY DEF Below
    <3>3. only # Nil => only \in r.nodes
      BY <1>2, <1>3
    <3>. QED  BY <3>1, <3>2, <3>3
  <2>2. CASE n # t.root
    BY <1>3, <1>4, <2>2
  <2>. QED  BY <2>1, <2>2
<1>6. r.root # Nil => r.root \in r.nodes /\ r.parent[r.root] = Nil
  <2>1. CASE n = t.root
    <3>1. r.root = only /\ t.parent[n] = Nil
      BY <1>2, <1>3, <2>1
    <3>. QED  BY <1>2, <1>3, <3>1
  <2>2. CASE n # t.root
    BY <1>2, <1>3, <1>4, <2>2
  <2>. QED  BY <2>1, <2>2
<1>7. ASSUME NEW m \in r.nodes, m # r.root
      PROVE  r.parent[m] \in r.nodes /\ \E d \in 0..1 : r.child[r.parent[m]][d] = m
  <2>1. m \in t.nodes /\ m # n
    BY <1>3
  <2>2. CASE m = only
    <3>1. n # t.root /\ r.parent[m] = t.parent[n]
      BY <1>3, <1>7, <2>1, <2>2
    <3>2. PICK d \in 0..1 : t.child[t.parent[n]][d] = n
      BY <1>1, <3>1 DEF LinksAgree
    <3>3. r.child[t.parent[n]][d] = only
      BY <1>2, <1>3, <3>1, <3>2
    <3>. QED  BY <1>2, <1>3, <2>2, <3>1, <3>3
  <2>3. CASE m # only
    <3>1. m # t.root /\ r.parent[m] = t.parent[m]
      BY <1>3, <1>7, <2>1, <2>3
    <3>2. PICK d \in 0..1 : t.parent[m] \in t.nodes /\ t.child[t.parent[m]][d] = m
      BY <1>1, <2>1, <3>1 DEF LinksAgree
    <3>3. t.parent[m] # n
      BY <1>2, <2>1, <2>3
    <3>4. r.child[t.parent[m]][d] = m
      BY <1>3, <2>1, <3>2, <3>3
    <3>. QED  BY <1>3, <3>1, <3>2, <3>3, <3>4
  <2>. QED  BY <2>2, <2>3
<1>8. ASSUME NEW m \in r.nodes, NEW d \in 0..1, r.child[m][d] # Nil
      PROVE  r.child[m][d] \in r.nodes /\ r.parent[r.child[m][d]] = m /\ r.child[m][d] # r.child[m][1 - d]
  <2>1. m \in t.nodes /\ m # n /\ 1 - d \in 0..1
    BY <1>3
  <2>2. /\ r.child[m][d] = IF t.child[m][d] = n THEN only ELSE t.child[m][d]
        /\ r.child[m][1 - d] = IF t.child[m][1 - d] = n THEN only ELSE t.child[m][1 - d]
    BY <1>3, <2>1
  <2>3. CASE t.child[m][d] = n
    <3>1. r.child[m][d] = only /\ only \in t.nodes /\ m = t.parent[n] /\ n # t.root
      BY <1>2, <1>8, <2>1, <2>2, <2>3
    <3>2. t.child[m][1 - d] # n
      BY <1>1, <1>2, <2>1, <2>3 DEF LinksAgree
    <3>3. t.child[m][1 - d] # only
      BY <1>2, <1>8, <2>1, <3>1
    <3>. QED  BY <1>2, <1>3, <2>2, <3>1, <3>2, <3>3
  <2>4. CASE t.child[m][d] # n
    <3>. DEFINE c == t.child[m][d]
    <3>1. r.child[m][d] = c /\ c # Nil
      BY <1>8, <2>2, <2>4
    <3>2. c \in t.nodes /\ t.parent[c] = m /\ c # t.child[m][1 - d]
      BY <1>1, <2>1, <3>1 DEF LinksAgree
    <3>3. c # only
      BY <1>2, <2>1, <3>1
    <3>. HIDE DEF c
    <3>4. r.parent[c] = t.parent[c]
      BY <1>3, <2>4, <3>2, <3>3 DEF c
    <3>. QED  BY <1>3, <2>2, <2>4, <3>1, <3>2, <3>3, <3>4 DEF c
  <2>. QED  BY <2>3, <2>4
<1>. QED  BY <1>5, <1>6, <1>7, <1>8 DEF LinksAgree

\* After Unlink every subtree is what it was without n.
LEMMA UnlinkSound ==
  ASSUME NEW t, NEW order, NEW below, NEW n, Removable(t, order, below, n),
         NEW only, OnlyChild(t, below, n, only), NEW r, Unlinked(t, n, only, r),
         NEW b, b = Without(below, n)
  PROVE  /\ Sound(r, b)
         /\ \A m \in t.nodes, d \in 0..1 : m # n =>
              Below(b, r.child[m][d]) = Below(below, t.child[m][d]) \ {n}
<1>1. /\ Sound(t, below) /\ n \in t.nodes /\ t \in Trees /\ LinksAgree(t) /\ Nil \notin Nodes
      /\ t.nodes \subseteq Nodes /\ Subtrees(t, below) /\ below \in [Nodes -> SUBSET Nodes]
  BY TreeAssumption DEF Removable, Sound, Trees
<1>2. /\ n \in Nodes /\ n # Nil /\ only # n
      /\ only # Nil => only \in t.nodes /\ t.parent[only] = n /\ only # t.root
      /\ below[n] = {n} \cup Below(below, only) /\ n \notin Below(below, only)
      /\ \A m \in t.nodes : t.parent[m] = n => m = only
      /\ n = t.root => t.parent[n] = Nil
      /\ n # t.root => t.parent[n] \in t.nodes /\ t.parent[n] # n
  BY DEF OnlyChild
<1>3. /\ r \in Trees /\ r.nodes = t.nodes \ {n} /\ r.root = IF n = t.root THEN only ELSE t.root
      /\ \A m \in t.nodes, d \in 0..1 : m # n =>
           r.child[m][d] = IF t.child[m][d] = n THEN only ELSE t.child[m][d]
      /\ \A m \in t.nodes : m # n => r.parent[m] = IF m = only THEN t.parent[n] ELSE t.parent[m]
  BY DEF Unlinked
<1>4. b \in [Nodes -> SUBSET Nodes] /\ \A m \in Nodes : b[m] = below[m] \ {n}
  BY <1>1 DEF Without
<1>5. ASSUME NEW m \in t.nodes, NEW d \in 0..1, m # n
      PROVE  Below(b, r.child[m][d]) = Below(below, t.child[m][d]) \ {n}
  <2>1. r.child[m][d] = IF t.child[m][d] = n THEN only ELSE t.child[m][d]
    BY <1>3, <1>5
  <2>2. CASE t.child[m][d] = n
    <3>1. r.child[m][d] = only /\ Below(below, t.child[m][d]) = {n} \cup Below(below, only)
      BY <1>2, <2>1, <2>2 DEF Below
    <3>2. only # Nil => b[only] = below[only] \ {n}
      BY <1>1, <1>2, <1>4
    <3>3. Below(b, only) = Below(below, only) \ {n}
      BY <3>2 DEF Below
    <3>. QED  BY <1>2, <3>1, <3>3
  <2>3. CASE t.child[m][d] # n
    <3>1. t.child[m][d] \in Nodes \cup {Nil}
      BY <1>1 DEF Trees
    <3>. QED  BY <1>4, <2>1, <2>3, <3>1 DEF Below
  <2>. QED  BY <2>2, <2>3
<1>6. ASSUME NEW m \in r.nodes, NEW d \in 0..1
      PROVE  /\ b[m] = {m} \cup Below(b, r.child[m][d]) \cup Below(b, r.child[m][1 - d])
             /\ m \notin Below(b, r.child[m][d])
             /\ Below(b, r.child[m][d]) \cap Below(b, r.child[m][1 - d]) = {}
             /\ b[m] \subseteq r.nodes
  <2>1. m \in t.nodes /\ m # n /\ 1 - d \in 0..1 /\ m \in Nodes
    BY <1>1, <1>3
  <2>2. /\ below[m] \subseteq t.nodes
        /\ below[m] = {m} \cup Below(below, t.child[m][d]) \cup Below(below, t.child[m][1 - d])
        /\ m \notin Below(below, t.child[m][d])
        /\ Below(below, t.child[m][d]) \cap Below(below, t.child[m][1 - d]) = {}
    BY <1>1, <2>1, NodeBelow
  <2>3. /\ Below(b, r.child[m][d]) = Below(below, t.child[m][d]) \ {n}
        /\ Below(b, r.child[m][1 - d]) = Below(below, t.child[m][1 - d]) \ {n}
    BY <1>5, <2>1
  <2>4. b[m] = below[m] \ {n} /\ r.nodes = t.nodes \ {n} /\ m # n
    BY <1>3, <1>4, <2>1
  <2>. QED  BY ONLY <2>2, <2>3, <2>4
<1>7. ASSUME NEW m \in r.nodes, NEW k \in b[m]
      PROVE  b[k] \subseteq b[m] /\ (k # m => r.parent[k] \in b[m])
  <2>1. /\ m \in t.nodes /\ m # n /\ m \in Nodes /\ b[m] = below[m] \ {n} /\ k \in below[m] /\ k # n
    BY <1>1, <1>3, <1>4
  <2>2. k \in t.nodes /\ below[k] \subseteq below[m] /\ (k # m => t.parent[k] \in below[m] /\ t.parent[k] \in t.nodes)
    BY <1>1, <2>1, Nested
  <2>3. b[k] \subseteq b[m]
    BY <1>1, <1>4, <2>1, <2>2
  <2>4. ASSUME k # m PROVE r.parent[k] \in b[m]
    <3>1. CASE k = only
      <4>1. n \in below[m] /\ r.parent[k] = t.parent[n]
        BY <1>1, <1>2, <1>3, <2>1, <2>2, <2>4, <3>1
      <4>2. t.parent[n] \in below[m] /\ t.parent[n] \in t.nodes
        BY <1>1, <2>1, <4>1, Nested
      <4>3. t.parent[n] # n
        BY <1>1, <1>2, <4>2
      <4>. QED  BY <2>1, <4>1, <4>2, <4>3
    <3>2. CASE k # only
      <4>1. r.parent[k] = t.parent[k] /\ t.parent[k] # n
        BY <1>2, <1>3, <2>1, <2>2, <3>2
      <4>. QED  BY <2>1, <2>2, <2>4, <4>1
    <3>. QED  BY <3>1, <3>2
  <2>. QED  BY <2>3, <2>4
<1>8. r.root # Nil => b[r.root] = r.nodes
  <2>1. below[t.root] = t.nodes /\ t.root \in Nodes
    BY <1>1 DEF Subtrees, LinksAgree, Trees
  <2>2. CASE n = t.root
    <3>1. r.root = only /\ t.nodes = {n} \cup Below(below, only) /\ n \notin Below(below, only)
      BY <1>2, <1>3, <2>1, <2>2
    <3>2. only # Nil => Below(below, only) = below[only] /\ b[only] = below[only] \ {n}
      BY <1>1, <1>2, <1>4 DEF Below
    <3>. QED  BY <1>3, <3>1, <3>2
  <2>3. CASE n # t.root
    BY <1>3, <1>4, <2>1, <2>3
  <2>. QED  BY <2>2, <2>3
<1>9. Subtrees(r, b)
  <2>1. /\ \A m \in r.nodes, d \in 0..1 :
             /\ b[m] = {m} \cup Below(b, r.child[m][d]) \cup Below(b, r.child[m][1 - d])
             /\ m \notin Below(b, r.child[m][d])
             /\ Below(b, r.child[m][d]) \cap Below(b, r.child[m][1 - d]) = {}
             /\ b[m] \subseteq r.nodes
        /\ \A m \in r.nodes : \A k \in b[m] : b[k] \subseteq b[m] /\ (k # m => r.parent[k] \in b[m])
    BY <1>6, <1>7
  <2>. QED  BY ONLY <1>8, <2>1, SubtreesAre
<1>10. LinksAgree(r)
  BY UnlinkLinks
<1>. QED  BY <1>3, <1>4, <1>5, <1>9, <1>10 DEF Sound

\* The order without n.
OrderWithout(order, n) == {pair \in order : pair[1] # n /\ pair[2] # n}

\* The order without a node is a total order.
LEMMA OrderWithoutIs ==
  ASSUME NEW S, NEW order, TotalOrder(S, order), NEW n
  PROVE  /\ TotalOrder(S \ {n}, OrderWithout(order, n))
         /\ \A x, y \in S \ {n} : <<x, y>> \in OrderWithout(order, n) <=> <<x, y>> \in order
<1>1. \A x, y \in S \ {n} : <<x, y>> \in OrderWithout(order, n) <=> <<x, y>> \in order
  BY DEF OrderWithout
<1>2. OrderWithout(order, n) \subseteq (S \ {n}) \X (S \ {n})
  BY DEF OrderWithout, TotalOrder
<1>3. /\ \A x, y \in S : <<x, y>> \in order => <<y, x>> \notin order
      /\ \A x, y \in S : x # y => <<x, y>> \in order \/ <<y, x>> \in order
      /\ \A x, y, z \in S : <<x, y>> \in order /\ <<y, z>> \in order => <<x, z>> \in order
  BY DEF TotalOrder
<1>. DEFINE o == OrderWithout(order, n)
            T == S \ {n}
<1>4. /\ \A x, y \in T : <<x, y>> \in o => <<y, x>> \notin o
      /\ \A x, y \in T : x # y => <<x, y>> \in o \/ <<y, x>> \in o
      /\ \A x, y, z \in T : <<x, y>> \in o /\ <<y, z>> \in o => <<x, z>> \in o
  BY <1>1, <1>3
<1>. QED  BY <1>1, <1>2, <1>4 DEF TotalOrder

\* After Unlink the tree is in order, and the summaries are exact.
LEMMA UnlinkOrder ==
  ASSUME NEW t, NEW order, NEW below, NEW n, Removable(t, order, below, n),
         NEW only, OnlyChild(t, below, n, only), NEW r, Unlinked(t, n, only, r)
  PROVE  Good(r, OrderWithout(order, n), Without(below, n))
<1>. DEFINE b == Without(below, n)
            o == OrderWithout(order, n)
<1>1. /\ Sound(t, below) /\ TotalOrder(t.nodes, order) /\ InOrder(t, order, below, n)
      /\ n \in t.nodes /\ t.ok /\ Nil \notin Nodes /\ t.nodes \subseteq Nodes
      /\ \A m \in t.nodes : m # n => t.sum[m] = WeightOf[below[m] \ {n}]
  BY TreeAssumption DEF Removable, Sound, Trees
<1>2. /\ r.nodes = t.nodes \ {n} /\ r.ok = t.ok /\ \A m \in t.nodes : m # n => r.sum[m] = t.sum[m]
  BY DEF Unlinked
<1>3. /\ Sound(r, b)
      /\ \A m \in t.nodes, d \in 0..1 : m # n => Below(b, r.child[m][d]) = Below(below, t.child[m][d]) \ {n}
  BY UnlinkSound
<1>4. \A m \in t.nodes : b[m] = below[m] \ {n}
  BY <1>1 DEF Without
<1>5. /\ TotalOrder(r.nodes, o)
      /\ \A x, y \in r.nodes : <<x, y>> \in o <=> <<x, y>> \in order
  BY <1>1, <1>2, OrderWithoutIs
<1>6. \A m \in t.nodes : below[m] \subseteq t.nodes
  BY <1>1 DEF Sound, Subtrees
<1>7. \A m \in t.nodes, d \in 0..1 : \A k \in Below(below, t.child[m][d]) : k \in t.nodes
  BY <1>1, <1>6, NodeBelow
<1>. HIDE DEF b, o
<1>8. ASSUME NEW m \in r.nodes, NEW d \in 0..1, NEW k \in Below(b, r.child[m][d])
      PROVE  Ahead(o, m, k, d)
  <2>1. m \in t.nodes /\ m # n
    BY <1>2
  <2>2. k \in Below(below, t.child[m][d]) /\ k # n /\ k \in r.nodes
    BY <1>2, <1>3, <1>7, <2>1
  <2>3. Ahead(order, m, k, d)
    BY <1>1, <2>1, <2>2 DEF InOrder
  <2>. QED  BY <1>5, <2>2, <2>3 DEF Ahead
<1>9. ASSUME NEW m \in r.nodes, NEW k \in r.nodes \ b[m], NEW x \in b[m], NEW y \in b[m], <<k, x>> \in o
      PROVE  <<k, y>> \in o
  <2>1. m \in t.nodes /\ k \in t.nodes /\ k # n /\ k \notin below[m]
    BY <1>2, <1>4
  <2>2. x \in below[m] /\ y \in below[m] /\ x # n /\ y # n /\ x \in r.nodes /\ y \in r.nodes
    BY <1>2, <1>4, <1>6, <2>1
  <2>3. <<k, x>> \in order
    BY <1>5, <1>9, <2>2
  <2>4. <<k, y>> \in order
    BY <1>1, <2>1, <2>2, <2>3 DEF InOrder
  <2>. QED  BY <1>5, <2>2, <2>4
<1>10. InOrder(r, o, b, Nil)
  <2>1. \A m \in r.nodes, d \in 0..1 : \A k \in Below(b, r.child[m][d]) : Ahead(o, m, k, d)
    BY <1>8
  <2>2. \A m \in r.nodes : \A k \in r.nodes \ b[m], x, y \in b[m] : <<k, x>> \in o => <<k, y>> \in o
    BY <1>9
  <2>. QED  BY ONLY <2>1, <2>2 DEF InOrder
<1>11. Summed(r, b)
  BY <1>1, <1>2, <1>4 DEF Summed
<1>12. Good(r, o, b)
  BY <1>1, <1>2, <1>3, <1>5, <1>10, <1>11 DEF Good, SearchTree
<1>. QED  BY <1>12 DEF b, o

\* Unlinking a node: the tree is whole again, or a black node is missing at
\* just the place where the repair starts.
LEMMA UnlinkTurn ==
  ASSUME NEW t, NEW order, NEW below, NEW n, Removable(t, order, below, n),
         NEW height \in [Nodes -> Nat], NEW e, RedApart(t, Nil), EquallyBlack(t, height, Nil, e)
  PROVE  LET r    == Unlink(t, n)
             next == UnlinkNext(t, n)
         IN  /\ r.nodes = t.nodes \ {n}
             /\ RemoveRepaired(r, OrderWithout(order, n), r, next, IF next = Nil THEN 0 ELSE Side(t, n))
<1>. DEFINE only == Only(t, n)
            r    == Unlink(t, n)
            next == UnlinkNext(t, n)
            s    == IF next = Nil THEN 0 ELSE Side(t, n)
            b    == Without(below, n)
            o    == OrderWithout(order, n)
            h    == [m \in Nodes |-> IF m = only THEN 1 ELSE height[m]]
<1>1. /\ Sound(t, below) /\ n \in t.nodes /\ t \in Trees /\ LinksAgree(t) /\ Nil \notin Nodes
      /\ t.nodes \subseteq Nodes
  BY TreeAssumption DEF Removable, Sound, Trees
<1>2. OnlyChild(t, below, n, only)
  BY OnlyChildIs
<1>3. /\ IsRed(t, n) => only = Nil /\ height[n] = 0
      /\ ~IsRed(t, n) => height[n] = 1
      /\ only # Nil => IsRed(t, only) /\ height[only] = 0
  BY OnlyChildColor
<1>4. Unlinked(t, n, only, r)
  BY <1>3, UnlinkEffect
<1>5. next = IF ~IsRed(t, n) /\ only = Nil THEN t.parent[n] ELSE Nil
  BY DEF UnlinkNext
<1>. HIDE DEF only, r, next, b, o
<1>6. Good(r, o, b) /\ b \in [Nodes -> SUBSET Nodes]
  <2>1. Good(r, o, b)
    BY <1>2, <1>4, UnlinkOrder DEF b, o
  <2>. QED  BY <2>1 DEF Good, SearchTree, Sound
<1>7. /\ n \in Nodes /\ n # Nil /\ only # n /\ only \in Nodes \cup {Nil}
      /\ only # Nil => only \in t.nodes
      /\ \A d \in 0..1 : t.child[n][d] = Nil \/ t.child[n][d] = only
      /\ \A m \in t.nodes, d \in 0..1 : t.child[m][d] = n => n # t.root /\ m = t.parent[n] /\ m # n
      /\ \A m \in t.nodes, d \in 0..1 : t.child[m][d] = only /\ only # Nil => m = n
      /\ n = t.root => t.parent[n] = Nil
      /\ n # t.root => t.parent[n] \in t.nodes /\ t.parent[n] # n
  BY <1>2 DEF OnlyChild
<1>8. /\ r \in Trees /\ r.nodes = t.nodes \ {n}
      /\ \A m \in t.nodes, d \in 0..1 : m # n =>
           r.child[m][d] = IF t.child[m][d] = n THEN only ELSE t.child[m][d]
      /\ \A m \in t.nodes : m # n => r.color[m] = IF m = only THEN "Black" ELSE t.color[m]
  BY <1>4 DEF Unlinked
<1>9. \A m \in r.nodes : /\ m \in t.nodes /\ m # n /\ m # Nil /\ m \in Nodes
                         /\ m = only => ~IsRed(r, m) /\ IsRed(t, m)
                         /\ m # only => (IsRed(r, m) <=> IsRed(t, m))
  BY <1>1, <1>3, <1>8 DEF IsRed
<1>10. ASSUME NEW m \in r.nodes, NEW d \in 0..1, IsRed(r, m), IsRed(r, r.child[m][d])
       PROVE  FALSE
  <2>1. m \in t.nodes /\ m # n /\ IsRed(t, m)
    BY <1>9, <1>10
  <2>2. r.child[m][d] = IF t.child[m][d] = n THEN only ELSE t.child[m][d]
    BY <1>8, <2>1
  <2>3. LinksAgree(r)
    BY <1>6 DEF Good, SearchTree, Sound
  <2>4. r.child[m][d] \in r.nodes
    BY <1>10, <2>3 DEF LinksAgree, IsRed
  <2>5. r.child[m][d] # only
    BY <1>9, <1>10, <2>4
  <2>6. r.child[m][d] = t.child[m][d] /\ t.child[m][d] # n
    BY <2>2, <2>5
  <2>7. IsRed(t, t.child[m][d])
    BY <1>9, <1>10, <2>4, <2>5, <2>6
  <2>. QED  BY <1>1, <2>1, <2>7 DEF RedApart, IsRed
<1>11. RedApart(r, Nil)
  BY <1>10 DEF RedApart
<1>12. h \in [Nodes -> Nat]
  OBVIOUS
<1>13. next # Nil => /\ n # t.root /\ next = t.parent[n] /\ next \in r.nodes /\ only = Nil /\ ~IsRed(t, n)
                     /\ s = Side(t, n) /\ s \in 0..1 /\ t.child[next][s] = n
  <2>1. SUFFICES ASSUME next # Nil
                 PROVE  /\ n # t.root /\ next = t.parent[n] /\ next \in r.nodes /\ only = Nil /\ ~IsRed(t, n)
                        /\ s = Side(t, n) /\ s \in 0..1 /\ t.child[next][s] = n
    OBVIOUS
  <2>2. next = t.parent[n] /\ only = Nil /\ ~IsRed(t, n) /\ n # t.root /\ s = Side(t, n)
    BY <1>5, <1>7, <2>1
  <2>3. Side(t, n) \in 0..1 /\ t.child[t.parent[n]][Side(t, n)] = n
    BY <1>1, <2>2, SideIs
  <2>. QED  BY <1>7, <1>8, <2>2, <2>3
<1>14. next # Nil => next \in r.nodes /\ s \in 0..1 /\ ~IsRed(r, r.child[next][s])
  <2>1. next # Nil => r.child[next][s] = Nil
    BY <1>7, <1>8, <1>9, <1>13
  <2>. QED  BY <1>13, <2>1 DEF IsRed
<1>. HIDE DEF s
<1>15. EquallyBlack(r, h, next, s)
  <2>1. SUFFICES ASSUME NEW m \in r.nodes, NEW d \in 0..1
                 PROVE  /\ ~(m = next /\ d = s) => h[m] = Height(h, r.child[m][d]) + Black(r, m)
                        /\ m = next /\ d = s => h[m] = Height(h, r.child[m][d]) + Black(r, m) + 1
    BY <1>8, <1>12, HeightsAre
  <2>2. /\ m \in t.nodes /\ m # n /\ m \in Nodes
        /\ height[m] = Height(height, t.child[m][d]) + Black(t, m)
        /\ height[m] \in Nat /\ Height(height, t.child[m][d]) \in Nat /\ Black(t, m) \in 0..1
    <3>1. m \in t.nodes /\ m # n /\ m \in Nodes /\ m # Nil
      BY <1>9
    <3>. QED  BY <1>1, <3>1, HeightIs
  <2>3. r.child[m][d] = IF t.child[m][d] = n THEN only ELSE t.child[m][d]
    BY <1>8, <2>2
  <2>4. h[m] = height[m] - Black(t, m) + Black(r, m)
    <3>1. CASE m = only
      <4>1. h[m] = 1 /\ height[m] = 0 /\ Black(t, m) = 0 /\ Black(r, m) = 1
        BY <1>3, <1>9, <2>2, <3>1 DEF Black
      <4>. QED  BY <4>1
    <3>2. CASE m # only
      <4>1. h[m] = height[m] /\ Black(r, m) = Black(t, m)
        BY <1>9, <2>2, <3>2 DEF Black
      <4>. QED  BY <2>2, <4>1
    <3>. QED  BY <3>1, <3>2
  <2>5. CASE t.child[m][d] # n
    <3>1. ~(m = next /\ d = s)
      BY <1>7, <1>9, <1>13, <2>5
    <3>2. t.child[m][d] = Nil \/ (t.child[m][d] \in Nodes /\ t.child[m][d] # only)
      <4>1. t.child[m][d] \in Nodes \cup {Nil}
        BY <1>1, <2>2 DEF Trees
      <4>. QED  BY <1>7, <2>2, <4>1
    <3>3. Height(h, r.child[m][d]) = Height(height, t.child[m][d])
      BY <1>1, <2>3, <2>5, <3>2 DEF Height
    <3>4. Black(r, m) \in 0..1
      BY DEF Black
    <3>. HIDE DEF h
    <3>5. h[m] = Height(h, r.child[m][d]) + Black(r, m)
      BY ONLY <2>2, <2>4, <3>3, <3>4
    <3>. QED  BY <3>1, <3>5
  <2>6. CASE t.child[m][d] = n
    <3>1. /\ n # t.root /\ m = t.parent[n] /\ r.child[m][d] = only
          /\ Height(height, t.child[m][d]) = height[n]
      BY <1>7, <2>2, <2>3, <2>6 DEF Height
    <3>2. Black(r, m) \in 0..1
      BY DEF Black
    <3>3. CASE only # Nil
      <4>1. next = Nil /\ height[n] = 1 /\ Height(h, r.child[m][d]) = 1
        BY <1>3, <1>5, <1>7, <3>1, <3>3 DEF Height
      <4>2. m # next
        BY <1>9, <4>1
      <4>. HIDE DEF h
      <4>3. h[m] = Height(h, r.child[m][d]) + Black(r, m)
        BY ONLY <2>2, <2>4, <3>1, <3>2, <4>1
      <4>. QED  BY <4>2, <4>3
    <3>4. CASE only = Nil /\ IsRed(t, n)
      <4>1. next = Nil /\ height[n] = 0 /\ Height(h, r.child[m][d]) = 0
        BY <1>3, <1>5, <3>1, <3>4 DEF Height
      <4>2. m # next
        BY <1>9, <4>1
      <4>. HIDE DEF h
      <4>3. h[m] = Height(h, r.child[m][d]) + Black(r, m)
        BY ONLY <2>2, <2>4, <3>1, <3>2, <4>1
      <4>. QED  BY <4>2, <4>3
    <3>5. CASE only = Nil /\ ~IsRed(t, n)
      <4>1. next = m /\ height[n] = 1 /\ Height(h, r.child[m][d]) = 0
        BY <1>3, <1>5, <3>1, <3>5 DEF Height
      <4>2. d = s
        <5>1. next # Nil /\ s \in 0..1 /\ t.child[m][s] = n
          BY <1>9, <1>13, <4>1
        <5>2. d = s \/ d = 1 - s
          BY <5>1
        <5>3. t.child[m][1 - s] # n
          BY <1>1, <1>7, <2>2, <5>1 DEF LinksAgree
        <5>. QED  BY <2>6, <5>2, <5>3
      <4>. HIDE DEF h
      <4>3. h[m] = Height(h, r.child[m][d]) + Black(r, m) + 1
        BY ONLY <2>2, <2>4, <3>1, <3>2, <4>1
      <4>. QED  BY <4>1, <4>2, <4>3
    <3>. QED  BY <3>3, <3>4, <3>5
  <2>. QED  BY <2>5, <2>6
<1>. HIDE DEF h
<1>16. RemoveRepaired(r, o, r, next, s)
  BY <1>6, <1>11, <1>12, <1>14, <1>15 DEF RemoveRepaired
<1>. QED  BY <1>8, <1>16 DEF r, next, s, o
-----------------------------------------------------------------------------
(* Walks in a tree that stays as it is.                                    *)

\* The subtrees that p is in are its own and those its parent is in.
Above(t, below, p) ==
  /\ t.parent[p] \in t.nodes /\ t.parent[p] # p /\ p \in below[t.parent[p]]
  /\ t.parent[p] \notin below[p] /\ p \in below[p] /\ below[p] \subseteq below[t.parent[p]]
  /\ \A m \in t.nodes : p \in below[m] <=> m = p \/ t.parent[p] \in below[m]

\* A node is in its parent's subtree and in all that contain it.
LEMMA ParentAbove ==
  ASSUME NEW t, NEW below, Sound(t, below), NEW p \in t.nodes, t.parent[p] # Nil
  PROVE  Above(t, below, p)
<1>1. t \in Trees /\ LinksAgree(t) /\ p # t.root /\ Nil \notin Nodes /\ t.nodes \subseteq Nodes
  BY TreeAssumption DEF Sound, LinksAgree, Trees
<1>2. PICK d \in 0..1 : t.parent[p] \in t.nodes /\ t.child[t.parent[p]][d] = p
  BY <1>1 DEF LinksAgree
<1>3. /\ t.parent[p] # p /\ t.parent[p] \notin below[p] /\ p \in below[p]
      /\ below[p] \subseteq below[t.parent[p]]
  <2>1. p # Nil
    BY <1>1
  <2>. QED  BY <1>2, <2>1, Children
<1>4. ASSUME NEW m \in t.nodes
      PROVE  p \in below[m] <=> m = p \/ t.parent[p] \in below[m]
  <2>1. p \in below[m] => m = p \/ t.parent[p] \in below[m]
    BY Nested
  <2>2. t.parent[p] \in below[m] => below[t.parent[p]] \subseteq below[m]
    BY <1>2, Nested
  <2>. QED  BY <1>3, <2>1, <2>2
<1>. QED  BY <1>2, <1>3, <1>4 DEF Above

\* A node without parent is the root, and everything is below it.
LEMMA RootAbove ==
  ASSUME NEW t, NEW below, Sound(t, below), NEW p \in t.nodes, t.parent[p] = Nil
  PROVE  /\ p = t.root /\ below[p] = t.nodes
         /\ \A m \in t.nodes : p \in below[m] <=> m = p
<1>1. LinksAgree(t) /\ Nil \notin Nodes /\ t.nodes \subseteq Nodes
  BY TreeAssumption DEF Sound, Trees
<1>2. p = t.root
  BY <1>1 DEF LinksAgree
<1>3. below[p] = t.nodes
  BY <1>1, <1>2 DEF Sound, Subtrees
<1>4. ASSUME NEW m \in t.nodes
      PROVE  p \in below[m] <=> m = p
  BY <1>1, <1>3, Nested
<1>. QED  BY <1>2, <1>3, <1>4

\* The root has everything below it.
LEMMA RootIs ==
  ASSUME NEW t, NEW below, Sound(t, below), t.root # Nil
  PROVE  t.root \in t.nodes /\ below[t.root] = t.nodes /\ t.parent[t.root] = Nil
BY DEF Sound, LinksAgree, Subtrees

\* Where the nodes are, seen from the child c of p on the side d, in the
\* direction d.
DownFrom(t, order, below, p, d, c) ==
  /\ c \in t.nodes /\ c \in below[c] /\ p \notin below[c] /\ c \in below[p] /\ below[c] \subseteq below[p]
  /\ below[p] \subseteq t.nodes /\ p \in below[p] /\ t.parent[c] = p /\ c # p
  /\ \A m \in below[c] : Ahead(order, p, m, d)
  /\ \A m \in below[p] : m \in below[c] \/ (Ahead(order, m, c, d) /\ (m = p \/ Ahead(order, m, p, d)))
  /\ \A m \in t.nodes \ below[p], e \in 0..1 :
       /\ Ahead(order, m, c, e) <=> Ahead(order, m, p, e)
       /\ Ahead(order, c, m, e) <=> Ahead(order, p, m, e)

\* One step of a search down to a child: what is left behind.
LEMMA StepDown ==
  ASSUME NEW t, NEW order, NEW below, SearchTree(t, order, below), NEW p \in t.nodes,
         NEW d \in 0..1, NEW c, c = t.child[p][d], c # Nil
  PROVE  DownFrom(t, order, below, p, d, c)
<1>1. Sound(t, below) /\ TotalOrder(t.nodes, order) /\ 1 - d \in 0..1
  BY DEF SearchTree
<1>2. /\ c \in t.nodes /\ c \in below[c] /\ p \notin below[c] /\ below[c] \subseteq below[p]
      /\ below[p] \subseteq t.nodes /\ p \in below[p] /\ t.parent[c] = p /\ c # p
      /\ below[p] = {p} \cup below[c] \cup Below(below, t.child[p][1 - d])
  BY <1>1, Children
<1>3. \A m \in below[c] : Ahead(order, p, m, d)
  <2>1. Below(below, t.child[p][d]) = below[c]
    BY DEF Below
  <2>. QED  BY <2>1, SearchTreeFacts
<1>4. ASSUME NEW m \in Below(below, t.child[p][1 - d])
      PROVE  Ahead(order, m, p, d) /\ Ahead(order, m, c, d)
  <2>1. m \in t.nodes /\ Ahead(order, p, m, 1 - d)
    BY <1>1, SearchTreeFacts
  <2>2. Ahead(order, m, p, d)
    BY <1>1, <2>1, OrderFacts
  <2>. QED  BY <1>1, <1>2, <1>3, <2>1, <2>2, OrderFacts
<1>5. \A m \in below[p] : m \in below[c] \/ (Ahead(order, m, c, d) /\ (m = p \/ Ahead(order, m, p, d)))
  BY <1>2, <1>3, <1>4
<1>6. ASSUME NEW m \in t.nodes \ below[p], NEW e \in 0..1
      PROVE  /\ Ahead(order, m, c, e) <=> Ahead(order, m, p, e)
             /\ Ahead(order, c, m, e) <=> Ahead(order, p, m, e)
  BY <1>2, SearchTreeFacts
<1>. QED  BY <1>2, <1>3, <1>5, <1>6 DEF DownFrom

\* Without a child on the side d, a node is the last of its subtree in that
\* direction.
LEMMA StepNone ==
  ASSUME NEW t, NEW order, NEW below, SearchTree(t, order, below), NEW p \in t.nodes,
         NEW d \in 0..1, t.child[p][d] = Nil
  PROVE  /\ p \in below[p] /\ below[p] \subseteq t.nodes
         /\ \A m \in below[p] : m = p \/ Ahead(order, m, p, d)
<1>1. Sound(t, below) /\ TotalOrder(t.nodes, order) /\ 1 - d \in 0..1
  BY DEF SearchTree
<1>2. /\ below[p] \subseteq t.nodes
      /\ below[p] = {p} \cup Below(below, t.child[p][d]) \cup Below(below, t.child[p][1 - d])
  BY <1>1, NodeBelow
<1>3. Below(below, t.child[p][d]) = {}
  BY DEF Below
<1>4. ASSUME NEW m \in Below(below, t.child[p][1 - d])
      PROVE  Ahead(order, m, p, d)
  <2>1. m \in t.nodes /\ Ahead(order, p, m, 1 - d)
    BY <1>1, SearchTreeFacts
  <2>. QED  BY <1>1, <2>1, OrderFacts
<1>. QED  BY <1>2, <1>3, <1>4
-----------------------------------------------------------------------------
(* The steps.                                                              *)

\* The loop invariant holds for some subtrees and black heights.
TreeInvariant ==
  \E below \in [Nodes -> SUBSET Nodes], height \in [Nodes -> Nat] : LoopInvariant(below, height)

\* What the invariant says about the tree alone.
Shape(t, order, below, height, skip, red, p, s) ==
  /\ Sound(t, below) /\ t.ok /\ TotalOrder(t.nodes, order) /\ InOrder(t, order, below, skip)
  /\ RedApart(t, red) /\ EquallyBlack(t, height, p, s)

\* q is t but for the summaries.
Kept(t, q) ==
  /\ q \in Trees /\ q.root = t.root /\ q.nodes = t.nodes /\ q.child = t.child
  /\ q.parent = t.parent /\ q.color = t.color /\ q.ok = t.ok

\* Summaries do not matter for the shape.
LEMMA KeptShape ==
  ASSUME NEW t, NEW q, Kept(t, q), NEW order, NEW below, NEW height, NEW skip, NEW red, NEW p, NEW s,
         Shape(t, order, below, height, skip, red, p, s)
  PROVE  Shape(q, order, below, height, skip, red, p, s)
<1>1. /\ q \in Trees /\ q.root = t.root /\ q.nodes = t.nodes /\ q.child = t.child
      /\ q.parent = t.parent /\ q.color = t.color /\ q.ok = t.ok
  BY DEF Kept
<1>2. /\ below \in [Nodes -> SUBSET Nodes] /\ LinksAgree(t) /\ Subtrees(t, below) /\ t.ok
      /\ TotalOrder(t.nodes, order) /\ InOrder(t, order, below, skip)
      /\ RedApart(t, red) /\ EquallyBlack(t, height, p, s)
  BY DEF Shape, Sound
<1>3. LinksAgree(q)
  BY <1>1, <1>2 DEF LinksAgree
<1>4. Subtrees(q, below)
  BY <1>1, <1>2, Zenon DEF Subtrees
<1>5. InOrder(q, order, below, skip)
  BY <1>1, <1>2, Zenon DEF InOrder
<1>6. \A m : IsRed(q, m) <=> IsRed(t, m)
  BY <1>1 DEF IsRed
<1>7. RedApart(q, red)
  BY <1>1, <1>2, <1>6 DEF RedApart
<1>8. \A m : Black(q, m) = Black(t, m)
  BY <1>6 DEF Black
<1>9. EquallyBlack(q, height, p, s)
  BY <1>1, <1>2, <1>8 DEF EquallyBlack
<1>. QED  BY <1>1, <1>2, <1>3, <1>4, <1>5, <1>7, <1>9 DEF Shape, Sound

\* AddSum changes one summary.
LEMMA AddSumKept ==
  ASSUME NEW t \in Trees, NEW n \in Nodes, NEW delta \in Int
  PROVE  /\ Kept(t, AddSum(t, n, delta))
         /\ AddSum(t, n, delta).sum[n] = t.sum[n] + delta
         /\ \A m \in Nodes : m # n => AddSum(t, n, delta).sum[m] = t.sum[m]
<1>. DEFINE su == [t.sum EXCEPT ![n] = @ + delta]
            q  == [t EXCEPT !.sum = su]
<1>1. AddSum(t, n, delta) = q
  BY DEF AddSum
<1>2. /\ su \in [Nodes -> Int] /\ su[n] = t.sum[n] + delta
      /\ \A m \in Nodes : m # n => su[m] = t.sum[m]
  BY DEF Trees
<1>. HIDE DEF su
<1>3. /\ q \in Trees /\ q.root = t.root /\ q.nodes = t.nodes /\ q.child = t.child
      /\ q.parent = t.parent /\ q.color = t.color /\ q.ok = t.ok /\ q.sum = su
  BY <1>2 DEF Trees
<1>. QED  BY <1>1, <1>2, <1>3 DEF Kept

\* The parts of the loop invariant that the lemmas on trees need.
LEMMA InvariantShape ==
  ASSUME NEW below \in [Nodes -> SUBSET Nodes], NEW height \in [Nodes -> Nat], LoopInvariant(below, height)
  PROVE  /\ TreeTypeOK /\ tree \in Trees /\ tree.nodes \subseteq Nodes /\ Nil \notin Nodes
         /\ Shape(tree, before, below, height, IF pc = "unlink" THEN node ELSE Nil,
                  IF pc = "fixInsert" THEN at ELSE Nil, IF pc = "fixRemove" THEN at ELSE Nil, side)
         /\ Sound(tree, below) /\ TotalOrder(tree.nodes, before)
         /\ pc # "unlink" => SearchTree(tree, before, below)
<1>1. tree \in Trees /\ tree.nodes \subseteq Nodes /\ Nil \notin Nodes /\ TreeTypeOK /\ tree.ok
  BY TreeAssumption DEF LoopInvariant, TreeTypeOK, Trees
<1>2. /\ LinksAgree(tree) /\ Subtrees(tree, below)
      /\ TotalOrder(tree.nodes, before) /\ InOrder(tree, before, below, IF pc = "unlink" THEN node ELSE Nil)
      /\ RedApart(tree, IF pc = "fixInsert" THEN at ELSE Nil)
      /\ EquallyBlack(tree, height, IF pc = "fixRemove" THEN at ELSE Nil, side)
  BY DEF LoopInvariant, Misplaced
<1>3. Sound(tree, below)
  BY <1>1, <1>2 DEF Sound
<1>4. pc # "unlink" => SearchTree(tree, before, below)
  BY <1>2, <1>3 DEF SearchTree
<1>. QED  BY <1>1, <1>2, <1>3, <1>4, Zenon DEF Shape

\* The loop invariant of the next state from its parts.
LEMMA ShapeInvariant ==
  ASSUME NEW below, NEW height,
         TreeTypeOK',
         Shape(tree', before', below, height, IF pc' = "unlink" THEN node' ELSE Nil,
               IF pc' = "fixInsert" THEN at' ELSE Nil, IF pc' = "fixRemove" THEN at' ELSE Nil, side'),
         SummariesExpected(below)', InsertCursor(below)', RemoveCursor(below)', QueryCursor(below)',
         QueriesExact'
  PROVE  LoopInvariant(below, height)'
BY Zenon DEF LoopInvariant, Shape, Sound, Misplaced

\* Nothing is to be repaired.
Whole(t, order, below, height) == Shape(t, order, below, height, Nil, Nil, Nil, 0)

\* Of a tree that needs no repair, none of the exceptions is used.
LEMMA WholeShape ==
  ASSUME NEW t, NEW order, NEW below, NEW height, NEW s, Shape(t, order, below, height, Nil, Nil, Nil, s),
         NEW skip, NEW e
  PROVE  Shape(t, order, below, height, skip, Nil, Nil, e)
<1>1. /\ Sound(t, below) /\ t.ok /\ TotalOrder(t.nodes, order) /\ InOrder(t, order, below, Nil)
      /\ RedApart(t, Nil) /\ EquallyBlack(t, height, Nil, s) /\ t \in Trees
  BY DEF Shape, Sound
<1>2. EquallyBlack(t, height, Nil, e)
  BY <1>1, NothingShort
<1>3. SearchTree(t, order, below) /\ t.nodes \subseteq Nodes /\ Nil \notin Nodes
  BY <1>1, TreeAssumption DEF SearchTree, Trees
<1>4. /\ \A n \in t.nodes, dir \in 0..1 : \A m \in Below(below, t.child[n][dir]) : Ahead(order, n, m, dir)
      /\ \A n \in t.nodes : \A m \in t.nodes \ below[n], x, y \in below[n] :
           <<m, x>> \in order => <<m, y>> \in order
  BY <1>3, SearchTreeFacts, Convex
<1>5. InOrder(t, order, below, skip)
  BY ONLY <1>4 DEF InOrder
<1>. QED  BY <1>1, <1>2, <1>5 DEF Shape

\* The loops that leave the tree as it is, but for summaries.
LEMMA StaticStep ==
  ASSUME NEW below \in [Nodes -> SUBSET Nodes], NEW height \in [Nodes -> Nat], LoopInvariant(below, height),
         pc \notin {"unlink", "fixInsert", "fixRemove"}, pc' \notin {"fixInsert", "fixRemove"},
         Kept(tree, tree'), before' = before, TreeTypeOK',
         SummariesExpected(below)', InsertCursor(below)', RemoveCursor(below)', QueryCursor(below)',
         QueriesExact'
  PROVE  LoopInvariant(below, height)'
<1>1. Shape(tree, before, below, height, Nil, Nil, Nil, side)
  BY InvariantShape
<1>2. Shape(tree', before', below, height, Nil, Nil, Nil, side)
  BY <1>1, KeptShape
<1>3. Shape(tree', before', below, height, IF pc' = "unlink" THEN node' ELSE Nil, Nil, Nil, side')
  BY <1>2, WholeShape
<1>. QED  BY <1>3, ShapeInvariant

\* The values of pc at which the tree is not being changed.
Quiet == {"idle", "search", "extreme", "ascend", "found", "rank"}

\* Then the summaries are exact.
LEMMA QuietSummed ==
  ASSUME NEW below, NEW height, LoopInvariant(below, height), pc \in Quiet
  PROVE  Summed(tree, below)
BY DEF LoopInvariant, SummariesExpected, Expected, Summed, Quiet

\* A step of a query.
LEMMA QueryStep ==
  ASSUME NEW below \in [Nodes -> SUBSET Nodes], NEW height \in [Nodes -> Nat], LoopInvariant(below, height),
         pc \in Quiet, pc' \in Quiet, tree' = tree, before' = before,
         TreeTypeOK', QueryCursor(below)', QueriesExact'
  PROVE  LoopInvariant(below, height)'
<1>1. Summed(tree, below)
  BY QuietSummed
<1>2. SummariesExpected(below)'
  BY <1>1 DEF SummariesExpected, Expected, Summed, Quiet
<1>3. InsertCursor(below)' /\ RemoveCursor(below)'
  BY DEF InsertCursor, RemoveCursor, Quiet
<1>4. Kept(tree, tree')
  BY InvariantShape DEF Kept
<1>. QED  BY <1>2, <1>3, <1>4, StaticStep DEF Quiet

\* The start of lower_bound.
LEMMA LowerBoundStep ==
  ASSUME NEW below \in [Nodes -> SUBSET Nodes], NEW height \in [Nodes -> Nat], LoopInvariant(below, height),
         NEW S \in SUBSET tree.nodes, Upward(S), TreeLowerBound(S)
  PROVE  LoopInvariant(below, height)'
<1>1. /\ pc = "idle" /\ pc' = (IF tree.root = Nil THEN "found" ELSE "search")
      /\ at' = tree.root /\ side' = 1 /\ goal' = S
      /\ \A x \in S, y \in tree.nodes : <<x, y>> \in before => y \in S
      /\ tree' = tree /\ before' = before /\ node' = node /\ pred' = pred /\ acc' = acc
  BY DEF TreeLowerBound, Upward
<1>2. Sound(tree, below) /\ TreeTypeOK /\ tree.nodes \subseteq Nodes /\ LinksAgree(tree)
  BY InvariantShape DEF Sound
<1>3. /\ tree.root # Nil => tree.root \in tree.nodes /\ below[tree.root] = tree.nodes
      /\ tree.root = Nil => tree.nodes = {}
  BY <1>2, RootIs DEF LinksAgree
<1>4. TreeTypeOK'
  BY <1>1, <1>2, <1>3 DEF TreeTypeOK
<1>5. QueryCursor(below)' /\ QueriesExact'
  BY <1>1, <1>3 DEF QueryCursor, QueriesExact, Upward
<1>. QED  BY <1>1, <1>4, <1>5, QueryStep DEF Quiet

\* The start of min and max.
LEMMA ExtremeStart ==
  ASSUME NEW below \in [Nodes -> SUBSET Nodes], NEW height \in [Nodes -> Nat], LoopInvariant(below, height),
         NEW dir \in 0..1, TreeExtreme(dir)
  PROVE  LoopInvariant(below, height)'
<1>1. /\ pc = "idle" /\ pc' = (IF tree.root = Nil THEN "found" ELSE "extreme")
      /\ at' = tree.root /\ side' = dir /\ goal' = tree.nodes
      /\ tree' = tree /\ before' = before /\ node' = node /\ pred' = pred /\ acc' = acc
  BY DEF TreeExtreme
<1>2. Sound(tree, below) /\ TreeTypeOK /\ tree.nodes \subseteq Nodes /\ LinksAgree(tree)
  BY InvariantShape DEF Sound
<1>3. /\ tree.root # Nil => tree.root \in tree.nodes /\ below[tree.root] = tree.nodes
      /\ tree.root = Nil => tree.nodes = {}
  BY <1>2, RootIs DEF LinksAgree
<1>4. TreeTypeOK'
  BY <1>1, <1>2, <1>3 DEF TreeTypeOK
<1>5. QueryCursor(below)' /\ QueriesExact'
  BY <1>1, <1>3 DEF QueryCursor, QueriesExact
<1>. QED  BY <1>1, <1>4, <1>5, QueryStep DEF Quiet

\* The start of successor and predecessor.
LEMMA NeighborStart ==
  ASSUME NEW below \in [Nodes -> SUBSET Nodes], NEW height \in [Nodes -> Nat], LoopInvariant(below, height),
         NEW n \in Nodes, NEW dir \in 0..1, TreeNeighbor(n, dir)
  PROVE  LoopInvariant(below, height)'
<1>. DEFINE c == tree.child[n][dir]
            G == {m \in tree.nodes : Ahead(before, n, m, dir)}
<1>1. /\ pc = "idle" /\ n \in tree.nodes /\ side' = dir /\ goal' = G
      /\ IF c # Nil THEN pc' = "extreme" /\ at' = c ELSE pc' = "ascend" /\ at' = n
      /\ tree' = tree /\ before' = before /\ node' = node /\ pred' = pred /\ acc' = acc
  BY DEF TreeNeighbor
<1>2. /\ SearchTree(tree, before, below) /\ TreeTypeOK /\ tree.nodes \subseteq Nodes
      /\ TotalOrder(tree.nodes, before)
  BY <1>1, InvariantShape
<1>3. CASE c # Nil
  <2>1. DownFrom(tree, before, below, n, dir, c)
    BY <1>1, <1>2, <1>3, StepDown
  <2>. HIDE DEF c
  <2>2. /\ c \in tree.nodes /\ below[c] \subseteq below[n] /\ below[n] \subseteq tree.nodes
        /\ \A m \in below[c] : Ahead(before, n, m, dir)
        /\ \A m \in below[n] : m \in below[c] \/ m = n \/ Ahead(before, m, n, dir)
        /\ \A m \in tree.nodes \ below[n] : Ahead(before, c, m, dir) <=> Ahead(before, n, m, dir)
    BY <2>1 DEF DownFrom
  <2>3. below[c] \subseteq G
    BY <2>2
  <2>4. \A m \in G : m \in below[c] \/ Ahead(before, c, m, dir)
    BY <1>1, <1>2, <2>2, OrderFacts
  <2>. HIDE DEF G
  <2>5. TreeTypeOK'
    BY <1>1, <1>2, <1>3, <2>2 DEF TreeTypeOK, G
  <2>6. QueryCursor(below)' /\ QueriesExact'
    BY <1>1, <1>3, <2>2, <2>3, <2>4 DEF QueryCursor, QueriesExact, G
  <2>. QED  BY <1>1, <1>3, <2>5, <2>6, QueryStep DEF Quiet
<1>4. CASE c = Nil
  <2>1. /\ n \in below[n] /\ below[n] \subseteq tree.nodes
        /\ \A m \in below[n] : m = n \/ Ahead(before, m, n, dir)
    BY <1>1, <1>2, <1>4, StepNone
  <2>2. G = {m \in tree.nodes \ below[n] : Ahead(before, n, m, dir)}
    BY <1>1, <1>2, <2>1, OrderFacts
  <2>3. TreeTypeOK'
    BY <1>1, <1>2, <1>4 DEF TreeTypeOK
  <2>4. QueryCursor(below)' /\ QueriesExact'
    BY <1>1, <1>4, <2>1, <2>2 DEF QueryCursor, QueriesExact
  <2>. QED  BY <1>1, <1>4, <2>3, <2>4, QueryStep DEF Quiet
<1>. QED  BY <1>3, <1>4

\* A turn of lower_bound's loop.
LEMMA SearchStep ==
  ASSUME NEW below \in [Nodes -> SUBSET Nodes], NEW height \in [Nodes -> Nat], LoopInvariant(below, height),
         Search
  PROVE  LoopInvariant(below, height)'
<1>. DEFINE d == IF at \in goal THEN 0 ELSE 1
            c == tree.child[at][d]
<1>1. /\ pc = "search"
      /\ IF c # Nil THEN pc' = pc /\ at' = c
         ELSE pc' = (IF at \in goal THEN "found" ELSE "ascend") /\ at' = at
      /\ tree' = tree /\ before' = before /\ node' = node /\ pred' = pred /\ side' = side
      /\ goal' = goal /\ acc' = acc
  BY DEF Search
<1>2. /\ SearchTree(tree, before, below) /\ TreeTypeOK /\ tree.nodes \subseteq Nodes
      /\ TotalOrder(tree.nodes, before) /\ Sound(tree, below)
  BY <1>1, InvariantShape
<1>3. /\ at \in tree.nodes /\ goal \subseteq tree.nodes /\ side = 1
      /\ \A m \in tree.nodes \ below[at] : <<m, at>> \in before <=> m \notin goal
      /\ \A x \in goal, y \in tree.nodes : <<x, y>> \in before => y \in goal
  BY <1>1 DEF LoopInvariant, QueryCursor, Upward
<1>4. /\ \A x, y \in tree.nodes : <<x, y>> \in before => <<y, x>> \notin before /\ x # y
      /\ \A x, y \in tree.nodes : x # y => <<x, y>> \in before \/ <<y, x>> \in before
  BY <1>2 DEF TotalOrder
<1>5. d \in 0..1 /\ (d = 0 <=> at \in goal) /\ (d = 1 <=> at \notin goal)
  OBVIOUS
<1>. HIDE DEF d
<1>6. CASE c # Nil
  <2>1. DownFrom(tree, before, below, at, d, c)
    BY <1>2, <1>3, <1>5, <1>6, StepDown
  <2>. HIDE DEF c
  <2>2. /\ c \in tree.nodes /\ below[c] \subseteq below[at] /\ below[at] \subseteq tree.nodes
        /\ c \in below[c]
        /\ \A m \in below[at] : m \in below[c] \/ (Ahead(before, m, c, d) /\ (m = at \/ Ahead(before, m, at, d)))
        /\ \A m \in tree.nodes \ below[at] : <<m, c>> \in before <=> <<m, at>> \in before
    <3>1. \A m \in tree.nodes \ below[at], e \in 0..1 : Ahead(before, m, c, e) <=> Ahead(before, m, at, e)
      BY <2>1 DEF DownFrom
    <3>2. \A m \in tree.nodes \ below[at] : Ahead(before, m, c, 1) <=> Ahead(before, m, at, 1)
      BY <3>1
    <3>3. \A m \in tree.nodes \ below[at] : <<m, c>> \in before <=> <<m, at>> \in before
      BY <3>2 DEF Ahead
    <3>. QED  BY <2>1, <3>3 DEF DownFrom
  <2>3. ASSUME NEW m \in tree.nodes \ below[c]
        PROVE  <<m, c>> \in before <=> m \notin goal
    <3>1. CASE m \notin below[at]
      BY <1>3, <2>2, <3>1
    <3>2. CASE m \in below[at] /\ at \in goal
      <4>1. d = 0 /\ <<c, m>> \in before /\ (m = at \/ <<at, m>> \in before)
        BY <1>5, <2>2, <3>2 DEF Ahead
      <4>2. m \in goal
        BY <1>3, <3>2, <4>1
      <4>. QED  BY <1>4, <2>2, <4>1, <4>2
    <3>3. CASE m \in below[at] /\ at \notin goal
      <4>1. d = 1 /\ <<m, c>> \in before /\ (m = at \/ <<m, at>> \in before)
        BY <1>5, <2>2, <3>3 DEF Ahead
      <4>2. m \notin goal
        BY <1>3, <3>3, <4>1
      <4>. QED  BY <4>1, <4>2
    <3>. QED  BY <3>1, <3>2, <3>3
  <2>4. pc' = "search" /\ at' = c
    BY <1>1, <1>6
  <2>5. TreeTypeOK'
    BY <1>1, <1>2, <2>2, <2>4 DEF TreeTypeOK
  <2>6. QueryCursor(below)' /\ QueriesExact'
    BY <1>1, <1>3, <2>2, <2>3, <2>4 DEF QueryCursor, QueriesExact, Upward
  <2>. QED  BY <1>1, <2>4, <2>5, <2>6, QueryStep DEF Quiet
<1>7. CASE c = Nil
  <2>1. /\ at \in below[at] /\ below[at] \subseteq tree.nodes
        /\ \A m \in below[at] : m = at \/ Ahead(before, m, at, d)
    BY <1>2, <1>3, <1>5, <1>7, StepNone
  <2>2. at' = at /\ TreeTypeOK'
    BY <1>1, <1>2, <1>7 DEF TreeTypeOK
  <2>3. CASE at \in goal
    <3>1. d = 0 /\ \A m \in goal : m # at => <<at, m>> \in before
      BY <1>3, <1>4, <1>5, <2>1, <2>3 DEF Ahead
    <3>2. pc' = "found"
      BY <1>1, <1>7, <2>3
    <3>3. QueryCursor(below)' /\ QueriesExact'
      BY <1>1, <1>3, <2>2, <2>3, <3>1, <3>2 DEF QueryCursor, QueriesExact, Ahead
    <3>. QED  BY <1>1, <2>2, <3>2, <3>3, QueryStep DEF Quiet
  <2>4. CASE at \notin goal
    <3>1. \A m \in below[at] : m \notin goal
      BY <1>3, <1>5, <2>1, <2>4 DEF Ahead
    <3>2. goal = {m \in tree.nodes \ below[at] : <<at, m>> \in before}
      <4>1. \A m \in tree.nodes \ below[at] : <<at, m>> \in before <=> m \in goal
        BY <1>3, <1>4, <2>1
      <4>2. goal \subseteq tree.nodes \ below[at]
        BY <1>3, <3>1
      <4>. QED  BY <4>1, <4>2
    <3>3. pc' = "ascend"
      BY <1>1, <1>7, <2>4
    <3>4. QueryCursor(below)' /\ QueriesExact'
      BY <1>1, <1>3, <2>2, <3>2, <3>3 DEF QueryCursor, QueriesExact, Ahead
    <3>. QED  BY <1>1, <2>2, <3>3, <3>4, QueryStep DEF Quiet
  <2>. QED  BY <2>3, <2>4
<1>. QED  BY <1>6, <1>7

\* A turn of the loop of min and max.
LEMMA ExtremeStep ==
  ASSUME NEW below \in [Nodes -> SUBSET Nodes], NEW height \in [Nodes -> Nat], LoopInvariant(below, height),
         Extreme
  PROVE  LoopInvariant(below, height)'
<1>. DEFINE d == 1 - side
            c == tree.child[at][d]
<1>1. /\ pc = "extreme"
      /\ IF c # Nil THEN pc' = pc /\ at' = c ELSE pc' = "found" /\ at' = at
      /\ tree' = tree /\ before' = before /\ node' = node /\ pred' = pred /\ side' = side
      /\ goal' = goal /\ acc' = acc
  BY DEF Extreme
<1>2. /\ SearchTree(tree, before, below) /\ TreeTypeOK /\ tree.nodes \subseteq Nodes
      /\ TotalOrder(tree.nodes, before) /\ Sound(tree, below) /\ side \in 0..1
  BY <1>1, InvariantShape DEF TreeTypeOK
<1>3. /\ at \in tree.nodes /\ goal \subseteq tree.nodes /\ below[at] \subseteq goal
      /\ \A m \in goal : m \in below[at] \/ Ahead(before, at, m, side)
  BY <1>1 DEF LoopInvariant, QueryCursor
<1>4. d \in 0..1 /\ \A x, y \in tree.nodes : Ahead(before, x, y, d) <=> Ahead(before, y, x, side)
  BY <1>2, OrderFacts
<1>. HIDE DEF d
<1>5. CASE c # Nil
  <2>1. DownFrom(tree, before, below, at, d, c)
    BY <1>2, <1>3, <1>4, <1>5, StepDown
  <2>. HIDE DEF c
  <2>2. /\ c \in tree.nodes /\ below[c] \subseteq below[at] /\ below[at] \subseteq tree.nodes
        /\ \A m \in below[at] : m \in below[c] \/ Ahead(before, m, c, d)
        /\ \A m \in tree.nodes \ below[at] : Ahead(before, c, m, side) <=> Ahead(before, at, m, side)
    BY <1>2, <2>1 DEF DownFrom
  <2>3. below[c] \subseteq goal /\ \A m \in goal : m \in below[c] \/ Ahead(before, c, m, side)
    BY <1>3, <1>4, <2>2
  <2>4. pc' = "extreme" /\ at' = c
    BY <1>1, <1>5
  <2>5. TreeTypeOK'
    BY <1>1, <1>2, <2>2, <2>4 DEF TreeTypeOK
  <2>6. QueryCursor(below)' /\ QueriesExact'
    BY <1>1, <1>3, <2>2, <2>3, <2>4 DEF QueryCursor, QueriesExact
  <2>. QED  BY <1>1, <2>4, <2>5, <2>6, QueryStep DEF Quiet
<1>6. CASE c = Nil
  <2>1. /\ at \in below[at] /\ below[at] \subseteq tree.nodes
        /\ \A m \in below[at] : m = at \/ Ahead(before, m, at, d)
    BY <1>2, <1>3, <1>4, <1>6, StepNone
  <2>2. at \in goal /\ \A m \in goal : m # at => Ahead(before, at, m, side)
    BY <1>3, <1>4, <2>1
  <2>3. pc' = "found" /\ at' = at
    BY <1>1, <1>6
  <2>4. TreeTypeOK'
    BY <1>1, <1>2, <2>3 DEF TreeTypeOK
  <2>5. QueryCursor(below)' /\ QueriesExact'
    BY <1>1, <1>3, <2>2, <2>3 DEF QueryCursor, QueriesExact
  <2>. QED  BY <1>1, <2>3, <2>4, <2>5, QueryStep DEF Quiet
<1>. QED  BY <1>5, <1>6

\* A turn of the loop of successor and predecessor.
LEMMA AscendStep ==
  ASSUME NEW below \in [Nodes -> SUBSET Nodes], NEW height \in [Nodes -> Nat], LoopInvariant(below, height),
         Ascend
  PROVE  LoopInvariant(below, height)'
<1>. DEFINE p == tree.parent[at]
<1>1. /\ pc = "ascend" /\ at' = p
      /\ pc' = IF p = Nil \/ tree.child[p][1 - side] = at THEN "found" ELSE pc
      /\ tree' = tree /\ before' = before /\ node' = node /\ pred' = pred /\ side' = side
      /\ goal' = goal /\ acc' = acc
  BY DEF Ascend, IsAncestorOn
<1>2. /\ SearchTree(tree, before, below) /\ TreeTypeOK /\ tree.nodes \subseteq Nodes /\ Nil \notin Nodes
      /\ TotalOrder(tree.nodes, before) /\ Sound(tree, below) /\ side \in 0..1 /\ LinksAgree(tree)
  BY <1>1, InvariantShape DEF TreeTypeOK, Sound
<1>3. /\ at \in tree.nodes /\ goal = {m \in tree.nodes \ below[at] : Ahead(before, at, m, side)}
  BY <1>1 DEF LoopInvariant, QueryCursor
<1>4. 1 - side \in 0..1 /\ \A x, y \in tree.nodes : Ahead(before, x, y, 1 - side) <=> Ahead(before, y, x, side)
  BY <1>2, OrderFacts
<1>5. CASE p = Nil
  <2>1. below[at] = tree.nodes
    BY <1>2, <1>3, <1>5, RootAbove
  <2>2. goal = {} /\ pc' = "found" /\ at' = Nil
    BY <1>1, <1>3, <1>5, <2>1
  <2>3. TreeTypeOK'
    BY <1>1, <1>2, <2>2 DEF TreeTypeOK
  <2>4. QueryCursor(below)' /\ QueriesExact'
    BY <1>1, <2>2 DEF QueryCursor, QueriesExact
  <2>. QED  BY <1>1, <2>2, <2>3, <2>4, QueryStep DEF Quiet
<1>6. CASE p # Nil
  <2>1. PICK d \in 0..1 : p \in tree.nodes /\ tree.child[p][d] = at
    BY <1>2, <1>3, <1>6 DEF LinksAgree
  <2>. HIDE DEF p
  <2>2. DownFrom(tree, before, below, p, d, at)
    <3>1. at # Nil
      BY <1>2, <1>3
    <3>. QED  BY <1>2, <2>1, <3>1, StepDown
  <2>3. /\ p \in below[p] /\ below[at] \subseteq below[p] /\ below[p] \subseteq tree.nodes /\ p \notin below[at]
        /\ Ahead(before, p, at, d) /\ at \in below[at] /\ at # p
        /\ \A m \in below[p] : m \in below[at] \/ (Ahead(before, m, at, d) /\ (m = p \/ Ahead(before, m, p, d)))
        /\ \A m \in tree.nodes \ below[p] : Ahead(before, at, m, side) <=> Ahead(before, p, m, side)
    BY <1>2, <2>2 DEF DownFrom
  <2>4. p \in Nodes /\ TreeTypeOK'
    BY <1>1, <1>2, <2>1 DEF TreeTypeOK
  <2>5. d = side \/ d = 1 - side
    BY <1>2
  <2>6. CASE d = 1 - side
    <3>1. p \in goal /\ \A m \in goal : m # p => Ahead(before, p, m, side)
      <4>1. p \in goal
        BY <1>3, <1>4, <2>1, <2>3, <2>6
      <4>2. ASSUME NEW m \in goal, m # p PROVE Ahead(before, p, m, side)
        <5>1. m \in tree.nodes /\ m \notin below[at] /\ Ahead(before, at, m, side)
          BY <1>3
        <5>2. m \in below[p] => Ahead(before, p, m, side)
          BY <1>4, <2>1, <2>3, <2>6, <4>2, <5>1
        <5>. QED  BY <2>3, <5>1, <5>2
      <4>. QED  BY <4>1, <4>2
    <3>2. pc' = "found" /\ at' = p
      BY <1>1, <2>1, <2>6
    <3>3. goal \subseteq tree.nodes
      BY <1>3
    <3>4. QueryCursor(below)' /\ QueriesExact'
      BY <1>1, <3>1, <3>2, <3>3 DEF QueryCursor, QueriesExact
    <3>. QED  BY <1>1, <2>4, <3>2, <3>4, QueryStep DEF Quiet
  <2>7. CASE d = side
    <3>1. tree.child[p][1 - side] # at
      BY <1>2, <1>3, <2>1, <2>7 DEF LinksAgree
    <3>2. pc' = "ascend" /\ at' = p
      BY <1>1, <1>6, <3>1
    <3>3. ASSUME NEW m \in tree.nodes
          PROVE  m \in goal <=> m \notin below[p] /\ Ahead(before, p, m, side)
      <4>1. m \in below[p] => m \notin goal
        BY <1>2, <1>3, <2>3, <2>7, OrderFacts
      <4>2. m \notin below[p] => (m \in goal <=> Ahead(before, p, m, side))
        BY <1>3, <2>3
      <4>. QED  BY <4>1, <4>2
    <3>4. goal = {m \in tree.nodes \ below[p] : Ahead(before, p, m, side)}
      BY <1>3, <3>3
    <3>5. goal \subseteq tree.nodes
      BY <1>3
    <3>. HIDE <1>3
    <3>6. QueryCursor(below)' /\ QueriesExact'
      BY <1>1, <2>1, <3>2, <3>4, <3>5 DEF QueryCursor, QueriesExact
    <3>. QED  BY <1>1, <2>4, <3>2, <3>6, QueryStep DEF Quiet
  <2>. QED  BY <2>5, <2>6, <2>7
<1>. QED  BY <1>5, <1>6

\* The start of prefix_sum.
LEMMA RankStart ==
  ASSUME NEW below \in [Nodes -> SUBSET Nodes], NEW height \in [Nodes -> Nat], LoopInvariant(below, height),
         NEW n \in Nodes, TreeRank(n)
  PROVE  LoopInvariant(below, height)'
<1>. DEFINE c == tree.child[n][0]
            L == {m \in below[n] : <<m, n>> \in before}
<1>1. /\ pc = "idle" /\ n \in tree.nodes
      /\ pc' = "rank" /\ node' = n /\ at' = n /\ acc' = Sum(tree, c)
      /\ tree' = tree /\ before' = before /\ pred' = pred /\ side' = side /\ goal' = goal
  BY DEF TreeRank
<1>2. /\ SearchTree(tree, before, below) /\ TreeTypeOK /\ tree.nodes \subseteq Nodes
      /\ TotalOrder(tree.nodes, before) /\ Sound(tree, below) /\ LinksAgree(tree)
  BY <1>1, InvariantShape DEF Sound
<1>3. Summed(tree, below)
  BY <1>1, QuietSummed DEF Quiet
<1>4. c = Nil \/ c \in tree.nodes
  BY <1>1, <1>2 DEF LinksAgree
<1>5. Sum(tree, c) = WeightOf[Below(below, c)]
  BY <1>3, <1>4, SumIs
<1>6. /\ below[n] = {n} \cup Below(below, c) \cup Below(below, tree.child[n][1])
      /\ below[n] \subseteq tree.nodes
  BY <1>1, <1>2 DEF Sound, Subtrees
<1>7. /\ \A m \in Below(below, c) : <<m, n>> \in before
      /\ \A m \in Below(below, tree.child[n][1]) : <<n, m>> \in before
  <2>1. 0 \in 0..1 /\ 1 \in 0..1
    OBVIOUS
  <2>2. /\ \A m \in Below(below, tree.child[n][0]) : Ahead(before, n, m, 0)
        /\ \A m \in Below(below, tree.child[n][1]) : Ahead(before, n, m, 1)
    BY <1>1, <1>2, <2>1, SearchTreeFacts
  <2>. QED  BY <2>2 DEF Ahead
<1>8. \A x, y \in tree.nodes : <<x, y>> \in before => <<y, x>> \notin before
  BY <1>2 DEF TotalOrder
<1>9. L = Below(below, c)
  <2>. HIDE DEF c
  <2>. QED  BY <1>1, <1>6, <1>7, <1>8
<1>10. acc' = WeightOf[L] /\ n \in below[n] /\ acc' \in Int
  <2>1. L \in SUBSET Nodes
    BY <1>2, <1>6
  <2>2. WeightOf[L] \in Int
    BY <2>1, WeightAssumption
  <2>. QED  BY <1>1, <1>5, <1>6, <1>9, <2>2
<1>. HIDE DEF c
<1>11. TreeTypeOK'
  BY <1>1, <1>2, <1>10 DEF TreeTypeOK
<1>12. QueryCursor(below)' /\ QueriesExact'
  BY <1>1, <1>10 DEF QueryCursor, QueriesExact
<1>. QED  BY <1>1, <1>11, <1>12, QueryStep DEF Quiet

\* A turn of prefix_sum's loop.
LEMMA RankStepUp ==
  ASSUME NEW below \in [Nodes -> SUBSET Nodes], NEW height \in [Nodes -> Nat], LoopInvariant(below, height),
         Rank
  PROVE  LoopInvariant(below, height)'
<1>. DEFINE p == tree.parent[at]
            A == {m \in below[at] : <<m, node>> \in before}
            B == {m \in below[p] : <<m, node>> \in before}
            l == tree.child[p][0]
<1>1. /\ pc = "rank" /\ p # Nil /\ at' = p
      /\ acc' = acc + IF tree.child[p][1] = at THEN Sum(tree, l) + Weight[p] ELSE 0
      /\ tree' = tree /\ before' = before /\ pc' = pc /\ node' = node /\ pred' = pred /\ side' = side /\ goal' = goal
  BY DEF Rank, RankStep
<1>2. /\ SearchTree(tree, before, below) /\ TreeTypeOK /\ tree.nodes \subseteq Nodes /\ Nil \notin Nodes
      /\ TotalOrder(tree.nodes, before) /\ Sound(tree, below) /\ LinksAgree(tree)
  BY <1>1, InvariantShape DEF Sound
<1>3. Summed(tree, below)
  BY <1>1, QuietSummed DEF Quiet
<1>4. at \in tree.nodes /\ node \in below[at] /\ acc = WeightOf[A]
  BY <1>1 DEF LoopInvariant, QueryCursor
<1>5. PICK d \in 0..1 : p \in tree.nodes /\ tree.child[p][d] = at
  BY <1>1, <1>2, <1>4 DEF LinksAgree
<1>6. l = Nil \/ l \in tree.nodes
  BY <1>2, <1>5 DEF LinksAgree
<1>7. Sum(tree, l) = WeightOf[Below(below, l)]
  BY <1>3, <1>6, SumIs
<1>8. DownFrom(tree, before, below, p, d, at)
  <2>1. at # Nil
    BY <1>2, <1>4
  <2>. QED  BY <1>2, <1>5, <2>1, StepDown
<1>9. /\ p \in below[p] /\ below[at] \subseteq below[p] /\ below[p] \subseteq tree.nodes /\ p \notin below[at]
      /\ Ahead(before, p, node, d) /\ p \in tree.nodes /\ node \in tree.nodes
      /\ \A m \in below[p] : m \in below[at] \/ m = p \/ Ahead(before, m, p, d)
  BY <1>4, <1>5, <1>8 DEF DownFrom
<1>10. /\ \A x, y \in tree.nodes : <<x, y>> \in before => <<y, x>> \notin before
       /\ \A x, y, z \in tree.nodes : <<x, y>> \in before /\ <<y, z>> \in before => <<x, z>> \in before
  BY <1>2 DEF TotalOrder
<1>11. A \in SUBSET Nodes /\ acc \in Int
  BY <1>2, <1>9 DEF TreeTypeOK
<1>12. acc' = WeightOf[B] /\ acc' \in Int
  <2>1. CASE d = 0
    <3>1. /\ <<node, p>> \in before
          /\ \A m \in below[p] : m \in below[at] \/ m = p \/ <<p, m>> \in before
      BY <1>9, <2>1 DEF Ahead
    <3>2. B = A
      <4>. HIDE DEF p
      <4>. QED  BY <1>9, <1>10, <3>1
    <3>3. tree.child[p][1] # at
      BY <1>2, <1>4, <1>5, <2>1 DEF LinksAgree
    <3>. HIDE DEF A, B, p
    <3>. QED  BY <1>1, <1>4, <1>11, <3>2, <3>3
  <2>2. CASE d = 1
    <3>1. /\ <<p, node>> \in before
          /\ \A m \in below[p] : m \in below[at] \/ m = p \/ <<m, p>> \in before
      BY <1>9, <2>2 DEF Ahead
    <3>2. \A m \in below[p] : m \in below[at] \/ <<m, node>> \in before
      BY <1>9, <1>10, <3>1
    <3>3. /\ below[p] = {p} \cup Below(below, l) \cup below[at] /\ p \notin Below(below, l)
          /\ Below(below, l) \cap below[at] = {}
      <4>1. /\ below[p] = {p} \cup Below(below, tree.child[p][0]) \cup Below(below, tree.child[p][1])
            /\ p \notin Below(below, tree.child[p][0])
            /\ Below(below, tree.child[p][0]) \cap Below(below, tree.child[p][1]) = {}
        BY <1>2, <1>5 DEF Sound, Subtrees
      <4>2. Below(below, tree.child[p][1]) = below[at]
        BY <1>2, <1>4, <1>5, <2>2 DEF Below
      <4>. QED  BY <4>1, <4>2
    <3>. DEFINE L == Below(below, l)
    <3>. HIDE DEF p, l, L
    <3>4. B = (A \cup L) \cup {p}
      BY <1>9, <3>2, <3>3 DEF L
    <3>5. /\ A \cap L = {} /\ p \notin A \cup L /\ L \in SUBSET Nodes /\ A \cup L \in SUBSET Nodes /\ p \in Nodes
      BY <1>2, <1>9, <1>11, <3>3 DEF L
    <3>. HIDE DEF A, B
    <3>6. WeightOf[A \cup L] = WeightOf[A] + WeightOf[L] /\ WeightOf[A] \in Int /\ WeightOf[L] \in Int
      BY <1>11, <3>5, WeightUnion
    <3>7. WeightOf[B] = WeightOf[A \cup L] + Weight[p] /\ Weight[p] \in Int
      BY <3>4, <3>5, WeightAdd
    <3>8. acc' = acc + (WeightOf[L] + Weight[p])
      BY <1>1, <1>5, <1>7, <2>2 DEF L
    <3>. QED  BY ONLY <1>4, <3>6, <3>7, <3>8
  <2>. QED  BY <2>1, <2>2
<1>13. node \in below[p]
  BY <1>4, <1>9
<1>. HIDE DEF p
<1>14. TreeTypeOK'
  BY <1>1, <1>2, <1>9, <1>12 DEF TreeTypeOK
<1>15. QueryCursor(below)' /\ QueriesExact'
  BY <1>1, <1>5, <1>12, <1>13 DEF QueryCursor, QueriesExact
<1>. QED  BY <1>1, <1>14, <1>15, QueryStep DEF Quiet

\* The end of a query.
LEMMA ReturnStep ==
  ASSUME NEW below \in [Nodes -> SUBSET Nodes], NEW height \in [Nodes -> Nat], LoopInvariant(below, height),
         Return
  PROVE  LoopInvariant(below, height)'
<1>1. /\ pc \in {"found", "rank"} /\ pc' = "idle" /\ node' = Nil /\ at' = Nil /\ side' = 0 /\ goal' = {} /\ acc' = 0
      /\ tree' = tree /\ before' = before /\ pred' = pred
  BY DEF Return
<1>2. TreeTypeOK'
  BY <1>1, InvariantShape DEF TreeTypeOK
<1>3. QueryCursor(below)' /\ QueriesExact'
  BY <1>1 DEF QueryCursor, QueriesExact
<1>. QED  BY <1>1, <1>2, <1>3, QueryStep DEF Quiet

\* The start of insert.
LEMMA InsertStart ==
  ASSUME NEW below \in [Nodes -> SUBSET Nodes], NEW height \in [Nodes -> Nat], LoopInvariant(below, height),
         NEW n \in Nodes, NEW S \in SUBSET tree.nodes, Upward(S), TreeInsert(n, S)
  PROVE  TreeInvariant'
<1>1. /\ pc = "idle" /\ n \notin tree.nodes /\ before' = before /\ pred' = pred /\ side' = side
      /\ goal' = S /\ acc' = acc
      /\ tree' = IF tree.root = Nil THEN PlantRoot(tree, n, Weight[n]) ELSE tree
      /\ IF tree.root = Nil THEN pc' = "idle" /\ node' = Nil /\ at' = Nil
                            ELSE pc' = "descend" /\ node' = n /\ at' = tree.root
  BY DEF TreeInsert, Goto
<1>2. /\ TreeTypeOK /\ SearchTree(tree, before, below) /\ Sound(tree, below) /\ tree \in Trees
      /\ Shape(tree, before, below, height, Nil, Nil, Nil, side) /\ tree.nodes \subseteq Nodes
  BY <1>1, InvariantShape
<1>3. tree.ok
  BY <1>2 DEF Shape
<1>4. CASE tree.root = Nil
  <2>. DEFINE r == PlantRoot(tree, n, Weight[n])
  <2>1. /\ r \in Trees
        /\ \E b \in [Nodes -> SUBSET Nodes], h \in [Nodes -> Nat] :
             Good(r, before, b) /\ RedApart(r, Nil) /\ EquallyBlack(r, h, Nil, side)
    BY <1>2, <1>3, <1>4, PlantFirst
  <2>2. tree' = r /\ pc' = "idle" /\ node' = Nil /\ at' = Nil
    BY <1>1, <1>4
  <2>. HIDE DEF r
  <2>3. PICK b \in [Nodes -> SUBSET Nodes], h \in [Nodes -> Nat] :
             Good(tree', before, b) /\ RedApart(tree', Nil) /\ EquallyBlack(tree', h, Nil, side)
    BY <2>1, <2>2
  <2>4. Shape(tree', before', b, h, Nil, Nil, Nil, side') /\ Summed(tree', b)
    BY <1>1, <2>3 DEF Shape, Good, SearchTree
  <2>5. TreeTypeOK'
    BY <1>1, <1>2, <2>1, <2>2 DEF TreeTypeOK
  <2>6. SummariesExpected(b)' /\ InsertCursor(b)' /\ RemoveCursor(b)' /\ QueryCursor(b)' /\ QueriesExact'
    BY <2>2, <2>4 DEF SummariesExpected, Expected, Summed, InsertCursor, RemoveCursor, QueryCursor, QueriesExact
  <2>7. LoopInvariant(b, h)'
    BY <2>2, <2>4, <2>5, <2>6, ShapeInvariant
  <2>. QED  BY <2>7 DEF TreeInvariant
<1>5. CASE tree.root # Nil
  <2>1. /\ tree.root \in tree.nodes /\ below[tree.root] = tree.nodes
        /\ \A m \in tree.nodes : tree.root \in below[m] <=> m = tree.root
    BY <1>2, <1>5, RootIs, RootAbove
  <2>2. tree' = tree /\ pc' = "descend" /\ node' = n /\ at' = tree.root
    BY <1>1, <1>5
  <2>3. TreeTypeOK'
    BY <1>1, <1>2, <2>1, <2>2 DEF TreeTypeOK
  <2>4. SummariesExpected(below)'
    <3>1. \A m \in tree.nodes : tree.sum[m] = WeightOf[below[m]] /\ WeightOf[below[m]] \in Int
      BY <1>1, <1>2, WeightAssumption, QuietSummed DEF Quiet, Summed
    <3>. QED  BY <2>1, <2>2, <3>1 DEF SummariesExpected, Expected
  <2>5. InsertCursor(below)' /\ RemoveCursor(below)' /\ QueryCursor(below)' /\ QueriesExact'
    BY <1>1, <2>1, <2>2 DEF InsertCursor, RemoveCursor, QueryCursor, QueriesExact, Upward
  <2>6. Kept(tree, tree')
    BY <1>2, <2>2 DEF Kept
  <2>7. LoopInvariant(below, height)'
    BY <1>1, <2>2, <2>3, <2>4, <2>5, <2>6, StaticStep
  <2>. QED  BY <2>7 DEF TreeInvariant
<1>. QED  BY <1>4, <1>5

\* Seen from the child towards which the search for the first node of G goes,
\* as seen from p, the nodes before the subtree are those that are not in G.
LEMMA DescendPlace ==
  ASSUME NEW t, NEW order, NEW below, SearchTree(t, order, below), NEW p \in t.nodes,
         NEW G, Final(t.nodes, order, G),
         NEW dir, dir = IF p \in G THEN 0 ELSE 1, NEW c, c = t.child[p][dir], c # Nil,
         \A m \in t.nodes \ below[p] : <<m, p>> \in order <=> m \notin G
  PROVE  \A m \in t.nodes \ below[c] : <<m, c>> \in order <=> m \notin G
<1>1. /\ dir \in 0..1 /\ (p \notin G <=> dir = 1) /\ p \in Nodes /\ Sound(t, below) /\ t.nodes \subseteq Nodes
      /\ TotalOrder(t.nodes, order)
  BY DEF SearchTree, Sound, Trees
<1>2. DownFrom(t, order, below, p, dir, c)
  BY <1>1, StepDown
<1>3. /\ c \in t.nodes
      /\ \A m \in below[p] : m \in below[c] \/ (Ahead(order, m, c, dir) /\ (m = p \/ Ahead(order, m, p, dir)))
  BY <1>2 DEF DownFrom
<1>4. \A m \in t.nodes \ below[p] : <<m, c>> \in order <=> <<m, p>> \in order
  <2>1. \A m \in t.nodes \ below[p] : Ahead(order, m, c, 1) <=> Ahead(order, m, p, 1)
    BY <1>2 DEF DownFrom
  <2>. QED  BY <2>1 DEF Ahead
<1>5. \A k, l \in t.nodes : <<k, l>> \in order => <<l, k>> \notin order
  BY <1>1 DEF TotalOrder
<1>6. ASSUME NEW m \in t.nodes \ below[c]
      PROVE  <<m, c>> \in order <=> m \notin G
  <2>1. CASE m \notin below[p]
    BY <1>4, <2>1
  <2>2. CASE m \in below[p] /\ dir = 1
    <3>1. <<m, c>> \in order /\ (m = p \/ <<m, p>> \in order)
      BY <1>3, <2>2 DEF Ahead
    <3>. QED  BY <1>1, <2>2, <3>1 DEF Final
  <2>3. CASE m \in below[p] /\ dir = 0
    <3>1. <<c, m>> \in order /\ (m = p \/ <<p, m>> \in order)
      <4>1. Ahead(order, m, c, dir) /\ (m = p \/ Ahead(order, m, p, dir)) /\ dir # 1
        BY <1>3, <2>3
      <4>. QED  BY ONLY <4>1 DEF Ahead
    <3>2. <<m, c>> \notin order
      BY <1>3, <1>5, <3>1
    <3>. QED  BY <1>1, <2>3, <3>1, <3>2 DEF Final
  <2>. QED  BY <1>1, <2>1, <2>2, <2>3
<1>. QED  BY <1>6

\* A turn of insert's descent.
LEMMA DescendStep ==
  ASSUME NEW below \in [Nodes -> SUBSET Nodes], NEW height \in [Nodes -> Nat], LoopInvariant(below, height),
         Descend
  PROVE  TreeInvariant' /\ tree'.nodes = tree.nodes \cup {m \in {node} : pc' # "descend"}
<1>. DEFINE d == IF at \in goal THEN 0 ELSE 1
            c == tree.child[at][d]
            w == Weight[node]
<1>1. /\ pc = "descend" /\ tree' = DescendBody(tree, at, d, node, w)
      /\ IF c # Nil THEN pc' = pc /\ at' = c /\ before' = before /\ goal' = goal
                    ELSE pc' = "fixInsert" /\ at' = node /\ goal' = {}
                         /\ before' = OrderWith(tree.nodes, before, node, goal)
      /\ node' = node /\ pred' = pred /\ side' = side /\ acc' = acc
  BY DEF Descend, OrderWith
<1>2. /\ TreeTypeOK /\ SearchTree(tree, before, below) /\ Sound(tree, below) /\ tree \in Trees
      /\ Shape(tree, before, below, height, Nil, Nil, Nil, side) /\ tree.nodes \subseteq Nodes /\ Nil \notin Nodes
  BY <1>1, InvariantShape
<1>3. /\ node \in Nodes \ tree.nodes /\ at \in tree.nodes
      /\ \A m \in tree.nodes \ below[at] : <<m, at>> \in before <=> m \notin goal
      /\ Final(tree.nodes, before, goal)
  BY <1>1 DEF LoopInvariant, InsertCursor, Upward, Final
<1>4. \A m \in tree.nodes :
        tree.sum[m] = WeightOf[below[m]] + IF at \in below[m] /\ m # at THEN Weight[node] ELSE 0
  BY <1>1 DEF LoopInvariant, SummariesExpected, Expected
<1>5. w \in Int /\ d \in 0..1 /\ at \in Nodes
  BY <1>2, <1>3, TreeAssumption
<1>. HIDE DEF d, w
<1>6. CASE c # Nil
  <2>1. tree' = AddSum(tree, at, w)
    BY <1>1, <1>6 DEF DescendBody
  <2>2. /\ Kept(tree, tree') /\ tree'.sum[at] = tree.sum[at] + w
        /\ \A m \in Nodes : m # at => tree'.sum[m] = tree.sum[m]
    BY <1>2, <1>5, <2>1, AddSumKept
  <2>3. \A m \in tree.nodes \ below[c] : <<m, c>> \in before <=> m \notin goal
    BY <1>2, <1>3, <1>6, DescendPlace DEF d
  <2>4. DownFrom(tree, before, below, at, d, c)
    BY <1>2, <1>3, <1>5, <1>6, StepDown
  <2>. HIDE DEF c
  <2>5. c \in tree.nodes /\ tree.parent[c] = at /\ c # at
    BY <2>4 DEF DownFrom
  <2>6. \A m \in tree.nodes : c \in below[m] <=> m = c \/ at \in below[m]
    <3>1. tree.parent[c] # Nil
      BY <1>2, <1>3, <2>5
    <3>2. Above(tree, below, c)
      BY <1>2, <2>5, <3>1, ParentAbove
    <3>. QED  BY <2>5, <3>2 DEF Above
  <2>7. at \in below[at] /\ at \notin below[c]
    BY <2>4 DEF DownFrom
  <2>8. pc' = "descend" /\ at' = c /\ before' = before /\ tree'.nodes = tree.nodes /\ tree' \in Trees
    BY <1>1, <1>6, <2>2 DEF Kept
  <2>9. TreeTypeOK'
    BY <1>1, <1>2, <2>5, <2>8 DEF TreeTypeOK
  <2>10. ASSUME NEW m \in tree.nodes
         PROVE  tree'.sum[m] = WeightOf[below[m]] + IF c \in below[m] /\ m # c THEN w ELSE 0
    <3>1. tree.sum[m] = WeightOf[below[m]] + IF at \in below[m] /\ m # at THEN w ELSE 0
      BY <1>4 DEF w
    <3>2. WeightOf[below[m]] \in Int /\ m \in Nodes
      BY <1>2, WeightAssumption
    <3>3. CASE m = at
      <4>1. tree.sum[m] = WeightOf[below[m]] /\ tree'.sum[m] = tree.sum[m] + w /\ c \in below[m] /\ m # c
        BY <2>2, <2>5, <2>6, <2>7, <3>1, <3>2, <3>3
      <4>. QED  BY <4>1
    <3>4. CASE m # at
      <4>1. tree'.sum[m] = tree.sum[m] /\ (at \in below[m] <=> c \in below[m] /\ m # c)
        BY <2>2, <2>6, <2>7, <3>2, <3>4
      <4>. QED  BY <3>1, <3>4, <4>1
    <3>. QED  BY <3>3, <3>4
  <2>11. SummariesExpected(below)'
    BY <1>1, <2>8, <2>10 DEF SummariesExpected, Expected, w
  <2>12. InsertCursor(below)' /\ RemoveCursor(below)' /\ QueryCursor(below)' /\ QueriesExact'
    BY <1>1, <1>3, <1>6, <2>3, <2>5, <2>8 DEF InsertCursor, RemoveCursor, QueryCursor, QueriesExact, Upward, Final
  <2>13. LoopInvariant(below, height)'
    BY <1>1, <2>2, <2>8, <2>9, <2>11, <2>12, StaticStep
  <2>. QED  BY <2>8, <2>13 DEF TreeInvariant
<1>7. CASE c = Nil
  <2>1. tree.ok /\ RedApart(tree, Nil) /\ EquallyBlack(tree, height, Nil, side)
    BY <1>2 DEF Shape
  <2>2. /\ tree'.nodes = tree.nodes \cup {node}
        /\ \E b \in [Nodes -> SUBSET Nodes], h \in [Nodes -> Nat] :
             /\ Good(tree', OrderWith(tree.nodes, before, node, goal), b)
             /\ RedApart(tree', node)
             /\ EquallyBlack(tree', h, Nil, side)
        /\ node # tree'.root /\ IsRed(tree', node)
    <3>1. d = (IF at \in goal THEN 0 ELSE 1) /\ tree.child[at][d] = Nil /\ tree' = DescendBody(tree, at, d, node, Weight[node])
      BY <1>1, <1>7 DEF d, w
    <3>. DEFINE r == DescendBody(tree, at, d, node, Weight[node])
    <3>3. DescentOver(tree, before, below, height, side, at, d, node, goal)
      BY <1>2, <1>3, <1>4, <2>1, <3>1 DEF DescentOver
    <3>2. /\ r.nodes = tree.nodes \cup {node}
          /\ \E b \in [Nodes -> SUBSET Nodes], h \in [Nodes -> Nat] :
               /\ Good(r, OrderWith(tree.nodes, before, node, goal), b)
               /\ RedApart(r, node)
               /\ EquallyBlack(r, h, Nil, side)
          /\ node # r.root /\ IsRed(r, node)
      BY <3>3, LinkLeaf
    <3>. QED  BY <3>1, <3>2, Zenon
  <2>3. PICK b \in [Nodes -> SUBSET Nodes], h \in [Nodes -> Nat] :
             /\ Good(tree', OrderWith(tree.nodes, before, node, goal), b)
             /\ RedApart(tree', node)
             /\ EquallyBlack(tree', h, Nil, side)
    BY <2>2
  <2>4. pc' = "fixInsert" /\ at' = node /\ before' = OrderWith(tree.nodes, before, node, goal)
    BY <1>1, <1>7
  <2>5. Shape(tree', before', b, h, Nil, at', Nil, side') /\ Summed(tree', b) /\ tree' \in Trees
    BY <1>1, <2>3, <2>4 DEF Shape, Good, SearchTree, Sound
  <2>6. before' \in SUBSET (Nodes \X Nodes)
    BY <2>5 DEF Shape, TotalOrder, Trees
  <2>7. TreeTypeOK'
    BY <1>1, <1>2, <1>3, <2>4, <2>5, <2>6 DEF TreeTypeOK
  <2>8. SummariesExpected(b)' /\ InsertCursor(b)' /\ RemoveCursor(b)' /\ QueryCursor(b)' /\ QueriesExact'
    BY <1>1, <2>2, <2>4, <2>5 DEF SummariesExpected, Expected, Summed, InsertCursor, RemoveCursor, QueryCursor, QueriesExact
  <2>9. LoopInvariant(b, h)'
    BY <2>4, <2>5, <2>7, <2>8, ShapeInvariant
  <2>. QED  BY <2>2, <2>4, <2>9 DEF TreeInvariant
<1>. QED  BY <1>6, <1>7

\* A turn of insert's repair.
LEMMA FixInsertStep ==
  ASSUME NEW below \in [Nodes -> SUBSET Nodes], NEW height \in [Nodes -> Nat], LoopInvariant(below, height),
         FixInsert
  PROVE  TreeInvariant' /\ tree'.nodes = tree.nodes
<1>. DEFINE next == FixInsertNext(tree, at)
<1>1. /\ pc = "fixInsert" /\ tree' = FixInsertBody(tree, at) /\ before' = before /\ pred' = pred
      /\ side' = side /\ goal' = goal /\ acc' = acc
      /\ IF next = Nil THEN pc' = "idle" /\ node' = Nil /\ at' = Nil
                       ELSE pc' = "fixInsert" /\ node' = node /\ at' = next
  BY DEF FixInsert, Goto
<1>2. /\ TreeTypeOK /\ SearchTree(tree, before, below) /\ tree.nodes \subseteq Nodes
      /\ Shape(tree, before, below, height, Nil, at, Nil, side)
  BY <1>1, InvariantShape
<1>3. at \in tree.nodes /\ at # tree.root /\ IsRed(tree, at) /\ node \in tree.nodes
  BY <1>1 DEF LoopInvariant, InsertCursor
<1>4. Good(tree, before, below) /\ RedApart(tree, at) /\ EquallyBlack(tree, height, Nil, side)
  <2>1. Summed(tree, below)
    BY <1>1 DEF LoopInvariant, SummariesExpected, Expected, Summed
  <2>. QED  BY <1>2, <2>1 DEF Shape, Good
<1>5. InsertRepaired(tree, before, side, tree', next)
  BY <1>1, <1>3, <1>4, FixInsertTurn
<1>. HIDE DEF next
<1>6. PICK b \in [Nodes -> SUBSET Nodes], h \in [Nodes -> Nat] :
        Good(tree', before, b) /\ RedApart(tree', next) /\ EquallyBlack(tree', h, Nil, side)
  BY <1>5 DEF InsertRepaired
<1>7. /\ tree'.nodes = tree.nodes
      /\ next # Nil => next \in tree.nodes /\ next # tree'.root /\ IsRed(tree', next)
  BY <1>5 DEF InsertRepaired
<1>8. /\ Shape(tree', before', b, h, Nil, IF pc' = "fixInsert" THEN at' ELSE Nil, Nil, side')
      /\ Summed(tree', b) /\ tree' \in Trees /\ pc' \in {"idle", "fixInsert"}
  BY <1>1, <1>6 DEF Shape, Good, SearchTree, Sound
<1>9. TreeTypeOK'
  BY <1>1, <1>2, <1>7, <1>8 DEF TreeTypeOK
<1>10. SummariesExpected(b)' /\ InsertCursor(b)' /\ RemoveCursor(b)' /\ QueryCursor(b)' /\ QueriesExact'
  BY <1>1, <1>3, <1>7, <1>8 DEF SummariesExpected, Expected, Summed, InsertCursor, RemoveCursor, QueryCursor, QueriesExact
<1>11. LoopInvariant(b, h)'
  BY <1>8, <1>9, <1>10, ShapeInvariant
<1>. QED  BY <1>7, <1>11 DEF TreeInvariant

\* The weight of a set with one node less.
LEMMA WeightRemove ==
  ASSUME NEW S \in SUBSET Nodes, NEW n \in Nodes
  PROVE  /\ WeightOf[S] \in Int /\ WeightOf[S \ {n}] \in Int /\ Weight[n] \in Int
         /\ n \in S => WeightOf[S \ {n}] = WeightOf[S] - Weight[n]
         /\ n \notin S => WeightOf[S \ {n}] = WeightOf[S]
<1>1. S \ {n} \in SUBSET Nodes /\ n \in Nodes \ (S \ {n})
  OBVIOUS
<1>2. WeightOf[(S \ {n}) \cup {n}] = WeightOf[S \ {n}] + Weight[n] /\ WeightOf[S \ {n}] \in Int /\ Weight[n] \in Int
  BY <1>1, WeightAdd
<1>3. n \in S => (S \ {n}) \cup {n} = S
  OBVIOUS
<1>4. n \notin S => S \ {n} = S
  OBVIOUS
<1>5. WeightOf[S] \in Int
  BY WeightAssumption
<1>6. n \in S => WeightOf[S] = WeightOf[S \ {n}] + Weight[n]
  BY <1>2, <1>3
<1>7. n \in S => WeightOf[S \ {n}] = WeightOf[S] - Weight[n]
  BY ONLY <1>2, <1>5, <1>6
<1>8. n \notin S => WeightOf[S \ {n}] = WeightOf[S]
  BY <1>4
<1>. QED  BY <1>2, <1>5, <1>7, <1>8

\* The start of remove.
LEMMA RemoveStart ==
  ASSUME NEW below \in [Nodes -> SUBSET Nodes], NEW height \in [Nodes -> Nat], LoopInvariant(below, height),
         NEW n \in Nodes, TreeRemove(n)
  PROVE  LoopInvariant(below, height)'
<1>1. /\ pc = "idle" /\ n \in tree.nodes /\ pc' = "deduct" /\ node' = n /\ at' = n
      /\ tree' = tree /\ before' = before /\ pred' = pred /\ side' = side /\ goal' = goal /\ acc' = acc
  BY TreeAssumption DEF TreeRemove, Goto
<1>2. TreeTypeOK /\ Sound(tree, below) /\ tree.nodes \subseteq Nodes /\ tree \in Trees
  BY <1>1, InvariantShape
<1>3. n \in below[n]
  BY <1>1, <1>2 DEF Sound, Subtrees
<1>4. TreeTypeOK'
  BY <1>1, <1>2 DEF TreeTypeOK
<1>5. \A m \in tree.nodes : tree.sum[m] = WeightOf[below[m]] /\ WeightOf[below[m]] \in Int
  BY <1>1, <1>2, WeightAssumption, QuietSummed DEF Quiet, Summed
<1>6. SummariesExpected(below)'
  BY <1>1, <1>5 DEF SummariesExpected, Expected
<1>7. InsertCursor(below)' /\ RemoveCursor(below)' /\ QueryCursor(below)' /\ QueriesExact'
  BY <1>1, <1>3 DEF InsertCursor, RemoveCursor, QueryCursor, QueriesExact
<1>8. Kept(tree, tree')
  BY <1>1, <1>2 DEF Kept
<1>. QED  BY <1>1, <1>4, <1>6, <1>7, <1>8, StaticStep

\* A turn of the loop that takes the node out of the summaries.
LEMMA DeductStep ==
  ASSUME NEW below \in [Nodes -> SUBSET Nodes], NEW height \in [Nodes -> Nat], LoopInvariant(below, height),
         Deduct
  PROVE  LoopInvariant(below, height)'
<1>. DEFINE w == Weight[node]
            p == tree.parent[at]
            left == tree.child[node][0]
            right == tree.child[node][1]
<1>1. /\ pc = "deduct" /\ tree' = AddSum(tree, at, -w)
      /\ IF p # Nil THEN pc' = pc /\ at' = p
         ELSE IF left # Nil /\ right # Nil THEN pc' = "findPred" /\ at' = left
         ELSE pc' = "unlink" /\ at' = Nil
      /\ before' = before /\ node' = node /\ pred' = pred /\ side' = side /\ goal' = goal /\ acc' = acc
  BY DEF Deduct
<1>2. /\ TreeTypeOK /\ SearchTree(tree, before, below) /\ Sound(tree, below) /\ tree \in Trees
      /\ tree.nodes \subseteq Nodes /\ Nil \notin Nodes
  BY <1>1, InvariantShape
<1>3. node \in tree.nodes /\ at \in tree.nodes /\ node \in below[at]
  BY <1>1 DEF LoopInvariant, RemoveCursor
<1>4. \A m \in tree.nodes :
        tree.sum[m] = WeightOf[below[m]] - IF node \in below[m] /\ at \notin below[m] THEN w ELSE 0
  BY <1>1 DEF LoopInvariant, SummariesExpected, Expected
<1>5. w \in Int /\ -w \in Int /\ at \in Nodes /\ node \in Nodes
  BY <1>2, <1>3, TreeAssumption
<1>6. /\ Kept(tree, tree') /\ tree'.sum[at] = tree.sum[at] + (-w)
      /\ \A m \in Nodes : m # at => tree'.sum[m] = tree.sum[m]
  BY <1>1, <1>2, <1>5, AddSumKept
<1>7. /\ tree'.nodes = tree.nodes /\ tree'.child = tree.child /\ tree' \in Trees
  BY <1>6 DEF Kept
<1>8. at \in below[at] /\ \A m \in tree.nodes : WeightOf[below[m]] \in Int
  BY <1>2, <1>3, WeightAssumption DEF Sound, Subtrees
<1>. HIDE DEF w
<1>9. tree'.sum[at] = WeightOf[below[at]] - w
  BY <1>3, <1>4, <1>5, <1>6, <1>8
<1>10. CASE p # Nil
  <2>1. Above(tree, below, at)
    BY <1>2, <1>3, <1>10, ParentAbove
  <2>2. /\ p \in tree.nodes /\ p \notin below[at] /\ below[at] \subseteq below[p]
        /\ \A m \in tree.nodes : at \in below[m] <=> m = at \/ p \in below[m]
    BY <2>1 DEF Above
  <2>3. pc' = "deduct" /\ at' = p
    BY <1>1, <1>10
  <2>. HIDE DEF p
  <2>4. TreeTypeOK'
    BY <1>1, <1>2, <1>7, <2>2, <2>3 DEF TreeTypeOK
  <2>5. ASSUME NEW m \in tree.nodes
        PROVE  tree'.sum[m] = WeightOf[below[m]] - IF node \in below[m] /\ p \notin below[m] THEN w ELSE 0
    <3>1. CASE m = at
      BY <1>3, <1>9, <2>2, <3>1
    <3>2. CASE m # at
      <4>1. tree'.sum[m] = tree.sum[m] /\ (at \in below[m] <=> p \in below[m])
        BY <1>2, <1>6, <2>2, <3>2
      <4>. QED  BY <1>4, <4>1
    <3>. QED  BY <3>1, <3>2
  <2>6. SummariesExpected(below)'
    BY <1>1, <1>7, <2>3, <2>5 DEF SummariesExpected, Expected, w
  <2>7. InsertCursor(below)' /\ RemoveCursor(below)' /\ QueryCursor(below)' /\ QueriesExact'
    BY <1>1, <1>3, <1>7, <2>2, <2>3 DEF InsertCursor, RemoveCursor, QueryCursor, QueriesExact
  <2>. QED  BY <1>1, <1>6, <2>3, <2>4, <2>6, <2>7, StaticStep
<1>11. CASE p = Nil
  <2>1. \A m \in tree.nodes : at \in below[m] <=> m = at
    BY <1>2, <1>3, <1>11, RootAbove
  <2>2. ASSUME NEW m \in tree.nodes
        PROVE  tree'.sum[m] = WeightOf[below[m] \ {node}]
    <3>1. /\ node \in below[m] => WeightOf[below[m] \ {node}] = WeightOf[below[m]] - w
          /\ node \notin below[m] => WeightOf[below[m] \ {node}] = WeightOf[below[m]]
          /\ WeightOf[below[m]] \in Int
      BY <1>2, <1>5, WeightRemove DEF w
    <3>2. CASE m = at
      BY <1>3, <1>9, <3>1, <3>2
    <3>3. CASE m # at
      <4>1. tree'.sum[m] = tree.sum[m] /\ at \notin below[m]
        BY <1>2, <1>6, <2>1, <3>3
      <4>. QED  BY <1>4, <3>1, <4>1
    <3>. QED  BY <3>2, <3>3
  <2>3. CASE left # Nil /\ right # Nil
    <3>1. pc' = "findPred" /\ at' = left
      BY <1>1, <1>11, <2>3
    <3>2. DownFrom(tree, before, below, node, 0, left)
      BY <1>2, <1>3, <2>3, StepDown
    <3>. HIDE DEF left
    <3>3. left \in tree.nodes /\ left \in below[left] /\ left \in below[node] /\ tree.parent[left] = node
      BY <3>2 DEF DownFrom
    <3>4. \A m \in tree.nodes : left \in below[m] => m \in below[node] \/ node \in below[m]
      <4>1. Above(tree, below, left)
        <5>1. tree.parent[left] # Nil
          BY <1>2, <1>3, <3>3
        <5>. QED  BY <1>2, <3>3, <5>1, ParentAbove
      <4>. QED  BY <3>3, <4>1 DEF Above
    <3>5. TreeTypeOK'
      BY <1>1, <1>2, <1>7, <3>1, <3>3 DEF TreeTypeOK
    <3>6. SummariesExpected(below)'
      BY <1>1, <1>7, <2>2, <3>1 DEF SummariesExpected, Expected
    <3>7. RemoveCursor(below)'
      <4>1. \A dir \in 0..1 : tree'.child[node'][dir] # Nil
        BY <1>1, <1>7, <2>3 DEF left
      <4>. QED  BY <1>1, <1>3, <1>7, <3>1, <3>3, <3>4, <4>1 DEF RemoveCursor, left
    <3>8. InsertCursor(below)' /\ QueryCursor(below)' /\ QueriesExact'
      BY <3>1 DEF InsertCursor, QueryCursor, QueriesExact
    <3>. QED  BY <1>1, <1>6, <3>1, <3>5, <3>6, <3>7, <3>8, StaticStep
  <2>4. CASE ~(left # Nil /\ right # Nil)
    <3>1. pc' = "unlink" /\ at' = Nil
      BY <1>1, <1>11, <2>4
    <3>2. TreeTypeOK'
      BY <1>1, <1>2, <1>7, <3>1 DEF TreeTypeOK
    <3>3. SummariesExpected(below)'
      BY <1>1, <1>7, <2>2, <3>1 DEF SummariesExpected, Expected
    <3>4. InsertCursor(below)' /\ RemoveCursor(below)' /\ QueryCursor(below)' /\ QueriesExact'
      BY <1>1, <1>3, <1>7, <2>4, <3>1 DEF InsertCursor, RemoveCursor, QueryCursor, QueriesExact
    <3>. QED  BY <1>1, <1>6, <3>1, <3>2, <3>3, <3>4, StaticStep
  <2>. QED  BY <2>3, <2>4
<1>. QED  BY <1>10, <1>11

\* A turn of the search for the in-order predecessor.
LEMMA FindPredStep ==
  ASSUME NEW below \in [Nodes -> SUBSET Nodes], NEW height \in [Nodes -> Nat], LoopInvariant(below, height),
         FindPred
  PROVE  LoopInvariant(below, height)'
<1>. DEFINE c == tree.child[at][1]
            l == tree.child[node][0]
            left == below[l]
<1>1. /\ pc = "findPred"
      /\ IF c # Nil THEN pc' = pc /\ at' = c /\ pred' = pred
                    ELSE pc' = "deductPred" /\ at' = tree.parent[at] /\ pred' = at
      /\ tree' = tree /\ before' = before /\ node' = node /\ side' = side /\ goal' = goal /\ acc' = acc
  BY DEF FindPred
<1>2. /\ TreeTypeOK /\ SearchTree(tree, before, below) /\ Sound(tree, below) /\ tree \in Trees
      /\ tree.nodes \subseteq Nodes /\ Nil \notin Nodes /\ TotalOrder(tree.nodes, before)
  BY <1>1, InvariantShape
<1>3. /\ node \in tree.nodes /\ at \in left /\ \A m \in left : m \in below[at] \/ <<m, at>> \in before
      /\ \A m \in tree.nodes : at \in below[m] => m \in below[node] \/ node \in below[m]
      /\ \A dir \in 0..1 : tree.child[node][dir] # Nil
  BY <1>1 DEF LoopInvariant, RemoveCursor
<1>4. \A m \in tree.nodes : tree.sum[m] = WeightOf[below[m] \ {node}]
  BY <1>1 DEF LoopInvariant, SummariesExpected, Expected
<1>5. DownFrom(tree, before, below, node, 0, l)
  BY <1>2, <1>3, StepDown
<1>6. l \in tree.nodes /\ node \notin left /\ left \subseteq below[node] /\ below[node] \subseteq tree.nodes
  BY <1>5 DEF DownFrom
<1>7. at \in tree.nodes /\ below[at] \subseteq left
  BY <1>2, <1>3, <1>6, Nested
<1>8. Kept(tree, tree')
  BY <1>1, <1>2 DEF Kept
<1>9. CASE c # Nil
  <2>1. DownFrom(tree, before, below, at, 1, c)
    BY <1>2, <1>7, <1>9, StepDown
  <2>. HIDE DEF c
  <2>2. /\ c \in tree.nodes /\ c \in below[c] /\ c \in below[at] /\ tree.parent[c] = at
        /\ below[at] \subseteq tree.nodes
    BY <2>1 DEF DownFrom
  <2>3. \A m \in below[at] : m \in below[c] \/ <<m, c>> \in before
    BY <2>1 DEF DownFrom, Ahead
  <2>4. \A m \in tree.nodes \ below[at] : <<m, at>> \in before => <<m, c>> \in before
    <3>1. \A m \in tree.nodes \ below[at] : Ahead(before, m, c, 1) <=> Ahead(before, m, at, 1)
      BY <2>1 DEF DownFrom
    <3>. QED  BY <3>1 DEF Ahead
  <2>5. c \in left /\ \A m \in left : m \in below[c] \/ <<m, c>> \in before
    BY <1>3, <1>6, <1>7, <2>2, <2>3, <2>4
  <2>6. \A m \in tree.nodes : c \in below[m] => m \in below[node] \/ node \in below[m]
    <3>1. Above(tree, below, c)
      <4>1. tree.parent[c] # Nil
        BY <1>2, <1>7, <2>2
      <4>. QED  BY <1>2, <2>2, <4>1, ParentAbove
    <3>2. \A m \in tree.nodes : c \in below[m] <=> m = c \/ at \in below[m]
      BY <2>2, <3>1 DEF Above
    <3>3. c \in below[node]
      BY <1>6, <2>5
    <3>. QED  BY <1>3, <3>2, <3>3
  <2>7. pc' = "findPred" /\ at' = c /\ pred' = pred
    BY <1>1, <1>9
  <2>8. TreeTypeOK'
    BY <1>1, <1>2, <2>2, <2>7 DEF TreeTypeOK
  <2>9. SummariesExpected(below)'
    BY <1>1, <1>4, <2>7 DEF SummariesExpected, Expected
  <2>10. InsertCursor(below)' /\ RemoveCursor(below)' /\ QueryCursor(below)' /\ QueriesExact'
    BY <1>1, <1>3, <2>5, <2>6, <2>7 DEF InsertCursor, RemoveCursor, QueryCursor, QueriesExact
  <2>. QED  BY <1>1, <1>8, <2>7, <2>8, <2>9, <2>10, StaticStep
<1>10. CASE c = Nil
  <2>. DEFINE p == tree.parent[at]
  <2>1. \A m \in below[at] : m = at \/ <<m, at>> \in before
    <3>1. \A m \in below[at] : m = at \/ Ahead(before, m, at, 1)
      BY <1>2, <1>7, <1>10, StepNone
    <3>. QED  BY <3>1 DEF Ahead
  <2>2. \A m \in left : m = at \/ <<m, at>> \in before
    BY <1>3, <2>1
  <2>3. at # node /\ at \in below[node]
    BY <1>3, <1>6
  <2>4. p \in below[node] /\ p \in tree.nodes
    BY <1>2, <1>3, <2>3, Nested
  <2>5. Above(tree, below, at)
    BY <1>2, <1>7, <2>4, ParentAbove
  <2>6. p # at /\ at \in below[p] /\ \A m \in tree.nodes : at \in below[m] /\ m # at => p \in below[m]
    BY <2>5 DEF Above
  <2>7. pc' = "deductPred" /\ at' = p /\ pred' = at
    BY <1>1, <1>10
  <2>. HIDE DEF p
  <2>8. TreeTypeOK'
    BY <1>1, <1>2, <1>7, <2>4, <2>7 DEF TreeTypeOK
  <2>9. SummariesExpected(below)'
    <3>1. \A m \in tree.nodes : WeightOf[below[m] \ {node}] \in Int
      BY <1>2, <1>3, WeightRemove
    <3>2. \A m \in tree.nodes : ~(pred' \in below[m] /\ m # pred' /\ at' \notin below[m])
      BY <2>6, <2>7
    <3>3. ASSUME NEW m \in tree.nodes
          PROVE  tree'.sum[m] = WeightOf[below[m] \ {node'}]
                   - IF pred' \in below[m] /\ m # pred' /\ at' \notin below[m] THEN Weight[pred'] ELSE 0
      <4>1. tree'.sum[m] = WeightOf[below[m] \ {node}] /\ node' = node
        BY <1>1, <1>4
      <4>2. (IF pred' \in below[m] /\ m # pred' /\ at' \notin below[m] THEN Weight[pred'] ELSE 0) = 0
        BY <3>2
      <4>3. WeightOf[below[m] \ {node}] \in Int
        BY <3>1
      <4>. QED  BY <4>1, <4>2, <4>3
    <3>. QED  BY <1>1, <2>7, <3>3 DEF SummariesExpected, Expected
  <2>10. InsertCursor(below)' /\ QueryCursor(below)' /\ QueriesExact'
    BY <2>7 DEF InsertCursor, QueryCursor, QueriesExact
  <2>11. RemoveCursor(below)'
    BY <1>1, <1>3, <1>10, <2>2, <2>4, <2>6, <2>7 DEF RemoveCursor
  <2>. QED  BY <1>1, <1>8, <2>7, <2>8, <2>9, <2>10, <2>11, StaticStep
<1>. QED  BY <1>9, <1>10

\* What the invariant says while the predecessor is taken out of the
\* summaries.
LEMMA DeductPredFacts ==
  ASSUME NEW below \in [Nodes -> SUBSET Nodes], NEW height \in [Nodes -> Nat], LoopInvariant(below, height),
         pc = "deductPred"
  PROVE  /\ Swappable(tree, before, below, node, pred)
         /\ at \in below[node] /\ pred \in below[at] /\ at # pred /\ at \in tree.nodes
         /\ \A m \in tree.nodes :
              tree.sum[m] = WeightOf[below[m] \ {node}]
                - IF pred \in below[m] /\ m # pred /\ at \notin below[m] THEN Weight[pred] ELSE 0
<1>1. SearchTree(tree, before, below) /\ Sound(tree, below)
  BY InvariantShape
<1>2. /\ node \in tree.nodes /\ \A dir \in 0..1 : tree.child[node][dir] # Nil
      /\ pred \in below[tree.child[node][0]]
      /\ \A m \in below[tree.child[node][0]] : m = pred \/ <<m, pred>> \in before
      /\ tree.child[pred][1] = Nil
      /\ \A m \in tree.nodes : pred \in below[m] => m \in below[node] \/ node \in below[m]
      /\ at \in below[node] /\ pred \in below[at] /\ at # pred
  BY DEF LoopInvariant, RemoveCursor
<1>3. \A m \in tree.nodes :
        tree.sum[m] = WeightOf[below[m] \ {node}]
          - IF pred \in below[m] /\ m # pred /\ at \notin below[m] THEN Weight[pred] ELSE 0
  BY DEF LoopInvariant, SummariesExpected, Expected
<1>4. at \in tree.nodes
  BY <1>1, <1>2, Nested
<1>5. tree.child[node][0] # Nil /\ tree.child[node][1] # Nil
  BY <1>2
<1>6. Swappable(tree, before, below, node, pred)
  BY <1>1, <1>2, <1>5 DEF Swappable
<1>. QED  BY <1>2, <1>3, <1>4, <1>6

\* A turn of that loop.
LEMMA DeductPredStep ==
  ASSUME NEW below \in [Nodes -> SUBSET Nodes], NEW height \in [Nodes -> Nat], LoopInvariant(below, height),
         DeductPred
  PROVE  LoopInvariant(below, height)'
<1>. DEFINE w == Weight[pred]
            p == tree.parent[at]
<1>1. /\ pc = "deductPred" /\ at # node /\ tree' = AddSum(tree, at, -w) /\ at' = p
      /\ before' = before /\ pc' = pc /\ node' = node /\ pred' = pred /\ side' = side /\ goal' = goal /\ acc' = acc
  BY DEF DeductPred
<1>2. /\ TreeTypeOK /\ SearchTree(tree, before, below) /\ Sound(tree, below) /\ tree \in Trees
      /\ tree.nodes \subseteq Nodes /\ Nil \notin Nodes
  BY <1>1, InvariantShape
<1>3. /\ Swappable(tree, before, below, node, pred)
      /\ at \in below[node] /\ pred \in below[at] /\ at # pred /\ at \in tree.nodes
      /\ \A m \in tree.nodes :
           tree.sum[m] = WeightOf[below[m] \ {node}]
             - IF pred \in below[m] /\ m # pred /\ at \notin below[m] THEN w ELSE 0
  BY <1>1, DeductPredFacts
<1>4. /\ node \in tree.nodes /\ tree.child[node][0] # Nil /\ tree.child[node][1] # Nil
      /\ pred \in below[tree.child[node][0]]
      /\ \A m \in below[tree.child[node][0]] : m = pred \/ <<m, pred>> \in before
      /\ tree.child[pred][1] = Nil
      /\ \A m \in tree.nodes : pred \in below[m] => m \in below[node] \/ node \in below[m]
  BY <1>3 DEF Swappable
<1>5. p \in tree.nodes /\ p \in below[node]
  BY <1>1, <1>2, <1>3, <1>4, Nested
<1>6. Above(tree, below, at)
  BY <1>2, <1>3, <1>5, ParentAbove
<1>7. /\ p \notin below[at] /\ at \in below[at] /\ below[at] \subseteq below[p]
      /\ \A m \in tree.nodes : at \in below[m] <=> m = at \/ p \in below[m]
  BY <1>6 DEF Above
<1>8. p # pred /\ pred \in below[p]
  BY <1>3, <1>7
<1>9. w \in Int /\ -w \in Int /\ at \in Nodes /\ pred \in tree.nodes
  <2>1. pred \in tree.nodes
    BY <1>2, <1>3, Nested
  <2>. QED  BY <1>2, <1>3, <2>1, TreeAssumption
<1>10. /\ Kept(tree, tree') /\ tree'.sum[at] = tree.sum[at] + (-w)
       /\ \A m \in Nodes : m # at => tree'.sum[m] = tree.sum[m]
  BY <1>1, <1>2, <1>9, AddSumKept
<1>11. /\ tree'.nodes = tree.nodes /\ tree'.child = tree.child /\ tree' \in Trees
  BY <1>10 DEF Kept
<1>. HIDE DEF w, p
<1>12. ASSUME NEW m \in tree.nodes
       PROVE  tree'.sum[m] = WeightOf[below[m] \ {node}]
                - IF pred \in below[m] /\ m # pred /\ p \notin below[m] THEN w ELSE 0
  <2>1. WeightOf[below[m] \ {node}] \in Int
    BY <1>2, <1>4, WeightRemove
  <2>2. CASE m = at
    <3>1. tree.sum[m] = WeightOf[below[m] \ {node}]
      <4>1. (IF pred \in below[m] /\ m # pred /\ at \notin below[m] THEN w ELSE 0) = 0
        BY <1>7, <2>2
      <4>2. tree.sum[m] = WeightOf[below[m] \ {node}]
              - IF pred \in below[m] /\ m # pred /\ at \notin below[m] THEN w ELSE 0
        BY <1>3
      <4>. QED  BY <2>1, <4>1, <4>2
    <3>2. tree'.sum[m] = tree.sum[m] + (-w) /\ pred \in below[m] /\ m # pred /\ p \notin below[m]
      BY <1>3, <1>7, <1>10, <2>2
    <3>3. (IF pred \in below[m] /\ m # pred /\ p \notin below[m] THEN w ELSE 0) = w
      BY <3>2
    <3>4. tree'.sum[m] = WeightOf[below[m] \ {node}] + (-w)
      BY <3>1, <3>2
    <3>5. tree'.sum[m] = WeightOf[below[m] \ {node}] - w
      BY ONLY <1>9, <2>1, <3>4
    <3>. QED  BY <3>3, <3>5
  <2>3. CASE m # at
    <3>1. tree'.sum[m] = tree.sum[m] /\ (at \in below[m] <=> p \in below[m])
      BY <1>2, <1>7, <1>10, <2>3
    <3>. QED  BY <1>3, <3>1
  <2>. QED  BY <2>2, <2>3
<1>13. TreeTypeOK'
  BY <1>1, <1>2, <1>5, <1>11 DEF TreeTypeOK
<1>14. SummariesExpected(below)'
  BY <1>1, <1>11, <1>12 DEF SummariesExpected, Expected, w
<1>15. InsertCursor(below)' /\ QueryCursor(below)' /\ QueriesExact'
  BY <1>1 DEF InsertCursor, QueryCursor, QueriesExact
<1>16. RemoveCursor(below)'
  <2>1. \A dir \in 0..1 : tree'.child[node'][dir] # Nil
    BY <1>1, <1>4, <1>11
  <2>. QED  BY <1>1, <1>4, <1>5, <1>8, <1>11, <2>1 DEF RemoveCursor
<1>. QED  BY <1>1, <1>10, <1>13, <1>14, <1>15, <1>16, StaticStep

\* The exchange of the node with its predecessor.
LEMMA SwapStep ==
  ASSUME NEW below \in [Nodes -> SUBSET Nodes], NEW height \in [Nodes -> Nat], LoopInvariant(below, height),
         SwapNodes
  PROVE  TreeInvariant' /\ tree'.nodes = tree.nodes
<1>1. /\ pc = "deductPred" /\ at = node /\ tree' = SwapWithPredecessor(tree, node, pred)
      /\ pc' = "unlink" /\ at' = Nil /\ pred' = Nil
      /\ before' = before /\ node' = node /\ side' = side /\ goal' = goal /\ acc' = acc
  BY DEF SwapNodes
<1>2. /\ TreeTypeOK /\ Shape(tree, before, below, height, Nil, Nil, Nil, side)
  BY <1>1, InvariantShape
<1>3. /\ Swappable(tree, before, below, node, pred)
      /\ \A m \in tree.nodes :
           tree.sum[m] = WeightOf[below[m] \ {node}]
             - IF pred \in below[m] /\ m # pred /\ node \notin below[m] THEN Weight[pred] ELSE 0
  BY <1>1, DeductPredFacts
<1>4. tree.ok /\ RedApart(tree, Nil) /\ EquallyBlack(tree, height, Nil, side)
  BY <1>2 DEF Shape
<1>5. /\ tree'.nodes = tree.nodes /\ node \in tree.nodes /\ tree'.ok /\ tree'.child[node][1] = Nil
      /\ \E b \in [Nodes -> SUBSET Nodes], h \in [Nodes -> Nat] :
           /\ Sound(tree', b) /\ TotalOrder(tree'.nodes, before) /\ InOrder(tree', before, b, node)
           /\ RedApart(tree', Nil) /\ EquallyBlack(tree', h, Nil, side)
           /\ \A m \in tree'.nodes : m # node => tree'.sum[m] = WeightOf[b[m] \ {node}]
  <2>1. Deducted(tree, below, node, pred)
    BY <1>3 DEF Deducted
  <2>2. Exchanged(tree, before, node, tree', side)
    BY <1>1, <1>3, <1>4, <2>1, SwapTurn
  <2>. QED  BY <2>2 DEF Exchanged
<1>6. PICK b \in [Nodes -> SUBSET Nodes], h \in [Nodes -> Nat] :
           /\ Sound(tree', b) /\ TotalOrder(tree'.nodes, before) /\ InOrder(tree', before, b, node)
           /\ RedApart(tree', Nil) /\ EquallyBlack(tree', h, Nil, side)
           /\ \A m \in tree'.nodes : m # node => tree'.sum[m] = WeightOf[b[m] \ {node}]
  BY <1>5
<1>7. Shape(tree', before', b, h, node', Nil, Nil, side') /\ tree' \in Trees
  BY <1>1, <1>5, <1>6 DEF Shape, Sound
<1>8. TreeTypeOK'
  BY <1>1, <1>2, <1>7 DEF TreeTypeOK
<1>9. SummariesExpected(b)'
  BY <1>1, <1>6 DEF SummariesExpected, Expected
<1>10. InsertCursor(b)' /\ RemoveCursor(b)' /\ QueryCursor(b)' /\ QueriesExact'
  BY <1>1, <1>5 DEF InsertCursor, RemoveCursor, QueryCursor, QueriesExact
<1>11. LoopInvariant(b, h)'
  BY <1>1, <1>7, <1>8, <1>9, <1>10, ShapeInvariant
<1>. QED  BY <1>5, <1>11 DEF TreeInvariant

\* After a turn that takes n out, or repairs what that has left.
LEMMA Repaired ==
  ASSUME NEW next, NEW t, RemoveRepaired(t, before', tree', next, side'), TreeTypeOK, side' \in 0..1,
         IF next = Nil THEN pc' = "idle" /\ node' = Nil /\ at' = Nil
                       ELSE pc' = "fixRemove" /\ node' = Nil /\ at' = next,
         pred' = pred, goal' = goal, acc' = acc
  PROVE  TreeInvariant'
<1>1. PICK b \in [Nodes -> SUBSET Nodes], h \in [Nodes -> Nat] :
        Good(tree', before', b) /\ RedApart(tree', Nil) /\ EquallyBlack(tree', h, next, side')
  BY DEF RemoveRepaired
<1>2. next # Nil => next \in tree'.nodes /\ ~IsRed(tree', tree'.child[next][side'])
  BY DEF RemoveRepaired
<1>3. /\ tree' \in Trees /\ Summed(tree', b) /\ TotalOrder(tree'.nodes, before') /\ tree'.nodes \subseteq Nodes
  BY <1>1 DEF Good, SearchTree, Sound, Trees
<1>4. Shape(tree', before', b, h, Nil, Nil, next, side')
  BY <1>1 DEF Shape, Good, SearchTree
<1>5. before' \in SUBSET (Nodes \X Nodes)
  BY <1>3 DEF TotalOrder
<1>6. TreeTypeOK'
  BY <1>2, <1>3, <1>5 DEF TreeTypeOK
<1>7. pc' \in {"idle", "fixRemove"} /\ next = IF pc' = "fixRemove" THEN at' ELSE Nil
  OBVIOUS
<1>8. SummariesExpected(b)'
  BY <1>3, <1>7 DEF SummariesExpected, Expected, Summed
<1>9. InsertCursor(b)' /\ RemoveCursor(b)' /\ QueryCursor(b)' /\ QueriesExact'
  BY <1>2, <1>7 DEF InsertCursor, RemoveCursor, QueryCursor, QueriesExact
<1>10. LoopInvariant(b, h)'
  BY <1>4, <1>6, <1>7, <1>8, <1>9, ShapeInvariant
<1>. QED  BY <1>10 DEF TreeInvariant

\* Taking the node out.
LEMMA UnlinkStep ==
  ASSUME NEW below \in [Nodes -> SUBSET Nodes], NEW height \in [Nodes -> Nat], LoopInvariant(below, height),
         UnlinkNode
  PROVE  TreeInvariant' /\ tree'.nodes = tree.nodes \ {node}
<1>. DEFINE next == UnlinkNext(tree, node)
<1>1. /\ pc = "unlink" /\ tree' = Unlink(tree, node) /\ before' = OrderWithout(before, node)
      /\ IF next = Nil THEN pc' = "idle" /\ node' = Nil /\ at' = Nil
                       ELSE pc' = "fixRemove" /\ node' = Nil /\ at' = next
      /\ side' = IF next = Nil THEN 0 ELSE Side(tree, node)
      /\ pred' = pred /\ goal' = goal /\ acc' = acc
  BY DEF UnlinkNode, Goto, OrderWithout
<1>2. TreeTypeOK /\ Shape(tree, before, below, height, node, Nil, Nil, side)
  BY <1>1, InvariantShape
<1>3. node \in tree.nodes /\ (tree.child[node][0] = Nil \/ tree.child[node][1] = Nil)
  BY <1>1 DEF LoopInvariant, RemoveCursor
<1>4. \A m \in tree.nodes : m # node => tree.sum[m] = WeightOf[below[m] \ {node}]
  BY <1>1 DEF LoopInvariant, SummariesExpected, Expected
<1>5. Removable(tree, before, below, node)
  BY <1>2, <1>3, <1>4 DEF Shape, Removable
<1>6. RedApart(tree, Nil) /\ EquallyBlack(tree, height, Nil, side)
  BY <1>2 DEF Shape
<1>7. RemoveRepaired(tree', before', tree', next, side') /\ tree'.nodes = tree.nodes \ {node}
  BY <1>1, <1>5, <1>6, UnlinkTurn
<1>. HIDE DEF next
<1>8. side' \in 0..1
  BY <1>1 DEF Side
<1>. QED  BY <1>1, <1>2, <1>7, <1>8, Repaired

\* A turn of remove's repair.
LEMMA FixRemoveStep ==
  ASSUME NEW below \in [Nodes -> SUBSET Nodes], NEW height \in [Nodes -> Nat], LoopInvariant(below, height),
         FixRemove
  PROVE  TreeInvariant' /\ tree'.nodes = tree.nodes
<1>. DEFINE next == FixRemoveNext(tree, at, side)
<1>1. /\ pc = "fixRemove" /\ tree' = FixRemoveBody(tree, at, side) /\ before' = before
      /\ IF next = Nil THEN pc' = "idle" /\ node' = Nil /\ at' = Nil
                       ELSE pc' = "fixRemove" /\ node' = Nil /\ at' = next
      /\ side' = IF next = Nil THEN 0 ELSE FixRemoveSide(tree, at, side)
      /\ pred' = pred /\ goal' = goal /\ acc' = acc
  BY DEF FixRemove, Goto
<1>2. /\ TreeTypeOK /\ Shape(tree, before, below, height, Nil, Nil, at, side)
      /\ SearchTree(tree, before, below) /\ side \in 0..1
  BY <1>1, InvariantShape DEF TreeTypeOK
<1>3. at \in tree.nodes /\ ~IsRed(tree, tree.child[at][side])
  BY <1>1 DEF LoopInvariant, RemoveCursor
<1>4. Summed(tree, below)
  BY <1>1 DEF LoopInvariant, SummariesExpected, Expected, Summed
<1>5. Short(tree, before, below, height, at, side)
  BY <1>2, <1>3, <1>4 DEF Shape, Short, Good
<1>6. RemoveRepaired(tree, before', tree', next, side')
  BY <1>1, <1>5, FixRemoveTurn
<1>8. tree'.nodes = tree.nodes
  BY <1>6 DEF RemoveRepaired
<1>. HIDE DEF next
<1>7. side' \in 0..1
  BY <1>1, <1>2 DEF FixRemoveSide, Side
<1>. QED  BY <1>1, <1>2, <1>6, <1>7, <1>8, Repaired

\* The empty tree.
LEMMA InitialTree ==
  ASSUME TreeInit
  PROVE  TreeInvariant
<1>. DEFINE b == [m \in Nodes |-> {}]
            h == [m \in Nodes |-> 0]
<1>1. /\ tree = Empty(Nodes) /\ before = {} /\ pc = "idle" /\ node = Nil /\ at = Nil /\ pred = Nil
      /\ side = 0 /\ goal = {} /\ acc = 0
  BY DEF TreeInit
<1>2. tree \in Trees /\ tree.root = Nil /\ tree.nodes = {} /\ tree.ok
  <2>1. NoChildren \in [0..1 -> Nodes \cup {Nil}]
    BY DEF NoChildren
  <2>. HIDE DEF NoChildren
  <2>. QED  BY <1>1, <2>1 DEF Empty, Trees
<1>3. b \in [Nodes -> SUBSET Nodes] /\ h \in [Nodes -> Nat]
  OBVIOUS
<1>4. TreeTypeOK
  BY <1>1, <1>2 DEF TreeTypeOK
<1>. HIDE DEF b, h
<1>5. /\ LinksAgree(tree) /\ Subtrees(tree, b) /\ TotalOrder(tree.nodes, before)
      /\ InOrder(tree, before, b, Misplaced) /\ SummariesExpected(b)
      /\ RedApart(tree, IF pc = "fixInsert" THEN at ELSE Nil)
      /\ EquallyBlack(tree, h, IF pc = "fixRemove" THEN at ELSE Nil, side)
  BY <1>1, <1>2 DEF LinksAgree, Subtrees, TotalOrder, InOrder, SummariesExpected, RedApart, EquallyBlack
<1>6. InsertCursor(b) /\ RemoveCursor(b) /\ QueryCursor(b) /\ QueriesExact
  BY <1>1 DEF InsertCursor, RemoveCursor, QueryCursor, QueriesExact
<1>7. LoopInvariant(b, h)
  BY <1>2, <1>4, <1>5, <1>6 DEF LoopInvariant
<1>. QED  BY <1>3, <1>7 DEF TreeInvariant

\* A stuttering step.
LEMMA NothingChanges ==
  ASSUME NEW below \in [Nodes -> SUBSET Nodes], NEW height \in [Nodes -> Nat], LoopInvariant(below, height),
         UNCHANGED tvars
  PROVE  LoopInvariant(below, height)'
<1>1. /\ tree' = tree /\ before' = before /\ pc' = pc /\ node' = node /\ at' = at /\ pred' = pred
      /\ side' = side /\ goal' = goal /\ acc' = acc
  BY DEF tvars
<1>2. TreeTypeOK' /\ SummariesExpected(below)'
  BY <1>1 DEF LoopInvariant, TreeTypeOK, SummariesExpected, Expected
<1>3. InsertCursor(below)' /\ RemoveCursor(below)' /\ QueryCursor(below)' /\ QueriesExact'
  <2>1. InsertCursor(below) /\ RemoveCursor(below) /\ QueryCursor(below) /\ QueriesExact
    BY DEF LoopInvariant
  <2>2. InsertCursor(below)'
    BY <1>1, <2>1 DEF InsertCursor, Upward
  <2>3. RemoveCursor(below)'
    BY <1>1, <2>1, Zenon DEF RemoveCursor
  <2>4. QueryCursor(below)'
    BY <1>1, <2>1, Zenon DEF QueryCursor, Upward
  <2>5. QueriesExact'
    BY <1>1, <2>1 DEF QueriesExact
  <2>. QED  BY <2>2, <2>3, <2>4, <2>5
<1>4. Shape(tree', before', below, height, IF pc' = "unlink" THEN node' ELSE Nil,
            IF pc' = "fixInsert" THEN at' ELSE Nil, IF pc' = "fixRemove" THEN at' ELSE Nil, side')
  BY <1>1, InvariantShape
<1>. QED  BY <1>2, <1>3, <1>4, ShapeInvariant

\* Every step keeps the loop invariant.
LEMMA TreeStep ==
  ASSUME TreeInvariant, [TreeNext]_tvars
  PROVE  TreeInvariant'
<1>1. PICK below \in [Nodes -> SUBSET Nodes], height \in [Nodes -> Nat] : LoopInvariant(below, height)
  BY DEF TreeInvariant
<1>2. LoopInvariant(below, height)' => TreeInvariant'
  BY DEF TreeInvariant
<1>3. CASE \E n \in Nodes : TreeRemove(n) \/ TreeRank(n)
  BY <1>1, <1>2, <1>3, RemoveStart, RankStart
<1>4. CASE Descend
  BY <1>1, <1>4, DescendStep
<1>5. CASE FixInsert
  BY <1>1, <1>5, FixInsertStep
<1>6. CASE Deduct
  BY <1>1, <1>2, <1>6, DeductStep
<1>7. CASE FindPred
  BY <1>1, <1>2, <1>7, FindPredStep
<1>8. CASE DeductPred
  BY <1>1, <1>2, <1>8, DeductPredStep
<1>9. CASE SwapNodes
  BY <1>1, <1>9, SwapStep
<1>10. CASE UnlinkNode
  BY <1>1, <1>10, UnlinkStep
<1>11. CASE FixRemove
  BY <1>1, <1>11, FixRemoveStep
<1>12. CASE \E S \in SUBSET tree.nodes :
              Upward(S) /\ (TreeLowerBound(S) \/ \E n \in Nodes : TreeInsert(n, S))
  BY <1>1, <1>2, <1>12, LowerBoundStep, InsertStart
<1>13. CASE \E dir \in 0..1 : TreeExtreme(dir) \/ \E n \in Nodes : TreeNeighbor(n, dir)
  BY <1>1, <1>2, <1>13, ExtremeStart, NeighborStart
<1>14. CASE Search \/ Extreme \/ Ascend
  BY <1>1, <1>2, <1>14, SearchStep, ExtremeStep, AscendStep
<1>15. CASE Rank \/ Return
  BY <1>1, <1>2, <1>15, RankStepUp, ReturnStep
<1>16. CASE UNCHANGED tvars
  BY <1>1, <1>2, <1>16, NothingChanges
<1>. QED
  BY <1>3, <1>4, <1>5, <1>6, <1>7, <1>8, <1>9, <1>10, <1>11, <1>12, <1>13, <1>14, <1>15, <1>16
  DEF TreeNext, LoopStep

-----------------------------------------------------------------------------
(* What the steps do, for those who use the tree: only the start of an      *)
(* insertion or a removal changes Members and Order.                        *)

\* Before the start and after the end of an operation, and during a query, the
\* tree has its members.
LEMMA TreeAtRest ==
  ASSUME TreeInvariant, pc \in Quiet
  PROVE  /\ Members = tree.nodes /\ Order = before /\ tree.nodes \subseteq Nodes
         /\ TotalOrder(tree.nodes, before) /\ LinksAgree(tree) /\ RedApart(tree, Nil) /\ tree.ok
         /\ tree.root = Nil <=> tree.nodes = {}
<1>1. PICK below \in [Nodes -> SUBSET Nodes], height \in [Nodes -> Nat] : LoopInvariant(below, height)
  BY DEF TreeInvariant
<1>2. /\ tree.nodes \subseteq Nodes /\ TotalOrder(tree.nodes, before) /\ LinksAgree(tree) /\ tree.ok
      /\ RedApart(tree, Nil)
  BY <1>1, InvariantShape DEF LoopInvariant, Quiet
<1>3. Inserting = {} /\ Removing = {}
  BY DEF Inserting, Removing, Quiet
<1>4. Members = tree.nodes /\ Order = before
  BY <1>3 DEF Members, Order
<1>. QED  BY <1>2, <1>4 DEF LinksAgree

\* The start of a query, and its end.
LEMMA QueryKeeps ==
  ASSUME TreeInvariant,
         \/ Return
         \/ \E n \in Nodes : TreeRank(n)
         \/ \E dir \in 0..1 : TreeExtreme(dir) \/ \E n \in Nodes : TreeNeighbor(n, dir)
         \/ \E S \in SUBSET tree.nodes : Upward(S) /\ TreeLowerBound(S)
  PROVE  TreeInvariant' /\ Members' = Members /\ Order' = Order /\ tree' = tree /\ before' = before
<1>1. pc \in Quiet /\ pc' \in Quiet /\ tree' = tree /\ before' = before
  BY DEF Return, TreeRank, TreeExtreme, TreeNeighbor, TreeLowerBound, Quiet
<1>2. Inserting = {} /\ Removing = {} /\ Inserting' = {} /\ Removing' = {}
  BY <1>1 DEF Inserting, Removing, Quiet
<1>3. Members' = Members /\ Order' = Order
  BY <1>1, <1>2 DEF Members, Order
<1>4. [TreeNext]_tvars
  BY Zenon DEF TreeNext, TreeLowerBound
<1>. QED  BY <1>1, <1>3, <1>4, TreeStep

\* The start of an insertion.
LEMMA InsertKeeps ==
  ASSUME TreeInvariant, NEW n \in Nodes, NEW S \in SUBSET tree.nodes, Upward(S), TreeInsert(n, S)
  PROVE  /\ TreeInvariant' /\ Members' = Members \cup {n} /\ n \notin Members
         /\ \A k, l \in Members : <<k, l>> \in Order' <=> <<k, l>> \in Order
         /\ \A k \in Members : <<k, n>> \in Order' <=> k \notin S
         /\ \A k \in Members : <<n, k>> \in Order' <=> k \in S
         /\ <<n, n>> \notin Order'
<1>1. /\ pc = "idle" /\ n \notin tree.nodes /\ before' = before /\ goal' = S
      /\ tree' = IF tree.root = Nil THEN PlantRoot(tree, n, Weight[n]) ELSE tree
      /\ IF tree.root = Nil THEN pc' = "idle" /\ node' = Nil
                            ELSE pc' = "descend" /\ node' = n
  BY DEF TreeInsert, Goto
<1>2. TreeInvariant'
  <2>1. [TreeNext]_tvars
    BY <1>1, Zenon DEF TreeNext
  <2>. QED  BY <2>1, TreeStep
<1>3. /\ Members = tree.nodes /\ Order = before /\ before \subseteq tree.nodes \X tree.nodes /\ tree \in Trees
      /\ tree.root = Nil <=> tree.nodes = {}
  BY <1>1, TreeAtRest DEF Quiet, TotalOrder, TreeInvariant, LoopInvariant, TreeTypeOK
<1>4. CASE tree.root = Nil
  <2>1. tree'.nodes = {n} /\ pc' = "idle" /\ tree.nodes = {}
    BY <1>1, <1>3, <1>4 DEF PlantRoot, Trees
  <2>2. Members' = {n} /\ Order' = before
    BY <1>1, <1>2, <2>1, TreeAtRest DEF Quiet, Inserting, Removing, Members, Order
  <2>. QED  BY <1>1, <1>2, <1>3, <2>1, <2>2
<1>5. CASE tree.root # Nil
  <2>1. Inserting' = {n} /\ Removing' = {} /\ tree' = tree
    BY <1>1, <1>5 DEF Inserting, Removing
  <2>2. Members' = Members \cup {n}
    BY <1>3, <2>1 DEF Members
  <2>3. Order' = before \cup {<<m, k>> : m \in tree.nodes \ S, k \in {n}} \cup {<<k, m>> : k \in {n}, m \in S}
    BY <1>1, <2>1 DEF Order
  <2>. QED  BY <1>1, <1>2, <1>3, <2>2, <2>3
<1>. QED  BY <1>4, <1>5

\* The start of a removal.
LEMMA RemoveKeeps ==
  ASSUME TreeInvariant, NEW n \in Nodes, TreeRemove(n)
  PROVE  /\ TreeInvariant' /\ Members' = Members \ {n} /\ n \in Members
         /\ \A k, l \in Members \ {n} : <<k, l>> \in Order' <=> <<k, l>> \in Order
<1>1. pc = "idle" /\ n \in tree.nodes /\ n # Nil /\ pc' = "deduct" /\ node' = n /\ tree' = tree /\ before' = before
  BY TreeAssumption DEF TreeRemove, Goto
<1>2. TreeInvariant'
  <2>1. [TreeNext]_tvars
    BY Zenon DEF TreeNext
  <2>. QED  BY <2>1, TreeStep
<1>3. Members = tree.nodes /\ Order = before
  BY <1>1, TreeAtRest DEF Quiet
<1>4. Inserting' = {} /\ Removing' = {n}
  BY <1>1 DEF Inserting, Removing
<1>5. Members' = Members \ {n} /\ Order' = {pair \in before : pair[1] # n /\ pair[2] # n}
  BY <1>1, <1>3, <1>4 DEF Members, Order
<1>. QED  BY <1>1, <1>2, <1>3, <1>5

\* A turn of a loop that changes the tree.
LEMMA ChangeKeeps ==
  ASSUME TreeInvariant,
         Descend \/ FixInsert \/ Deduct \/ FindPred \/ DeductPred \/ SwapNodes \/ UnlinkNode \/ FixRemove
  PROVE  Members' = Members /\ Order' = Order
<1>1. PICK below \in [Nodes -> SUBSET Nodes], height \in [Nodes -> Nat] : LoopInvariant(below, height)
  BY DEF TreeInvariant
<1>2. tree \in Trees /\ TreeTypeOK /\ before \subseteq tree.nodes \X tree.nodes /\ at \in Nodes \cup {Nil}
  BY <1>1, InvariantShape DEF TotalOrder, TreeTypeOK
<1>3. CASE Descend
  <2>1. /\ pc = "descend" /\ node' = node /\ tree'.nodes = tree.nodes \cup {m \in {node} : pc' # "descend"}
        /\ \/ pc' = "descend" /\ before' = before /\ goal' = goal
           \/ /\ pc' = "fixInsert"
              /\ before' = before \cup {<<m, node>> : m \in tree.nodes \ goal} \cup {<<node, m>> : m \in goal}
    <3>1. tree'.nodes = tree.nodes \cup {m \in {node} : pc' # "descend"}
      BY <1>1, <1>3, DescendStep
    <3>. QED  BY <1>3, <3>1 DEF Descend
  <2>2. node \notin tree.nodes /\ goal \subseteq tree.nodes
    BY <1>1, <2>1 DEF LoopInvariant, InsertCursor
  <2>3. Inserting = {node} /\ Removing = {} /\ Removing' = {} /\ Inserting' = {m \in {node} : pc' = "descend"}
    BY <2>1 DEF Inserting, Removing
  <2>4. Members' = Members
    BY <2>1, <2>3 DEF Members
  <2>5. Order = before \cup {<<m, node>> : m \in tree.nodes \ goal} \cup {<<node, m>> : m \in goal}
    BY <2>3 DEF Order
  <2>6. CASE pc' = "descend"
    <3>1. Inserting' = {node} /\ tree'.nodes = tree.nodes /\ goal' = goal /\ before' = before
      BY <2>1, <2>3, <2>6
    <3>2. Order' = before \cup {<<m, node>> : m \in tree.nodes \ goal} \cup {<<node, m>> : m \in goal}
      BY <2>3, <3>1 DEF Order
    <3>. QED  BY <2>4, <2>5, <3>2
  <2>7. CASE pc' = "fixInsert"
    <3>1. Inserting' = {} /\ before' = Order
      BY <2>1, <2>3, <2>5, <2>7
    <3>2. Order' = before'
      BY <2>3, <3>1 DEF Order
    <3>. QED  BY <2>4, <3>1, <3>2
  <2>. QED  BY <2>1, <2>6, <2>7
<1>4. CASE FixInsert \/ FixRemove
  <2>1. tree'.nodes = tree.nodes
    BY <1>1, <1>4, FixInsertStep, FixRemoveStep
  <2>2. pc \in {"fixInsert", "fixRemove"} /\ pc' \in {"idle", "fixInsert", "fixRemove"} /\ before' = before
    BY <1>4 DEF FixInsert, FixRemove, Goto
  <2>3. Inserting = {} /\ Removing = {} /\ Inserting' = {} /\ Removing' = {}
    BY <2>2 DEF Inserting, Removing
  <2>. QED  BY <2>1, <2>2, <2>3 DEF Members, Order
<1>5. CASE Deduct \/ FindPred \/ DeductPred \/ SwapNodes
  <2>1. tree'.nodes = tree.nodes
    <3>1. CASE Deduct \/ FindPred \/ DeductPred
      BY <1>2, <3>1 DEF Deduct, FindPred, DeductPred, AddSum, Trees
    <3>. QED  BY <1>1, <1>5, <3>1, SwapStep
  <2>2. /\ pc \in {"deduct", "findPred", "deductPred", "unlink"} /\ pc' \in {"deduct", "findPred", "deductPred", "unlink"}
        /\ before' = before /\ node' = node
    BY <1>5 DEF Deduct, FindPred, DeductPred, SwapNodes
  <2>3. Inserting = {} /\ Removing = {node} /\ Inserting' = {} /\ Removing' = {node}
    BY <2>2 DEF Inserting, Removing
  <2>. QED  BY <2>1, <2>2, <2>3 DEF Members, Order
<1>6. CASE UnlinkNode
  <2>1. tree'.nodes = tree.nodes \ {node}
    BY <1>1, <1>6, UnlinkStep
  <2>2. /\ pc = "unlink" /\ pc' \in {"idle", "fixRemove"}
        /\ before' = {pair \in before : pair[1] # node /\ pair[2] # node}
    BY <1>6 DEF UnlinkNode, Goto
  <2>3. Inserting = {} /\ Removing = {node} /\ Inserting' = {} /\ Removing' = {}
    BY <2>2 DEF Inserting, Removing
  <2>4. Members' = Members
    BY <2>1, <2>3 DEF Members
  <2>5. Order = before' /\ Order' = before'
    BY <2>2, <2>3 DEF Order
  <2>. QED  BY <2>4, <2>5
<1>. QED  BY <1>3, <1>4, <1>5, <1>6

\* A turn of any loop; a query keeps what it is to find.
LEMMA LoopKeeps ==
  ASSUME TreeInvariant, LoopStep
  PROVE  /\ TreeInvariant' /\ Members' = Members /\ Order' = Order /\ pc # "idle"
         /\ pc \in {"search", "extreme", "ascend", "found"} =>
              /\ pc' \in {"search", "extreme", "ascend", "found"}
              /\ tree' = tree /\ before' = before /\ side' = side /\ goal' = goal
         /\ pc = "rank" => pc' = "rank" /\ tree' = tree /\ before' = before /\ node' = node
<1>1. TreeInvariant'
  <2>1. [TreeNext]_tvars
    BY Zenon DEF TreeNext
  <2>. QED  BY <2>1, TreeStep
<1>2. CASE Descend \/ FixInsert \/ Deduct \/ FindPred \/ DeductPred \/ SwapNodes \/ UnlinkNode \/ FixRemove
  <2>1. pc \in {"descend", "fixInsert", "deduct", "findPred", "deductPred", "unlink", "fixRemove"}
    BY <1>2 DEF Descend, FixInsert, Deduct, FindPred, DeductPred, SwapNodes, UnlinkNode, FixRemove
  <2>. QED  BY <1>1, <1>2, <2>1, ChangeKeeps
<1>3. CASE Search \/ Extreme \/ Ascend
  <2>1. /\ pc \in {"search", "extreme", "ascend"} /\ pc' \in {"search", "extreme", "ascend", "found"}
        /\ tree' = tree /\ before' = before /\ side' = side /\ goal' = goal
    BY <1>3 DEF Search, Extreme, Ascend
  <2>2. Inserting = {} /\ Removing = {} /\ Inserting' = {} /\ Removing' = {}
    BY <2>1 DEF Inserting, Removing
  <2>. QED  BY <1>1, <2>1, <2>2 DEF Members, Order
<1>4. CASE Rank
  <2>1. pc = "rank" /\ pc' = "rank" /\ tree' = tree /\ before' = before /\ node' = node
    BY <1>4 DEF Rank
  <2>2. Inserting = {} /\ Removing = {} /\ Inserting' = {} /\ Removing' = {}
    BY <2>1 DEF Inserting, Removing
  <2>. QED  BY <1>1, <2>1, <2>2 DEF Members, Order
<1>. QED  BY <1>2, <1>3, <1>4 DEF LoopStep

\* The answer of a query.
LEMMA QueryAnswer ==
  ASSUME TreeInvariant, pc = "found"
  PROVE  \/ goal = {} /\ at = Nil
         \/ at \in goal /\ at # Nil /\ goal \subseteq tree.nodes /\ \A m \in goal \ {at} : Ahead(before, at, m, side)
<1>1. PICK below \in [Nodes -> SUBSET Nodes], height \in [Nodes -> Nat] : LoopInvariant(below, height)
  BY DEF TreeInvariant
<1>2. QueriesExact /\ goal \subseteq tree.nodes /\ Nil \notin tree.nodes
  BY <1>1, InvariantShape DEF LoopInvariant, QueryCursor
<1>. QED  BY <1>2 DEF QueriesExact

\* The answer of prefix_sum.
LEMMA RankAnswer ==
  ASSUME TreeInvariant, pc = "rank", tree.parent[at] = Nil
  PROVE  acc = WeightOf[{m \in tree.nodes : <<m, node>> \in before}]
<1>1. PICK below \in [Nodes -> SUBSET Nodes], height \in [Nodes -> Nat] : LoopInvariant(below, height)
  BY DEF TreeInvariant
<1>2. Sound(tree, below)
  BY <1>1, InvariantShape
<1>3. at \in tree.nodes /\ acc = WeightOf[{m \in below[at] : <<m, node>> \in before}]
  BY <1>1 DEF LoopInvariant, QueryCursor
<1>4. below[at] = tree.nodes
  BY <1>2, <1>3, RootAbove
<1>. QED  BY <1>3, <1>4

-----------------------------------------------------------------------------
(* The theorems *)

\* The loop invariant: in every turn of every loop of insert, remove,
\* lower_bound, successor, predecessor, min, max and prefix_sum the nodes
\* form one tree with agreeing links, sorted as the reference order says,
\* with no red node below a red one and all paths equally black, up to the
\* one place the running loop has yet to repair.
THEOREM TreeCorrect == TreeSpec => []TreeInvariant
BY InitialTree, TreeStep, PTL DEF TreeSpec

\* The variables keep their types; in particular no link of a node ever
\* leads out of the set of nodes.
THEOREM TreeTyped == TreeSpec => []TreeTypeOK
<1>1. TreeInvariant => TreeTypeOK
  BY DEF TreeInvariant, LoopInvariant
<1>. QED  BY <1>1, TreeCorrect, PTL

\* No debug assertion of insert, remove and rotate fails, remove always
\* finds the sibling it unwraps, and no arm marked unreachable_unchecked is
\* ever reached, in trees of any size.
THEOREM TreeUnreachable == TreeSpec => []NothingUnreachable
<1>1. TreeInvariant => NothingUnreachable
  BY DEF TreeInvariant, LoopInvariant, NothingUnreachable
<1>. QED  BY <1>1, TreeCorrect, PTL

\* lower_bound, successor, predecessor, min and max return what the
\* reference order says, in trees of any size and with any number of equal
\* keys.
THEOREM TreeQueries == TreeSpec => []QueriesExact
<1>1. TreeInvariant => QueriesExact
  BY DEF TreeInvariant, LoopInvariant
<1>. QED  BY <1>1, TreeCorrect, PTL

\* At rest and during queries, the summary of a node is its weight and what its
\* children's summaries are.
LEMMA SumsAtRest ==
  ASSUME TreeInvariant, pc \in Quiet
  PROVE  SumsExact(tree, Weight) /\ Sum(tree, tree.root) = WeightOf[tree.nodes]
<1>1. PICK below \in [Nodes -> SUBSET Nodes], height \in [Nodes -> Nat] : LoopInvariant(below, height)
  BY DEF TreeInvariant
<1>2. Sound(tree, below) /\ tree.nodes \subseteq Nodes /\ LinksAgree(tree)
  BY <1>1, InvariantShape DEF Sound
<1>3. Summed(tree, below)
  BY <1>1, QuietSummed
<1>4. ASSUME NEW n \in tree.nodes
      PROVE  tree.sum[n] = Weight[n] + Sum(tree, tree.child[n][0]) + Sum(tree, tree.child[n][1])
  <2>1. \A d \in 0..1 : tree.child[n][d] = Nil \/ tree.child[n][d] \in tree.nodes
    BY <1>2 DEF LinksAgree
  <2>2. /\ Sum(tree, tree.child[n][0]) = WeightOf[Below(below, tree.child[n][0])]
        /\ Sum(tree, tree.child[n][1]) = WeightOf[Below(below, tree.child[n][1])]
    BY <1>3, <2>1, SumIs
  <2>3. WeightOf[below[n]] = Weight[n] + WeightOf[Below(below, tree.child[n][0])]
                                       + WeightOf[Below(below, tree.child[n][1 - 0])]
    BY <1>2, WeightSplit
  <2>. QED  BY <1>3, <2>2, <2>3 DEF Summed
<1>5. Sum(tree, tree.root) = WeightOf[tree.nodes]
  <2>1. CASE tree.root = Nil
    BY <1>2, <2>1, WeightAssumption DEF LinksAgree, Sum
  <2>2. CASE tree.root # Nil
    BY <1>2, <1>3, <2>2, RootIs DEF Sum, Summed
  <2>. QED  BY <2>1, <2>2
<1>. QED  BY <1>4, <1>5 DEF SumsExact

\* Between operations every summary, kept by differences over descents,
\* rotations, the exchange of nodes and their removal, is the weight of the
\* node and of what is below it.
THEOREM TreeSummaries == TreeSpec => []SummariesExact
<1>1. TreeInvariant => SummariesExact
  BY SumsAtRest DEF SummariesExact, Quiet
<1>. QED  BY <1>1, TreeCorrect, PTL

\* prefix_sum returns the weight of what precedes the node in the reference
\* order.
THEOREM TreeRanks == TreeSpec => []RanksExact
<1>1. TreeInvariant => RanksExact
  BY RankAnswer DEF RanksExact
<1>. QED  BY <1>1, TreeCorrect, PTL
=============================================================================
