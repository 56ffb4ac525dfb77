---------------------------- MODULE PidMapProofs ----------------------------
(***************************************************************************)
(* The operators of PidMap, for every tree: the recorded heights cover the *)
(* depth, and a sorted tree stands for a map from pids to slots that       *)
(* lookup(), insert() and delete() read and change as a map, except that   *)
(* an insertion that takes a right rotation may lose entries.              *)
(***************************************************************************)
EXTENDS PidMap, QueueLemmas

-----------------------------------------------------------------------------
(* The recursive functions satisfy their equations. *)

\* A loop makes its rounds.
LEMMA RoundsMade ==
  ASSUME NEW F, NEW x, NEW n \in Nat
  PROVE  /\ Rounds(F, x, n)[0] = x
         /\ \A i \in 1 .. n : Rounds(F, x, n)[i] = F[Rounds(F, x, n)[i - 1]]
<1> DEFINE Def(m, g) == g = [i \in 0 .. m |-> IF i = 0 THEN x ELSE F[g[i - 1]]]
           S == {m \in 0 .. n : \E g : Def(m, g)}
<1>1. 0 \in S
  <2> DEFINE g == [i \in 0 .. 0 |-> x]
  <2>1. Def(0, g)
    OBVIOUS
  <2> HIDE DEF g, Def
  <2> QED BY <2>1
<1>2. ASSUME NEW m \in 0 .. n, m < n, m \in S PROVE m + 1 \in S
  <2>1. PICK f : Def(m, f)
    BY <1>2
  <2> DEFINE g == [i \in 0 .. m + 1 |-> IF i = m + 1 THEN F[f[m]] ELSE f[i]]
  <2>2. m \in Nat /\ m + 1 \in 0 .. n
    BY <1>2
  <2>3. ASSUME NEW i \in 0 .. m + 1
        PROVE  g[i] = IF i = 0 THEN x ELSE F[g[i - 1]]
    <3>1. CASE i = m + 1
      <4>1. i # 0 /\ i - 1 \in 0 .. m + 1 /\ i - 1 = m /\ m # m + 1
        BY <2>2, <3>1
      <4> QED BY <3>1, <4>1
    <3>2. CASE i # m + 1
      <4>1. i \in 0 .. m /\ (i # 0 => i - 1 \in 0 .. m + 1 /\ i - 1 # m + 1)
        BY <2>2, <3>2
      <4>2. g[i] = f[i] /\ (i # 0 => g[i - 1] = f[i - 1])
        BY <3>2, <4>1
      <4>3. f[i] = IF i = 0 THEN x ELSE F[f[i - 1]]
        BY <2>1, <4>1
      <4> QED BY <4>2, <4>3
    <3> QED BY <3>1, <3>2
  <2>4. Def(m + 1, g)
    BY <2>3
  <2> HIDE DEF g, Def
  <2> QED BY <2>2, <2>4
<1>3. \E g : Def(n, g)
  <2>1. n \in S
    <3> HIDE DEF S
    <3>1. \A m \in 0 .. n : m \in S
      BY <1>1, <1>2, CountUp
    <3> QED BY <3>1
  <2> QED BY <2>1
<1>4. Rounds(F, x, n) = CHOOSE g : Def(n, g)
  BY DEF Rounds
<1>5. Def(n, Rounds(F, x, n))
  BY <1>3, <1>4
<1> HIDE DEF S
<1> QED BY <1>5

\* The calls of lookup() and insert() go from child to child.
LEMMA PathSteps ==
  ASSUME NEW t, t.height \in Nat, NEW id
  PROVE  /\ Path(t, id)[0] = t
         /\ \A i \in 1 .. t.height : Path(t, id)[i] = Child(Path(t, id)[i - 1], id)
<1> DEFINE n == t.height
           Def(m, g) == g = [i \in 0 .. m |-> IF i = 0 THEN t ELSE Child(g[i - 1], id)]
           S == {m \in 0 .. n : \E g : Def(m, g)}
<1>1. 0 \in S
  <2> DEFINE g == [i \in 0 .. 0 |-> t]
  <2>1. Def(0, g)
    OBVIOUS
  <2> HIDE DEF g, Def
  <2> QED BY <2>1
<1>2. ASSUME NEW m \in 0 .. n, m < n, m \in S PROVE m + 1 \in S
  <2>1. PICK f : Def(m, f)
    BY <1>2
  <2> DEFINE g == [i \in 0 .. m + 1 |-> IF i = m + 1 THEN Child(f[m], id) ELSE f[i]]
  <2>2. m \in Nat /\ m + 1 \in 0 .. n
    BY <1>2
  <2>3. ASSUME NEW i \in 0 .. m + 1
        PROVE  g[i] = IF i = 0 THEN t ELSE Child(g[i - 1], id)
    <3>1. CASE i = m + 1
      <4>1. i # 0 /\ i - 1 \in 0 .. m + 1 /\ i - 1 = m /\ m # m + 1
        BY <2>2, <3>1
      <4> QED BY <3>1, <4>1
    <3>2. CASE i # m + 1
      <4>1. i \in 0 .. m /\ (i # 0 => i - 1 \in 0 .. m + 1 /\ i - 1 # m + 1)
        BY <2>2, <3>2
      <4>2. g[i] = f[i] /\ (i # 0 => g[i - 1] = f[i - 1])
        BY <3>2, <4>1
      <4>3. f[i] = IF i = 0 THEN t ELSE Child(f[i - 1], id)
        BY <2>1, <4>1
      <4> QED BY <4>2, <4>3
    <3> QED BY <3>1, <3>2
  <2>4. Def(m + 1, g)
    BY <2>3
  <2> HIDE DEF g, Def
  <2> QED BY <2>2, <2>4
<1>3. \E g : Def(n, g)
  <2>1. n \in S
    <3> HIDE DEF S
    <3>1. \A m \in 0 .. n : m \in S
      BY <1>1, <1>2, CountUp
    <3> QED BY <3>1
  <2> QED BY <2>1
<1>4. Path(t, id) = CHOOSE g : Def(n, g)
  BY DEF Path
<1>5. Def(n, Path(t, id))
  BY <1>3, <1>4
<1> HIDE DEF S
<1> QED BY <1>5

\* The children of the nodes in a set.
Below(S) == UNION {{n.left, n.right} : n \in S}

\* Levels are computed downwards.
LEMMA LevelsDown ==
  ASSUME NEW t, t.height \in Nat
  PROVE  /\ Levels(t)[0] = {t} \ {Null}
         /\ \A i \in 1 .. t.height : Levels(t)[i] = Below(Levels(t)[i - 1]) \ {Null}
<1> DEFINE N == t.height
           Def(m, g) == g = [i \in 0 .. m |->
                              (IF i = 0 THEN {t} ELSE Below(g[i - 1])) \ {Null}]
           S == {m \in 0 .. N : \E g : Def(m, g)}
<1>1. 0 \in S
  <2> DEFINE g == [i \in 0 .. 0 |-> {t} \ {Null}]
  <2>1. Def(0, g)
    OBVIOUS
  <2>2. 0 \in 0 .. N
    OBVIOUS
  <2> HIDE DEF g, Def
  <2> QED BY <2>1, <2>2
<1>2. ASSUME NEW m \in 0 .. N, m < N, m \in S PROVE m + 1 \in S
  <2>1. PICK f : Def(m, f)
    BY <1>2
  <2> DEFINE g == [i \in 0 .. m + 1 |->
                     IF i = m + 1 THEN Below(f[m]) \ {Null} ELSE f[i]]
  <2>2. m \in Nat /\ m + 1 \in 0 .. N
    BY <1>2
  <2>3. ASSUME NEW i \in 0 .. m + 1
        PROVE  g[i] = (IF i = 0 THEN {t} ELSE Below(g[i - 1])) \ {Null}
    <3>1. CASE i = m + 1
      <4>1. i # 0 /\ i - 1 \in 0 .. m + 1 /\ i - 1 = m /\ m # m + 1
        BY <2>2, <3>1
      <4> QED BY <3>1, <4>1
    <3>2. CASE i # m + 1
      <4>1. i \in 0 .. m /\ (i # 0 => i - 1 \in 0 .. m + 1 /\ i - 1 # m + 1)
        BY <2>2, <3>2
      <4>2. g[i] = f[i] /\ (i # 0 => g[i - 1] = f[i - 1])
        BY <3>2, <4>1
      <4>3. f[i] = (IF i = 0 THEN {t} ELSE Below(f[i - 1])) \ {Null}
        BY <2>1, <4>1
      <4> QED BY <4>2, <4>3
    <3> QED BY <3>1, <3>2
  <2>4. Def(m + 1, g)
    BY <2>3
  <2> HIDE DEF g, Def
  <2> QED BY <2>2, <2>4
<1>3. \E g : Def(N, g)
  <2>1. N \in S
    <3> HIDE DEF S
    <3>1. \A m \in 0 .. N : m \in S
      BY <1>1, <1>2, CountUp
    <3> QED BY <3>1
  <2> QED BY <2>1
<1>4. Levels(t) = CHOOSE g : Def(N, g)
  BY DEF Levels, Below
<1>5. Def(N, Levels(t))
  BY <1>3, <1>4
<1>6. \A i \in 0 .. N :
        Levels(t)[i] = (IF i = 0 THEN {t} ELSE Below(Levels(t)[i - 1])) \ {Null}
  BY <1>5
<1>7. 0 \in 0 .. N /\ \A i \in 1 .. N : i \in 0 .. N /\ i # 0
  OBVIOUS
<1> HIDE DEF S, Def
<1> QED BY <1>6, <1>7

-----------------------------------------------------------------------------
(* Trees: what their nodes are. *)

\* n is a treeNode that is higher than its children.
IsNode(n) ==
  /\ n = Node(n.pid, n.pcbIndex, n.left, n.right, n.height)
  /\ n.pid \in Nat /\ n.pcbIndex \in Nat
  /\ n.height \in Nat /\ n.left.height \in Nat /\ n.right.height \in Nat
  /\ n.left.height < n.height /\ n.right.height < n.height

\* t is a tree of such nodes.
Tree(t) == t.height \in Nat /\ \A n \in Nodes(t) : IsNode(n)

\* R contains the children of its nodes.
ClosedSet(R) ==
  \A n \in R : (n.left # Null => n.left \in R) /\ (n.right # Null => n.right \in R)

\* Null is the empty tree.
LEMMA NullTree == Null.height = 0 /\ Tree(Null) /\ Nodes(Null) = {}
<1>1. Null.height = 0
  BY DEF Null
<1>2. Levels(Null)[0] = {}
  BY <1>1, LevelsDown
<1>3. Nodes(Null) = {}
  BY <1>1, <1>2 DEF Nodes
<1> QED BY <1>1, <1>3 DEF Tree

\* A node is not Null and neither is a node of a tree.
LEMMA NodeNotNull ==
  ASSUME NEW p, NEW s, NEW l, NEW r, NEW h
  PROVE  /\ Node(p, s, l, r, h) # Null
         /\ Node(p, s, l, r, h).pid = p /\ Node(p, s, l, r, h).pcbIndex = s
         /\ Node(p, s, l, r, h).left = l /\ Node(p, s, l, r, h).right = r
         /\ Node(p, s, l, r, h).height = h
<1>1. DOMAIN Node(p, s, l, r, h) = {"pid", "pcbIndex", "left", "right", "height"}
  BY DEF Node
<1>2. DOMAIN Null = {"height"}
  BY DEF Null
<1>3. Node(p, s, l, r, h) # Null
  BY <1>1, <1>2
<1> QED BY <1>3 DEF Node

LEMMA NodesNotNull ==
  ASSUME NEW t, t.height \in Nat
  PROVE  Null \notin Nodes(t)
<1>1. \A i \in 0 .. t.height : Null \notin Levels(t)[i]
  <2>1. \A i \in 0 .. t.height : i = 0 \/ i \in 1 .. t.height
    OBVIOUS
  <2> QED BY <2>1, LevelsDown
<1> QED BY <1>1 DEF Nodes

\* A set that contains t and the children of its nodes contains all nodes of t.
LEMMA NodesLeast ==
  ASSUME NEW t, t.height \in Nat, NEW R, t \in R \/ t = Null, ClosedSet(R)
  PROVE  Nodes(t) \subseteq R
<1> DEFINE S == {i \in 0 .. t.height : Levels(t)[i] \subseteq R}
<1>1. 0 \in S
  BY LevelsDown
<1>2. ASSUME NEW i \in 0 .. t.height, i < t.height, i \in S PROVE i + 1 \in S
  <2>1. i + 1 \in 1 .. t.height /\ i + 1 \in 0 .. t.height /\ (i + 1) - 1 = i
    BY <1>2
  <2>2. Levels(t)[i + 1] = Below(Levels(t)[i]) \ {Null}
    BY <2>1, LevelsDown
  <2>3. Levels(t)[i] \subseteq R
    BY <1>2
  <2>4. Below(Levels(t)[i]) \ {Null} \subseteq R
    BY <2>3 DEF Below, ClosedSet
  <2> QED BY <2>1, <2>2, <2>4
<1>3. \A i \in S : Levels(t)[i] \subseteq R
  OBVIOUS
<1> HIDE DEF S
<1>4. \A i \in 0 .. t.height : i \in S
  BY <1>1, <1>2, CountUp
<1> QED BY <1>3, <1>4 DEF Nodes

\* The height of a tree covers its depth, so that Nodes finds them all.
LEMMA TreeClosed ==
  ASSUME NEW t, Tree(t), t # Null
  PROVE  /\ t \in Nodes(t) /\ IsNode(t)
         /\ ClosedSet(Nodes(t))
         /\ Levels(t)[t.height] = {}
<1> DEFINE h == t.height
           L(i) == Levels(t)[i]
           S == {i \in 0 .. h : \A n \in L(i) : n.height <= h - i}
<1>1. h \in Nat /\ \A n \in Nodes(t) : IsNode(n)
  BY DEF Tree
<1>2. L(0) = {t} /\ \A i \in 1 .. h : L(i) = Below(L(i - 1)) \ {Null}
  BY LevelsDown, <1>1
<1>3. \A i \in 0 .. h : L(i) \subseteq Nodes(t)
  BY DEF Nodes
<1>4. t \in Nodes(t)
  BY <1>1, <1>2, <1>3
<1>5. Nodes(t) = UNION {L(i) : i \in 0 .. h}
  BY DEF Nodes
<1> HIDE DEF L
<1>6. \A i \in 0 .. h : i \in S
  <2>1. 0 \in S
    BY <1>1, <1>2
  <2>2. ASSUME NEW i \in 0 .. h, i < h, i \in S PROVE i + 1 \in S
    <3>1. i + 1 \in 0 .. h /\ i + 1 \in 1 .. h /\ (i + 1) - 1 = i /\ i \in Nat
      BY <1>1, <2>2
    <3>2. ASSUME NEW n \in L(i + 1) PROVE n.height <= h - (i + 1)
      <4>1. PICK m \in L(i) : n \in {m.left, m.right}
        BY <1>2, <3>1 DEF Below
      <4>2. IsNode(m) /\ m.height <= h - i
        BY <1>1, <1>3, <2>2, <4>1
      <4> QED BY <1>1, <3>1, <4>1, <4>2 DEF IsNode
    <3> QED BY <3>1, <3>2
  <2> HIDE DEF S
  <2> QED BY <1>1, <2>1, <2>2, CountUp
<1>7. L(h) = {}
  <2>1. ASSUME NEW n \in L(h) PROVE FALSE
    <3>1. h \in S
      BY <1>1, <1>6
    <3>2. IsNode(n) /\ n.height <= h - h
      BY <1>1, <1>3, <2>1, <3>1
    <3> QED BY <1>1, <3>2 DEF IsNode
  <2> QED BY <2>1
<1>8. ClosedSet(Nodes(t))
  <2> SUFFICES ASSUME NEW n \in Nodes(t), NEW c \in {n.left, n.right}, c # Null
               PROVE  c \in Nodes(t)
    BY DEF ClosedSet
  <2>1. PICK i \in 0 .. h : n \in L(i)
    BY <1>5
  <2>2. i # h
    BY <1>7, <2>1
  <2>3. i + 1 \in 1 .. h /\ i + 1 \in 0 .. h /\ (i + 1) - 1 = i
    BY <1>1, <2>2
  <2>4. c \in L(i + 1)
    BY <1>2, <2>1, <2>3 DEF Below
  <2> QED BY <1>3, <2>3, <2>4
<1> QED BY <1>1, <1>4, <1>7, <1>8 DEF L

\* What a tree is made of: its root and the nodes of its subtrees.
LEMMA TreeParts ==
  ASSUME NEW t, Tree(t), t # Null
  PROVE  /\ IsNode(t) /\ Tree(t.left) /\ Tree(t.right)
         /\ Nodes(t) = {t} \cup Nodes(t.left) \cup Nodes(t.right)
<1>1. IsNode(t) /\ t \in Nodes(t) /\ ClosedSet(Nodes(t))
  BY TreeClosed
<1>2. t.height \in Nat /\ t.left.height \in Nat /\ t.right.height \in Nat
  BY <1>1 DEF IsNode
<1>3. ASSUME NEW c \in {t.left, t.right}
      PROVE  Nodes(c) \subseteq Nodes(t) /\ Tree(c)
  <2>1. c.height \in Nat /\ (c = Null \/ c \in Nodes(t))
    BY <1>1, <1>2 DEF ClosedSet
  <2>2. Nodes(c) \subseteq Nodes(t)
    BY <1>1, <2>1, NodesLeast
  <2> QED BY <2>1, <2>2 DEF Tree
<1>4. Nodes(t) \subseteq {t} \cup Nodes(t.left) \cup Nodes(t.right)
  <2> DEFINE R == {t} \cup Nodes(t.left) \cup Nodes(t.right)
  <2>1. ASSUME NEW c \in {t.left, t.right}
        PROVE  ClosedSet(Nodes(c)) /\ (c # Null => c \in Nodes(c))
    <3>1. CASE c = Null
      BY <3>1, NullTree DEF ClosedSet
    <3>2. CASE c # Null
      BY <1>3, <3>2, TreeClosed
    <3> QED BY <3>1, <3>2
  <2>2. ClosedSet(R)
    BY <2>1 DEF ClosedSet
  <2> QED BY <1>2, <2>2, NodesLeast
<1> QED BY <1>1, <1>3, <1>4

\* A node over two trees is a tree.
LEMMA TreeNode ==
  ASSUME NEW p \in Nat, NEW s \in Nat, NEW l, NEW r, NEW h \in Nat,
         Tree(l), Tree(r), l.height < h, r.height < h
  PROVE  /\ Tree(Node(p, s, l, r, h))
         /\ Nodes(Node(p, s, l, r, h)) =
              {Node(p, s, l, r, h)} \cup Nodes(l) \cup Nodes(r)
<1>1. PICK n : n = Node(p, s, l, r, h)
  OBVIOUS
<1>2. /\ n # Null /\ n.pid = p /\ n.pcbIndex = s /\ n.left = l /\ n.right = r
      /\ n.height = h
  BY <1>1, NodeNotNull
<1>3. IsNode(n)
  BY <1>1, <1>2 DEF IsNode, Tree
<1>4. ClosedSet({n} \cup Nodes(l) \cup Nodes(r))
  <2>1. ASSUME NEW c \in {l, r}
        PROVE  ClosedSet(Nodes(c)) /\ (c # Null => c \in Nodes(c))
    <3>1. CASE c = Null
      BY <3>1, NullTree DEF ClosedSet
    <3>2. CASE c # Null
      BY <3>2, TreeClosed
    <3> QED BY <3>1, <3>2
  <2> QED BY <1>2, <2>1 DEF ClosedSet
<1>5. Nodes(n) \subseteq {n} \cup Nodes(l) \cup Nodes(r)
  BY <1>2, <1>4, NodesLeast
<1>6. Tree(n)
  BY <1>2, <1>3, <1>5 DEF Tree
<1>7. Nodes(n) = {n} \cup Nodes(l) \cup Nodes(r)
  BY <1>2, <1>6, TreeParts
<1> QED BY <1>1, <1>6, <1>7

\* Each node of a tree is a tree.
LEMMA NodeTree ==
  ASSUME NEW t, Tree(t), NEW n \in Nodes(t)
  PROVE  Tree(n) /\ Nodes(n) \subseteq Nodes(t) /\ n # Null
<1>1. t # Null /\ t.height \in Nat
  BY NullTree DEF Tree
<1>2. n # Null /\ ClosedSet(Nodes(t)) /\ IsNode(n) /\ n.height \in Nat
  BY <1>1, NodesNotNull, TreeClosed DEF Tree, IsNode
<1>3. Nodes(n) \subseteq Nodes(t)
  BY <1>2, NodesLeast
<1> QED BY <1>2, <1>3 DEF Tree

-----------------------------------------------------------------------------
(* Rotations and the end of insert() make trees of trees. *)

\* updateHeight() puts a node above its children.
LEMMA UpdateNode ==
  ASSUME NEW p, NEW s, NEW l, NEW r, NEW h, l.height \in Nat, r.height \in Nat
  PROVE  \E k \in Nat : /\ l.height < k /\ r.height < k
                        /\ updateHeight(Node(p, s, l, r, h)) = Node(p, s, l, r, k)
<1> DEFINE m == Max({l.height, r.height})
<1>1. m \in Nat /\ l.height <= m /\ r.height <= m
  BY DEF Max
<1>2. updateHeight(Node(p, s, l, r, h)) = Node(p, s, l, r, m + 1)
  BY DEF updateHeight, Node
<1> HIDE DEF m
<1> QED BY <1>1, <1>2

\* What rotateLeft() returns.
LEMMA LeftRotation ==
  ASSUME NEW p, NEW s, NEW l, NEW r, NEW h, l.height \in Nat, IsNode(r)
  PROVE  \E j \in Nat, k \in Nat :
           /\ l.height < j /\ r.left.height < j /\ r.right.height < k /\ j < k
           /\ rotateLeft(Node(p, s, l, r, h)) =
                Node(r.pid, r.pcbIndex, Node(p, s, l, r.left, j), r.right, k)
<1> DEFINE n == Node(p, s, l, r, h)
<1>1. r.left.height \in Nat /\ r.right.height \in Nat
  BY DEF IsNode
<1>2. PICK j \in Nat : /\ l.height < j /\ r.left.height < j
                       /\ updateHeight(Node(p, s, l, r.left, h)) = Node(p, s, l, r.left, j)
  BY <1>1, UpdateNode
<1>3. [n EXCEPT !.right = n.right.left] = Node(p, s, l, r.left, h)
  BY DEF Node
<1>4. PICK m : m = Node(p, s, l, r.left, j) /\ m.height = j
  BY NodeNotNull
<1>5. [r EXCEPT !.left = m] = Node(r.pid, r.pcbIndex, m, r.right, r.height)
  <2>1. r = Node(r.pid, r.pcbIndex, r.left, r.right, r.height)
    BY DEF IsNode
  <2> QED BY <2>1 DEF Node
<1>6. PICK k \in Nat : /\ m.height < k /\ r.right.height < k
                       /\ updateHeight(Node(r.pid, r.pcbIndex, m, r.right, r.height)) =
                            Node(r.pid, r.pcbIndex, m, r.right, k)
  BY <1>1, <1>4, UpdateNode
<1>7. n.right = r
  BY NodeNotNull
<1>8. rotateLeft(n) = updateHeight([r EXCEPT !.left = m])
  BY <1>2, <1>3, <1>4, <1>7 DEF rotateLeft
<1> QED BY <1>2, <1>4, <1>5, <1>6, <1>8

LEMMA LeftRotationTree ==
  ASSUME NEW p \in Nat, NEW s \in Nat, NEW l, NEW r, NEW h,
         Tree(l), Tree(r), r # Null
  PROVE  Tree(rotateLeft(Node(p, s, l, r, h))) /\ rotateLeft(Node(p, s, l, r, h)) # Null
<1>1. IsNode(r) /\ Tree(r.left) /\ Tree(r.right) /\ l.height \in Nat
  BY TreeParts DEF Tree
<1>2. PICK j \in Nat, k \in Nat :
        /\ l.height < j /\ r.left.height < j /\ r.right.height < k /\ j < k
        /\ rotateLeft(Node(p, s, l, r, h)) =
             Node(r.pid, r.pcbIndex, Node(p, s, l, r.left, j), r.right, k)
  BY <1>1, LeftRotation
<1>3. Tree(Node(p, s, l, r.left, j)) /\ Node(p, s, l, r.left, j).height = j
  BY <1>1, <1>2, TreeNode, NodeNotNull
<1>4. r.pid \in Nat /\ r.pcbIndex \in Nat
  BY <1>1 DEF IsNode
<1>5. Tree(Node(r.pid, r.pcbIndex, Node(p, s, l, r.left, j), r.right, k))
  BY <1>1, <1>2, <1>3, <1>4, TreeNode
<1> QED BY <1>2, <1>5, NodeNotNull

LEMMA RightRotationTree ==
  ASSUME NEW n, Tree(n.left), n.left # Null
  PROVE  Tree(rotateRight(n)) /\ rotateRight(n) # Null
<1>1. PICK l : l = n.left
  OBVIOUS
<1>2. IsNode(l) /\ Tree(l.left) /\ Tree(l.right)
  BY <1>1, TreeParts
<1>3. PICK k \in Nat :
        /\ l.left.height < k /\ l.right.height < k
        /\ updateHeight(Node(l.pid, l.pcbIndex, l.left, l.right, l.height)) =
             Node(l.pid, l.pcbIndex, l.left, l.right, k)
  BY <1>2, UpdateNode DEF IsNode
<1>4. rotateRight(n) = Node(l.pid, l.pcbIndex, l.left, l.right, k)
  BY <1>1, <1>2, <1>3 DEF rotateRight, IsNode
<1>5. l.pid \in Nat /\ l.pcbIndex \in Nat
  BY <1>2 DEF IsNode
<1> QED BY <1>2, <1>3, <1>4, <1>5, TreeNode, NodeNotNull

\* The rotations are made where there is a child to turn around.
LEMMA RebalancedTree ==
  ASSUME NEW n, Tree(n), n # Null
  PROVE  Tree(Rebalanced(n)) /\ Rebalanced(n) # Null
<1>1. /\ IsNode(n) /\ Tree(n.left) /\ Tree(n.right)
      /\ n.left.height \in Nat /\ n.right.height \in Nat
      /\ n.pid \in Nat /\ n.pcbIndex \in Nat
  BY TreeParts DEF IsNode
<1>2. CASE balanceFactor(n) > 1
  <2>1. n.left # Null
    BY <1>1, <1>2, NullTree DEF balanceFactor
  <2>2. IsNode(n.left) /\ Tree(n.left.left) /\ Tree(n.left.right)
    BY <1>1, <2>1, TreeParts
  <2>3. CASE balanceFactor(n.left) < 0
    <3>1. n.left.right # Null
      BY <2>2, <2>3, NullTree DEF balanceFactor, IsNode
    <3>2. PICK m : m = [n EXCEPT !.left = rotateLeft(n.left)]
      OBVIOUS
    <3>3. m.left = rotateLeft(n.left)
      BY <1>1, <3>2 DEF IsNode, Node
    <3>4. /\ n.left = Node(n.left.pid, n.left.pcbIndex, n.left.left, n.left.right, n.left.height)
          /\ n.left.pid \in Nat /\ n.left.pcbIndex \in Nat
      BY <2>2 DEF IsNode
    <3>5. Tree(m.left) /\ m.left # Null
      BY <2>2, <3>1, <3>3, <3>4, LeftRotationTree
    <3>6. Rebalanced(n) = rotateRight(m)
      BY <1>2, <2>3, <3>2 DEF Rebalanced
    <3> QED BY <3>5, <3>6, RightRotationTree
  <2>4. CASE ~ (balanceFactor(n.left) < 0)
    BY <1>1, <1>2, <2>1, <2>4, RightRotationTree DEF Rebalanced
  <2> QED BY <2>3, <2>4
<1>3. CASE ~ (balanceFactor(n) > 1) /\ balanceFactor(n) < -1
  <2>1. n.right # Null
    BY <1>1, <1>3, NullTree DEF balanceFactor
  <2>2. IsNode(n.right) /\ Tree(n.right.left) /\ Tree(n.right.right)
    BY <1>1, <2>1, TreeParts
  <2>3. CASE balanceFactor(n.right) > 0
    <3>1. n.right.left # Null
      BY <2>2, <2>3, NullTree DEF balanceFactor, IsNode
    <3>2. PICK r : r = rotateRight(n.right)
      OBVIOUS
    <3>3. Tree(r) /\ r # Null
      BY <2>2, <3>1, <3>2, RightRotationTree
    <3>4. [n EXCEPT !.right = r] = Node(n.pid, n.pcbIndex, n.left, r, n.height)
      BY <1>1 DEF IsNode, Node
    <3>5. Rebalanced(n) = rotateLeft(Node(n.pid, n.pcbIndex, n.left, r, n.height))
      BY <1>3, <2>3, <3>2, <3>4 DEF Rebalanced
    <3> QED BY <1>1, <3>3, <3>5, LeftRotationTree
  <2>4. CASE ~ (balanceFactor(n.right) > 0)
    <3>1. Rebalanced(n) = rotateLeft(n)
      BY <1>3, <2>4 DEF Rebalanced
    <3>2. n = Node(n.pid, n.pcbIndex, n.left, n.right, n.height)
      BY <1>1 DEF IsNode
    <3> QED BY <1>1, <2>1, <3>1, <3>2, LeftRotationTree
  <2> QED BY <2>3, <2>4
<1>4. CASE ~ (balanceFactor(n) > 1) /\ ~ (balanceFactor(n) < -1)
  BY <1>4 DEF Rebalanced
<1> QED BY <1>2, <1>3, <1>4

\* A node with its new child.
LEMMA LinkedNode ==
  ASSUME NEW n, IsNode(n), NEW id, NEW c, c.height \in Nat
  PROVE  \E k \in Nat :
           IF id > n.pid
           THEN /\ n.left.height < k /\ c.height < k
                /\ Linked(n, id, c) = Node(n.pid, n.pcbIndex, n.left, c, k)
           ELSE /\ c.height < k /\ n.right.height < k
                /\ Linked(n, id, c) = Node(n.pid, n.pcbIndex, c, n.right, k)
<1>1. /\ n = Node(n.pid, n.pcbIndex, n.left, n.right, n.height)
      /\ n.left.height \in Nat /\ n.right.height \in Nat
  BY DEF IsNode
<1>2. CASE id > n.pid
  <2>1. [n EXCEPT !.right = c] = Node(n.pid, n.pcbIndex, n.left, c, n.height)
    BY <1>1 DEF Node
  <2> QED BY <1>1, <1>2, <2>1, UpdateNode DEF Linked
<1>3. CASE ~ (id > n.pid)
  <2>1. [n EXCEPT !.left = c] = Node(n.pid, n.pcbIndex, c, n.right, n.height)
    BY <1>1 DEF Node
  <2> QED BY <1>1, <1>3, <2>1, UpdateNode DEF Linked
<1> QED BY <1>2, <1>3

-----------------------------------------------------------------------------
(* lookup() and insert(). *)

\* The nested calls run down the tree until they find id or a place for it.
LEMMA PathDown ==
  ASSUME NEW t, Tree(t), NEW id
  PROVE  LET on == Path(t, id)
         IN  /\ on[0] = t
             /\ \A i \in 0 .. t.height :
                  /\ Tree(on[i]) /\ on[i] \in Nodes(t) \cup {Null}
                  /\ i < t.height /\ ~ Found(on[i], id)
                       => on[i + 1] = IF id > on[i].pid THEN on[i].right ELSE on[i].left
                  /\ i < t.height /\ Found(on[i], id) => on[i + 1] = on[i]
             /\ Found(on[t.height], id)
<1> DEFINE on == Path(t, id)
           h == t.height
           D == Nodes(t) \cup {Null}
           S == {i \in 0 .. h : on[i] \in D /\ (Found(on[i], id) \/ on[i].height <= h - i)}
<1>1. h \in Nat
  BY DEF Tree
<1>2. on[0] = t /\ \A i \in 1 .. h : on[i] = Child(on[i - 1], id)
  BY <1>1, PathSteps
<1>3. t \in D
  BY TreeClosed
<1>4. \A n \in D : Tree(n) /\ (n # Null => IsNode(n) /\ n.left \in D /\ n.right \in D)
  <2>1. \A n \in Nodes(t) : t # Null
    BY NullTree
  <2> QED BY <2>1, NodeTree, NullTree, TreeClosed DEF Tree, ClosedSet
<1> HIDE DEF on
<1>5. \A i \in 0 .. h : i < h => on[i + 1] = Child(on[i], id)
  <2> SUFFICES ASSUME NEW i \in 0 .. h, i < h PROVE on[i + 1] = Child(on[i], id)
    OBVIOUS
  <2>1. i + 1 \in 1 .. h /\ (i + 1) - 1 = i
    BY <1>1
  <2> QED BY <1>2, <2>1
<1> HIDE DEF D
<1>6. \A i \in 0 .. h : i \in S
  <2>1. 0 \in S
    BY <1>1, <1>2, <1>3
  <2>2. ASSUME NEW i \in 0 .. h, i < h, i \in S PROVE i + 1 \in S
    <3>1. i + 1 \in 0 .. h /\ i \in Nat
      BY <1>1, <2>2
    <3>2. on[i] \in D /\ on[i + 1] = Child(on[i], id)
      BY <1>5, <2>2
    <3>3. CASE Found(on[i], id)
      BY <3>1, <3>2, <3>3 DEF Child
    <3>4. CASE ~ Found(on[i], id)
      <4>1. on[i] # Null /\ on[i].height <= h - i
        BY <2>2, <3>4 DEF Found
      <4>2. PICK n : n = on[i]
        OBVIOUS
      <4>3. IsNode(n) /\ n.left \in D /\ n.right \in D
        BY <1>4, <3>2, <4>1, <4>2
      <4>4. on[i + 1] \in {n.left, n.right}
        BY <3>2, <3>4, <4>2 DEF Child
      <4>5. on[i + 1] \in D /\ on[i + 1].height <= h - (i + 1)
        BY <1>1, <3>1, <4>1, <4>2, <4>3, <4>4 DEF IsNode
      <4> QED BY <3>1, <4>5
    <3> QED BY <3>3, <3>4
  <2> HIDE DEF S
  <2> QED BY <1>1, <2>1, <2>2, CountUp
<1>7. Found(on[h], id)
  <2>1. on[h] \in D /\ (Found(on[h], id) \/ on[h].height <= h - h)
    BY <1>1, <1>6
  <2>2. on[h] # Null => IsNode(on[h])
    BY <1>4, <2>1
  <2>3. on[h] # Null => ~ (on[h].height <= h - h)
    BY <1>1, <2>2 DEF IsNode
  <2> QED BY <2>1, <2>3 DEF Found
<1>8. \A i \in 0 .. h : on[i] \in D
  BY <1>6
<1> HIDE DEF S
<1> QED BY <1>2, <1>4, <1>5, <1>7, <1>8 DEF on, D, Child

\* insert() returns from the deepest call upwards.
LEMMA InsertsUp ==
  ASSUME NEW t, t.height \in Nat, NEW id, NEW slot, Found(Path(t, id)[t.height], id)
  PROVE  LET on == Path(t, id)
             ret == Inserts(t, id, slot)
         IN  \A i \in 0 .. t.height :
               ret[i] = IF on[i] = Null THEN Node(id, slot, Null, Null, 1)
                        ELSE IF on[i].pid = id THEN [on[i] EXCEPT !.pcbIndex = slot]
                        ELSE Rebalanced(Linked(on[i], id, ret[i + 1]))
<1> DEFINE h == t.height
           on == Path(t, id)
           Ret(i, v) == IF on[i] = Null THEN Node(id, slot, Null, Null, 1)
                        ELSE IF on[i].pid = id THEN [on[i] EXCEPT !.pcbIndex = slot]
                        ELSE Rebalanced(Linked(on[i], id, v))
           Def(m, g) == g = [i \in h - m .. h |-> Ret(i, g[i + 1])]
           S == {m \in 0 .. h : \E g : Def(m, g)}
<1>1. \A u, v : Ret(h, u) = Ret(h, v)
  BY DEF Found
<1> HIDE DEF Ret
<1>2. 0 \in S
  <2> DEFINE g == [i \in h - 0 .. h |-> Ret(h, 0)]
  <2>1. ASSUME NEW i \in h - 0 .. h PROVE g[i] = Ret(i, g[i + 1])
    <3>1. i = h
      OBVIOUS
    <3> QED BY <1>1, <3>1
  <2>2. Def(0, g)
    BY <2>1
  <2>3. 0 \in 0 .. h
    OBVIOUS
  <2> HIDE DEF g, Def
  <2> QED BY <2>2, <2>3
<1>3. ASSUME NEW m \in 0 .. h, m < h, m \in S PROVE m + 1 \in S
  <2>1. PICK f : Def(m, f)
    BY <1>3
  <2> DEFINE k == h - (m + 1)
             g == [i \in k .. h |-> IF i = k THEN Ret(k, f[k + 1]) ELSE f[i]]
  <2>2. m \in Nat /\ m + 1 \in 0 .. h /\ k \in Nat /\ k + 1 = h - m /\ k + 1 \in k .. h
    BY <1>3
  <2>3. ASSUME NEW i \in k .. h PROVE g[i] = Ret(i, g[i + 1])
    <3>1. CASE i = k
      <4>1. g[k] = Ret(k, f[k + 1]) /\ g[k + 1] = f[k + 1]
        BY <2>2
      <4> QED BY <3>1, <4>1
    <3>2. CASE i # k
      <4>1. i \in h - m .. h /\ g[i] = f[i]
        BY <2>2, <3>2
      <4>2. f[i] = Ret(i, f[i + 1])
        BY <2>1, <4>1
      <4>3. CASE i = h
        BY <1>1, <4>1, <4>2, <4>3
      <4>4. CASE i # h
        <5>1. i + 1 \in k .. h /\ i + 1 # k
          BY <2>2, <4>1, <4>4
        <5>2. g[i + 1] = f[i + 1]
          BY <5>1
        <5> QED BY <4>1, <4>2, <5>2
      <4> QED BY <4>3, <4>4
    <3> QED BY <3>1, <3>2
  <2>4. Def(m + 1, g)
    BY <2>3
  <2> HIDE DEF g, Def
  <2> QED BY <2>2, <2>4
<1>4. \E g : Def(h, g)
  <2>1. h \in S
    <3> HIDE DEF S
    <3>1. \A m \in 0 .. h : m \in S
      BY <1>2, <1>3, CountUp
    <3> QED BY <3>1
  <2> QED BY <2>1
<1>5. \E g : g = [i \in 0 .. h |-> Ret(i, g[i + 1])]
  BY <1>4
<1>6. Inserts(t, id, slot) = CHOOSE g : g = [i \in 0 .. h |-> Ret(i, g[i + 1])]
  BY DEF Inserts, Ret
<1>7. Inserts(t, id, slot) = [i \in 0 .. h |-> Ret(i, Inserts(t, id, slot)[i + 1])]
  BY <1>5, <1>6
<1>8. \A i \in 0 .. h : Inserts(t, id, slot)[i] = Ret(i, Inserts(t, id, slot)[i + 1])
  BY <1>7
<1> HIDE DEF S, Def
<1> QED BY <1>8 DEF Ret

\* insert() makes a leaf where there is no node.
LEMMA InsertsLeaf ==
  ASSUME NEW t, Tree(t), NEW id, NEW slot, NEW i \in 0 .. t.height, Path(t, id)[i] = Null
  PROVE  Inserts(t, id, slot)[i] = Node(id, slot, Null, Null, 1)
<1>1. t.height \in Nat /\ Found(Path(t, id)[t.height], id)
  BY PathDown DEF Tree
<1> QED BY <1>1, InsertsUp

\* Each call of insert() returns a tree.
LEMMA InsertTree ==
  ASSUME NEW t, Tree(t), NEW id \in Nat, NEW slot \in Nat
  PROVE  Tree(insert(t, id, slot)) /\ insert(t, id, slot) # Null
<1> DEFINE h == t.height
           on == Path(t, id)
           ret == Inserts(t, id, slot)
           S == {m \in 0 .. h : Tree(ret[h - m]) /\ ret[h - m] # Null}
<1>1. h \in Nat
  BY DEF Tree
<1>2. Found(on[h], id) /\ \A i \in 0 .. h : Tree(on[i])
  BY PathDown
<1>3. \A i \in 0 .. h :
        ret[i] = IF on[i] = Null THEN Node(id, slot, Null, Null, 1)
                 ELSE IF on[i].pid = id THEN [on[i] EXCEPT !.pcbIndex = slot]
                 ELSE Rebalanced(Linked(on[i], id, ret[i + 1]))
  BY <1>1, <1>2, InsertsUp
<1> HIDE DEF on, ret
<1>4. ASSUME NEW i \in 0 .. h, Found(on[i], id) PROVE Tree(ret[i]) /\ ret[i] # Null
  <2>1. CASE on[i] = Null
    <3>1. ret[i] = Node(id, slot, Null, Null, 1)
      BY <1>3, <2>1
    <3> QED BY <3>1, NullTree, TreeNode, NodeNotNull
  <2>2. CASE on[i] # Null
    <3>1. PICK n : n = on[i]
      OBVIOUS
    <3>2. IsNode(n) /\ Tree(n.left) /\ Tree(n.right)
      BY <1>2, <2>2, <3>1, TreeParts
    <3>3. ret[i] = [n EXCEPT !.pcbIndex = slot]
      BY <1>3, <1>4, <2>2, <3>1 DEF Found
    <3>4. [n EXCEPT !.pcbIndex = slot] = Node(n.pid, slot, n.left, n.right, n.height)
      BY <3>2 DEF IsNode, Node
    <3> QED BY <3>2, <3>3, <3>4, TreeNode, NodeNotNull DEF IsNode
  <2> QED BY <2>1, <2>2
<1>5. ASSUME NEW i \in 0 .. h, ~ Found(on[i], id), Tree(ret[i + 1])
      PROVE  Tree(ret[i]) /\ ret[i] # Null
  <2>1. PICK n, c : n = on[i] /\ c = ret[i + 1]
    OBVIOUS
  <2>2. IsNode(n) /\ Tree(n.left) /\ Tree(n.right) /\ Tree(c) /\ c.height \in Nat
    BY <1>2, <1>5, <2>1, TreeParts DEF Found, Tree
  <2>3. n.pid \in Nat /\ n.pcbIndex \in Nat
    BY <2>2 DEF IsNode
  <2>4. Tree(Linked(n, id, c)) /\ Linked(n, id, c) # Null
    <3>1. PICK k \in Nat :
           IF id > n.pid
           THEN /\ n.left.height < k /\ c.height < k
                /\ Linked(n, id, c) = Node(n.pid, n.pcbIndex, n.left, c, k)
           ELSE /\ c.height < k /\ n.right.height < k
                /\ Linked(n, id, c) = Node(n.pid, n.pcbIndex, c, n.right, k)
      BY <2>2, LinkedNode
    <3>2. CASE id > n.pid
      BY <2>2, <2>3, <3>1, <3>2, TreeNode, NodeNotNull
    <3>3. CASE ~ (id > n.pid)
      BY <2>2, <2>3, <3>1, <3>3, TreeNode, NodeNotNull
    <3> QED BY <3>2, <3>3
  <2>5. ret[i] = Rebalanced(Linked(n, id, c))
    BY <1>3, <1>5, <2>1 DEF Found
  <2> QED BY <2>4, <2>5, RebalancedTree
<1>6. \A m \in 0 .. h : m \in S
  <2>1. 0 \in S
    BY <1>1, <1>2, <1>4
  <2>2. ASSUME NEW m \in 0 .. h, m < h, m \in S PROVE m + 1 \in S
    <3>1. /\ m + 1 \in 0 .. h /\ h - (m + 1) \in 0 .. h
          /\ (h - (m + 1)) + 1 = h - m
      BY <1>1, <2>2
    <3> QED BY <1>4, <1>5, <2>2, <3>1
  <2> HIDE DEF S
  <2> QED BY <1>1, <2>1, <2>2, CountUp
<1>7. Tree(ret[0]) /\ ret[0] # Null
  <2>1. h \in S /\ h - h = 0
    BY <1>1, <1>6
  <2> QED BY <2>1
<1> QED BY <1>7 DEF insert, ret

-----------------------------------------------------------------------------
(* delete(). *)

\* The loop of predecessor() goes right to the end.
LEMMA RightmostRounds ==
  ASSUME NEW t, Tree(t), t # Null
  PROVE  \E w : /\ w[0] = t /\ Rightmost(t) = w[t.height] /\ w[t.height].right = Null
                /\ \A i \in 0 .. t.height : w[i] \in Nodes(t)
                /\ \A i \in 0 .. t.height :
                     i < t.height => w[i + 1] = IF w[i].right = Null THEN w[i] ELSE w[i].right
<1> DEFINE h == t.height
           D == Nodes(t)
           Step(n) == IF n.right = Null THEN n ELSE n.right
           F == [n \in D |-> Step(n)]
           w == Rounds(F, t, h)
           S == {i \in 0 .. h : w[i] \in D /\ (w[i].right = Null \/ w[i].height <= h - i)}
<1>1. h \in Nat
  BY DEF Tree
<1>2. Rightmost(t) = w[h]
  BY DEF Rightmost
<1>3. w[0] = t /\ \A i \in 1 .. h : w[i] = F[w[i - 1]]
  BY <1>1, RoundsMade
<1>4. t \in D /\ \A n \in D : IsNode(n) /\ (n.right # Null => n.right \in D)
  BY TreeClosed DEF Tree, ClosedSet
<1> HIDE DEF w
<1>5. \A i \in 0 .. h : i < h /\ w[i] \in D => w[i + 1] = Step(w[i])
  <2> SUFFICES ASSUME NEW i \in 0 .. h, i < h, w[i] \in D PROVE w[i + 1] = Step(w[i])
    OBVIOUS
  <2>1. i + 1 \in 1 .. h /\ (i + 1) - 1 = i
    BY <1>1
  <2>2. w[i + 1] = F[w[i]]
    BY <1>3, <2>1
  <2> QED BY <2>2
<1> HIDE DEF F, D
<1>6. \A i \in 0 .. h : i \in S
  <2>1. 0 \in S
    BY <1>1, <1>3, <1>4
  <2>2. ASSUME NEW i \in 0 .. h, i < h, i \in S PROVE i + 1 \in S
    <3>1. i + 1 \in 0 .. h /\ i \in Nat
      BY <1>1, <2>2
    <3>2. PICK n : n = w[i]
      OBVIOUS
    <3>3. n \in D /\ w[i + 1] = Step(n) /\ IsNode(n) /\ (n.right # Null => n.right \in D)
      BY <1>4, <1>5, <2>2, <3>2
    <3>4. CASE n.right = Null
      BY <3>1, <3>3, <3>4
    <3>5. CASE n.right # Null
      <4>1. n.height <= h - i /\ w[i + 1] = n.right /\ w[i + 1] \in D
        BY <2>2, <3>2, <3>3, <3>5
      <4>2. w[i + 1].height <= h - (i + 1)
        BY <1>1, <3>1, <3>3, <4>1 DEF IsNode
      <4> QED BY <3>1, <4>1, <4>2
    <3> QED BY <3>4, <3>5
  <2> HIDE DEF S
  <2> QED BY <1>1, <2>1, <2>2, CountUp
<1>7. w[h].right = Null
  <2>1. w[h] \in D /\ (w[h].right = Null \/ w[h].height <= h - h)
    BY <1>1, <1>6
  <2>2. w[h].height \in Nat /\ w[h].height > 0
    BY <1>4, <2>1 DEF IsNode
  <2> QED BY <1>1, <2>1, <2>2
<1>8. \A i \in 0 .. h : w[i] \in D
  BY <1>6
<1>9. \A i \in 0 .. h : i < h => w[i + 1] = Step(w[i])
  BY <1>5, <1>8
<1> HIDE DEF S
<1> QED BY <1>2, <1>3, <1>7, <1>8, <1>9 DEF D

LEMMA PredecessorNode ==
  ASSUME NEW n, Tree(n.left), n.left # Null
  PROVE  /\ predecessor(n) \in Nodes(n.left)
         /\ predecessor(n).pid \in Nat /\ predecessor(n).pcbIndex \in Nat
<1>1. n.left.height \in 0 .. n.left.height
  BY DEF Tree
<1>2. predecessor(n) \in Nodes(n.left)
  BY <1>1, RightmostRounds DEF predecessor
<1> QED BY <1>2 DEF Tree, IsNode

\* The call of delete() that ends the descent: for Null, or for a node with the
\* pid and at most one child.
IsLast(n, x) == n = Null \/ (n.pid = x /\ ~ (n.left # Null /\ n.right # Null))

\* The call of delete() that the one on n for x makes.
DeleteNext(n, x) ==
  IF x > n.pid THEN <<n.right, x>>
  ELSE IF x < n.pid THEN <<n.left, x>>
  ELSE <<n.left, predecessor(n).pid>>

\* The nested calls run down the tree.
DeletePath(t, id, on) ==
  /\ on[0] = <<t, id>>
  /\ \A i \in 0 .. t.height :
       Tree(on[i][1]) /\ on[i][1] \in Nodes(t) \cup {Null} /\ on[i][2] \in Nat
  /\ \A i \in 0 .. t.height :
       i < t.height /\ ~ IsLast(on[i][1], on[i][2])
         => on[i + 1] = DeleteNext(on[i][1], on[i][2])
  /\ IsLast(on[t.height][1], on[t.height][2])

LEMMA DeleteCallsDown ==
  ASSUME NEW t, Tree(t), NEW id \in Nat
  PROVE  DeletePath(t, id, DeleteCalls(t, id))
<1> DEFINE h == t.height
           on == DeleteCalls(t, id)
           D == Nodes(t) \cup {Null}
           Ids == {n.pid : n \in Nodes(t)} \cup {id}
           Step(n, x) == IF n = Null THEN <<n, x>>
                         ELSE IF x > n.pid THEN <<n.right, x>>
                         ELSE IF x < n.pid THEN <<n.left, x>>
                         ELSE IF n.left # Null /\ n.right # Null
                         THEN <<n.left, predecessor(n).pid>> ELSE <<n, x>>
           F == [c \in D \X Ids |->
                   LET n == c[1]
                       x == c[2]
                   IN  IF n = Null THEN c
                       ELSE IF x > n.pid THEN <<n.right, x>>
                       ELSE IF x < n.pid THEN <<n.left, x>>
                       ELSE IF n.left # Null /\ n.right # Null
                       THEN <<n.left, predecessor(n).pid>> ELSE c]
           Good(c) == /\ c = <<c[1], c[2]>> /\ c[1] \in D /\ c[2] \in Ids
           S == {i \in 0 .. h : Good(on[i]) /\ (IsLast(on[i][1], on[i][2]) \/ on[i][1].height <= h - i)}
<1>1. h \in Nat
  BY DEF Tree
<1>2. on = Rounds(F, <<t, id>>, h)
  BY DEF DeleteCalls
<1>3. on[0] = <<t, id>> /\ \A i \in 1 .. h : on[i] = F[on[i - 1]]
  <2> HIDE DEF F
  <2>1. PICK c : c = <<t, id>>
    OBVIOUS
  <2> QED BY <1>1, <1>2, <2>1, RoundsMade
<1>4. t \in D
  BY TreeClosed
<1>5. \A n \in D : Tree(n) /\ (n # Null => IsNode(n) /\ n.left \in D /\ n.right \in D
                                          /\ Tree(n.left))
  <2>1. \A n \in Nodes(t) : t # Null
    BY NullTree
  <2> QED BY <2>1, NodeTree, NullTree, TreeClosed, TreeParts DEF Tree, ClosedSet
<1>6. Ids \subseteq Nat /\ id \in Ids /\ \A n \in Nodes(t) : n.pid \in Ids
  BY DEF Tree, IsNode
<1> HIDE DEF on
<1>7. \A n \in D, x \in Ids : F[<<n, x>>] = Step(n, x)
  OBVIOUS
<1> HIDE DEF F
<1>8. \A i \in 0 .. h : i < h /\ Good(on[i]) => on[i + 1] = Step(on[i][1], on[i][2])
  <2> SUFFICES ASSUME NEW i \in 0 .. h, i < h, Good(on[i])
               PROVE  on[i + 1] = Step(on[i][1], on[i][2])
    OBVIOUS
  <2>1. i + 1 \in 1 .. h /\ (i + 1) - 1 = i
    BY <1>1
  <2>2. on[i + 1] = F[on[i]]
    BY <1>3, <2>1
  <2>3. F[on[i]] = Step(on[i][1], on[i][2])
    <3> HIDE DEF Step, D
    <3> QED BY <1>7
  <2> QED BY <2>2, <2>3
<1> HIDE DEF D, Ids
<1>9. ASSUME NEW n \in D, NEW x \in Ids, ~ IsLast(n, x)
      PROVE  /\ Step(n, x) = DeleteNext(n, x)
             /\ Good(Step(n, x)) /\ Step(n, x)[1] \in {n.left, n.right}
  <2>1. n # Null /\ IsNode(n) /\ n.left \in D /\ n.right \in D /\ Tree(n.left)
    BY <1>5, <1>9 DEF IsLast
  <2>2. n.pid \in Nat /\ x \in Nat
    BY <1>6, <2>1 DEF IsNode
  <2>3. CASE x = n.pid
    <3>1. n.left # Null /\ n.right # Null
      BY <1>9, <2>3 DEF IsLast
    <3>2. predecessor(n).pid \in Ids
      <4>1. n.left \in Nodes(t)
        BY <2>1, <3>1 DEF D
      <4> QED BY <1>6, <2>1, <3>1, <4>1, NodeTree, PredecessorNode
    <3>3. Step(n, x) = <<n.left, predecessor(n).pid>>
      BY <2>1, <2>2, <2>3, <3>1
    <3> QED BY <2>1, <2>2, <2>3, <3>2, <3>3 DEF DeleteNext
  <2>4. CASE x # n.pid
    BY <2>1, <2>2, <2>4 DEF DeleteNext
  <2> QED BY <2>3, <2>4
<1>10. ASSUME NEW n \in D, NEW x \in Ids, IsLast(n, x) PROVE Step(n, x) = <<n, x>>
  BY <1>5, <1>10, <1>6 DEF IsLast, IsNode
<1> HIDE DEF Step
<1>11. \A i \in 0 .. h : i \in S
  <2>1. 0 \in S
    BY <1>1, <1>3, <1>4, <1>6
  <2>2. ASSUME NEW i \in 0 .. h, i < h, i \in S PROVE i + 1 \in S
    <3>1. i + 1 \in 0 .. h /\ i \in Nat
      BY <1>1, <2>2
    <3>2. PICK n \in D, x \in Ids : on[i] = <<n, x>>
      BY <2>2
    <3>3. on[i + 1] = Step(n, x)
      BY <1>8, <2>2, <3>2
    <3>4. CASE IsLast(n, x)
      BY <1>10, <3>1, <3>2, <3>3, <3>4
    <3>5. CASE ~ IsLast(n, x)
      <4>1. n.height <= h - i /\ n # Null
        BY <2>2, <3>2, <3>5 DEF IsLast
      <4>2. Good(on[i + 1]) /\ on[i + 1][1] \in {n.left, n.right} /\ IsNode(n)
        BY <1>5, <1>9, <3>3, <3>5, <4>1
      <4>3. on[i + 1][1].height <= h - (i + 1)
        BY <1>1, <3>1, <4>1, <4>2 DEF IsNode
      <4> QED BY <3>1, <4>2, <4>3
    <3> QED BY <3>4, <3>5
  <2> HIDE DEF S
  <2> QED BY <1>1, <2>1, <2>2, CountUp
<1>12. IsLast(on[h][1], on[h][2])
  <2>1. on[h][1] \in D /\ (IsLast(on[h][1], on[h][2]) \/ on[h][1].height <= h - h)
    BY <1>1, <1>11
  <2>2. on[h][1] # Null => ~ (on[h][1].height <= h - h)
    BY <1>1, <1>5, <2>1 DEF IsNode
  <2> QED BY <2>1, <2>2 DEF IsLast
<1>13. \A i \in 0 .. h : Good(on[i])
  BY <1>11
<1> HIDE DEF S
<1>14. \A i \in 0 .. h : Tree(on[i][1]) /\ on[i][1] \in D /\ on[i][2] \in Nat
  BY <1>5, <1>13, <1>6
<1>15. ASSUME NEW i \in 0 .. h, i < h, ~ IsLast(on[i][1], on[i][2])
       PROVE  on[i + 1] = DeleteNext(on[i][1], on[i][2])
  <2>1. PICK n \in D, x \in Ids : on[i] = <<n, x>>
    BY <1>13
  <2>2. on[i + 1] = Step(n, x) /\ on[i][1] = n /\ on[i][2] = x
    BY <1>8, <1>13, <1>15, <2>1
  <2> QED BY <1>9, <1>15, <2>1, <2>2
<1> QED BY <1>3, <1>12, <1>14, <1>15 DEF on, D, DeletePath

\* What a call of delete() on n for x returns if the one it makes returns v.
DeleteReturn(n, x, v) ==
  IF n = Null THEN Null
  ELSE IF x > n.pid THEN [n EXCEPT !.right = v]
  ELSE IF x < n.pid THEN [n EXCEPT !.left = v]
  ELSE IF n.left # Null /\ n.right # Null
  THEN [Replaced(n, predecessor(n)) EXCEPT !.left = v]
  ELSE IF n.left # Null THEN n.left ELSE n.right

\* delete() returns from the deepest call upwards.
LEMMA DeletesUp ==
  ASSUME NEW t, Tree(t), NEW id \in Nat
  PROVE  LET on == DeleteCalls(t, id)
             ret == Deletes(t, id)
         IN  \A i \in 0 .. t.height : ret[i] = DeleteReturn(on[i][1], on[i][2], ret[i + 1])
<1> DEFINE h == t.height
           on == DeleteCalls(t, id)
           Ret(i, v) == DeleteReturn(on[i][1], on[i][2], v)
           Def(m, g) == g = [i \in h - m .. h |-> Ret(i, g[i + 1])]
           S == {m \in 0 .. h : \E g : Def(m, g)}
<1>1. h \in Nat /\ h \in 0 .. h /\ h - h = 0
  BY DEF Tree
<1>2. DeletePath(t, id, on)
  BY DeleteCallsDown
<1> HIDE DEF on
<1>3. IsLast(on[h][1], on[h][2]) /\ Tree(on[h][1]) /\ on[h][2] \in Nat
  BY <1>1, <1>2 DEF DeletePath
<1>4. \A u, v : Ret(h, u) = Ret(h, v)
  <2> SUFFICES ASSUME NEW u, NEW v PROVE Ret(h, u) = Ret(h, v)
    OBVIOUS
  <2>1. PICK n, x : n = on[h][1] /\ x = on[h][2]
    OBVIOUS
  <2>2. IsLast(n, x) /\ (n # Null => IsNode(n)) /\ x \in Nat
    BY <1>3, <2>1, TreeParts
  <2>3. DeleteReturn(n, x, u) = DeleteReturn(n, x, v)
    BY <2>2 DEF IsLast, IsNode, DeleteReturn
  <2> QED BY <2>1, <2>3
<1> HIDE DEF Ret
<1>5. 0 \in S
  <2> DEFINE g == [i \in h - 0 .. h |-> Ret(h, 0)]
  <2>1. ASSUME NEW i \in h - 0 .. h PROVE g[i] = Ret(i, g[i + 1])
    <3>1. i = h
      BY <1>1
    <3> QED BY <1>4, <3>1
  <2>2. Def(0, g)
    BY <2>1
  <2>3. 0 \in 0 .. h
    BY <1>1
  <2> HIDE DEF g, Def
  <2> QED BY <2>2, <2>3
<1>6. ASSUME NEW m \in 0 .. h, m < h, m \in S PROVE m + 1 \in S
  <2>1. PICK f : Def(m, f)
    BY <1>6
  <2> DEFINE k == h - (m + 1)
             g == [i \in k .. h |-> IF i = k THEN Ret(k, f[k + 1]) ELSE f[i]]
  <2>2. m \in Nat /\ m + 1 \in 0 .. h /\ k \in Nat /\ k + 1 = h - m /\ k + 1 \in k .. h
    BY <1>6, <1>1
  <2>3. ASSUME NEW i \in k .. h PROVE g[i] = Ret(i, g[i + 1])
    <3>1. CASE i = k
      <4>1. g[k] = Ret(k, f[k + 1]) /\ g[k + 1] = f[k + 1]
        BY <2>2, <1>1
      <4> QED BY <3>1, <4>1
    <3>2. CASE i # k
      <4>1. i \in h - m .. h /\ g[i] = f[i]
        BY <2>2, <3>2
      <4>2. f[i] = Ret(i, f[i + 1])
        BY <2>1, <4>1
      <4>3. CASE i = h
        BY <1>4, <4>1, <4>2, <4>3
      <4>4. CASE i # h
        <5>1. i + 1 \in k .. h /\ i + 1 # k
          BY <1>1, <2>2, <4>1, <4>4
        <5>2. g[i + 1] = f[i + 1]
          BY <5>1
        <5> QED BY <4>1, <4>2, <5>2
      <4> QED BY <4>3, <4>4
    <3> QED BY <3>1, <3>2
  <2>4. Def(m + 1, g)
    BY <2>3
  <2> HIDE DEF g, Def
  <2> QED BY <2>2, <2>4
<1>7. \E g : Def(h, g)
  <2>1. h \in S
    <3> HIDE DEF S
    <3>1. \A m \in 0 .. h : m \in S
      BY <1>5, <1>6, <1>1, CountUp
    <3> QED BY <1>1, <3>1
  <2> QED BY <2>1
<1>8. \E g : g = [i \in 0 .. h |-> Ret(i, g[i + 1])]
  BY <1>1, <1>7
<1>9. Deletes(t, id) = CHOOSE g : g = [i \in 0 .. h |-> Ret(i, g[i + 1])]
  BY DEF Deletes, Ret, DeleteReturn, on
<1>10. Deletes(t, id) = [i \in 0 .. h |-> Ret(i, Deletes(t, id)[i + 1])]
  BY <1>8, <1>9
<1>11. \A i \in 0 .. h : Deletes(t, id)[i] = Ret(i, Deletes(t, id)[i + 1])
  BY <1>10
<1> HIDE DEF S, Def
<1> QED BY <1>11 DEF Ret, on

\* Each call of delete() returns a tree that is no higher.
LEMMA DeletesTrees ==
  ASSUME NEW t, Tree(t), NEW id \in Nat, NEW i \in 0 .. t.height
  PROVE  /\ Tree(Deletes(t, id)[i])
         /\ Deletes(t, id)[i].height <= DeleteCalls(t, id)[i][1].height
<1> DEFINE h == t.height
           on == DeleteCalls(t, id)
           ret == Deletes(t, id)
           Good(j) == Tree(ret[j]) /\ ret[j].height <= on[j][1].height
           S == {m \in 0 .. h : Good(h - m)}
<1>1. h \in Nat
  BY DEF Tree
<1>2. DeletePath(t, id, on)
  BY DeleteCallsDown
<1>3. \A j \in 0 .. h : ret[j] = DeleteReturn(on[j][1], on[j][2], ret[j + 1])
  BY DeletesUp
<1> HIDE DEF on, ret
<1>4. /\ on[0] = <<t, id>> /\ IsLast(on[h][1], on[h][2])
      /\ \A j \in 0 .. h : Tree(on[j][1]) /\ on[j][2] \in Nat
      /\ \A j \in 0 .. h : j < h /\ ~ IsLast(on[j][1], on[j][2])
                            => on[j + 1] = DeleteNext(on[j][1], on[j][2])
  BY <1>2 DEF DeletePath
<1>5. ASSUME NEW j \in 0 .. h, IsLast(on[j][1], on[j][2]) PROVE Good(j)
  <2>1. PICK n, x, v : n = on[j][1] /\ x = on[j][2] /\ v = ret[j + 1]
    OBVIOUS
  <2>2. IsLast(n, x) /\ Tree(n) /\ x \in Nat
    BY <1>4, <1>5, <2>1
  <2>3. CASE n = Null
    <3>1. ret[j] = Null
      BY <1>3, <2>1, <2>3 DEF DeleteReturn
    <3> QED BY <2>1, <2>3, <3>1, NullTree
  <2>4. CASE n # Null
    <3>1. IsNode(n) /\ Tree(n.left) /\ Tree(n.right)
      BY <2>2, <2>4, TreeParts
    <3>2. DeleteReturn(n, x, v) \in {n.left, n.right}
      BY <2>2, <2>4, <3>1 DEF DeleteReturn, IsLast, IsNode
    <3>3. ret[j] \in {n.left, n.right}
      BY <1>3, <2>1, <3>2
    <3> QED BY <2>1, <3>1, <3>3 DEF IsNode
  <2> QED BY <2>3, <2>4
<1>6. ASSUME NEW j \in 0 .. h, j < h, ~ IsLast(on[j][1], on[j][2]), Good(j + 1) PROVE Good(j)
  <2>1. PICK n, x, v : n = on[j][1] /\ x = on[j][2] /\ v = ret[j + 1]
    OBVIOUS
  <2>2. ~ IsLast(n, x) /\ Tree(n) /\ x \in Nat /\ Tree(v) /\ v.height \in Nat
    BY <1>4, <1>6, <2>1 DEF Tree
  <2>3. IsNode(n) /\ Tree(n.left) /\ Tree(n.right)
    BY <2>2, TreeParts DEF IsLast
  <2>4. ret[j] = DeleteReturn(n, x, v)
    BY <1>3, <2>1
  <2>5. on[j + 1] = IF x > n.pid THEN <<n.right, x>>
                    ELSE IF x < n.pid THEN <<n.left, x>>
                    ELSE <<n.left, predecessor(n).pid>>
    BY <1>4, <1>6, <2>1 DEF DeleteNext
  <2>6. v.height <= on[j + 1][1].height
    BY <1>6, <2>1
  <2>7. n.pid \in Nat /\ x \in Nat /\ n.pid \in Nat /\ n.pcbIndex \in Nat /\ n.height \in Nat
    BY <2>2, <2>3 DEF IsNode
  <2>8. CASE x > n.pid
    <3>1. v.height < n.height
      BY <2>2, <2>3, <2>5, <2>6, <2>8 DEF IsNode
    <3>2. DeleteReturn(n, x, v) = Node(n.pid, n.pcbIndex, n.left, v, n.height)
      BY <2>2, <2>3, <2>8 DEF DeleteReturn, IsNode, IsLast, Node
    <3>3. Tree(Node(n.pid, n.pcbIndex, n.left, v, n.height))
      BY <2>2, <2>3, <2>7, <3>1, TreeNode DEF IsNode
    <3> QED BY <2>1, <2>4, <2>7, <3>2, <3>3, NodeNotNull
  <2>9. CASE x < n.pid
    <3>1. v.height < n.height
      BY <2>2, <2>3, <2>5, <2>6, <2>7, <2>9 DEF IsNode
    <3>2. DeleteReturn(n, x, v) = Node(n.pid, n.pcbIndex, v, n.right, n.height)
      BY <2>2, <2>3, <2>7, <2>9 DEF DeleteReturn, IsNode, IsLast, Node
    <3>3. Tree(Node(n.pid, n.pcbIndex, v, n.right, n.height))
      BY <2>2, <2>3, <2>7, <3>1, TreeNode DEF IsNode
    <3> QED BY <2>1, <2>4, <2>7, <3>2, <3>3, NodeNotNull
  <2>10. CASE x = n.pid
    <3>1. n.left # Null /\ n.right # Null
      BY <2>2, <2>10 DEF IsLast
    <3>2. v.height < n.height
      BY <2>2, <2>3, <2>5, <2>6, <2>7, <2>10 DEF IsNode
    <3>3. PICK q : q = predecessor(n) /\ q.pid \in Nat /\ q.pcbIndex \in Nat
      BY <2>3, <3>1, PredecessorNode
    <3>4. DeleteReturn(n, x, v) = Node(q.pid, q.pcbIndex, v, n.right, n.height)
      <4>1. DeleteReturn(n, x, v) = [Replaced(n, q) EXCEPT !.left = v]
        BY <2>2, <2>7, <2>10, <3>1, <3>3 DEF DeleteReturn, IsLast
      <4> QED BY <2>3, <4>1 DEF Replaced, IsNode, Node
    <3>5. Tree(Node(q.pid, q.pcbIndex, v, n.right, n.height))
      BY <2>2, <2>3, <2>7, <3>2, <3>3, TreeNode DEF IsNode
    <3> QED BY <2>1, <2>4, <2>7, <3>4, <3>5, NodeNotNull
  <2> QED BY <2>7, <2>8, <2>9, <2>10
<1> HIDE DEF Good
<1>7. \A m \in 0 .. h : m \in S
  <2>1. 0 \in S
    BY <1>1, <1>4, <1>5
  <2>2. ASSUME NEW m \in 0 .. h, m < h, m \in S PROVE m + 1 \in S
    <3>1. /\ m + 1 \in 0 .. h /\ h - (m + 1) \in 0 .. h /\ h - (m + 1) < h
          /\ (h - (m + 1)) + 1 = h - m
      BY <1>1, <2>2
    <3> QED BY <1>5, <1>6, <2>2, <3>1
  <2> HIDE DEF S
  <2> QED BY <1>1, <2>1, <2>2, CountUp
<1>8. Good(i)
  <2>1. h - i \in 0 .. h /\ h - (h - i) = i
    BY <1>1
  <2>2. h - i \in S
    BY <1>7, <2>1
  <2> QED BY <2>1, <2>2
<1> QED BY <1>8 DEF Good, on, ret

LEMMA DeleteTree ==
  ASSUME NEW t, Tree(t), NEW id \in Nat
  PROVE  Tree(delete(t, id))
<1>1. 0 \in 0 .. t.height
  BY DEF Tree
<1> QED BY <1>1, DeletesTrees DEF delete

-----------------------------------------------------------------------------
(* Search trees, and the map that they stand for. *)

Before(E, p) == \A e \in E : e[1] < p
After(E, p)  == \A e \in E : e[1] > p

\* Each node has smaller pids on the left and larger ones on the right.
Sorted(t) ==
  \A n \in Nodes(t) : Before(Entries(n.left), n.pid) /\ After(Entries(n.right), n.pid)

\* t is a search tree for the map E.
IsMap(t, E) == Tree(t) /\ Sorted(t) /\ E = Entries(t)

LEMMA MapNull == IsMap(Null, {})
BY NullTree DEF IsMap, Sorted, Entries

LEMMA EntriesTyped ==
  ASSUME NEW t, Tree(t)
  PROVE  Entries(t) \subseteq Nat \X Nat
BY DEF Tree, Entries, IsNode

\* A map is put together from those of the subtrees and the root's entry.
LEMMA MapParts ==
  ASSUME NEW t, NEW E, IsMap(t, E), t # Null
  PROVE  /\ IsNode(t)
         /\ IsMap(t.left, Entries(t.left)) /\ IsMap(t.right, Entries(t.right))
         /\ E = Entries(t.left) \cup Entries(t.right) \cup {<<t.pid, t.pcbIndex>>}
         /\ Before(Entries(t.left), t.pid) /\ After(Entries(t.right), t.pid)
<1>1. /\ IsNode(t) /\ Tree(t.left) /\ Tree(t.right)
      /\ Nodes(t) = {t} \cup Nodes(t.left) \cup Nodes(t.right)
  BY TreeParts DEF IsMap
<1>2. Sorted(t.left) /\ Sorted(t.right)
  BY <1>1 DEF IsMap, Sorted
<1>3. E = Entries(t.left) \cup Entries(t.right) \cup {<<t.pid, t.pcbIndex>>}
  BY <1>1 DEF IsMap, Entries
<1>4. Before(Entries(t.left), t.pid) /\ After(Entries(t.right), t.pid)
  BY <1>1 DEF IsMap, Sorted
<1> QED BY <1>1, <1>2, <1>3, <1>4 DEF IsMap

LEMMA MapNode ==
  ASSUME NEW p \in Nat, NEW s \in Nat, NEW l, NEW r, NEW h \in Nat, NEW A, NEW B,
         IsMap(l, A), IsMap(r, B), l.height < h, r.height < h, Before(A, p), After(B, p)
  PROVE  IsMap(Node(p, s, l, r, h), A \cup B \cup {<<p, s>>})
<1>1. PICK n : n = Node(p, s, l, r, h)
  OBVIOUS
<1>2. Tree(n) /\ Nodes(n) = {n} \cup Nodes(l) \cup Nodes(r)
  BY <1>1, TreeNode DEF IsMap
<1>3. n.pid = p /\ n.pcbIndex = s /\ n.left = l /\ n.right = r
  BY <1>1, NodeNotNull
<1>4. Sorted(n)
  BY <1>2, <1>3 DEF IsMap, Sorted
<1>5. Entries(n) = A \cup B \cup {<<p, s>>}
  BY <1>2, <1>3 DEF IsMap, Entries
<1> QED BY <1>1, <1>2, <1>4, <1>5 DEF IsMap

\* The map of a node is a part of the map of its tree.
LEMMA NodeMap ==
  ASSUME NEW t, NEW E, IsMap(t, E), NEW n \in Nodes(t) \cup {Null}
  PROVE  IsMap(n, Entries(n)) /\ Entries(n) \subseteq E
<1>1. CASE n = Null
  BY <1>1, MapNull, NullTree DEF Entries
<1>2. CASE n \in Nodes(t)
  <2>1. Tree(n) /\ Nodes(n) \subseteq Nodes(t)
    BY <1>2, NodeTree DEF IsMap
  <2> QED BY <2>1 DEF IsMap, Sorted, Entries
<1> QED BY <1>1, <1>2

\* lookup() finds what the map holds.
LEMMA LookupMap ==
  ASSUME NEW t, NEW E, IsMap(t, E), NEW id \in Nat
  PROVE  /\ \A s : <<id, s>> \in E => lookup(t, id) = s
         /\ (\A e \in E : e[1] # id) => lookup(t, id) = NoProc
<1> DEFINE h == t.height
           on == Path(t, id)
           T == {s \in Nat : <<id, s>> \in E}
           S == {i \in 0 .. h : \A s \in T : <<id, s>> \in Entries(on[i])}
<1>1. Tree(t) /\ h \in Nat
  BY DEF IsMap, Tree
<1>2. /\ on[0] = t
      /\ \A i \in 0 .. h :
           /\ on[i] \in Nodes(t) \cup {Null}
           /\ i < h /\ ~ Found(on[i], id)
                => on[i + 1] = IF id > on[i].pid THEN on[i].right ELSE on[i].left
           /\ i < h /\ Found(on[i], id) => on[i + 1] = on[i]
      /\ Found(on[h], id)
  BY <1>1, PathDown
<1>3. lookup(t, id) = IF on[h] = Null THEN NoProc ELSE on[h].pcbIndex
  BY DEF lookup
<1> HIDE DEF on
<1>4. id \in Nat
  OBVIOUS
<1>5. \A i \in 0 .. h : i \in S
  <2>1. 0 \in S
    BY <1>1, <1>2 DEF IsMap
  <2>2. ASSUME NEW i \in 0 .. h, i < h, i \in S PROVE i + 1 \in S
    <3>1. i + 1 \in 0 .. h
      BY <1>1, <2>2
    <3>2. CASE Found(on[i], id)
      BY <1>2, <2>2, <3>1, <3>2
    <3>3. CASE ~ Found(on[i], id)
      <4>1. PICK n : n = on[i]
        OBVIOUS
      <4>2. n \in Nodes(t) \cup {Null} /\ n # Null /\ id # n.pid
        BY <1>2, <3>3, <4>1 DEF Found
      <4>3. IsMap(n, Entries(n))
        BY <4>2, NodeMap
      <4>4. /\ Entries(n) = Entries(n.left) \cup Entries(n.right) \cup {<<n.pid, n.pcbIndex>>}
            /\ Before(Entries(n.left), n.pid) /\ After(Entries(n.right), n.pid)
            /\ n.pid \in Nat
        BY <4>2, <4>3, MapParts DEF IsNode
      <4>5. on[i + 1] = IF id > n.pid THEN n.right ELSE n.left
        BY <1>2, <2>2, <3>3, <4>1
      <4>6. ASSUME NEW s \in T PROVE <<id, s>> \in Entries(on[i + 1])
        <5>1. <<id, s>> \in Entries(n) /\ <<id, s>> # <<n.pid, n.pcbIndex>>
          BY <2>2, <4>1, <4>2
        <5>2. PICK e : e = <<id, s>> /\ e[1] = id
          OBVIOUS
        <5> QED BY <1>4, <4>4, <4>5, <5>1, <5>2 DEF Before, After
      <4> QED BY <3>1, <4>6
    <3> QED BY <3>2, <3>3
  <2> HIDE DEF S
  <2> QED BY <1>1, <2>1, <2>2, CountUp
<1>6. \A s \in T : <<id, s>> \in Entries(on[h])
  BY <1>1, <1>5
<1>7. \A s : <<id, s>> \in E => s \in T
  BY <1>1, EntriesTyped DEF IsMap
<1> HIDE DEF S
<1>8. CASE on[h] = Null
  <2>1. Entries(on[h]) = {}
    BY <1>8, NullTree DEF Entries
  <2> QED BY <1>3, <1>6, <1>7, <1>8, <2>1
<1>9. CASE on[h] # Null
  <2>1. PICK n : n = on[h]
    OBVIOUS
  <2>2. n \in Nodes(t) /\ n.pid = id /\ lookup(t, id) = n.pcbIndex
    BY <1>1, <1>2, <1>3, <1>9, <2>1 DEF Found
  <2>3. <<id, n.pcbIndex>> \in E
    BY <2>2 DEF IsMap, Entries
  <2>4. IsMap(n, Entries(n))
    BY <2>2, NodeMap
  <2>5. /\ Entries(n) = Entries(n.left) \cup Entries(n.right) \cup {<<n.pid, n.pcbIndex>>}
        /\ Before(Entries(n.left), n.pid) /\ After(Entries(n.right), n.pid)
    BY <1>9, <2>1, <2>4, MapParts
  <2>6. ASSUME NEW s \in T PROVE s = n.pcbIndex
    <3>1. <<id, s>> \in Entries(n)
      BY <1>6, <2>1
    <3>2. PICK e : e = <<id, s>> /\ e[1] = id /\ e[2] = s
      OBVIOUS
    <3>3. e = <<n.pid, n.pcbIndex>>
      BY <1>4, <2>2, <2>5, <3>1, <3>2 DEF Before, After
    <3> QED BY <3>2, <3>3
  <2>7. PICK e : e = <<id, n.pcbIndex>> /\ e[1] = id /\ e \in E
    BY <2>3
  <2> QED BY <1>7, <2>2, <2>6, <2>7
<1> QED BY <1>8, <1>9

\* A pid has one slot.
LEMMA MapUnique ==
  ASSUME NEW t, NEW E, IsMap(t, E), NEW e \in E, NEW f \in E, e[1] = f[1]
  PROVE  e = f
<1>1. /\ e = <<e[1], e[2]>> /\ f = <<f[1], f[2]>> /\ e[1] \in Nat
  BY EntriesTyped DEF IsMap
<1>2. lookup(t, e[1]) = e[2] /\ lookup(t, e[1]) = f[2]
  BY <1>1, LookupMap
<1> QED BY <1>1, <1>2

-----------------------------------------------------------------------------
(* insert() without right rotations. *)

LEMMA LeftRotationMap ==
  ASSUME NEW n, NEW E, IsMap(n, E), n # Null, n.right # Null
  PROVE  IsMap(rotateLeft(n), E)
<1>1. /\ IsNode(n)
      /\ IsMap(n.left, Entries(n.left)) /\ IsMap(n.right, Entries(n.right))
      /\ E = Entries(n.left) \cup Entries(n.right) \cup {<<n.pid, n.pcbIndex>>}
      /\ Before(Entries(n.left), n.pid) /\ After(Entries(n.right), n.pid)
  BY MapParts
<1>2. PICK r, A : r = n.right /\ A = Entries(n.left)
  OBVIOUS
<1>3. /\ IsNode(r)
      /\ IsMap(r.left, Entries(r.left)) /\ IsMap(r.right, Entries(r.right))
      /\ Entries(r) = Entries(r.left) \cup Entries(r.right) \cup {<<r.pid, r.pcbIndex>>}
      /\ Before(Entries(r.left), r.pid) /\ After(Entries(r.right), r.pid)
  BY <1>1, <1>2, MapParts
<1>4. PICK B, C : B = Entries(r.left) /\ C = Entries(r.right)
  OBVIOUS
<1>5. /\ n.pid \in Nat /\ n.pcbIndex \in Nat /\ r.pid \in Nat /\ r.pcbIndex \in Nat
      /\ n.pid \in Nat /\ r.pid \in Nat /\ n.left.height \in Nat
      /\ n = Node(n.pid, n.pcbIndex, n.left, r, n.height)
  BY <1>1, <1>2, <1>3 DEF IsNode
<1>6. PICK j \in Nat, k \in Nat :
        /\ n.left.height < j /\ r.left.height < j /\ r.right.height < k /\ j < k
        /\ rotateLeft(n) =
             Node(r.pid, r.pcbIndex, Node(n.pid, n.pcbIndex, n.left, r.left, j), r.right, k)
  BY <1>3, <1>5, LeftRotation
<1>7. n.pid < r.pid /\ After(B, n.pid)
  <2>1. PICK e : e = <<r.pid, r.pcbIndex>> /\ e[1] = r.pid /\ e \in Entries(r)
    BY <1>3
  <2>2. n.pid < r.pid
    BY <1>1, <1>2, <1>5, <2>1 DEF After
  <2> QED BY <1>1, <1>2, <1>3, <1>4, <2>2 DEF After
<1>8. PICK m : m = Node(n.pid, n.pcbIndex, n.left, r.left, j) /\ m.height = j
  BY NodeNotNull
<1>9. IsMap(m, A \cup B \cup {<<n.pid, n.pcbIndex>>})
  BY <1>1, <1>2, <1>3, <1>4, <1>5, <1>6, <1>7, <1>8, MapNode
<1>10. Before(A \cup B \cup {<<n.pid, n.pcbIndex>>}, r.pid)
  <2>1. A \subseteq Nat \X Nat /\ \A e \in Nat \X Nat : e[1] \in Nat
    BY <1>1, <1>2, EntriesTyped DEF IsMap
  <2>2. Before(A, r.pid)
    BY <1>1, <1>2, <1>5, <1>7, <2>1 DEF Before
  <2> QED BY <1>3, <1>4, <1>7, <2>2 DEF Before
<1>11. IsMap(Node(r.pid, r.pcbIndex, m, r.right, k),
             (A \cup B \cup {<<n.pid, n.pcbIndex>>}) \cup C \cup {<<r.pid, r.pcbIndex>>})
  BY <1>3, <1>4, <1>5, <1>6, <1>8, <1>9, <1>10, MapNode
<1>12. E = (A \cup B \cup {<<n.pid, n.pcbIndex>>}) \cup C \cup {<<r.pid, r.pcbIndex>>}
  BY <1>1, <1>2, <1>3, <1>4
<1> QED BY <1>6, <1>8, <1>11, <1>12

LEMMA RightRotationMap ==
  ASSUME NEW n, NEW A, IsMap(n.left, A), n.left # Null
  PROVE  IsMap(rotateRight(n), A)
<1>1. PICK l : l = n.left
  OBVIOUS
<1>2. /\ IsNode(l)
      /\ IsMap(l.left, Entries(l.left)) /\ IsMap(l.right, Entries(l.right))
      /\ A = Entries(l.left) \cup Entries(l.right) \cup {<<l.pid, l.pcbIndex>>}
      /\ Before(Entries(l.left), l.pid) /\ After(Entries(l.right), l.pid)
  BY <1>1, MapParts
<1>3. PICK k \in Nat :
        /\ l.left.height < k /\ l.right.height < k
        /\ updateHeight(Node(l.pid, l.pcbIndex, l.left, l.right, l.height)) =
             Node(l.pid, l.pcbIndex, l.left, l.right, k)
  BY <1>2, UpdateNode DEF IsNode
<1>4. rotateRight(n) = Node(l.pid, l.pcbIndex, l.left, l.right, k)
  BY <1>1, <1>2, <1>3 DEF rotateRight, IsNode
<1>5. l.pid \in Nat /\ l.pcbIndex \in Nat
  BY <1>2 DEF IsNode
<1> QED BY <1>2, <1>3, <1>4, <1>5, MapNode

\* A left rotation sets the heights anew.
LEMMA LeftRotationHeights ==
  ASSUME NEW p, NEW s, NEW l, NEW r, NEW h, NEW k
  PROVE  rotateLeft(Node(p, s, l, r, h)) = rotateLeft(Node(p, s, l, r, k))
<1>1. PICK m : m = Max({l.height, r.left.height})
  OBVIOUS
<1>2. ASSUME NEW j
      PROVE  updateHeight([Node(p, s, l, r, j) EXCEPT !.right = r.left]) =
               Node(p, s, l, r.left, m + 1)
  <2>1. PICK q : q = r.left
    OBVIOUS
  <2>2. PICK x : x = Node(p, s, l, q, j)
    OBVIOUS
  <2>3. [Node(p, s, l, r, j) EXCEPT !.right = q] = x
    BY <2>2 DEF Node
  <2>4. x.left = l /\ x.right = q
    BY <2>2 DEF Node
  <2>5. updateHeight(x) = [x EXCEPT !.height = m + 1]
    BY <1>1, <2>1, <2>4 DEF updateHeight
  <2>6. [x EXCEPT !.height = m + 1] = Node(p, s, l, q, m + 1)
    BY <2>2 DEF Node
  <2> QED BY <2>1, <2>3, <2>5, <2>6
<1>3. ASSUME NEW j
      PROVE  Node(p, s, l, r, j).right = r
  BY DEF Node
<1> QED BY <1>2, <1>3 DEF rotateLeft

\* The end of insert() keeps the map, or a part of it if it takes a right
\* rotation.
LEMMA RebalancedMap ==
  ASSUME NEW n, NEW E, IsMap(n, E), n # Null
  PROVE  \E G \in SUBSET E : IsMap(Rebalanced(n), G) /\ (~ TurnsRight(n) => G = E)
<1>1. PICK A, B : A = Entries(n.left) /\ B = Entries(n.right)
  OBVIOUS
<1>2. /\ IsNode(n) /\ IsMap(n.left, A) /\ IsMap(n.right, B)
      /\ E = A \cup B \cup {<<n.pid, n.pcbIndex>>}
      /\ Before(A, n.pid) /\ After(B, n.pid)
  BY <1>1, MapParts
<1>3. /\ n.pid \in Nat /\ n.pcbIndex \in Nat
      /\ n.left.height \in Nat /\ n.right.height \in Nat
      /\ n = Node(n.pid, n.pcbIndex, n.left, n.right, n.height)
  BY <1>2 DEF IsNode
<1>4. CASE balanceFactor(n) > 1
  <2>1. n.left # Null
    BY <1>3, <1>4, NullTree DEF balanceFactor
  <2>2. CASE balanceFactor(n.left) < 0
    <3>1. n.left.right # Null
      BY <1>2, <2>1, <2>2, MapParts, NullTree DEF balanceFactor, IsNode
    <3>2. PICK m : m = [n EXCEPT !.left = rotateLeft(n.left)]
      OBVIOUS
    <3>3. m.left = rotateLeft(n.left)
      BY <1>3, <3>2 DEF Node
    <3>4. IsMap(m.left, A) /\ m.left # Null
      <4>1. IsMap(m.left, A)
        BY <1>2, <2>1, <3>1, <3>3, LeftRotationMap
      <4>2. A # {}
        BY <1>2, <2>1, MapParts
      <4> QED BY <4>1, <4>2, NullTree DEF IsMap, Entries
    <3>5. Rebalanced(n) = rotateRight(m)
      BY <1>4, <2>2, <3>2 DEF Rebalanced
    <3>6. IsMap(Rebalanced(n), A)
      BY <3>4, <3>5, RightRotationMap
    <3> QED BY <1>2, <1>4, <3>6 DEF TurnsRight
  <2>3. CASE ~ (balanceFactor(n.left) < 0)
    <3>1. IsMap(Rebalanced(n), A)
      BY <1>2, <1>4, <2>1, <2>3, RightRotationMap DEF Rebalanced
    <3> QED BY <1>2, <1>4, <3>1 DEF TurnsRight
  <2> QED BY <2>2, <2>3
<1>5. CASE ~ (balanceFactor(n) > 1) /\ balanceFactor(n) < -1
  <2>1. n.right # Null
    BY <1>3, <1>5, NullTree DEF balanceFactor
  <2>2. CASE balanceFactor(n.right) > 0
    <3>1. PICK r, C : r = rotateRight(n.right) /\ C = Entries(n.right.left)
      OBVIOUS
    <3>2. n.right.left # Null
      BY <1>2, <2>1, <2>2, MapParts, NullTree DEF balanceFactor, IsNode
    <3>3. IsMap(r, C) /\ C \subseteq B /\ C # {}
      <4>1. IsMap(n.right.left, C) /\ C \subseteq B
        BY <1>2, <2>1, <3>1, MapParts
      <4>2. C # {}
        BY <3>2, <4>1, MapParts
      <4> QED BY <3>1, <3>2, <4>1, <4>2, RightRotationMap
    <3>4. r # Null /\ r.height \in Nat
      BY <3>3, NullTree DEF IsMap, Entries, Tree
    <3>5. PICK k \in Nat : n.left.height < k /\ r.height < k
      <4>1. \/ n.left.height < r.height + 1 /\ r.height < r.height + 1
            \/ n.left.height < n.left.height + 1 /\ r.height < n.left.height + 1
        BY <1>3, <3>4
      <4> QED BY <1>3, <3>4, <4>1
    <3>6. PICK m : m = Node(n.pid, n.pcbIndex, n.left, r, k)
      OBVIOUS
    <3>7. After(C, n.pid)
      BY <1>2, <3>3 DEF After
    <3>8. IsMap(m, A \cup C \cup {<<n.pid, n.pcbIndex>>})
      BY <1>2, <1>3, <3>3, <3>5, <3>6, <3>7, MapNode
    <3>9. IsMap(rotateLeft(m), A \cup C \cup {<<n.pid, n.pcbIndex>>})
      BY <3>4, <3>6, <3>8, NodeNotNull, LeftRotationMap
    <3>10. [n EXCEPT !.right = r] = Node(n.pid, n.pcbIndex, n.left, r, n.height)
      BY <1>3 DEF Node
    <3>11. Rebalanced(n) = rotateLeft(Node(n.pid, n.pcbIndex, n.left, r, n.height))
      BY <1>5, <2>2, <3>1, <3>10 DEF Rebalanced
    <3>12. Rebalanced(n) = rotateLeft(m)
      BY <3>6, <3>11, LeftRotationHeights
    <3>13. TurnsRight(n)
      BY <1>5, <2>2 DEF TurnsRight
    <3> QED BY <1>2, <3>3, <3>9, <3>12, <3>13
  <2>3. CASE ~ (balanceFactor(n.right) > 0)
    <3>1. Rebalanced(n) = rotateLeft(n)
      BY <1>5, <2>3 DEF Rebalanced
    <3>2. IsMap(Rebalanced(n), E)
      BY <2>1, <3>1, LeftRotationMap
    <3> QED BY <3>2
  <2> QED BY <2>2, <2>3
<1>6. CASE ~ (balanceFactor(n) > 1) /\ ~ (balanceFactor(n) < -1)
  <2>1. IsMap(Rebalanced(n), E)
    BY <1>6 DEF Rebalanced
  <2> QED BY <2>1
<1> QED BY <1>4, <1>5, <1>6

\* A new pid gets its entry, and no other is lost without a right rotation.
LEMMA InsertMap ==
  ASSUME NEW t, NEW E, IsMap(t, E), NEW id \in Nat, NEW slot \in Nat,
         \A e \in E : e[1] # id
  PROVE  \E G \in SUBSET (E \cup {<<id, slot>>}) :
           /\ IsMap(insert(t, id, slot), G)
           /\ InsertsLeftOnly(t, id, slot) => G = E \cup {<<id, slot>>}
<1> DEFINE h == t.height
           on == Path(t, id)
           ret == Inserts(t, id, slot)
           new == {<<id, slot>>}
           Left == InsertsLeftOnly(t, id, slot)
           Good(i) == \E G \in SUBSET (Entries(on[i]) \cup new) :
                        /\ IsMap(ret[i], G)
                        /\ Left => G = Entries(on[i]) \cup new
           S == {m \in 0 .. h : Good(h - m)}
<1>1. Tree(t) /\ h \in Nat /\ id \in Nat
  BY DEF IsMap, Tree
<1>2. /\ on[0] = t /\ Found(on[h], id)
      /\ \A i \in 0 .. h :
           /\ on[i] \in Nodes(t) \cup {Null}
           /\ i < h /\ ~ Found(on[i], id)
                => on[i + 1] = IF id > on[i].pid THEN on[i].right ELSE on[i].left
  BY <1>1, PathDown
<1>3. \A i \in 0 .. h :
        ret[i] = IF on[i] = Null THEN Node(id, slot, Null, Null, 1)
                 ELSE IF on[i].pid = id THEN [on[i] EXCEPT !.pcbIndex = slot]
                 ELSE Rebalanced(Linked(on[i], id, ret[i + 1]))
  BY <1>1, <1>2, InsertsUp
<1>4. Left => \A i \in 0 .. h :
        ~ Found(on[i], id) => ~ TurnsRight(Linked(on[i], id, ret[i + 1]))
  BY DEF InsertsLeftOnly
<1> HIDE DEF on, ret, Left
<1>5. ASSUME NEW i \in 0 .. h, Found(on[i], id) PROVE Good(i)
  <2>1. PICK n : n = on[i]
    OBVIOUS
  <2>2. IsMap(n, Entries(n)) /\ Entries(n) \subseteq E
    BY <1>2, <2>1, NodeMap
  <2>3. n = Null
    <3> SUFFICES ASSUME n # Null PROVE FALSE
      OBVIOUS
    <3>1. n.pid = id /\ <<n.pid, n.pcbIndex>> \in E
      BY <1>5, <2>1, <2>2, MapParts DEF Found
    <3>2. PICK e : e = <<n.pid, n.pcbIndex>> /\ e[1] = id
      BY <3>1
    <3> QED BY <3>1, <3>2
  <2>4. ret[i] = Node(id, slot, Null, Null, 1)
    BY <1>3, <2>1, <2>3
  <2>5. IsMap(Node(id, slot, Null, Null, 1), {} \cup {} \cup new)
    BY MapNull, NullTree, MapNode DEF Before, After
  <2>6. Entries(n) = {}
    BY <2>3, NullTree DEF Entries
  <2>7. IsMap(ret[i], Entries(on[i]) \cup new)
    BY <2>1, <2>4, <2>5, <2>6
  <2> QED BY <2>7
<1>6. ASSUME NEW i \in 0 .. h, i < h, ~ Found(on[i], id), Good(i + 1) PROVE Good(i)
  <2>1. PICK n, c : n = on[i] /\ c = ret[i + 1]
    OBVIOUS
  <2>2. n # Null /\ n.pid # id /\ IsMap(n, Entries(n))
    BY <1>2, <1>6, <2>1, NodeMap DEF Found
  <2>3. PICK A, B : A = Entries(n.left) /\ B = Entries(n.right)
    OBVIOUS
  <2>4. /\ IsNode(n) /\ IsMap(n.left, A) /\ IsMap(n.right, B)
        /\ Entries(n) = A \cup B \cup {<<n.pid, n.pcbIndex>>}
        /\ Before(A, n.pid) /\ After(B, n.pid)
    BY <2>2, <2>3, MapParts
  <2>5. /\ n.pid \in Nat /\ n.pcbIndex \in Nat /\ n.pid \in Nat
        /\ \A e \in A \cup B : e[1] \in Nat
    BY <2>4, EntriesTyped DEF IsNode, IsMap
  <2>6. on[i + 1] = IF id > n.pid THEN n.right ELSE n.left
    BY <1>2, <1>6, <2>1
  <2>7. PICK G \in SUBSET (Entries(on[i + 1]) \cup new) :
          IsMap(c, G) /\ (Left => G = Entries(on[i + 1]) \cup new)
    BY <1>6, <2>1
  <2>8. c.height \in Nat
    BY <2>7 DEF IsMap, Tree
  <2>9. PICK m : m = Linked(n, id, c)
    OBVIOUS
  <2>10. PICK H \in SUBSET (Entries(n) \cup new) :
           m # Null /\ IsMap(m, H) /\ (Left => H = Entries(n) \cup new)
    <3>1. PICK k \in Nat :
           IF id > n.pid
           THEN /\ n.left.height < k /\ c.height < k
                /\ m = Node(n.pid, n.pcbIndex, n.left, c, k)
           ELSE /\ c.height < k /\ n.right.height < k
                /\ m = Node(n.pid, n.pcbIndex, c, n.right, k)
      BY <2>4, <2>8, <2>9, LinkedNode
    <3>2. CASE id > n.pid
      <4>1. G \subseteq B \cup new /\ (Left => G = B \cup new)
        BY <2>3, <2>6, <2>7, <3>2
      <4>2. After(G, n.pid)
        BY <2>4, <3>2, <4>1 DEF After
      <4>3. IsMap(m, A \cup G \cup {<<n.pid, n.pcbIndex>>})
        BY <2>4, <2>5, <2>7, <3>1, <3>2, <4>2, MapNode
      <4>4. m # Null
        <5>1. m = Node(n.pid, n.pcbIndex, n.left, c, k)
          BY <3>1, <3>2
        <5> QED BY <5>1, NodeNotNull
      <4>5. PICK H : H = A \cup G \cup {<<n.pid, n.pcbIndex>>}
        OBVIOUS
      <4>6. H \subseteq Entries(n) \cup new /\ (Left => H = Entries(n) \cup new)
        BY <2>4, <4>1, <4>5
      <4> QED BY <4>3, <4>4, <4>5, <4>6
    <3>3. CASE ~ (id > n.pid)
      <4>1. G \subseteq A \cup new /\ (Left => G = A \cup new)
        BY <2>3, <2>6, <2>7, <3>3
      <4>2. Before(G, n.pid)
        BY <1>1, <2>2, <2>4, <2>5, <3>3, <4>1 DEF Before
      <4>3. IsMap(m, G \cup B \cup {<<n.pid, n.pcbIndex>>})
        BY <2>4, <2>5, <2>7, <3>1, <3>3, <4>2, MapNode
      <4>4. m # Null
        <5>1. m = Node(n.pid, n.pcbIndex, c, n.right, k)
          BY <3>1, <3>3
        <5> QED BY <5>1, NodeNotNull
      <4>5. PICK H : H = G \cup B \cup {<<n.pid, n.pcbIndex>>}
        OBVIOUS
      <4>6. H \subseteq Entries(n) \cup new /\ (Left => H = Entries(n) \cup new)
        BY <2>4, <4>1, <4>5
      <4> QED BY <4>3, <4>4, <4>5, <4>6
    <3> QED BY <3>2, <3>3
  <2>11. ret[i] = Rebalanced(m) /\ (Left => ~ TurnsRight(m))
    BY <1>3, <1>4, <1>6, <2>1, <2>9 DEF Found
  <2>12. PICK J \in SUBSET H : IsMap(Rebalanced(m), J) /\ (~ TurnsRight(m) => J = H)
    BY <2>10, RebalancedMap
  <2>13. J \subseteq Entries(on[i]) \cup new /\ (Left => J = Entries(on[i]) \cup new)
    BY <2>1, <2>10, <2>11, <2>12
  <2> QED BY <2>11, <2>12, <2>13
<1> HIDE DEF Good
<1>7. \A m \in 0 .. h : m \in S
  <2>1. 0 \in S
    BY <1>1, <1>2, <1>5
  <2>2. ASSUME NEW m \in 0 .. h, m < h, m \in S PROVE m + 1 \in S
    <3>1. /\ m + 1 \in 0 .. h /\ h - (m + 1) \in 0 .. h /\ h - (m + 1) < h
          /\ (h - (m + 1)) + 1 = h - m
      BY <1>1, <2>2
    <3> QED BY <1>5, <1>6, <2>2, <3>1
  <2> HIDE DEF S
  <2> QED BY <1>1, <2>1, <2>2, CountUp
<1>8. Good(0)
  <2>1. h \in S /\ h - h = 0
    BY <1>1, <1>7
  <2> QED BY <2>1
<1> QED BY <1>2, <1>8 DEF Good, IsMap, insert, ret, Left

\* The tree of initproc(): the entries of root and of idle.
LEMMA FirstTwo == IsMap(insert(insert(Null, 1, 0), 2, 1), {<<1, 0>>} \cup {<<2, 1>>})
<1>1. PICK t : t = Node(1, 0, Null, Null, 1)
  OBVIOUS
<1>2. /\ t # Null /\ t.pid = 1 /\ t.pcbIndex = 0 /\ t.left = Null /\ t.right = Null
      /\ t.height = 1
  BY <1>1, NodeNotNull
<1>3. IsMap(t, {<<1, 0>>})
  <2>1. IsMap(t, {} \cup {} \cup {<<1, 0>>})
    BY <1>1, MapNull, NullTree, MapNode DEF Before, After
  <2> QED BY <2>1
<1>4. insert(Null, 1, 0) = t
  <2>1. Null.height = 0 /\ Tree(Null)
    BY NullTree
  <2>2. Path(Null, 1)[0] = Null /\ 0 \in 0 .. Null.height
    BY <2>1, PathDown
  <2>3. Inserts(Null, 1, 0)[0] = t
    BY <1>1, <2>1, <2>2, InsertsLeaf
  <2> QED BY <2>3 DEF insert
<1>5. InsertsLeftOnly(t, 2, 1)
  <2>1. Tree(t) /\ IsNode(t)
    BY <1>2, <1>3, TreeParts DEF IsMap
  <2>2. /\ Path(t, 2)[0] = t /\ Found(Path(t, 2)[1], 2)
        /\ ~ Found(t, 2) => Path(t, 2)[0 + 1] = IF 2 > t.pid THEN t.right ELSE t.left
    BY <1>2, <2>1, PathDown
  <2>3. Path(t, 2)[0] = t /\ Path(t, 2)[1] = Null /\ 2 > t.pid
    BY <1>2, <2>2 DEF Found
  <2>4. PICK c : c = Inserts(t, 2, 1)[1]
    OBVIOUS
  <2>5. c = Node(2, 1, Null, Null, 1)
    BY <1>2, <2>1, <2>3, <2>4, InsertsLeaf
  <2>6. c.height = 1
    BY <2>5, NodeNotNull
  <2>7. PICK m : m = Linked(t, 2, c)
    OBVIOUS
  <2>8. m.left = Null /\ m.right = c
    <3>1. PICK k \in Nat : m = Node(t.pid, t.pcbIndex, t.left, c, k)
      BY <2>1, <2>3, <2>6, <2>7, LinkedNode
    <3> QED BY <1>2, <3>1, NodeNotNull
  <2>9. ~ TurnsRight(m)
    BY <2>6, <2>8, NullTree DEF TurnsRight, balanceFactor
  <2>10. \A i \in 0 .. t.height : i = 0 \/ i = 1
    BY <1>2
  <2>11. Inserts(t, 2, 1)[0 + 1] = c
    BY <2>4
  <2> QED BY <2>3, <2>7, <2>9, <2>10, <2>11 DEF InsertsLeftOnly, Found
<1> QED
  <2>1. \A e \in {<<1, 0>>} : e[1] # 2
    OBVIOUS
  <2>2. PICK G : IsMap(insert(t, 2, 1), G) /\ G = {<<1, 0>>} \cup {<<2, 1>>}
    BY <1>3, <1>5, <2>1, InsertMap
  <2> QED BY <1>4, <2>2

-----------------------------------------------------------------------------
(* delete(). *)

\* The predecessor of a node is the last one on its left.
LEMMA PredecessorLast ==
  ASSUME NEW n, NEW A, IsMap(n.left, A), n.left # Null
  PROVE  LET q == predecessor(n)
         IN  <<q.pid, q.pcbIndex>> \in A /\ \A e \in A : e[1] <= q.pid
<1> DEFINE t == n.left
           h == t.height
<1>1. Tree(t) /\ h \in Nat
  BY DEF IsMap, Tree
<1>2. PICK w : /\ w[0] = t /\ Rightmost(t) = w[h] /\ w[h].right = Null
               /\ \A i \in 0 .. h : w[i] \in Nodes(t)
               /\ \A i \in 0 .. h :
                    i < h => w[i + 1] = IF w[i].right = Null THEN w[i] ELSE w[i].right
  BY <1>1, RightmostRounds
<1> DEFINE S == {i \in 0 .. h : \A e \in A : e \in Entries(w[i]) \/ e[1] < w[i].pid}
<1>3. A \subseteq Nat \X Nat /\ \A e \in Nat \X Nat : e[1] \in Nat
  BY EntriesTyped DEF IsMap
<1>4. \A i \in 0 .. h : /\ IsNode(w[i]) /\ w[i] # Null /\ w[i].pid \in Nat
                        /\ Tree(w[i]) /\ IsMap(w[i], Entries(w[i]))
  <2> SUFFICES ASSUME NEW i \in 0 .. h
               PROVE  /\ IsNode(w[i]) /\ w[i] # Null /\ w[i].pid \in Nat
                      /\ Tree(w[i]) /\ IsMap(w[i], Entries(w[i]))
    OBVIOUS
  <2>1. w[i] \in Nodes(t)
    BY <1>2
  <2>2. IsMap(w[i], Entries(w[i]))
    BY <2>1, NodeMap
  <2> QED BY <1>1, <2>1, <2>2, NodeTree DEF Tree, IsNode
<1>5. \A i \in 0 .. h : i \in S
  <2>1. 0 \in S
    BY <1>1, <1>2 DEF IsMap
  <2>2. ASSUME NEW i \in 0 .. h, i < h, i \in S PROVE i + 1 \in S
    <3>1. i + 1 \in 0 .. h
      BY <1>1, <2>2
    <3>2. PICK m : m = w[i]
      OBVIOUS
    <3>3. CASE m.right = Null
      BY <1>2, <2>2, <3>1, <3>2, <3>3
    <3>4. CASE m.right # Null
      <4>1. PICK r : r = m.right /\ r = w[i + 1]
        BY <1>2, <2>2, <3>2, <3>4
      <4>2. /\ Entries(m) = Entries(m.left) \cup Entries(r) \cup {<<m.pid, m.pcbIndex>>}
            /\ Before(Entries(m.left), m.pid) /\ After(Entries(r), m.pid)
            /\ m.pid \in Nat
        BY <1>4, <3>2, <4>1, MapParts
      <4>3. r.pid \in Nat /\ m.pid < r.pid
        <5>1. r \in Nodes(r) /\ r.pid \in Nat
          BY <1>4, <3>1, <4>1, TreeClosed
        <5>2. PICK e : e = <<r.pid, r.pcbIndex>> /\ e[1] = r.pid /\ e \in Entries(r)
          BY <5>1 DEF Entries
        <5> QED BY <4>2, <5>1, <5>2 DEF After
      <4>4. ASSUME NEW e \in A PROVE e \in Entries(r) \/ e[1] < r.pid
        <5>1. e[1] \in Nat /\ (e \in Entries(m) \/ e[1] < m.pid)
          BY <1>3, <2>2, <3>2
        <5>2. e \in Entries(r) \/ e[1] <= m.pid
          BY <4>2, <5>1 DEF Before
        <5> QED BY <4>2, <4>3, <5>1, <5>2
      <4> QED BY <3>1, <4>1, <4>4
    <3> QED BY <3>3, <3>4
  <2> HIDE DEF S
  <2> QED BY <1>1, <2>1, <2>2, CountUp
<1>6. PICK q : q = w[h] /\ q = predecessor(n)
  BY <1>2 DEF predecessor
<1>7. h \in 0 .. h
  BY <1>1
<1>8. /\ q \in Nodes(t) /\ q.right = Null /\ q # Null /\ q.pid \in Nat
      /\ IsMap(q, Entries(q)) /\ \A e \in A : e \in Entries(q) \/ e[1] < q.pid
  BY <1>2, <1>4, <1>5, <1>6, <1>7
<1> HIDE DEF t, h, S
<1>9. q \in Nodes(t) /\ q.right = Null /\ q.pid \in Nat
  BY <1>8
<1>10. <<q.pid, q.pcbIndex>> \in A
  BY <1>9 DEF IsMap, Entries, t
<1>11. /\ Entries(q) = Entries(q.left) \cup Entries(Null) \cup {<<q.pid, q.pcbIndex>>}
      /\ Before(Entries(q.left), q.pid)
  BY <1>8, MapParts
<1>12. Entries(Null) = {}
  BY NullTree DEF Entries
<1>13. ASSUME NEW e \in A PROVE e[1] <= q.pid
  <2>1. e[1] \in Nat /\ (e \in Entries(q) \/ e[1] < q.pid)
    BY <1>3, <1>8
  <2> QED BY <1>9, <1>11, <1>12, <2>1 DEF Before
<1> QED BY <1>6, <1>10, <1>13

\* What is left of a map without a pid.
Without(E, x) == {e \in E : e[1] # x}

\* The entry of a pid leaves the map, and no other does.
LEMMA DeleteMap ==
  ASSUME NEW t, NEW E, IsMap(t, E), NEW id \in Nat
  PROVE  IsMap(delete(t, id), Without(E, id))
<1> DEFINE h == t.height
           on == DeleteCalls(t, id)
           ret == Deletes(t, id)
           Good(i) == IsMap(ret[i], Without(Entries(on[i][1]), on[i][2]))
           S == {m \in 0 .. h : Good(h - m)}
<1>1. Tree(t) /\ h \in Nat
  BY DEF IsMap, Tree
<1>2. DeletePath(t, id, on)
  BY <1>1, DeleteCallsDown
<1>3. \A i \in 0 .. h : ret[i] = DeleteReturn(on[i][1], on[i][2], ret[i + 1])
  BY <1>1, DeletesUp
<1>4. \A i \in 0 .. h : Tree(ret[i]) /\ ret[i].height <= on[i][1].height
  BY <1>1, DeletesTrees
<1> HIDE DEF on, ret
<1>5. /\ on[0] = <<t, id>> /\ IsLast(on[h][1], on[h][2])
      /\ \A i \in 0 .. h : on[i][1] \in Nodes(t) \cup {Null} /\ on[i][2] \in Nat
      /\ \A i \in 0 .. h : i < h /\ ~ IsLast(on[i][1], on[i][2])
                            => on[i + 1] = DeleteNext(on[i][1], on[i][2])
  BY <1>2 DEF DeletePath
<1>6. ASSUME NEW i \in 0 .. h, on[i][1] = Null PROVE Good(i)
  <2>1. ret[i] = Null
    BY <1>3, <1>6 DEF DeleteReturn
  <2>2. Without(Entries(Null), on[i][2]) = {}
    BY NullTree DEF Entries, Without
  <2> QED BY <1>6, <2>1, <2>2, MapNull
<1>7. ASSUME NEW i \in 0 .. h, on[i][1] # Null,
             (i < h /\ Good(i + 1)) \/ IsLast(on[i][1], on[i][2])
      PROVE  Good(i)
  <2>1. PICK n, x, v : n = on[i][1] /\ x = on[i][2] /\ v = ret[i + 1]
    OBVIOUS
  <2>2. n # Null /\ x \in Nat /\ x \in Nat /\ IsMap(n, Entries(n))
    BY <1>5, <1>7, <2>1, NodeMap 
  <2>3. PICK A, B : A = Entries(n.left) /\ B = Entries(n.right)
    OBVIOUS
  <2>4. /\ IsNode(n) /\ IsMap(n.left, A) /\ IsMap(n.right, B)
        /\ Entries(n) = A \cup B \cup {<<n.pid, n.pcbIndex>>}
        /\ Before(A, n.pid) /\ After(B, n.pid)
    BY <2>2, <2>3, MapParts
  <2>5. /\ n.pid \in Nat /\ n.pcbIndex \in Nat /\ n.pid \in Nat /\ n.height \in Nat
        /\ n.left.height < n.height /\ n.right.height < n.height
        /\ n.left.height \in Nat /\ n.right.height \in Nat
        /\ n = Node(n.pid, n.pcbIndex, n.left, n.right, n.height)
    BY <2>4 DEF IsNode
  <2>6. \A e \in A \cup B : e[1] \in Nat
    BY <2>4, EntriesTyped DEF IsMap
  <2>7. Without({<<n.pid, n.pcbIndex>>}, x) = IF x = n.pid THEN {} ELSE {<<n.pid, n.pcbIndex>>}
    BY DEF Without
  <2>8. /\ Without(Entries(n), x) = Without(A, x) \cup Without(B, x)
                                      \cup Without({<<n.pid, n.pcbIndex>>}, x)
        /\ x <= n.pid => Without(B, x) = B
        /\ x >= n.pid => Without(A, x) = A
    <3>1. \A e \in A : e[1] < n.pid
      BY <2>4 DEF Before
    <3>2. \A e \in B : e[1] > n.pid
      BY <2>4 DEF After
    <3>3. x >= n.pid => \A e \in A : e[1] # x
      BY <2>2, <2>5, <2>6, <3>1
    <3>4. x <= n.pid => \A e \in B : e[1] # x
      BY <2>2, <2>5, <2>6, <3>2
    <3> QED BY <2>4, <3>3, <3>4 DEF Without
  <2>9. n.pid = x => Without(Entries(n), x) = A \cup B
    <3> SUFFICES ASSUME n.pid = x PROVE Without(Entries(n), x) = A \cup B
      OBVIOUS
    <3>1. x <= n.pid /\ x >= n.pid
      BY <2>5
    <3>2. Without(A, x) = A /\ Without(B, x) = B
      BY <2>8, <3>1
    <3>3. Without({<<n.pid, n.pcbIndex>>}, x) = {}
      BY <2>7
    <3> QED BY <2>8, <3>2, <3>3
  <2>10. ret[i] = DeleteReturn(n, x, v)
    BY <1>3, <2>1
  <2>11. CASE IsLast(n, x)
    <3>1. n.pid = x /\ (n.left = Null \/ n.right = Null)
      BY <2>2, <2>11 DEF IsLast
    <3>2. Without(Entries(n), x) = A \cup B
      BY <2>9, <3>1
    <3>3. ret[i] = IF n.left # Null THEN n.left ELSE n.right
      BY <2>2, <2>5, <2>10, <3>1 DEF DeleteReturn
    <3>4. (n.left = Null => A = {}) /\ (n.right = Null => B = {})
      BY <2>3, NullTree DEF Entries
    <3>5. IsMap(ret[i], A \cup B)
      BY <2>4, <3>1, <3>3, <3>4
    <3> QED BY <2>1, <3>2, <3>5
  <2>12. CASE ~ IsLast(n, x)
    <3>1. i < h /\ i + 1 \in 0 .. h /\ on[i + 1] = DeleteNext(n, x)
      BY <1>1, <1>5, <1>7, <2>1, <2>12
    <3>2. PICK m, y : m = on[i + 1][1] /\ y = on[i + 1][2]
      OBVIOUS
    <3>3. IsMap(v, Without(Entries(m), y)) /\ v.height <= m.height /\ v.height \in Nat
      BY <1>4, <1>7, <2>1, <2>12, <3>1, <3>2 DEF Tree
    <3>4. <<m, y>> = DeleteNext(n, x) \/ DeleteNext(n, x) = on[i + 1]
      BY <3>1
    <3>5. CASE x > n.pid
      <4>1. m = n.right /\ y = x
        BY <3>1, <3>2, <3>5 DEF DeleteNext
      <4>2. ret[i] = Node(n.pid, n.pcbIndex, n.left, v, n.height)
        <5>1. ret[i] = [n EXCEPT !.right = v]
          BY <2>2, <2>10, <3>5 DEF DeleteReturn
        <5> QED BY <2>5, <5>1 DEF Node
      <4>3. After(Without(B, x), n.pid)
        BY <2>4 DEF After, Without
      <4>4. v.height < n.height /\ IsMap(v, Without(B, x))
        BY <2>3, <2>5, <3>3, <4>1
      <4>5. IsMap(ret[i], A \cup Without(B, x) \cup {<<n.pid, n.pcbIndex>>})
        BY <2>4, <2>5, <4>2, <4>3, <4>4, MapNode
      <4>6. Without(Entries(n), x) = A \cup Without(B, x) \cup {<<n.pid, n.pcbIndex>>}
        BY <2>2, <2>5, <2>7, <2>8, <3>5
      <4> QED BY <2>1, <4>5, <4>6
    <3>6. CASE x < n.pid
      <4>1. m = n.left /\ y = x
        BY <2>2, <2>5, <3>1, <3>2, <3>6 DEF DeleteNext
      <4>2. ret[i] = Node(n.pid, n.pcbIndex, v, n.right, n.height)
        <5>1. ret[i] = [n EXCEPT !.left = v]
          BY <2>2, <2>5, <2>10, <3>6 DEF DeleteReturn
        <5> QED BY <2>5, <5>1 DEF Node
      <4>3. Before(Without(A, x), n.pid)
        BY <2>4 DEF Before, Without
      <4>4. v.height < n.height /\ IsMap(v, Without(A, x))
        BY <2>3, <2>5, <3>3, <4>1
      <4>5. IsMap(ret[i], Without(A, x) \cup B \cup {<<n.pid, n.pcbIndex>>})
        BY <2>4, <2>5, <4>2, <4>3, <4>4, MapNode
      <4>6. Without(Entries(n), x) = Without(A, x) \cup B \cup {<<n.pid, n.pcbIndex>>}
        BY <2>2, <2>5, <2>7, <2>8, <3>6
      <4> QED BY <2>1, <4>5, <4>6
    <3>7. CASE x = n.pid
      <4>1. n.left # Null /\ n.right # Null
        BY <2>2, <2>12, <3>7 DEF IsLast
      <4>2. PICK q : q = predecessor(n)
        OBVIOUS
      <4>3. <<q.pid, q.pcbIndex>> \in A /\ \A e \in A : e[1] <= q.pid
        BY <2>4, <4>1, <4>2, PredecessorLast
      <4>4. q.pid \in Nat /\ q.pcbIndex \in Nat /\ q.pid \in Nat
        BY <2>4, <4>1, <4>2, PredecessorNode DEF IsMap
      <4>5. m = n.left /\ y = q.pid
        BY <2>2, <2>5, <3>1, <3>2, <3>7, <4>2 DEF DeleteNext
      <4>6. ret[i] = Node(q.pid, q.pcbIndex, v, n.right, n.height)
        <5>1. ret[i] = [Replaced(n, q) EXCEPT !.left = v]
          BY <2>2, <2>5, <2>10, <3>7, <4>1, <4>2 DEF DeleteReturn
        <5> QED BY <2>5, <5>1 DEF Replaced, Node
      <4>7. Before(Without(A, q.pid), q.pid)
        BY <2>6, <4>3, <4>4 DEF Before, Without
      <4>8. After(B, q.pid)
        <5>1. PICK e : e = <<q.pid, q.pcbIndex>> /\ e[1] = q.pid /\ e \in A
          BY <4>3
        <5>2. q.pid < n.pid
          BY <2>4, <5>1 DEF Before
        <5> QED BY <2>4, <2>5, <2>6, <4>4, <5>2 DEF After
      <4>9. v.height < n.height /\ IsMap(v, Without(A, q.pid))
        BY <2>3, <2>5, <3>3, <4>5
      <4>10. IsMap(ret[i], Without(A, q.pid) \cup B \cup {<<q.pid, q.pcbIndex>>})
        BY <2>4, <2>5, <4>4, <4>6, <4>7, <4>8, <4>9, MapNode
      <4>11. Without(A, q.pid) \cup {<<q.pid, q.pcbIndex>>} = A
        <5>1. PICK f : f = <<q.pid, q.pcbIndex>> /\ f[1] = q.pid /\ f \in A
          BY <4>3
        <5>2. \A e \in A : e[1] = q.pid => e = f
          BY <2>4, <5>1, MapUnique
        <5> QED BY <5>1, <5>2 DEF Without
      <4>12. Without(Entries(n), x) = A \cup B
        BY <2>9, <3>7
      <4> QED BY <2>1, <4>10, <4>11, <4>12
    <3> QED BY <2>2, <2>5, <3>5, <3>6, <3>7
  <2> QED BY <2>11, <2>12
<1> HIDE DEF Good
<1>8. \A m \in 0 .. h : m \in S
  <2>1. 0 \in S
    BY <1>1, <1>5, <1>6, <1>7
  <2>2. ASSUME NEW m \in 0 .. h, m < h, m \in S PROVE m + 1 \in S
    <3>1. /\ m + 1 \in 0 .. h /\ h - (m + 1) \in 0 .. h /\ h - (m + 1) < h
          /\ (h - (m + 1)) + 1 = h - m
      BY <1>1, <2>2
    <3> QED BY <1>6, <1>7, <2>2, <3>1
  <2> HIDE DEF S
  <2> QED BY <1>1, <2>1, <2>2, CountUp
<1>9. Good(0)
  <2>1. h \in S /\ h - h = 0
    BY <1>1, <1>8
  <2> QED BY <2>1
<1> QED BY <1>5, <1>9 DEF Good, IsMap, delete, ret

=============================================================================
