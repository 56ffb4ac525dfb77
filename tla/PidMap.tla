------------------------------- MODULE PidMap -------------------------------
(***************************************************************************)
(* The PID map of c/disp.c as it is implemented: a binary search tree with *)
(* AVL rotations on insertion.  The right rotation loses nodes, as in the  *)
(* code.  Kernel and PidTree keep such a tree.                             *)
(*                                                                         *)
(* The functions of the tree call themselves on a child, so their nested   *)
(* calls are numbered from 0, the call on the root.  The recorded height   *)
(* of the root bounds them: HeightsCoverDepth of PidTree.                  *)
(***************************************************************************)
EXTENDS Integers, FiniteSets, FiniteSetsExt

NoProc == -1       \* what a lookup that fails leaves: no index of pcbTable

\* A treeNode and its subtrees; Null stands for the NULL pointer and has the
\* height that the code gives to it.
Null == [height |-> 0]
Node(id, slot, l, r, h) ==
  [pid |-> id, pcbIndex |-> slot, left |-> l, right |-> r, height |-> h]

\* The nodes of t by their distance from it, as far as its height goes.
Levels(t) ==
  LET at[i \in 0 .. t.height] ==
        (IF i = 0 THEN {t} ELSE UNION {{n.left, n.right} : n \in at[i - 1]}) \ {Null}
  IN  at

Nodes(t) == UNION {Levels(t)[i] : i \in 0 .. t.height}

\* The pids in the tree, each with its slot.
Entries(t) == {<<n.pid, n.pcbIndex>> : n \in Nodes(t)}

\* The rounds 0 .. n of a loop with the step F that starts with x.
Rounds(F, x, n) ==
  LET w[i \in 0 .. n] == IF i = 0 THEN x ELSE F[w[i - 1]] IN w

balanceFactor(n) == n.left.height - n.right.height

\* Mutant of updateHeight: the right subtree is forgotten.
updateHeightLeft(n) == [n EXCEPT !.height = n.left.height + 1]

updateHeight(n) ==
  [n EXCEPT !.height = Max({n.left.height, n.right.height}) + 1]

rotateLeft(n) ==
  updateHeight([n.right EXCEPT !.left =
                  updateHeight([n EXCEPT !.right = n.right.left])])

\* Unlike its mirror image this does not hang n under the node it returns: n
\* and its right subtree are out of the tree.
rotateRight(n) == updateHeight(n.left)

\* The end of insert(): restores the balance of n after an insertion below it.
Rebalanced(n) ==
  IF balanceFactor(n) > 1
  THEN rotateRight(IF balanceFactor(n.left) < 0
                   THEN [n EXCEPT !.left = rotateLeft(n.left)] ELSE n)
  ELSE IF balanceFactor(n) < -1
  THEN rotateLeft(IF balanceFactor(n.right) > 0
                  THEN [n EXCEPT !.right = rotateRight(n.right)] ELSE n)
  ELSE n

\* Where the nested calls of lookup() and insert() for id end.
Found(n, id) == n = Null \/ n.pid = id

Child(n, id) ==
  IF Found(n, id) THEN n ELSE IF id > n.pid THEN n.right ELSE n.left

\* The nodes of these calls; the last one repeats.
Path(t, id) ==
  LET on[i \in 0 .. t.height] == IF i = 0 THEN t ELSE Child(on[i - 1], id)
  IN  on

\* n after child has come back from the nested call of insert().
Linked(n, id, child) ==
  updateHeight(IF id > n.pid THEN [n EXCEPT !.right = child]
               ELSE [n EXCEPT !.left = child])

\* What the nested calls of insert() return.
Inserts(t, id, slot) ==
  LET on == Path(t, id)
      ret[i \in 0 .. t.height] ==
        IF on[i] = Null THEN Node(id, slot, Null, Null, 1)
        ELSE IF on[i].pid = id THEN [on[i] EXCEPT !.pcbIndex = slot]
        ELSE Rebalanced(Linked(on[i], id, ret[i + 1]))
  IN  ret

insert(t, id, slot) == Inserts(t, id, slot)[0]

\* The slot found for id, NoProc if there is none.
lookup(t, id) ==
  LET n == Path(t, id)[t.height]
  IN  IF n = Null THEN NoProc ELSE n.pcbIndex

Rightmost(t) ==
  Rounds([n \in Nodes(t) |-> IF n.right = Null THEN n ELSE n.right],
       t, t.height)[t.height]

predecessor(n) == Rightmost(n.left)

\* Mutant of Replaced: the pid is copied from the predecessor, the slot is not.
ReplacedPid(n, pred) == [n EXCEPT !.pid = pred.pid]

\* n takes over the entry of its predecessor.
Replaced(n, pred) == [n EXCEPT !.pid = pred.pid, !.pcbIndex = pred.pcbIndex]

\* The nested calls of delete(), each a node and the pid to delete below it: a
\* node with two children deletes its predecessor.
DeleteCalls(t, id) ==
  Rounds([c \in (Nodes(t) \cup {Null}) \X ({n.pid : n \in Nodes(t)} \cup {id}) |->
          LET n == c[1]
              x == c[2]
          IN  IF n = Null THEN c
              ELSE IF x > n.pid THEN <<n.right, x>>
              ELSE IF x < n.pid THEN <<n.left, x>>
              ELSE IF n.left # Null /\ n.right # Null
              THEN <<n.left, predecessor(n).pid>> ELSE c],
       <<t, id>>, t.height)

\* What they return.  delete() neither rebalances nor updates heights.
Deletes(t, id) ==
  LET on == DeleteCalls(t, id)
      ret[i \in 0 .. t.height] ==
        LET n == on[i][1]
            x == on[i][2]
        IN  IF n = Null THEN Null
            ELSE IF x > n.pid THEN [n EXCEPT !.right = ret[i + 1]]
            ELSE IF x < n.pid THEN [n EXCEPT !.left = ret[i + 1]]
            ELSE IF n.left # Null /\ n.right # Null
            THEN [Replaced(n, predecessor(n)) EXCEPT !.left = ret[i + 1]]
            ELSE IF n.left # Null THEN n.left ELSE n.right
  IN  ret

delete(t, id) == Deletes(t, id)[0]

\* insert() takes a right rotation at n.
TurnsRight(n) ==
  balanceFactor(n) > 1 \/ (balanceFactor(n) < -1 /\ balanceFactor(n.right) > 0)

InsertsLeftOnly(t, id, slot) ==
  LET on == Path(t, id)
      ret == Inserts(t, id, slot)
  IN  \A i \in 0 .. t.height :
        ~ Found(on[i], id) => ~ TurnsRight(Linked(on[i], id, ret[i + 1]))

=============================================================================
