-------------------------------- MODULE Heap --------------------------------
(***************************************************************************)
(* The memory manager of src/c/mem.c: first fit on a doubly linked list of *)
(* free blocks in the order of their addresses, around the hole in memory. *)
(*                                                                         *)
(* Addresses are counted in units of 16 bytes, the size of a memHeader and *)
(* the alignment of every block: the header of a block of n units is at    *)
(* address a, its data at a + 1 .. a + n.  Both functions run as one step: *)
(* the kernel calls them with interrupts off.                              *)
(***************************************************************************)
EXTENDS Integers, SequencesExt

CONSTANTS
  HoleStart, HoleEnd, MemEnd,  \* HOLESTART, HOLEEND and FREEMEM_END in units
  Requests                     \* sizes in bytes that programs ask for

ASSUME MemoryAssumption ==
  /\ {HoleStart, HoleEnd, MemEnd} \subseteq Nat
  /\ HoleStart > 2 /\ HoleEnd > HoleStart /\ MemEnd > HoleEnd + 1
ASSUME RequestsAssumption == Requests \subseteq Int

Unit == 16
NULL == 0

\* freemem is at unit 1.
Addr == (1 .. HoleStart - 1) \cup (HoleEnd .. MemEnd - 1)

VARIABLES
  freeList,  \* head of the list of free blocks
  node,      \* memory read as headers
  held       \* the size of the block that programs hold at each address, or 0

vars == <<freeList, node, held>>

\* kmeminit(): one free block on each side of the hole.
Init ==
  /\ freeList = 1
  /\ node = [a \in Addr |->
       [size |-> CASE a = 1 -> HoleStart - 2
                   [] a = HoleEnd -> MemEnd - HoleEnd - 1
                   [] OTHER -> 0,
        prev |-> IF a = HoleEnd THEN 1 ELSE NULL,
        next |-> IF a = 1 THEN HoleEnd ELSE NULL,
        sanityCheck |-> NULL]]
  /\ held = [a \in Addr |-> 0]

-----------------------------------------------------------------------------

\* The blocks on the list, which NULL ends.  It is cut if it has more blocks than
\* there are addresses: it is a cycle then, and a walk to its end does not return.
List ==
  LET from[n \in 0 .. MemEnd] ==  \* the first n blocks from an address on
        [a \in Addr \cup {NULL} |->
           IF a = NULL \/ n = 0 THEN <<>> ELSE <<a>> \o from[n - 1][node[a].next]]
  IN  from[MemEnd][freeList]

Ends == Len(List) < MemEnd

Listed == Range(List)

\* m with one field of the header at a set, if there is a header.
Put(m, a, field, value) ==
  IF a \notin Addr THEN m ELSE [m EXCEPT ![a][field] = value]

\* Mutant of Amount: rounded down.
AmountDown(size) == size \div Unit

\* The request in units, rounded up.
Amount(size) == size \div Unit + (IF size % Unit # 0 THEN 1 ELSE 0)

\* Mutant of Fits: the walk asks for one unit too many.
FitsLoosely(b, n) == node[b].size > n

Fits(b, n) == node[b].size >= n

\* x is the first free block that is large enough for n units.
FirstFit(x, n) ==
  LET k == SelectInSeq(List, LAMBDA b : Fits(b, n))
  IN  k # 0 /\ x = List[k]

\* No block is: the walk ends.
NoFit(n) == Ends /\ \A b \in Listed : ~Fits(b, n)

\* What is left of block x without n units of data and another header.
Rest(x, n) == node[x].size - n - 1

\* The block at x is taken off the list; what follows it there is what is left
\* of it, if that is worth a block, or else its successor.
Take(x, n) ==
  LET y    == x + 1 + n
      old  == node[x]
      succ == IF Rest(x, n) > 0 THEN y ELSE old.next
      m1   == IF Rest(x, n) > 0
              THEN Put(Put(Put(node, y, "size", Rest(x, n)), y, "next", old.next),
                       old.next, "prev", y)
              ELSE node
      m2   == Put(m1, succ, "prev", old.prev)
      m3   == Put(m2, old.prev, "next", succ)
  IN  /\ node' = [m3 EXCEPT ![x] = [size |-> n, prev |-> NULL, next |-> NULL,
                                    sanityCheck |-> x]]
      /\ freeList' = IF old.prev = NULL THEN succ ELSE freeList

kmalloc(x, size) ==
  /\ size > 0
  /\ FirstFit(x, Amount(size))
  /\ Take(x, Amount(size))
  /\ held' = [held EXCEPT ![x] = Amount(size)]

\* kmalloc() returns NULL.
kmallocFails(size) == (size <= 0 \/ NoFit(Amount(size))) /\ UNCHANGED vars

-----------------------------------------------------------------------------

\* The header at a is put between f and its successor.
Linked(m, a, f) ==
  LET g == node[f].next
  IN  Put(Put(Put(Put(m, a, "next", g), g, "prev", a), f, "next", a), a, "prev", f)

\* The list with the header at a in its place.
Inserted(a, m) ==
  IF freeList = NULL THEN m
  ELSE IF a < freeList
  THEN Put(Put(m, freeList, "prev", a), a, "next", freeList)
  ELSE Linked(m, a, List[SelectInSeq(List, LAMBDA b :
                      node[b].next = NULL \/ a <= node[b].next)])

Adjacent(m, a, b) == a + 1 + m[a].size = b

\* The block at a becomes part of its predecessor.
JoinsPrev(m, a) ==
  LET p == m[a].prev
      g == m[a].next
  IN  Put(Put(Put(m, p, "size", m[p].size + m[a].size + 1), p, "next", g),
          g, "prev", p)

\* Mutant of JoinsNext: the header of the successor is not counted.
JoinsNextShort(m, a) ==
  LET g == m[a].next
  IN  Put(Put(m, a, "size", m[a].size + m[g].size), a, "next", m[g].next)

\* The successor of the block at a becomes part of it.  Of what follows, the
\* code corrects the wrong block.
JoinsNext(m, a) ==
  LET g  == m[a].next
      g2 == m[g].next
      m1 == Put(Put(m, a, "size", m[a].size + m[g].size + 1), a, "next", g2)
  IN  IF g2 = NULL THEN m1 ELSE Put(m1, m1[g2].next, "prev", a)

CanJoinPrev(m, a) == m[a].prev # NULL /\ Adjacent(m, m[a].prev, a)
CanJoinNext(m, a) == m[a].next # NULL /\ Adjacent(m, a, m[a].next)

\* Mutant of Joined: only the predecessor is looked at.
JoinedPrev(m, a) == IF CanJoinPrev(m, a) THEN JoinsPrev(m, a) ELSE m

\* Neighbours become one block.
Joined(m, a) ==
  LET m1 == IF CanJoinPrev(m, a) THEN JoinsPrev(m, a) ELSE m
      h  == IF CanJoinPrev(m, a) THEN m[a].prev ELSE a
  IN  IF CanJoinNext(m1, h) THEN JoinsNext(m1, h) ELSE m1

\* Mutant of Unmarked: the mark of an allocated block stays.
StillMarked(a) == [node EXCEPT ![a].prev = NULL, ![a].next = NULL]

\* The header at a, without its mark.
Unmarked(a) ==
  [node EXCEPT ![a].prev = NULL, ![a].next = NULL, ![a].sanityCheck = NULL]

kfree(a) ==
  /\ node[a].sanityCheck = a
  /\ node' = Joined(Inserted(a, Unmarked(a)), a)
  /\ freeList' = IF freeList = NULL \/ a < freeList THEN a ELSE freeList
  /\ held' = [held EXCEPT ![a] = 0]

\* Whatever is not marked is left alone.
kfreeIgnores(a) == node[a].sanityCheck # a /\ UNCHANGED vars

Next ==
  \/ \E size \in Requests : kmallocFails(size) \/ \E x \in Addr : kmalloc(x, size)
  \/ \E a \in Addr : kfree(a) \/ kfreeIgnores(a)

Spec == Init /\ [][Next]_vars

\* The predecessor that the header at x names is the one it has on the list.
PrevTrue(x) ==
  IF x = freeList THEN node[x].prev = NULL
  ELSE node[x].prev \in Listed /\ node[node[x].prev].next = x

\* No block is taken whose header names a wrong predecessor.  Section 6 of the
\* README says when one would be.
TakesWithPrevTrue == \A x \in Addr : held[x] = 0 /\ held'[x] > 0 => PrevTrue(x)

SpecWhilePrevTrue == Init /\ [][Next /\ TakesWithPrevTrue]_vars

-----------------------------------------------------------------------------
(* Correctness. *)

\* The units of the block at a.
Extent(a) == a .. a + node[a].size

FreeUnits == UNION {Extent(a) : a \in Listed}
HeldUnits == UNION {a .. a + held[a] : a \in {b \in Addr : held[b] > 0}}
Lost == Addr \ (FreeUnits \cup HeldUnits)

\* The free list is what its author says: it ends, it is in the order of
\* addresses, no two of its blocks touch, since kfree() joins neighbours, and
\* none reaches into the hole or into a block that a program holds.
ListSound ==
  /\ \A k \in 1 .. Len(List) - 1 :
       List[k] + node[List[k]].size + 1 < List[k + 1]
  /\ Ends
  /\ FreeUnits \subseteq Addr
  /\ FreeUnits \cap HeldUnits = {}

\* The check in kfree() accepts the blocks that programs hold and no others: a
\* block that is freed twice does no harm, however memory was joined, split and
\* given out in between.
MarksExact == \A a \in Addr : (node[a].sanityCheck = a) <=> (held[a] > 0)

\* kmalloc() refuses only if no run of free memory is long enough: first fit
\* with joined neighbours never fails for fragmentation that joining would mend.
RefusesWhenFull ==
  \A size \in Requests :
    size > 0 /\ NoFit(Amount(size)) =>
      ~ \E a \in Addr :
          a .. a + Amount(size) \subseteq Addr \ (HeldUnits \cup Lost)

Pool == INSTANCE MemoryPool
  WITH Units <- Addr, Sizes <- {Amount(size) : size \in Requests},
       blocks <- held, lost <- Lost

\* The list implements the abstract memory: blocks of different programs never
\* overlap, giving one back frees its units and no others, and an allocation
\* wastes at most the space of one header.
BlocksDisjoint == Pool!Spec

\* h/xeroskernel.h: "Free node with the lowest address that is higher than
\* this".  What follows a free block on the list is free.
NextIsFree ==
  \A a \in Listed : node[a].next # NULL => node[node[a].next].sanityCheck = NULL

=============================================================================
