----------------------------- MODULE MemoryPool -----------------------------
(***************************************************************************)
(* Abstract specification of the memory manager: who holds what.  A block  *)
(* is a header and n units of data.  Nothing is said about how free memory *)
(* is kept, only that a block is made of free units, that giving it back   *)
(* makes exactly its units free, and that an allocation wastes at most the *)
(* unit behind the block: one that is too small to become a block.         *)
(***************************************************************************)
EXTENDS Integers

CONSTANTS
  Units,  \* the addresses of memory, in units of a header
  Sizes   \* the sizes that programs may get

VARIABLES
  blocks, \* the size of the block at each address, 0 if none starts there
  lost    \* units that nobody will ever get

poolVars == <<blocks, lost>>

Extent(a, n) == a .. a + n

Taken == UNION {Extent(a, blocks[a]) : a \in {b \in Units : blocks[b] > 0}}

Available == Units \ (Taken \cup lost)

Init == blocks = [a \in Units |-> 0] /\ lost = {}

Alloc(a, n) ==
  /\ Extent(a, n) \subseteq Available
  /\ blocks' = [blocks EXCEPT ![a] = n]
  /\ \/ lost' = lost
     \/ a + n + 1 \in Available /\ lost' = lost \cup {a + n + 1}

Free(a) ==
  /\ blocks[a] > 0
  /\ blocks' = [blocks EXCEPT ![a] = 0]
  /\ UNCHANGED lost

Next == \E a \in Units : Free(a) \/ \E n \in Sizes : Alloc(a, n)

Spec == Init /\ [][Next]_poolVars

=============================================================================
