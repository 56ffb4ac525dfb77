------------------------------- MODULE MCHeap -------------------------------
(***************************************************************************)
(* Instances of Heap and its tests for TLC.                                *)
(***************************************************************************)
EXTENDS HeapTests

\* What later steps can depend on: of memory that is neither on the list nor
\* the header of a held block only the mark is ever read again.
LiveState ==
  LET listed == Listed
  IN  <<at, ptr, freeList, held,
        [a \in Addr |-> IF a \in listed \/ held[a] > 0 THEN node[a]
                        ELSE [sanityCheck |-> node[a].sanityCheck]]>>

=============================================================================
