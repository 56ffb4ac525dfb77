----------------------------- MODULE HeapTests -----------------------------
(***************************************************************************)
(* The memory tests of src/c/init.c, which run before any program exists,  *)
(* and the programs that use the memory afterwards.                        *)
(*                                                                         *)
(* A test is a sequence of calls, each with what the test asserts of it:   *)
(* the address that it returns and the number of free blocks that it       *)
(* leaves.  0x100 bytes of the tests are one unit here.                    *)
(***************************************************************************)
EXTENDS Heap

Some == 16                        \* size = 0x100
All  == -1                        \* size = freeList->size
TooMuch == MemEnd * Unit          \* 0x400000, more than there is
AlignedStart == 1

VARIABLES
  at,   \* the next call of Script
  ptr   \* the headers of the blocks that the test holds

testVars == <<vars, at, ptr>>

Call(op, v, size, blocks, addr) ==
  [op |-> op, v |-> v, size |-> size, blocks |-> blocks, addr |-> addr]

NotAsserted == -1

Gets(v, size, blocks)     == Call("kmalloc", v, size, blocks, NotAsserted)
GetsAt(v, size, addr)     == Call("kmalloc", v, size, NotAsserted, addr)
Frees(v, blocks)          == Call("kfree", v, 0, blocks, NotAsserted)
FreesAnything(blocks)     == Call("random", 1, 0, blocks, NotAsserted)

\* The second size is not a multiple of a unit, the third is all that is left
\* below the hole, the last is too much.
testKmalloc ==
  <<GetsAt(1, Some, AlignedStart),
    GetsAt(2, Some - 15, AlignedStart + 2),
    GetsAt(3, (HoleStart - (AlignedStart + 4) - 1) * Unit, AlignedStart + 4),
    GetsAt(4, Some, HoleEnd),
    Frees(1, NotAsserted), Frees(2, NotAsserted), Frees(3, NotAsserted),
    Frees(4, NotAsserted),
    GetsAt(1, TooMuch, NULL)>>

\* Both sides of the hole are used up and given back, something is freed that
\* was never allocated, and three neighbours are given back, the second first.
testFreeList ==
  <<Gets(1, All, 1), Gets(2, All, 0), Frees(2, 1), Frees(1, 2), FreesAnything(2),
    Gets(1, Some, 2), Gets(2, Some, NotAsserted), Gets(3, Some, 2),
    Frees(2, 3), Frees(1, 3), Frees(3, 2)>>

Script == testKmalloc \o testFreeList

Testing == at <= Len(Script)

SizeOf(c) == IF c.size = All THEN node[freeList].size * Unit ELSE c.size

\* testKmallocHelper().
testKmallocHelper(c) ==
  \/ \E x \in Addr : kmalloc(x, SizeOf(c)) /\ ptr' = [ptr EXCEPT ![c.v] = x]
  \/ kmallocFails(SizeOf(c)) /\ ptr' = [ptr EXCEPT ![c.v] = NULL]

testKfree(c) == (kfree(ptr[c.v]) \/ kfreeIgnores(ptr[c.v])) /\ UNCHANGED ptr

\* Some address behind the hole where no block is.
FreesRandom ==
  (\E a \in HoleEnd + 1 .. MemEnd - 1 : kfreeIgnores(a)) /\ UNCHANGED ptr

Tests ==
  /\ Testing
  /\ at' = at + 1
  /\ LET c == Script[at]
     IN  \/ c.op = "kmalloc" /\ testKmallocHelper(c)
         \/ c.op = "kfree" /\ testKfree(c)
         \/ c.op = "random" /\ FreesRandom

TestInit == Init /\ at = 1 /\ ptr = [v \in 1 .. 4 |-> NULL]

\* The programs come when the tests are done.
Programs == ~Testing /\ Next /\ UNCHANGED <<at, ptr>>

Run == Tests \/ Programs

\* The tests, and then programs, while headers name their predecessors.
TestsWhilePrevTrue == TestInit /\ [][Run /\ TakesWithPrevTrue]_testVars

-----------------------------------------------------------------------------

\* The assertions of both tests: first fit returns the lowest block, sizes are
\* rounded up to units, blocks on different sides of the hole are not joined,
\* neighbours are, in whatever order they come back, and what was never
\* allocated is not freed.
TestsPass ==
  [][Testing =>
       LET c == Script[at]
       IN  /\ c.blocks # NotAsserted => Len(List') = c.blocks
           /\ c.addr # NotAsserted => ptr'[c.v] = c.addr]_testVars

=============================================================================
