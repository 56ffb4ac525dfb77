# A TLA+ model of the Xeros kernel

This directory holds TLA+ specifications of the teaching kernel in `src/`
(CPSC 415 "Xeros", 32 bit, one CPU), the TLC configurations that check them on
small instances, and machine-checked proofs of the most important invariants.
File and line numbers refer to `src/`.

- [1. The system](#1-the-system)
- [2. Modules](#2-modules)
- [3. Runs, bounds, and what they show](#3-runs-bounds-and-what-they-show)
- [4. Fairness](#4-fairness)
- [5. Proofs](#5-proofs)
- [6. Findings](#6-findings)
- [7. What is not modelled](#7-what-is-not-modelled)
- [8. Plan](#8-plan)

## 1. The system

Xeros runs up to `MAX_NUM_PROCESS` processes on one CPU. The kernel is a loop,
`dispatch()` in `c/disp.c`: take a process from the ready queue, switch to it,
wait for it to trap (a system call, or the timer interrupt every 10 ms), handle
the request, and repeat. From the trap to the next `iret` interrupts are off,
so a turn of the loop is atomic; between turns any process may run and trap in
any way. There are no locks: what makes the kernel hard is that a process is on
one of many linked lists that share a single `next` field, that requests by one
process change the state of others, and that slots and pids are used again.

| Component | State | Operations | Correct when |
|---|---|---|---|
| Dispatcher (`c/disp.c`) | `ready_queue`, `pcb.state`, `pcb.irc`, `idle` | `dispatch`, `next`, `ready` | each process is on exactly one list; nobody starves; `next()` never finds nothing |
| Creation, clean-up (`c/create.c`, `c/disp.c`) | `pcbTable`, `nextPid` | `create`, `getNextPid`, `cleanup` | no leaks; pids are unique; those who wait for a stopping process are released |
| PID map (`c/disp.c`) | AVL tree of (pid, slot) | `pidMapInsert`, `pidMapDelete`, `pidMapLookup` | it never leads to the wrong process, and loses none but in the one way that finding 1 describes |
| IPC (`c/msg.c`) | `pcb.senders`, `pcb.receivers`, the arguments in user memory | `send`, `receive` | rendezvous: no missed partner, both sides agree on the length, nobody waits on the dead |
| Sleep device (`c/sleep.c`) | `sleep_list`, `pcb.delta` | `sleep`, `tick` | each sleeper wakes at the tick it asked for |
| Signals (`c/signal.c`) | pending, allowed, masked signals, handlers, frames on user stacks | `register_sig_handler`, `signal`, `deliver_signal`, SIGRETURN, SIGWAIT | a blocked call is interrupted cleanly; handlers nest by priority |
| Device layer (`c/di_calls.c`) | `pcb.opened_dv`, `devtab` | `di_open` ... `di_ioctl` | a descriptor stands for the device it was opened for |
| Keyboard driver (`c/kbd.c`) | character ring, one pending read, EOF flags | open, close, read, ioctl, the interrupt routine | no character is lost or reordered; a read ends once |
| Memory manager (`c/mem.c`) | address-ordered free list | `kmalloc`, `kfree` | blocks are disjoint; neighbours are joined |
| System calls (`c/syscall.c`, `c/ctsw.c`, `c/evec.c`) | registers, kernel stack | the stubs, `contextswitch`, `trap` | arguments and results arrive; a preempted process finds its registers |
| Keyboard translation (`c/kbd.c`) | shift, control, meta and caps lock modes | `kbtoa` | each key stores the character that the typist meant |
| Tests, user program (`c/init.c`, `c/user.c`) | their variables | scripts of system calls | every assertion holds and every test ends |
| Boot loader, console, C library | | | (not modelled) |

Interaction is by direct calls inside the kernel. `dispatch` calls every
handler; a handler calls `ready` for all whom it releases. `create` and
`cleanup` use the PID map and the memory manager, `send`, `receive` and
`signal` use the PID map. `cleanup` closes devices. The keyboard interrupt runs
outside the loop, on the stack of the interrupted process, and calls `ready`.

The hard behaviours, each at its line, are the `hazards` of `PROJECT.json`.

## 2. Modules

| Module | Role |
|---|---|
| `Kernel` | dispatcher, creation, clean-up, IPC and sleep device: one module, since every handler ends in the ready queue |
| `SleepTimer` | abstract specification: what the sleep device promises |
| `KernelSleep` | refinement mapping from `Kernel` to `SleepTimer` |
| `PidMap` | the AVL tree of the PID map, exactly as written: the operators on trees that `Kernel` and `PidTree` share |
| `PidTree` | long histories of that tree: processes come and go, and nothing else happens |
| `Pcbs` | the kernel once more, with the pcbs as they are linked and with signals |
| `Programs` | the tests, the user program and arbitrary signalling programs on `Pcbs` |
| `MemoryPool` | abstract specification: who holds which memory |
| `Heap` | `kmalloc` and `kfree` on the headers in memory |
| `HeapTests` | the memory tests, then any programs, on `Heap` |
| `Keyboard` | the keyboard driver, the device layer and the device requests, with the interrupt as an actor of its own |
| `KeyStream` | abstract specification: what a program may expect of a keyboard |
| `DeviceTests` | `Keyboard` in a kernel without or with the device tests |
| `Scancode` | the translation of scan codes, and a keyboard that sends them |
| `MCKernel`, `MCKeyboard`, `MCHeap`, `MCScancode` | instances for TLC: views, keys |
| `QueueLemmas` | proved facts about sequences used as queues, and counting up to a number |
| `PidMapProofs` | lemmas about the operators of `PidMap`: heights, search trees, rotations |
| `KernelProofs`, `KernelStepProofs` | theorems about `Kernel`: invariants; steps, memory and the sleep device |
| `KeyboardProofs` | theorems about `Keyboard` |
| `PidTreeProofs` | theorems about `PidTree`: heights, the map, exactness |
| `ProgramsProofs` | theorems about `Programs`: nesting and delivery of signals |
| `HeapProofs` | theorems about `Heap` |

### Kernel

A pcb is its slot in `pcbTable`. A NULL-terminated list linked through
`pcb.next` is a sequence of slots, and `NoDuplicates` and `InItsPlace` say that
this is a sound way to look at it: with the requests modelled here no pcb is
ever on two lists or twice on one, so the single `next` field is enough. With
signals that is no longer so, which is why `Pcbs` models the pointers.

One action is one turn of the loop: the guard `Calls(p)` says that the program
of the running process traps, the action does everything its handler does, and
`Resume(st, woken)` is the common end of all: `ready()` on everybody released,
in the order of the calls, then `next()` with the rule about idle. Programs are
arbitrary: in each state the running process may issue any request. The idle
process only executes `hlt` and never calls.

| Code | Actions |
|---|---|
| `create` | `Create`, `CreateRefused` (no memory, or no slot), `CreateAborts` (no memory for the tree node) |
| `cleanup` | `Stop` |
| YIELD and PUTS, GET_PID, GET_P_PID | `Yield`, `GetPid`, `GetParentPid` |
| `send` | `SendRefused`, `SendToWaiting`, `SendToAny`, `SendBlocks` |
| `receive` | `RecvRefused`, `RecvFrom`, `RecvFromBlocks`, `RecvAny`, `RecvAnyBlocks` |
| `sleep` | `Sleep`, `SleepZero` |
| SYS_TIMER, `tick` | `Timer` |
| `abort`, `trap` | `Spin` |

Abstractions:

- `arg[p]` is the part of user memory that the kernel reads again later: the
  peer and the buffer length of the last call. For a receiver `arg[p].peer` is
  `*from_pid`, which the kernel reads in *another* process's `send()` and
  overwrites in the transfer, as in the code. The payload is its length.
- `heap` counts the blocks that the kernel holds: a stack and a tree node for each
  process, and what has leaked. `Blocks` is how many `kmalloc` can give. It may fail
  earlier, since the memory of `kmalloc` is also that of user programs: every
  call of `create` may be refused.
- `%eax` at a timer interrupt is any value of `Eax`.
- `pidMap` is the tree of `PidMap`, rotations included: what a right rotation loses
  is lost to `send`, `receive`, `getNextPid` and `delete` from then on, its node is
  never freed, and its pid may be handed out a second time. The properties of
  the kernel are stated, checked and proved for such states too.
- A call that is refused leaves `arg` as it was: nobody reads the arguments of a
  call that is over.
- `tick()` reads `sleep_list->delta` once more after the last sleeper has
  left, through NULL. Address 0 is mapped and not written by the kernel; the
  model takes the word read there to differ from 0, which ends the loop.
- A pid counter of width 32 is `PidSpace` values wide and wraps.

### PidMap and PidTree

A `treeNode` is a record with its subtrees inside, so that "the tree" is what is
reachable from the root, and a node that the code unlinks by mistake is gone.
The functions of the code call themselves on a child. `Path` and `DeleteCalls`
number these nested calls from the root down, `Inserts` and `Deletes` give what
each of them returns, from the last one up (`Rounds` iterates one step); the
height recorded in the root bounds their number, which `HeightsCoverDepth`
justifies. `delete()` calls itself once more for the predecessor of a node with two
children: that call is the next in the sequence.

`Create` and `Stop` of `PidTree` drive the tree as `create()` and `cleanup()` do,
with more slots than `Kernel` can afford. `LastPid` bounds the counter there; in
`Kernel` the tree lives on when the counter wraps.

### SleepTimer and KernelSleep

`SleepTimer` has no list: each process has a timer of its own and a tick takes
one from every timer. `KernelSleep` maps the delta list to it (what is left to a
sleeper is the sum of the deltas up to its own) and `SleepersTimed` is the
abstract specification under this mapping. Every action but `Sleep` and `Timer`
is a stutter. The refinement is checked by TLC and proved (section 5).

### Keyboard and KeyStream

Two actors share the driver: programs, whose calls reach it through
`dispatch()` and `c/di_calls.c`, and the keyboard interrupt, which runs outside
the loop, on the stack of whatever process it interrupts. Both run with
interrupts off, so a call is a step and an interrupt is a step; between them
anything may happen. In particular the interrupt may come while the owner of
the keyboard is running, ready, or blocked in `sysread`.

| Code | Actions |
|---|---|
| `di_open`, `keyboard_open`, `keyboard_open_echo` | `Open`, `OpenFails` |
| `di_close`, `keyboard_close` | `Close`, `CloseFails` |
| `di_read`, `keyboard_read`, `buf_copy` | `ReadBlocks`, `ReadAfterEof`, `ReadReturns`, `ReadAborts`, `ReadFails` |
| `di_write`, `keyboard_write` | `Write` (always refused) |
| `di_ioctl`, `keyboard_ioclt` | `Ioctl`, `IoctlFails` |
| `cleanup`, `create` | `Stop`, `Create` (what they do to devices) |
| `keyboard_lower`, `insert_char`, `buf_copy` | `KeyStored`, `KeyCopied`, `KeyEnds` |
| the controller (hardware) | `Press` |

Abstractions:

- Programs are not scheduled here: each process in state READY may call, which
  covers every schedule of `Kernel`. READY stands for all states but STOPPED and
  READING, since the driver tells no others apart.
- `controller` is what the hardware holds for the driver, oldest first, after
  the translation of scan codes; `MaxKeys` bounds it. The interrupt may also
  come with nothing to move: key releases interrupt and have no character.
- The interrupt is enabled exactly while somebody has opened the driver
  (`enable_irq` in open and close), hence the guard `owner # None`.
- `text` is the part of the program's buffer that the driver has filled; its
  length is `ps.ch_read`. The echo to the console is left out.
- Line 128 of `c/kbd.c` aborts if the reader is not the opener; `ReadAborts`
  keeps this branch, and `Exclusive` shows that it is dead.

`KeyStream` has neither requests nor a ring: characters move from the keyboard
to the driver and from there to the program's buffer, always the oldest first,
and one is lost only when the driver is full or reset. `StreamInOrder` is this
specification with `Stored`, the ring read in order, for what the driver holds.

### Pcbs and Programs

`Pcbs` has the same turn of the loop on another view of memory: `kern` holds the
pcbs with the one field `next` that the ready queue, the sleep list and all
senders and receivers queues share. `Chain` follows it, at most as far as the
table is long. Handlers are operators from memory to memory, composed in the
order of the code; `Turn` is the common end: `next()`, the rule about idle, and
`deliver_signal()` for the process that was chosen.

| Code | Operators |
|---|---|
| `ready`, `next`, the rule about idle | `ready`, `Popped`, `Selected` |
| `deliver_signal` | `Deliverable`, `Above`, `Frame`, `Turn` |
| `signal` | `Interrupted`, `Kill`, `KillRefused` |
| `register_sig_handler` | `SigHandler`, `SigHandlerRefused` |
| SIGRETURN, `sigtramp` | `SigReturn`; SIGWAIT is `SigWait` |
| `send`, `receive`, their queues | `Sent`, `Received`, `QueuedAt`, `FirstWithPid`, `Removed`, `Exchanged` |
| `sleep`, `tick` | `Slept`, `Passed`, `Ticked`, `Woken` |
| `create`, `cleanup` | `Create`, `CreateRefused`, `Stopped`, `Released` |
| a read that blocks, the interrupt that ends it | `ReadBlocks`, `Key` |

`Programs` says who makes these calls. Each test of `c/init.c` and the user
program is a sequence of instructions with what the program asserts of each
call; `want` and `from` hold the assertion until the process runs again, so that
`ResultsAsPromised` states all of them at once. `Boots` lists what is started
together (`testProcessManagement`, `testSendReceive`, `testTimeSharing`,
`test_signal`, `initproc`), and `handling` with `striking` are programs without a
script: a process that makes any signal calls, in handlers as well, and one that
sends it any signal.

Abstractions:

- The contents of messages, and what `syssighandler` stores in `old_handler`, are
  left out; lengths, results and senders are checked.
- Under preemption a call that prints or asks for a pid is left out where the
  timer has the same effect. The tests without preemption keep such calls, since
  they decide who runs.
- Sleeps of the tests are seconds, a slice is 10 ms. They are scaled to a few
  slices, and a slice counts only when nobody else has anything to do (`Quiet`);
  other interrupts preempt without counting (`TimerUncounted`). That is the
  assumption that the tests make with their long sleeps.
- `spawner` fills the process table, in the code memory; both end in `SYSERR`.
  `testProcessManagement` is run once, the code repeats it.
- The user program is modelled from the step on where it waits for signals; what
  comes before (open, close, plain reads) is covered by `Keyboard`. Its reads take
  one character. `ReadsOn` is the loop that ends with the data.
- The PID map is the function `named`, and pids do not wrap: no boot hands out a
  pid above 11, and with five slots and pids up to there no sequence of creations
  and stops takes a right rotation, so that the tree is an exact map
  (`LookupIsExact`). `Kernel` has the tree itself and the wrap.

### MemoryPool, Heap and HeapTests

`Heap` counts memory in units of 16 bytes, the size of a header and the
alignment of blocks. `node` is memory read as headers, with the fields that the
code leaves behind, so that a stale pointer points where it does in the code.
`held` is a record of what programs got, and exists for the properties.

| Code | Definitions |
|---|---|
| `kmeminit` | `Init` |
| `kmalloc` | `kmalloc` (with `FirstFit`, `Rest`, `Take`), `kmallocFails` |
| `kfree` | `kfree` (with `Inserted`, `Joined`), `kfreeIgnores` |

`MemoryPool` knows no list: an allocation takes any free units and may waste one
unit behind them, giving a block back frees exactly its units. `BlocksDisjoint` is
this specification with the units that are on no list and in no block as the
wasted ones (the remainder of zero units: see section 6).

`HeapTests` runs `testKmalloc` and `testFreeList` first, as `run_test()` does, and
then any programs on the memory that the tests leave. 0x100 bytes of the tests
are one unit; sizes that the tests compute from the memory (all below the hole,
all that the first block has) are computed here as well.

### Scancode

The driver is four lines of state changes and three tables; the difficulty is the
keyboard in front of it. `Moves` is a key that goes down or up and the codes that
it sends, `wire` the codes for which there is room, `Take` one round of
`keyboard_lower`. Each code carries what the typist meant, and which modes the
driver cannot know any more because a code was lost (or because the other of two
keys for the mode is still down: the driver keeps one bit). Eight keys are enough
for every branch of `kbtoa()`: two for one mode, an extended one, the toggle, meta,
a letter, a key that only two of the tables have, and one that none has. What
lies behind the shorter table is a value that no key has.

### DeviceTests

The device tests of `c/init.c` are processes that `test_device()` creates one
after another. `test_device` is the list of their calls and assertions, `at` the
next one; a kernel without tests has `at = 0` and behaves as `Keyboard` does. A
test whose assertion fails loops for ever, as `assertEquals` does.
`test_insert_char()` puts characters into the ring; the strings of the tests are
as long as the ring, here as there. Interrupts come between all calls (key
releases interrupt too). Keys are pressed only while `test_blocking_sysread` waits
for them, one at a time: characters typed at other times would be read by the
test that follows, which is not meant.

## 3. Runs, bounds, and what they show

| Run | Instance | Checks |
|---|---|---|
| `kernel` | 4 slots with root and idle, 6 pids, 8 blocks, lengths 1, 2, sleeps of 0, 5, 20 ms | `TypeOK`, `NoDuplicates`, `InItsPlace`, `WaitsOnTarget`, `NoMissedRendezvous`, `PidMapSound`, `SleepHeadPositive`, `HeapBalance`, `DispatcherNeverRunsDry`, `ReleasedByPeer`, `SavedResultStable`, `QueueAdvances`, `SleepersTimed` |
| `kernel_live` | 3 slots, 5 pids, 6 blocks, sleeps of 10 and 30 ms, fairness | `ReadyRuns`, `SleeperWakes` |
| `pid_tree` | 6 slots, pids up to 10 | `HeightsCoverDepth`, `ActsAsMap` |
| `pid_tree_loses` | 6 slots, pids up to 13 | `LookupExact` is violated |
| `keyboard_any` | 2 processes, ring of 2, keys newline and `a`, lengths 0, 1, 3, end of input `a` | `TypeOK`, `Exclusive`, `StreamInOrder`, `ReadResult` |
| `keyboard_usual` | the same, keys 4 (end of input), newline and `a`, lengths 1, 3, no ioctl, and the device tests; fairness | `NeverAborts`, `WaitsForKeys`, `ServedAgainOnlyAfterCut`, `ReadEnds`, `DeviceTestsPass` |
| `keyboard_lines` | keys newline and `a` | `ReadEndsOnce` is violated |
| `heap` | 9 units below the hole, 5 above; requests of 0, 16, 20, 48, 64, 128 bytes, and the memory tests | `ListSound`, `MarksExact`, `RefusesWhenFull`, `BlocksDisjoint`, `TestsPass` |
| `heap_prev` | 8 and 5 units | `NextIsFree` is violated |
| `programs` | 5 slots, every boot of `Programs`, signals 0, 16, 18, 20, 31; fairness | `HandlersNest`, `NestingBounded`, `SignalsAreDelivered`, `ResultsAsPromised`, `QueuesSound`, `AllStoppedAtReturn`, `TestsEnd` |
| `user_program` | the user program and idle | `DispatchNeverReturns` is violated |
| `scancode` | 8 keys, room for 2 codes, up to 2 lost moves | `ModesAsMeant`, `CharAsMeant` |

Why these bounds are enough for the interesting cases:

- Four slots leave three programs beside idle: two can wait in the queue of the
  third, in both orders, and the first of them can be served, skipped (a search
  for the second) or released by a stop. Root may stop too.
- Six pids (0 is not handed out) for three programs make the counter wrap, skip
  pids in use and hand pids out again while others remember them.
  After a wrap a small pid comes under larger ones, so these few slots are enough
  for right rotations: processes are lost to the map, and two living processes get
  the same pid.
- Eight blocks are what four processes hold. Once a node has leaked, a fourth
  process finds memory for its stack but none for its node; `CreateAborts` may also
  come earlier.
- Lengths 1 and 2 tell the shorter buffer from the longer one.
- With three sleepers a new sleep falls before, between and behind others, ties
  included; 5 ms round up; the deltas of two slices add up.
- Six slots and pids up to 10 give the tree every shape that eight creations in
  any interleaving with stops produce. The first right rotation is made for pid 9,
  so there are lookups, stops and an insertion in a tree that has lost something.
- A ring of two wraps, overflows and is emptied in part; reads of one, of as
  much as fits and of more than fits differ in how they end. Two processes and
  two descriptors let one open the keyboard while the other has it, stop with
  it, and be replaced. A controller with two characters makes an interrupt
  bring none, one or two of them.
- Fourteen units hold four blocks of one unit below the hole and two above it:
  a block comes back between two free ones, between a free and a held one on
  either side, and next to the hole. 20 bytes round up; 0 is refused; 64 and 128
  use up a side of the hole. What is left of a block is nothing, a bare header,
  or more.
- Five slots are what the largest test needs at a time, but for the tests with
  six partners: these create them three by three. Two signals without a script
  are enough for a handler above a handler and for one that waits below it;
  `test_stack_sigtramp` nests three.
- Room for two codes lets an extended code lose its second half.

Views. `MCKernel`: without `irc` and `parentPid` (only handed to programs), the
arguments of calls that are over, the lengths of blocked calls (the caller that
completes the exchange comes with every length), the fields of free slots and the
delta of those who do not sleep. `MCKeyboard`: without `irc` and the slots of the ring that
hold no character. `MCHeap`: of memory that is neither on the list nor the header
of a held block only the mark, the one field of it that is read again. No later
step and no invariant of these runs depends on what is left out. Action
properties are evaluated on every step that TLC generates, and the actions
assign or copy what is left out and never test it.

Two runs leave steps out by name, since the properties do not survive them:

- `heap` runs `TestsWhilePrevTrue`, the tests and then programs, as long as
  `TakesWithPrevTrue`: no request is served from a block whose `prev` is stale.
  `heap_prev` shows how that comes about and finding 3 what it does.
- `programs` runs `SpecWhileLinksTrue`: no process stops while somebody whom a
  signal took out of a call is still in one of its queues; no key arrives for a
  read that was interrupted; no handler is removed while its signal is pending.
  Section 6 says what happens then, `user_program` shows the second case.

`keyboard_any` allows programs everything. `keyboard_usual` leaves out reads of
length 0 and the choice of another end of input (but for the one that
`test_sysioctl` makes on an empty ring), each of which can abort the kernel.

`CHECK_DEADLOCK FALSE` is set for `PidTree`, where the bound on the counter ends
every behaviour, for `Keyboard`, where all programs may have stopped (nobody is
left to open the driver) and the tests end, and for `Programs`, where
`dispatch()` returns to the test that called it. `Kernel`, `Heap` and `Scancode`
never stop.

What the properties say. Of the kernel: what a process waits for is alive and
knows of it (`WaitsOnTarget`, `NoMissedRendezvous`), a blocked call ends for the
one reason it may end (`ReleasedByPeer`), the state field and the lists agree
(`InItsPlace`, with signals `QueuesSound`), a preempted process finds its registers
(`SavedResultStable`), the queue is first come first served but for idle
(`QueueAdvances`), the delta list keeps its promises (`SleepersTimed`), a lookup
finds a living process with that pid or none, and every one as long as nothing
has leaked (`PidMapSound`), and memory leaks in no turn but one that rotates right
(`HeapBalance`). Of signals: handlers nest by
priority (`HandlersNest`, `NestingBounded`), none is held back that the mask lets
through (`SignalsAreDelivered`), and every call returns what the tests assert
through all of that (`ResultsAsPromised`). Of the keyboard: descriptor tables,
driver and the life of processes agree (`Exclusive`), whoever waits for a key
will get one (`WaitsForKeys`, `ReadEnds`), a read returns what it was asked for
(`ReadResult`), and no character is repeated, reordered or lost without need
(`StreamInOrder`). Of memory: the list is sorted, joined and disjoint from what
programs hold (`ListSound`), and memory is refused only when there is none
(`RefusesWhenFull`). `TestsPass`, `DeviceTestsPass` and `TestsEnd` are the tests of the
repository, under every interleaving with interrupts and preemption.

## 4. Fairness

`FairSpec` of `Kernel` asks for one thing: weak fairness of `Preempt`, the timer
interrupt. `initPIT(TIME_SLICE_DIV)` programs a periodic timer before the first
process runs (`c/ctsw.c:31`), and every process runs with interrupts enabled:
`create()` sets `eflags` to 0x3200 (`c/create.c:77`) and user programs do not
disable them. Nothing is assumed of programs: they may compute for ever, and
whether any system call happens is left open. Under this, `ReadyRuns` and
`SleeperWakes` hold. An aborted kernel is excluded in both: it makes no promises.
Real programs trap between two ticks; the model lets ticks and calls interleave
in every way, so it also covers programs that trap as often as they like.

`FairSpec` of `DeviceTests` asks for weak fairness of `TypesKey` (somebody goes on
pressing keys, in the tests as long as one waits for them: an assumption about
the user, without which no read need ever return) and of `Interrupts`: the driver
enables its interrupt when it is opened (`c/kbd.c:51`), the controller holds the
line until it has been read, and processes run with interrupts enabled, as
above. Nothing is assumed of programs.

`FairSpec` of `Programs` says that the machine goes on as long as `dispatch()` has not
returned, and that a program that is given the CPU again and again comes to its
next call. The first is weak fairness of `Next`, the second strong fairness of a
process's own progress: a slice is long enough for some instructions, and
processes do not compute between calls unless they say so (`Loops`, `Until`).
Both are written as `[]<>` of steps and not with WF and SF, whose ENABLED TLC
evaluates slowly for these actions. `TestsEnd` needs both.

## 5. Proofs

`KernelProofs` proves, for every `NumProc >= 2`, every `PidSpace > NumProc + 1`,
every amount of memory and every set of inputs:

| Theorem | Statement |
|---|---|
| `Safety` | `Spec => []IInv` |
| `TypeCorrect` | `Spec => []TypeOK` |
| `QueuedOnce` | `Spec => []NoDuplicates` |
| `NoneLost` | `Spec => []InItsPlace` |
| `NobodyWaitsOnTheDead` | `Spec => []WaitsOnTarget` |
| `PidMapStaysSound` | `Spec => []PidMapSound` |
| `SleepersCounted` | `Spec => []SleepHeadPositive` |
| `AlwaysDispatches` | `Spec => []DispatcherNeverRunsDry` |

Assumptions: the five named ASSUMEs of `Kernel`. `initproc()` needs two slots and
four blocks;
`getNextPid()` needs a free pid; lengths and sleeps are natural numbers and
`%eax` an integer; a slice is not empty. TLC evaluates them in each run.

None of the invariants is inductive alone. `IInv` is the conjunction of `TypeOK`,
`NoDuplicates`, `InItsPlace`, `WaitsOnTarget` and `SleepHeadPositive` with `IdleAtHand`
(the idle process is READY or RUNNING) and `MapInv`: the PID map is a search tree of
entries of living processes; the kernel holds at least the blocks that living
processes and this tree account for (`Held`); and if it holds no others, the tree
has all living processes.

- `InItsPlace` needs `NoDuplicates`: taking one occurrence of a process off a
  list leaves none only if there was one.
- `NoDuplicates` needs `InItsPlace` and `WaitsOnTarget`: a process is appended
  to a list only when its state says that it is on none.
- `WaitsOnTarget` needs of `MapInv` that a lookup leads to a living process with
  that pid, never that it finds each: what a right rotation loses cannot be
  called, but who waits already is in a queue. It needs `InItsPlace`: a process
  that is released was in no other wait queue.
- `MapInv` needs `InItsPlace` for the running process. That the map misses
  somebody only when a block has leaked is what carries through a deletion: if
  nothing leaked, the pid of the process that stops is nobody else's. If
  something did, another process may have the same pid and lose *its* entry.
- The lookups of `getNextPid()` and of deletion, and the bound on leaks, rest on
  `PidMapProofs` (below): `CreateMap` and `StopMap` apply it.
- `TypeOK` needs `SleepHeadPositive` for the decrement in `tick()`.
- `DispatcherNeverRunsDry` follows from `IdleAtHand` and `InItsPlace`: if no
  process ran, idle would be READY, hence in the queue, and would be chosen.

The argument goes from the common end of all actions outwards. `ChosenAndLeft`
says that the selection takes exactly one process out of the queue;
`ResumeFacts` and `ResumeInPlace` say what `Resume` does to types and places
for any list of released processes; `CallerReturns`, `ExchangeReturns`,
`BlockedInPlace` and `CallerBlocks` do the handlers that return at once,
exchange a message or block; one lemma per remaining action (`CreateSafe`,
`StopSafe`, `SleepSafe`, `TimerSafe`, ...) does its own changes. `NextSafe`
combines them, and the theorems are temporal corollaries. `QueueLemmas` holds
the facts on sequences: what appending, removing, inserting and splitting does
to the set of elements and to injectivity.

`KernelStepProofs` goes on from `IInv`, under the same assumptions:

| Theorem | Statement |
|---|---|
| `RendezvousNotMissed` | `Spec => []NoMissedRendezvous` |
| `OnlyRotationsLeak` | `Spec => HeapBalance` |
| `ResultsAreKept` | `Spec => SavedResultStable` |
| `NobodyOvertakes` | `Spec => QueueAdvances` |
| `OnlyThePeerReleases` | `Spec => ReleasedByPeer` |
| `SleepersWakeOnTime` | `Spec => SleepersTimed`, the refinement of `SleepTimer` |

Every step is a turn, or nothing happens that matters (`Quiet`). In a turn
(`TurnOf`) a list of processes that are not in the ready queue is readied, and the
caller blocks, stops or is on the list; `TurnFacts` says who changes state.
`StepKinds` reduces the actions to six kinds of turns (the caller returns at once,
meets one process that waits, blocks, creates a process, stops, or is preempted),
`StepIsTurn` finds the list for each.

- `NoMissedRendezvous` is preserved because each half of a rendezvous looks for
  the other before it waits. `ExchangeMeets` says that the one who is taken out
  of a queue was the only one there to match. A receiver that asks for anybody
  is not forgotten: whoever sends to it finds it by its state.
- `HeapBalance` compares what a turn takes from `kmalloc` with the stacks and nodes
  that it puts to use, so the proof counts both: `LivingTurn` says which slots are
  alive after a turn, `CreateMap` and `StopMap` how many entries the tree has.
  An insertion without a right rotation adds one node; one with a right
  rotation loses some, which is the leak. A deletion frees a node exactly if it
  takes one out.
- `QueueAdvances`: `ready()` appends and `next()` takes the head, but idle is
  chosen only if it is alone; `ChosenOrNearer` follows one process through both.
- `SleepersTimed`: what is left to a sleeper is the sum of the deltas up to it.
  `SumsUp` characterises the prefix sums of a list, `TimeLeftIs` reads them as
  times; `SleepSums` inserts into a list (the successor gives up what the new
  sleeper takes), `TickSums` takes a prefix of zeros off it.

`KeyboardProofs` proves, for every ring size, any number of processes and at
least two descriptors, every set of keys and requests:

| Theorem | Statement |
|---|---|
| `DriverTypes` | `Spec => []TypeOK` |
| `OneOwner` | `Spec => []Exclusive` |
| `CharactersInOrder` | `Spec => StreamInOrder`, the refinement of `KeyStream` |
| `ReadersAreServed` | `Eofs = {}` implies `Spec => []WaitsForKeys` |
| `DriverNeverAborts` | `Eofs = {}` and `0 \notin Lens` imply `Spec => []NeverAborts` |
| `ReadsReturnWhatTheyGot` | `Spec => ReadResult` |
| `OnlyCutReadsAreServedAgain` | `Spec => ServedAgainOnlyAfterCut` |

Assumptions: the five named ASSUMEs of `Keyboard`. `IInv` is `TypeOK` with
`Exclusive`; together they are inductive (`OneOwner` needs the type of
`opened_dv`, and `KeyEnds` may only ready a process that is alive, which is
`Exclusive`). The refinement rests on two lemmas about the ring, which need the
types: `ReceivedRing` (an interrupt leaves the waiting characters where they are
and puts the new ones behind them) and `RingTake` (taking k characters leaves the
rest in order). Both are arithmetic with remainders, which `ModCases` reduces to
linear arithmetic: no position is more than twice the ring away from its start.
`MoveCalled` and `MoveTyped` then show that calls and interrupts are `Move` steps.
`WaitsForKeys` is not inductive: a read that finds no stored end of input must
not block after one has been reached, hence `EofKnown`, which says that the flag
`EOF_IN_BUF` covers both. It fails when programs change the end of input, which is
why the theorem assumes that they do not.

`NeverAborts` needs the converse: once the flag is set and the end has not been
reached, the character that set it is still in the ring (`HInv`), so that the loop of
`buf_copy()` finds it. `SuffixEof` and `AvailableHasEof` carry that through the
copies; `AbortRequested` and `AbortKeys` go through calls and interrupts.

The last two hold for programs that change the end of input and read nothing, too.
`CompletesOver` says how a copy that ends leaves a read (`Over`), whoever made it:
the call or the interrupt. `ReaderReturns` says that nothing but the interrupt ends a
read that has blocked. `CutShort` is the invariant about a read that has returned:
if the driver still takes it for unfulfilled, it was cut by a line or the end of
input. It bounds finding 2: this is the only way to be served again.

The theorems are about `Spec` of `Keyboard`, in which some of the processes exist
already and no tests run.

`ProgramsProofs` proves, for every number of processes, every set of signals and
every choice of boots:

| Theorem | Statement |
|---|---|
| `HandlersAreBounded` | `Spec => []NestingBounded` |
| `NoSignalWaits` | `Spec => []SignalsAreDelivered` |

The invariant `Nested` says of every stack that it climbs (`Climbs`): each frame is
for a higher signal than those below it, and the mask, like every mask kept in a
frame, admits only signals above the frames that it is for. `PushClimbs` and
`PopClimbs` are the two things that happen to a stack; `TurnNests` applies the
first to whatever process a turn selects, and one lemma per call shows that it
does nothing else to stacks and masks. No fact about the lists of the kernel is
used, so the theorem holds also in the steps that `SpecWhileLinksTrue` leaves out.
A climbing stack of numbers below 32 has at most 32 frames.

`SignalsAreDelivered` speaks of blocked processes and of the one that runs, and
the end of a turn delivers only to the latter. `Delivered` adds `Nested` (a frame
closes the mask up to its own signal, so one delivery is enough) and that nobody
but `run` is RUNNING. The argument needs to know of each handler only whom it
may change: `signal()` readies whom it interrupts, everything else only readies
processes, and its caller alone may block or stop (`Readies`, `Leaves`). So a
process that is blocked after a turn was blocked before it, or has made the call
itself, with a mask that let nothing through. The loops of `tick()` and
`cleanup()` are recursive functions bounded by the length of the table;
`LoopReadies` goes through them step by step. As above, nothing is assumed of the
lists: they may even be cut (section 6).

`PidMapProofs` holds what is known of the tree, for all trees, and no theorem of its
own. `PidTreeProofs` proves with it, for every number of slots and pids, two at
least:

| Theorem | Statement |
|---|---|
| `HeightsCover` | `Spec => []HeightsCoverDepth` |
| `TreeActsAsMap` | `Spec => ActsAsMap` |
| `LookupIsNeverWrong` | `Spec => []LookupNeverWrong` |
| `LookupIsExact` | `SpecWhileLeft => []LookupExact` |

Assumption: `PidTreeAssumption` of `PidTree`. `LookupNeverWrong` says that a lookup that
finds a slot finds the process with that pid, `LookupExact` that it finds each living
process. `SpecWhileLeft` admits the steps that take no right rotation (`TurnsLeftOnly`);
without it the last statement is false, which is finding 1.

A tree is a nested record, so everything about it is an induction over the nodes, and
`Levels` puts the nodes of a tree in a sequence of finitely many sets. `Tree` says
that each node is a record whose recorded height exceeds those of its children,
nothing more: `delete()` does not keep heights exact. It is enough for the nested
calls to end (`CallsDown`, `DeleteCallsDown`): each goes to a lower node, and the
first that finds its pid or NULL is among those that the root's height allows.
`InsertTree` and `DeleteTree` go from the last call up. `delete()` keeps `Tree` because
what a call returns is never higher than the node that it was made on.

`IsMap(t, E)` says that `t` is a search tree with the entries `E`. `MapParts` takes one
apart at the root, `MapNode` puts one together, and each operation changes `E` as
a map would: `LeftRotationMap` keeps it, `DeleteMap` takes one entry out,
`PredecessorLast` finds the entry that takes the place of a node with two children.
`RightRotationMap` says that a right rotation leaves a search tree of the left
subtree alone; `RebalancedMap` and `InsertMap` follow this up the path: what
`insert()` returns is a search tree of the new map or, if it turned right
somewhere, of a part of it. (So far `PidMapProofs`, and `KernelProofs` builds on the
same lemmas.) `MapInv`, with `Spec`, says that the tree is a search tree
of *some* living processes, which have different pids below the counter;
`ExactInv`, with `SpecWhileLeft`, that it is one of all. A lookup in a search tree finds
the entry of its pid or none (`LookupMap`), so that `Mapping`, what lookups see, is
the set of entries, and the theorems follow.

`HeapProofs` proves, for every size of memory, every place of the hole and every
set of requests:

| Theorem | Statement |
|---|---|
| `ListKept` | `SpecWhilePrevTrue => []ListInv` |
| `ListStaysSound` | `SpecWhilePrevTrue => []ListSound` |
| `MarksStayExact` | `SpecWhilePrevTrue => []MarksExact` |
| `RefusalMeansFull` | `SpecWhilePrevTrue => []RefusesWhenFull` |
| `ListIsPool` | `SpecWhilePrevTrue => BlocksDisjoint`, the refinement of `MemoryPool` |

Assumption: `MemoryAssumption` of `Heap`. The condition `TakesWithPrevTrue` is the one
of the run `heap`; without it the theorems are false, which is finding 3.

A statement about the list that the pointers make is awkward to carry through
writes to memory, so `ListInv` says that there is a set `F` of blocks such that
the head and the `next` of each block name the least block of `F` above
(`Chain`); that the blocks of `F` and those that are held lie in memory, off the
hole and apart (`Laid`); that no two blocks of `F` touch; and that marks and
sizes of held blocks are right. It says nothing of `prev`, which the code leaves
stale. `ChainInsert`, `ChainRemove` and `ChainReplace` are what `kmalloc()` and
`kfree()` do to `F`; `LaidSplit`, `LaidTake` and `LaidJoin` what they do to units.
`KmallocKeeps` uses `PrevTrue` once, where the predecessor is written through
`prev`. `KfreeKeeps` is in three steps as the code: `InsertedWrites` puts the block
in its place, then it may be joined to the one above (`NextJoined`) and to the one
below (`PrevJoined`). `ListIsChain` unrolls the recursive definition of the list
that the properties are written with and finds `F` in order. `UnitsAre` and
`StepPool` turn the facts about blocks into facts about units for the refinement.

Induction. The library's induction theorems take an operator and cannot be used.
`LeastNumber` and `CountUp` of `QueueLemmas` are proved from well-foundedness and
speak of a set of numbers instead; with them recursive functions and lists are
reasoned about as usual.

What is left to TLC, and why:

- `HandlersNest`, `QueuesSound`, `ResultsAsPromised` and `AllStoppedAtReturn` of
  `Programs`, and the tests (`TestsPass`, `DeviceTestsPass`): they hold for the
  programs listed there. For arbitrary programs the first two do not: a stop or a
  tick may ready a process that a signal has taken out of the queue (section 6),
  even one that has stopped.
- `Scancode`: finite tables, eight keys for all branches; a proof would only
  repeat what TLC enumerates.
- Liveness (`ReadyRuns`, `SleeperWakes`, `ReadEnds`, `TestsEnd`): beyond the prover.

## 6. Findings

1. `rotateRight()` (`c/disp.c:332`) does not hang the old root under the node it
   returns, so the old root and its right subtree are lost to the PID map. While
   pids only grow, right rotations are rare: TLC needs six slots and a sequence of
   about eleven creations and stops (`pid_tree_loses`); with five, pids up to 13
   and the same invariant it finds nothing. After the counter has wrapped, four
   slots are enough: create 3 and 4, stop 1 and 3, create 5, stop 5, and the
   creation of pid 1 loses pid 4. Then `delete()` finds nothing for pid 4 and its
   node is never freed, and `getNextPid()` may hand out 4 once more while the first
   process with this pid lives, although it "returns next ununsed non-zero PID"
   (`c/create.c:26`). If one of the two stops, it takes the entry of the other out of the
   map. All of this happens in the run `kernel`. Nothing else in the tree loses a
   process (`LookupIsExact`) or a block (`OnlyRotationsLeak`), and what is lost is not
   taken for something else (`LookupIsNeverWrong`, `PidMapStaysSound`). The test of the
   map in `c/init.c:505-561` performs such rotations but looks up only pids that
   survive them.
2. A read that a newline or the end of input completes before the buffer is
   full leaves `ch_read < buf_len`, which is how the interrupt routine recognises
   a waiting read (`c/kbd.c:242`). The next interrupt copies characters behind
   the ones that the program has already got, so a later read misses them,
   writes `irc`, where a preempted process keeps its `%eax`, and at the next line
   calls `ready()` for a process that may be in the ready queue already
   (`keyboard_lines`; in `Kernel`, `NoDuplicates` shows that nobody else does).
3. After `kfree()` has joined a block with its successor it corrects the `prev` of the
   wrong block (`c/mem.c:134`): the condition and the assignment look at
   `hdr->next` after it has been replaced. The block behind keeps a `prev` into
   joined memory, and the one after that gets a `prev` that is not its predecessor.
   When `kmalloc()` later takes either of them it writes the new successor through
   this pointer; the list itself still holds the block that has been given out (in
   `heap_prev` the latter of the two), so the next request may get it again.
4. `signal()` takes a process out of a blocked read and leaves the request in the
   keyboard driver (`c/signal.c:74`). The next key completes the request and calls
   `ready()` for a process that may be in the ready queue: whoever is behind it is
   cut off. In the user program as shipped that can be the idle process, after
   which `dispatch()` returns (`user_program`).

Smaller disagreements, or behaviour about which the repository says nothing, that
have no run of their own:

- The header of `create()` promises a pid or `SYSERR` (`c/create.c:37`), but `insert()`
  aborts the kernel when the tree node cannot be allocated (`c/disp.c:349`): the
  action `CreateAborts`.
- `delete()` does not rebalance, so the comment that an only child has no children
  (`c/disp.c:427`) is not true after some stops; the code does not depend on it.
- A read of length 0 aborts the kernel if the ring is empty (`c/kbd.c:143`). If it is
  not, the loop of `buf_copy()` stores one character all the same.
- `ioctl` 53 does not look at the characters that are stored (`c/kbd.c:109`). If the
  old end of input is among them, a read that should block drains the ring and
  aborts the kernel.
- `syssleep(0)` returns what an earlier call left in `irc` (`c/sleep.c:50`).
- A signalled process stays linked in the senders or receivers queue of its peer, a
  signalled sleeper in the sleep list (`c/signal.c:75`). When the peer stops,
  `cleanup()` readies it once more, whatever it does by then (`c/disp.c:264`), and `tick()` does the same to the sleeper (`c/sleep.c:22`);
  `ready()` then cuts a list, or revives a stopped process.
- A signal that is allowed but masked by the handler that runs interrupts a blocked
  call of that handler all the same (`c/signal.c:70`): the call returns -129 and no
  handler runs.
- Removing a handler leaves a pending signal (`c/signal.c:34`), which is then
  delivered to address 0.
- `test_stack_sigtramp` kills its idle process before its own last sleep
  (`c/init.c:1264-1269`), so `dispatch()` returns while it sleeps. `AllStoppedAtReturn`
  names it as an exception. For `test_syskill` it does not cover the stop of the parent
  itself, which `LinksTrue` leaves out.
- When nothing is left of a block that `kmalloc()` splits but a bare header, the unit
  belongs to nobody until the machine stops (`c/mem.c:57`): `Lost` in `Heap`.
- `testKmalloc` writes `ptr_a[3]` of an array of three (`c/init.c:348`); `HeapTests` gives
  it four.
- `EXTESC` has the bit `KEY_UP` (`h/kbd.h:47`), so the state `EXTENDED` is never
  entered; right-hand keys work since their second code is that of the left one.
- With meta down, a key without a character stores 128; without meta nothing
  (`c/kbd.c:404`). With both shift keys down, releasing one ends the mode.

## 7. What is not modelled

Registers and stacks (beyond signal frames and `%eax`) and the contents of
messages are abstracted. `TIME_INT` only measures a context switch.

Of the tests in `c/init.c` three are left out: `testContextSwitch` compares
registers around two switches that it makes by hand, `testPidMap` and
`testSleepList` call the functions of the PID map and the sleep list directly and
look at nodes and deltas. The second would only repeat `PidTree` on sixteen nodes
(where the lost subtrees of finding 1 go unnoticed, since the test looks up only
pids that survive), the third the delta list of `Kernel`.

User programs call `kmalloc` and `kfree` with interrupts on (`c/user.c:13`); `Heap`
takes each call as one step, as the kernel makes them.

Left out for good: hardware set-up and interrupt glue (`c/i386.c`, `c/startup.S`,
`c/intr.S`), which is register writes without a state of the kernel's own; formatting
and the console (`c/kprintf.c`); the boot loader (`boot/`), a vendored
decompressor and build tool; the C library (`lib/`), vendored as well. None of it
takes part in what the kernel decides.

`Kernel` covers programs that neither send signals nor open devices, `Keyboard`
what devices do to those that send no signals, `Pcbs` and `Programs` the programs
that are listed, with signals and with a device reduced to one request.

## 8. Plan

Everything of the first plan is built, and the proofs of section 5 cover what it
named. What follows is left.

- `Rendezvous`: abstract message exchange refined by `Kernel`, with negative
  lengths.
- A tree whose right rotation is repaired, shown to be an exact map without the
  condition of `LookupIsExact`, and a kernel with it that leaks nothing.
- Scripts that signal a process that sends or sleeps: they need the links that a
  signal leaves behind (section 6), which the properties of the queues do not survive.
