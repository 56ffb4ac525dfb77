------------------------------- MODULE Kernel -------------------------------
(***************************************************************************)
(* The process core of the Xeros kernel: the dispatcher loop of c/disp.c,  *)
(* process creation (c/create.c) and clean-up, rendezvous messaging        *)
(* (c/msg.c) and the sleep device (c/sleep.c).                             *)
(*                                                                         *)
(* The kernel runs with interrupts disabled from the trap of one process   *)
(* to the iret into the next, so one step of this specification is one     *)
(* whole turn of the loop in dispatch(): the request of the running        *)
(* process is handled, everybody it wakes is readied, and next() selects   *)
(* the process that runs afterwards.  User programs are arbitrary: the     *)
(* running process may issue any request, or be preempted, in every state. *)
(*                                                                         *)
(* A pcb is named by its slot in pcbTable; NULL-terminated lists linked    *)
(* through pcb.next are sequences of slots.                                *)
(***************************************************************************)
EXTENDS PidMap, SequencesExt

CONSTANTS
  NumProc,    \* MAX_NUM_PROCESS, the number of slots of pcbTable
  PidSpace,   \* the number of values of the unsigned counter nextPid (2^32)
  Lens,       \* buffer lengths that programs pass to syssend and sysrecv
  Sleeps,     \* milliseconds that programs pass to syssleep
  TimeSlice,  \* TIME_SLICE_MS, the period of the timer interrupt
  Blocks,     \* number of blocks that the kernel can get from kmalloc
  Eax         \* contents of %eax at a timer interrupt

\* initproc() needs two slots.  A process that is being created finds at most
\* NumProc - 1 pids in use, and 0 is never handed out.
ASSUME TableAssumption == NumProc \in Nat /\ NumProc >= 2
ASSUME PidAssumption == PidSpace \in Nat /\ PidSpace > NumProc + 1
ASSUME InputAssumption ==
  Lens \subseteq Nat /\ Sleeps \subseteq Nat /\ Eax \subseteq Int
ASSUME SliceAssumption == TimeSlice \in Nat /\ TimeSlice > 0
ASSUME BlocksAssumption == Blocks \in Nat /\ Blocks >= 4

Procs == 0 .. NumProc - 1
Pids  == 0 .. PidSpace - 1
Root  == 0         \* slot of the first process, running root()
Idle  == 1         \* slot of the idle process, running idleproc()

States == {"STOPPED", "RUNNING", "READY", "SENDING", "RECEIVING", "SLEEPING"}

SYS_SR_NO_PID == -1
SYS_SR_SELF   == -2
SYSERR        == -1

VARIABLES
  state,        \* pcb.state
  pid,          \* pcb.pid
  parentPid,    \* pcb.parentPid
  irc,          \* pcb.irc, the result that the next iret puts into %eax
  arg,          \* user memory named by iargs: the peer and the buffer length
                \* of the last syssend or sysrecv that was not refused, and
                \* peer is *from_pid
  ready_queue,  \* list of READY processes
  senders,      \* pcb.senders, list of processes sending to this one
  receivers,    \* pcb.receivers, list of processes receiving from this one
  sleep_list,   \* delta list of sleeping processes
  delta,        \* pcb.delta, slices to wait after the predecessor's wake-up
  run,          \* p of dispatch(): the process that holds the CPU
  pidMap,       \* the root of the tree that maps pids to slots
  nextPid,      \* the pid counter
  heap,         \* number of blocks the kernel holds from kmalloc
  halted        \* abort(): the trap handler spins in for(;;)

procVars  == <<pid, parentPid, pidMap, nextPid, heap, halted>>
ipcVars   == <<arg, senders, receivers>>
sleepVars == <<sleep_list, delta>>
vars == <<state, irc, ready_queue, run, procVars, ipcVars, sleepVars>>

-----------------------------------------------------------------------------
(* Queues. *)

\* ready() on every element of woken, in order: pcbs in the queue are READY.
Readied(st, woken) ==
  [p \in Procs |-> IF p \in ToSet(woken) THEN "READY" ELSE st[p]]

\* The process dispatch() runs next from queue q: idle only when it is alone.
Chosen(q) ==
  IF q = <<>> THEN NoProc
  ELSE IF Head(q) = Idle /\ Len(q) > 1 THEN q[2]
  ELSE Head(q)

\* Mutant of Left: dispatch() forgets ready(idle) when it passes idle over.
LeftIdleDropped(q) ==
  IF q = <<>> THEN <<>>
  ELSE IF Head(q) = Idle /\ Len(q) > 1 THEN Tail(Tail(q))
  ELSE Tail(q)

\* The queue that Chosen leaves: idle goes to the end when it is passed over.
Left(q) ==
  IF q = <<>> THEN <<>>
  ELSE IF Head(q) = Idle /\ Len(q) > 1 THEN Append(Tail(Tail(q)), Idle)
  ELSE Tail(q)

\* Mutant of Queued: ready() pushes at the front.
QueuedInFront(woken) == woken \o ready_queue

\* ready_queue once woken have been readied, in order.
Queued(woken) == ready_queue \o woken

\* The end of one turn of the loop: woken are readied, the next process runs.
Resume(st, woken) ==
  LET p == Chosen(Queued(woken))
  IN  /\ run' = p
      /\ ready_queue' = Left(Queued(woken))
      /\ state' = IF p = NoProc THEN Readied(st, woken)
                  ELSE [Readied(st, woken) EXCEPT ![p] = "RUNNING"]

\* i is where a search of queue q for a process id ends.
FirstWithPid(q, id, i) ==
  /\ i \in DOMAIN q
  /\ pid[q[i]] = id
  /\ \A j \in 1 .. i - 1 : pid[q[j]] # id

\* Mutant of HasPid: the search looks at the head of the queue only.
HasPidAtHead(q, id) == q # <<>> /\ pid[Head(q)] = id

HasPid(q, id) == \E i \in DOMAIN q : pid[q[i]] = id

-----------------------------------------------------------------------------
(* The PID map. *)

pidMapLookup(x) == lookup(pidMap, x)
pidMapInsert(x, s) == insert(pidMap, x, s)

\* Mutant of pidMapDelete: cleanup() leaves the pid in the map.
pidMapKept(x) == pidMap

pidMapDelete(x) == delete(pidMap, x)

\* The nodes that delete() frees: none for a pid that it does not find.
NodesFreed(x) == IF pidMapLookup(x) = NoProc THEN 0 ELSE 1

-----------------------------------------------------------------------------
(* initproc() up to the first iret: root and idle exist, root runs. *)

Init ==
  /\ state = [p \in Procs |-> CASE p = Root -> "RUNNING"
                                [] p = Idle -> "READY"
                                [] OTHER -> "STOPPED"]
  /\ pid = [p \in Procs |-> CASE p = Root -> 1 [] p = Idle -> 2 [] OTHER -> 0]
  /\ parentPid = [p \in Procs |-> 0]
  /\ irc = [p \in Procs |-> 0]
  /\ arg = [p \in Procs |-> [peer |-> 0, len |-> 0]]
  /\ ready_queue = <<Idle>>
  /\ senders = [p \in Procs |-> <<>>]
  /\ receivers = [p \in Procs |-> <<>>]
  /\ sleep_list = <<>>
  /\ delta = [p \in Procs |-> 0]
  /\ run = Root
  /\ pidMap = insert(insert(Null, 1, Root), 2, Idle)
  /\ nextPid = 3
  /\ heap = 4
  /\ halted = FALSE

\* The running program traps into the kernel.  idleproc() only executes hlt.
Calls(p) == p = run /\ p \in Procs \ {Idle} /\ ~halted

-----------------------------------------------------------------------------
(* CREATE: create() and getNextPid(). *)

Unused(x) == x # 0 /\ pidMapLookup(x) = NoProc

\* Increments of nextPid until it equals x.
Steps(x) == IF x >= nextPid THEN x - nextPid ELSE x + PidSpace - nextPid

\* getNextPid() returns x.
FreshPid(x) == Unused(x) /\ \A y \in Pids : Steps(y) < Steps(x) => ~Unused(y)

FirstFree(s) ==
  /\ state[s] = "STOPPED"
  /\ \A r \in Procs : r < s => state[r] # "STOPPED"

\* create() succeeds in slot s with pid x: kmalloc gives the stack and the node.
Create(p, s, x) ==
  /\ Calls(p)
  /\ heap + 2 <= Blocks
  /\ FirstFree(s)
  /\ FreshPid(x)
  /\ pid' = [pid EXCEPT ![s] = x]
  /\ parentPid' = [parentPid EXCEPT ![s] = pid[p]]
  /\ pidMap' = pidMapInsert(x, s)
  /\ nextPid' = IF x = PidSpace - 1 THEN 0 ELSE x + 1
  /\ senders' = [senders EXCEPT ![s] = <<>>]
  /\ receivers' = [receivers EXCEPT ![s] = <<>>]
  /\ delta' = [delta EXCEPT ![s] = 0]
  /\ irc' = [irc EXCEPT ![s] = 0, ![p] = x]
  /\ heap' = heap + 2
  /\ Resume(state, <<s, p>>)
  /\ UNCHANGED <<arg, sleep_list, halted>>

\* Mutant of CreateRefused: the stack is not freed when the table is full.
CreateRefusedLeaks(p) ==
  /\ Calls(p)
  /\ irc' = [irc EXCEPT ![p] = SYSERR]
  /\ heap' = IF \E s \in Procs : state[s] = "STOPPED" THEN heap ELSE heap + 1
  /\ Resume(state, <<p>>)
  /\ UNCHANGED <<pid, parentPid, pidMap, nextPid, halted, ipcVars, sleepVars>>

\* create() returns SYSERR: the stack cannot be allocated, or the table is full
\* and the stack is freed again.
CreateRefused(p) ==
  /\ Calls(p)
  /\ irc' = [irc EXCEPT ![p] = SYSERR]
  /\ Resume(state, <<p>>)
  /\ UNCHANGED <<procVars, ipcVars, sleepVars>>

\* The stack is there but the tree node of the PID map is not: insert() aborts.
CreateAborts(p, s, x) ==
  /\ Calls(p)
  /\ heap + 1 <= Blocks
  /\ FirstFree(s)
  /\ FreshPid(x)
  /\ pid' = [pid EXCEPT ![s] = x]
  /\ parentPid' = [parentPid EXCEPT ![s] = pid[p]]
  /\ nextPid' = IF x = PidSpace - 1 THEN 0 ELSE x + 1
  /\ heap' = heap + 1
  /\ halted' = TRUE
  /\ UNCHANGED <<state, irc, ready_queue, run, pidMap, ipcVars, sleepVars>>

-----------------------------------------------------------------------------
(* STOP: cleanup(). *)

\* Mutant of Waiting: cleanup() forgets the processes that receive from p.
WaitingSenders(p) == senders[p]

\* Those who send to p, then those who receive from it, each in its order.
Waiting(p) == senders[p] \o receivers[p]

Stop(p) ==
  LET woken == ToSet(Waiting(p))
  IN  /\ Calls(p)
      /\ irc' = [q \in Procs |-> IF q \in woken THEN SYS_SR_NO_PID ELSE irc[q]]
      /\ senders' = [senders EXCEPT ![p] = <<>>]
      /\ receivers' = [receivers EXCEPT ![p] = <<>>]
      /\ pidMap' = pidMapDelete(pid[p])
      /\ heap' = heap - 1 - NodesFreed(pid[p])
      /\ Resume([state EXCEPT ![p] = "STOPPED"], Waiting(p))
      /\ UNCHANGED <<pid, parentPid, nextPid, halted, arg, sleepVars>>

-----------------------------------------------------------------------------
(* YIELD and PUTS, which leave irc as it is, GET_PID and GET_P_PID. *)

Yield(p) ==
  /\ Calls(p)
  /\ Resume(state, <<p>>)
  /\ UNCHANGED <<irc, procVars, ipcVars, sleepVars>>

GetPid(p) ==
  /\ Calls(p)
  /\ irc' = [irc EXCEPT ![p] = pid[p]]
  /\ Resume(state, <<p>>)
  /\ UNCHANGED <<procVars, ipcVars, sleepVars>>

GetParentPid(p) ==
  /\ Calls(p)
  /\ irc' = [irc EXCEPT ![p] = parentPid[p]]
  /\ Resume(state, <<p>>)
  /\ UNCHANGED <<procVars, ipcVars, sleepVars>>

-----------------------------------------------------------------------------
(* SEND and RECV: send(), receive() and send_receive_transfer(). *)

Called(p, peer, len) == [arg EXCEPT ![p] = [peer |-> peer, len |-> len]]

\* Mutant of Transfer: the sender's length is not looked at.
TransferAll(s, r, a) ==
  /\ irc' = [irc EXCEPT ![s] = a[r].len, ![r] = a[r].len]
  /\ arg' = [a EXCEPT ![r].peer = pid[s]]

\* send_receive_transfer(s, r) when the arguments of the two calls are in a:
\* the shorter length is copied and is the result of both calls, and the
\* receiver is told the sender's pid.
Transfer(s, r, a) ==
  LET n == IF a[s].len <= a[r].len THEN a[s].len ELSE a[r].len
  IN  /\ irc' = [irc EXCEPT ![s] = n, ![r] = n]
      /\ arg' = [a EXCEPT ![r].peer = pid[s]]

\* Both calls refuse the caller's own pid and a pid that is not in the map;
\* only receive() gives peer 0 a meaning (any sender).
Refused(p, peer) ==
  IF peer = pid[p] THEN SYS_SR_SELF
  ELSE IF pidMapLookup(peer) = NoProc THEN SYS_SR_NO_PID
  ELSE 0

\* Mutant of Taken: the partner of an exchange is left in the queue.
NotTaken(q, i) == q

\* recv_queue_remove(), send_queue_remove(): queue q without its i-th element.
Taken(q, i) == RemoveAt(q, i)

SendRefused(p, dest) ==
  /\ Calls(p)
  /\ Refused(p, dest) # 0
  /\ irc' = [irc EXCEPT ![p] = Refused(p, dest)]
  /\ Resume(state, <<p>>)
  /\ UNCHANGED <<procVars, ipcVars, sleepVars>>

\* dest is in the sender's receivers queue: it waits for this very process.
SendToWaiting(p, dest, len) ==
  /\ Calls(p)
  /\ \E i \in DOMAIN receivers[p] :
       /\ FirstWithPid(receivers[p], dest, i)
       /\ Refused(p, dest) = 0
       /\ Transfer(p, receivers[p][i], Called(p, dest, len))
       /\ receivers' = [receivers EXCEPT ![p] = Taken(@, i)]
       /\ Resume(state, <<p, receivers[p][i]>>)
  /\ UNCHANGED <<senders, procVars, sleepVars>>

AcceptsAny(r) == state[r] = "RECEIVING" /\ arg[r].peer = 0

\* dest receives from any process.
SendToAny(p, dest, len) ==
  /\ Calls(p)
  /\ Refused(p, dest) = 0
  /\ ~HasPid(receivers[p], dest)
  /\ AcceptsAny(pidMapLookup(dest))
  /\ Transfer(p, pidMapLookup(dest), Called(p, dest, len))
  /\ Resume(state, <<p, pidMapLookup(dest)>>)
  /\ UNCHANGED <<senders, receivers, procVars, sleepVars>>

\* Mutant of SendBlocks: send_queue_insert() does not set the state.
SendBlocksRunning(p, dest, len) ==
  /\ Calls(p)
  /\ Refused(p, dest) = 0
  /\ ~HasPid(receivers[p], dest)
  /\ ~AcceptsAny(pidMapLookup(dest))
  /\ senders' = [senders EXCEPT ![pidMapLookup(dest)] = Append(@, p)]
  /\ arg' = Called(p, dest, len)
  /\ Resume(state, <<>>)
  /\ UNCHANGED <<irc, receivers, procVars, sleepVars>>

SendBlocks(p, dest, len) ==
  /\ Calls(p)
  /\ Refused(p, dest) = 0
  /\ ~HasPid(receivers[p], dest)
  /\ ~AcceptsAny(pidMapLookup(dest))
  /\ senders' = [senders EXCEPT ![pidMapLookup(dest)] = Append(@, p)]
  /\ arg' = Called(p, dest, len)
  /\ Resume([state EXCEPT ![p] = "SENDING"], <<>>)
  /\ UNCHANGED <<irc, receivers, procVars, sleepVars>>

RecvRefused(p, src) ==
  /\ Calls(p)
  /\ src # 0
  /\ Refused(p, src) # 0
  /\ irc' = [irc EXCEPT ![p] = Refused(p, src)]
  /\ Resume(state, <<p>>)
  /\ UNCHANGED <<procVars, ipcVars, sleepVars>>

\* src names a process that is blocked sending to the caller.
RecvFrom(p, src, len) ==
  /\ Calls(p)
  /\ src # 0
  /\ \E i \in DOMAIN senders[p] :
       /\ FirstWithPid(senders[p], src, i)
       /\ Refused(p, src) = 0
       /\ Transfer(senders[p][i], p, Called(p, src, len))
       /\ senders' = [senders EXCEPT ![p] = Taken(@, i)]
       /\ Resume(state, <<p, senders[p][i]>>)
  /\ UNCHANGED <<receivers, procVars, sleepVars>>

RecvFromBlocks(p, src, len) ==
  /\ Calls(p)
  /\ src # 0
  /\ Refused(p, src) = 0
  /\ ~HasPid(senders[p], src)
  /\ receivers' = [receivers EXCEPT ![pidMapLookup(src)] = Append(@, p)]
  /\ arg' = Called(p, src, len)
  /\ Resume([state EXCEPT ![p] = "RECEIVING"], <<>>)
  /\ UNCHANGED <<irc, senders, procVars, sleepVars>>

RecvAny(p, len) ==
  /\ Calls(p)
  /\ senders[p] # <<>>
  /\ Transfer(Head(senders[p]), p, Called(p, 0, len))
  /\ senders' = [senders EXCEPT ![p] = Taken(@, 1)]
  /\ Resume(state, <<p, Head(senders[p])>>)
  /\ UNCHANGED <<receivers, procVars, sleepVars>>

RecvAnyBlocks(p, len) ==
  /\ Calls(p)
  /\ senders[p] = <<>>
  /\ arg' = Called(p, 0, len)
  /\ Resume([state EXCEPT ![p] = "RECEIVING"], <<>>)
  /\ UNCHANGED <<irc, senders, receivers, procVars, sleepVars>>

-----------------------------------------------------------------------------
(* SLEEP and SYS_TIMER: sleep() and tick(). *)

\* A started slice counts as a whole one.
Slices(ms) == ms \div TimeSlice + (IF ms % TimeSlice # 0 THEN 1 ELSE 0)

\* Mutant of Walk: the search for the place may stop early.
WalkShort(n, k, rem) ==
  /\ rem[0] = n
  /\ \A i \in 1 .. k : /\ delta[sleep_list[i]] <= rem[i - 1]
                       /\ rem[i] = rem[i - 1] - delta[sleep_list[i]]

\* sleep() walks over the first k sleepers: rem[i] is what is left of the n
\* slices after i of them.
Walk(n, k, rem) ==
  /\ rem[0] = n
  /\ \A i \in 1 .. k : /\ delta[sleep_list[i]] <= rem[i - 1]
                       /\ rem[i] = rem[i - 1] - delta[sleep_list[i]]
  /\ k < Len(sleep_list) => delta[sleep_list[k + 1]] > rem[k]

\* Mutant of InsertSleeper: the successor's delta is left as it was.
InsertSleeperOnly(p, k, rem) ==
  /\ sleep_list' = InsertAt(sleep_list, k + 1, p)
  /\ delta' = [delta EXCEPT ![p] = rem]

\* p waits rem slices longer than the k-th sleeper, its successor rem less.
InsertSleeper(p, k, rem) ==
  /\ sleep_list' = InsertAt(sleep_list, k + 1, p)
  /\ delta' = [q \in Procs |->
                 IF q = p THEN rem
                 ELSE IF k < Len(sleep_list) /\ q = sleep_list[k + 1]
                 THEN delta[q] - rem ELSE delta[q]]

Sleep(p, ms) ==
  /\ Calls(p)
  /\ Slices(ms) > 0
  /\ \E k \in 0 .. Len(sleep_list) : \E rem \in [0 .. k -> 0 .. Slices(ms)] :
       Walk(Slices(ms), k, rem) /\ InsertSleeper(p, k, rem[k])
  /\ Resume([state EXCEPT ![p] = "SLEEPING"], <<>>)
  /\ UNCHANGED <<irc, procVars, ipcVars>>

\* Nothing to wait for: readied with the result of an earlier call.
SleepZero(p, ms) ==
  /\ Calls(p)
  /\ Slices(ms) = 0
  /\ Resume(state, <<p>>)
  /\ UNCHANGED <<irc, procVars, ipcVars, sleepVars>>

\* The delta fields after tick() has decremented that of the head.
Ticked ==
  IF sleep_list = <<>> THEN delta ELSE [delta EXCEPT ![Head(sleep_list)] = @ - 1]

\* Mutant of WakesFirst: tick() wakes one sleeper at most.
WakesOne(k) ==
  /\ k <= 1
  /\ k = 1 <=> sleep_list # <<>> /\ Ticked[Head(sleep_list)] = 0

\* tick() wakes the first k sleepers.
WakesFirst(k) ==
  /\ \A i \in 1 .. k : Ticked[sleep_list[i]] = 0
  /\ k < Len(sleep_list) => Ticked[sleep_list[k + 1]] # 0

\* The running process, idle included, is preempted: eax becomes its saved
\* result, and the sleepers whose time has come are readied before it.
Timer(eax) ==
  /\ run # NoProc
  /\ ~halted
  /\ \E k \in 0 .. Len(sleep_list) :
       LET woken == SubSeq(sleep_list, 1, k)
       IN  /\ WakesFirst(k)
           /\ sleep_list' = SubSeq(sleep_list, k + 1, Len(sleep_list))
           /\ irc' = [p \in Procs |-> IF p \in ToSet(woken) THEN 0
                                      ELSE IF p = run THEN eax ELSE irc[p]]
           /\ Resume(state, Append(woken, run))
  /\ delta' = Ticked
  /\ UNCHANGED <<procVars, ipcVars>>

-----------------------------------------------------------------------------

\* After abort() the machine spins in the trap handler for ever.
Spin == halted /\ UNCHANGED vars

Lifecycle(p) ==
  \/ \E s \in Procs, x \in Pids : Create(p, s, x) \/ CreateAborts(p, s, x)
  \/ CreateRefused(p)
  \/ Stop(p)
  \/ Yield(p)
  \/ GetPid(p)
  \/ GetParentPid(p)

Messaging(p) ==
  \/ \E x \in Pids : SendRefused(p, x) \/ RecvRefused(p, x)
  \/ \E len \in Lens :
       \/ \E x \in Pids : \/ SendToWaiting(p, x, len)
                          \/ SendToAny(p, x, len)
                          \/ SendBlocks(p, x, len)
                          \/ RecvFrom(p, x, len)
                          \/ RecvFromBlocks(p, x, len)
       \/ RecvAny(p, len)
       \/ RecvAnyBlocks(p, len)

Sleeping(p) == \E ms \in Sleeps : Sleep(p, ms) \/ SleepZero(p, ms)

Next ==
  \/ \E p \in Procs : Lifecycle(p) \/ Messaging(p) \/ Sleeping(p)
  \/ \E eax \in Eax : Timer(eax)
  \/ Spin

Spec == Init /\ [][Next]_vars

\* The timer never stops interrupting: initPIT() programs it periodic, and
\* interrupts are enabled in every process.
Preempt == \E eax \in Eax : Timer(eax)

FairSpec == Spec /\ WF_vars(Preempt)

-----------------------------------------------------------------------------
(* Correctness. *)

\* Every variable has its type.  In particular the unsigned delta fields never
\* wrap below zero, in the subtractions of sleep() and in tick().
TypeOK ==
  /\ state \in [Procs -> States]
  /\ pid \in [Procs -> Pids]
  /\ parentPid \in [Procs -> Pids]
  /\ irc \in [Procs -> Int]
  /\ arg \in [Procs -> [peer : Pids, len : Nat]]
  /\ ready_queue \in Seq(Procs)
  /\ senders \in [Procs -> Seq(Procs)]
  /\ receivers \in [Procs -> Seq(Procs)]
  /\ sleep_list \in Seq(Procs)
  /\ delta \in [Procs -> Nat]
  /\ run \in Procs \cup {NoProc}
  /\ Entries(pidMap) \subseteq Pids \X Procs
  /\ nextPid \in Pids
  /\ heap \in Int
  /\ halted \in BOOLEAN

\* Every queue holds a process once.  ready() appends without looking, and a
\* pcb has one next pointer: a process queued twice cuts the list short.
NoDuplicates ==
  /\ IsInjective(ready_queue)
  /\ IsInjective(sleep_list)
  /\ \A p \in Procs : IsInjective(senders[p]) /\ IsInjective(receivers[p])

\* A process is in the ready queue, in the sleep list or on the CPU exactly
\* when its state says so: none is lost, and none is on two lists.
InItsPlace ==
  \A p \in Procs :
    /\ (p \in ToSet(ready_queue)) <=> (state[p] = "READY")
    /\ (p \in ToSet(sleep_list)) <=> (state[p] = "SLEEPING")
    /\ (p = run) <=> (state[p] = "RUNNING")

Sends(p) == state[p] = "SENDING"
ReceivesFrom(p) == state[p] = "RECEIVING" /\ arg[p].peer # 0

\* q is alive and has the pid that p names in its call.
IsPeer(q, p) == state[q] # "STOPPED" /\ pid[q] = arg[p].peer

\* A process blocked in syssend or in a sysrecv that names a peer is in the
\* queue of a living process that has this pid, and in no other queue: nobody
\* waits on a stopped process, on a reused slot or a reused pid.
WaitsOnTarget ==
  /\ \A q \in Procs :
       /\ \A p \in ToSet(senders[q]) : Sends(p) /\ IsPeer(q, p)
       /\ \A p \in ToSet(receivers[q]) : ReceivesFrom(p) /\ IsPeer(q, p)
  /\ \A p \in Procs :
       /\ Sends(p) => \E q \in Procs : \A t \in Procs :
                         p \in ToSet(senders[t]) <=> t = q
       /\ ReceivesFrom(p) => \E q \in Procs : \A t \in Procs :
                                p \in ToSet(receivers[t]) <=> t = q

\* No two processes wait for each other's opposite call: a sender is never
\* queued at a process that is ready to receive from it.
NoMissedRendezvous ==
  \A r \in Procs : \A s \in ToSet(senders[r]) :
    ~AcceptsAny(r) /\ r \notin ToSet(receivers[s])

Living == {p \in Procs : state[p] # "STOPPED"}

\* The blocks that can be given back: a stack for each living process, and the
\* nodes that are in the tree.
Held == Cardinality(Living) + Cardinality(Entries(pidMap))

\* A lookup never finds a stopped process or one of another pid, although slots
\* and pids are used again and rotations lose nodes; and as long as no node has
\* leaked it finds every living process, so that no pid in use is handed out.
PidMapSound ==
  /\ \A x \in Pids :
       LET q == pidMapLookup(x)
       IN  q # NoProc => x # 0 /\ pid[q] = x /\ q \in Living
  /\ heap = Held => \A p \in Living : pidMapLookup(pid[p]) = p

\* The head of the sleep list always has a slice to wait: a head at 0 would
\* wrap at the next tick and hold up every sleeper for 2^32 slices.
SleepHeadPositive == sleep_list # <<>> => delta[Head(sleep_list)] > 0

\* next() never comes back empty-handed: dispatch() does not return, as
\* c/init.c relies on.
DispatcherNeverRunsDry == run # NoProc

\* The result that a READY process will find in %eax is not touched by what
\* others do in the meantime.
SavedResultStable ==
  [][\A p \in Procs : state[p] = "READY" => irc'[p] = irc[p]]_vars

\* Every turn of the loop brings every queued process but idle nearer to the
\* CPU, whatever the others do: nobody overtakes.
QueueAdvances ==
  [][~halted' =>
       \A i \in DOMAIN ready_queue :
         LET p == ready_queue[i]
         IN  p # Idle => \/ run' = p
                         \/ \E j \in 1 .. i - 1 : ready_queue'[j] = p]_vars

\* Every turn takes exactly the memory that it puts to use and gives back
\* exactly what it ends the use of, neither a failing create() nor cleanup()
\* leaks: only an insertion into the PID map that rotates right does.
HeapBalance ==
  [][LET stacks == Cardinality(Living') - Cardinality(Living)
         nodes  == IF UNCHANGED pidMap THEN 0
                   ELSE Cardinality(Entries(pidMap')) - Cardinality(Entries(pidMap))
     IN  ~halted' =>
           \/ heap' - heap = stacks + nodes
           \/ /\ heap' - heap > stacks + nodes
              /\ \E p, s \in Procs, x \in Pids :
                   Create(p, s, x) /\ ~InsertsLeftOnly(pidMap, x, s)]_vars

\* r and the running process s have exchanged a message: both calls return the
\* length that fits both buffers and the receiver knows the sender's pid.
Exchanged(s, r) ==
  /\ irc'[s] = irc'[r]
  /\ irc'[s] \in {arg'[s].len, arg'[r].len}
  /\ irc'[s] <= arg'[s].len /\ irc'[s] <= arg'[r].len
  /\ arg'[r].peer = pid[s]

\* A process leaves syssend only by an exchange with the process it names or
\* with SYS_SR_NO_PID because that process stops; likewise for sysrecv, whose
\* peer may also be any process.
ReleasedByPeer ==
  [][\A p \in Procs :
       LET gone == /\ irc'[p] = SYS_SR_NO_PID
                   /\ \E t \in Procs : IsPeer(t, p) /\ state'[t] = "STOPPED"
       IN  /\ state[p] = "SENDING" /\ state'[p] # "SENDING"
                => gone \/ (IsPeer(run, p) /\ Exchanged(p, run))
           /\ state[p] = "RECEIVING" /\ state'[p] # "RECEIVING"
                => \/ gone
                   \/ arg[p].peer \in {0, pid[run]} /\ Exchanged(run, p)]_vars

\* Nobody starves in the ready queue, although each process may compute for
\* ever: the timer preempts it.
ReadyRuns ==
  \A p \in Procs \ {Idle} : state[p] = "READY" ~> (run = p \/ halted)

\* Every sleeper wakes up, however many others go to sleep before it.
SleeperWakes ==
  \A p \in Procs : state[p] = "SLEEPING" ~> (state[p] # "SLEEPING" \/ halted)

=============================================================================
