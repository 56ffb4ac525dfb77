-------------------------------- MODULE Pcbs --------------------------------
(***************************************************************************)
(* The kernel of src/c/disp.c, msg.c, sleep.c and signal.c at the level of *)
(* its pointers.  A pcb has ONE field next, and the ready queue, the sleep *)
(* list and the senders and receivers of every process are threaded through*)
(* it.  Kernel looks at these lists as sequences, which is sound as long as*)
(* no process is signalled while it waits on one; this module shows what   *)
(* signals do to them, and how handlers nest on the stacks of processes.   *)
(*                                                                         *)
(* An action is one turn of dispatch(), as in Kernel.  A handler of the    *)
(* kernel is an operator from kernel memory K to kernel memory; what a     *)
(* program does next is the parameter u of the action.                     *)
(***************************************************************************)
EXTENDS Integers, FiniteSets, SequencesExt

CONSTANTS
  NumProc,  \* MAX_NUM_PROCESS
  Sigs,     \* the signals that programs use, 0 .. NUM_SIGNAL - 1
  Eax       \* values a program may have in %eax when the timer interrupts it

ASSUME NumProcAssumption == NumProc \in Nat \ {0}
ASSUME SigsAssumption == Sigs \subseteq 0 .. 31

NULL == 0
Procs == 1 .. NumProc
SYS_SR_NO_PID == -1
SYS_SR_SELF == -2
SYSERR == -1
States == {"STOPPED", "RUNNING", "READY", "SENDING", "RECEIVING", "SLEEPING",
           "READING", "WAITING"}

VARIABLES
  kern,    \* kernel memory: the pcbs, the heads of lists, idle and so on
  sigs,    \* the signal fields of each pcb
  frames,  \* the signal frames on the stack of each process, oldest first
  user,    \* the context in which each process goes on
  run      \* the process that runs, or NULL once dispatch() has returned

vars == <<kern, sigs, frames, user, run>>

Set(K, p, field, value) == [K EXCEPT !.pcb[p][field] = value]

Calls(p) == run = p

-----------------------------------------------------------------------------
(* Lists. *)

\* The pcbs on the list that starts at a.  A list longer than the table is a
\* cycle, along which the code would walk for ever.
Chain(K, a) ==
  LET walk[k \in 0 .. NumProc] ==
        IF k = 0 THEN a
        ELSE IF walk[k - 1] = NULL THEN NULL ELSE K.pcb[walk[k - 1]].next
  IN  [i \in 1 .. Cardinality({k \in 0 .. NumProc : walk[k] # NULL}) |->
         walk[i - 1]]

\* Mutant of ready: the old link stays.
readyKeepsLink(K, p) ==
  LET q == Chain(K, K.ready_queue)
      linked == IF q = <<>> THEN [K EXCEPT !.ready_queue = p]
                ELSE Set(K, Last(q), "next", p)
  IN  Set(linked, p, "state", "READY")

\* p goes to the end of the ready queue.
ready(K, p) ==
  LET q == Chain(K, K.ready_queue)
      linked == IF q = <<>> THEN [K EXCEPT !.ready_queue = p]
                ELSE Set(K, Last(q), "next", p)
  IN  Set(Set(linked, p, "next", NULL), p, "state", "READY")

\* The ready queue without its head.
Popped(K) ==
  IF K.ready_queue = NULL THEN K
  ELSE Set([K EXCEPT !.ready_queue = K.pcb[K.ready_queue].next],
           K.ready_queue, "next", NULL)

\* p goes to the end of the queue "senders" or "receivers" of d.
QueuedAt(K, d, queue, p) ==
  LET q == Chain(K, K.pcb[d][queue])
  IN  IF q = <<>> THEN Set(K, d, queue, p) ELSE Set(K, Last(q), "next", p)

\* q is the first in that queue of d with this pid.
FirstWithPid(K, d, queue, pid, q) ==
  LET c == Chain(K, K.pcb[d][queue])
      i == SelectInSeq(c, LAMBDA x : K.pcb[x].pid = pid)
  IN  i # 0 /\ q = c[i]

HasPid(K, d, queue, pid) == \E q \in Procs : FirstWithPid(K, d, queue, pid, q)

\* The queue without q.
Removed(K, d, queue, q) ==
  LET c == Chain(K, K.pcb[d][queue])
      i == SelectInSeq(c, LAMBDA x : x = q)
  IN  IF i = 1 THEN Set(K, d, queue, K.pcb[q].next)
      ELSE Set(K, c[i - 1], "next", K.pcb[q].next)

-----------------------------------------------------------------------------
(* Delivery of signals, and the end of a turn. *)

\* Mutant of Above: a handler may be interrupted by its own signal.
NotBelow(s) == {t \in Sigs : t >= s}

\* The signals that may interrupt the handler of s.
Above(s) == {t \in Sigs : t > s}

\* Mutant of Deliverable: masked signals are delivered too.
DeliverableAll(sg) == sg.pending # {}

\* Mutant of Deliverable: a handler is interrupted by nothing.
DeliverableOutside(sg) == sg.pending # {} /\ sg.hi = Sigs

Deliverable(sg) == sg.pending \cap sg.hi # {}

\* Mutant of Frame: the result that waits for the interrupted code is not kept.
FrameWithoutResult(p, s, K, sg, u) ==
  [sig |-> s, old_hi |-> sg.hi, old_irc |-> 0, user |-> u]

\* What deliver_signal() puts on the stack of p for signal s.
Frame(p, s, K, sg, u) ==
  [sig |-> s, old_hi |-> sg.hi, old_irc |-> K.pcb[p].irc, user |-> u]

\* The context of a program, or of a handler, that starts.
Start(prog) ==
  [prog |-> prog, pc |-> 1, want |-> {}, from |-> 0, kids |-> <<>>]

\* The process that runs next, and the kernel memory after the selection.
Selected(K) ==
  LET h  == K.ready_queue
      K1 == Popped(K)
      h2 == K1.ready_queue
  IN  IF h = NULL \/ h # K.idle THEN [proc |-> h, mem |-> K1]
      ELSE IF h2 = NULL THEN [proc |-> K.idle, mem |-> K1]
      ELSE [proc |-> h2, mem |-> ready(Popped(K1), K.idle)]

\* The end of a turn: the next process is selected, gets its signal if there
\* is one, and runs.
Turn(K, sg, fr, us) ==
  LET p == Selected(K).proc
      M == Selected(K).mem
      s == Max(sg[p].pending)
  IN  IF p = NULL
      THEN /\ run' = NULL /\ kern' = M
           /\ sigs' = sg /\ frames' = fr /\ user' = us
      ELSE /\ run' = p
           /\ kern' = Set(M, p, "state", "RUNNING")
           /\ IF Deliverable(sg[p])
              THEN /\ frames' = [fr EXCEPT ![p] = Append(@, Frame(p, s, M, sg[p], us[p]))]
                   /\ sigs' = [sg EXCEPT ![p].pending = @ \ {s}, ![p].hi = Above(s)]
                   /\ user' = [us EXCEPT ![p] = Start(sg[p].handler[s])]
              ELSE sigs' = sg /\ frames' = fr /\ user' = us

\* The end of a turn that changes no signal fields of any process.
TurnPlain(K, p, u) == Turn(K, sigs, frames, [user EXCEPT ![p] = u])

\* The call of p returns v.
Returned(K, p, v) == ready(Set(K, p, "irc", v), p)

Returns(p, v, u) == Calls(p) /\ TurnPlain(Returned(kern, p, v), p, u)

-----------------------------------------------------------------------------
(* Messages. *)

\* The arguments of p's call, in user memory.
Args(K, p, peer, len) == Set(Set(K, p, "peer", peer), p, "len", len)

Transfer(K, src, dst) ==
  LET a == K.pcb[src].len
      b == K.pcb[dst].len
      n == IF a < b THEN a ELSE b
  IN  Set(Set(Set(K, dst, "peer", K.pcb[src].pid), src, "irc", n), dst, "irc", n)

\* Both go on, the caller first.
Exchanged(K, src, dst, caller, other) ==
  ready(ready(Transfer(K, src, dst), caller), other)

\* The PID map: named are the slots that it has.  The tree of the code holds
\* the same as long as it takes no right rotation (LookupIsExact).
Knows(K, pid) == \E q \in K.named : K.pcb[q].pid = pid
SlotOf(K, pid) == CHOOSE q \in K.named : K.pcb[q].pid = pid

Sent(K, p, dest) ==
  IF K.pcb[p].pid = dest THEN Returned(K, p, SYS_SR_SELF)
  ELSE IF ~Knows(K, dest) THEN Returned(K, p, SYS_SR_NO_PID)
  ELSE LET d == SlotOf(K, dest)
           r == CHOOSE q \in Procs : FirstWithPid(K, p, "receivers", dest, q)
       IN  IF HasPid(K, p, "receivers", dest)
           THEN Exchanged(Removed(K, p, "receivers", r), p, r, p, r)
           ELSE IF K.pcb[d].state = "RECEIVING" /\ K.pcb[d].peer = 0
           THEN Exchanged(K, p, d, p, d)
           ELSE Set(QueuedAt(K, d, "senders", p), p, "state", "SENDING")

Received(K, p, src) ==
  IF K.pcb[p].pid = src THEN Returned(K, p, SYS_SR_SELF)
  ELSE IF src # 0 /\ ~Knows(K, src) THEN Returned(K, p, SYS_SR_NO_PID)
  ELSE IF src # 0
  THEN LET s == CHOOSE q \in Procs : FirstWithPid(K, p, "senders", src, q)
       IN  IF HasPid(K, p, "senders", src)
           THEN Exchanged(Removed(K, p, "senders", s), s, p, p, s)
           ELSE Set(QueuedAt(K, SlotOf(K, src), "receivers", p), p, "state",
                    "RECEIVING")
  ELSE LET s == K.pcb[p].senders
       IN  IF s # NULL
           THEN Exchanged(Set(K, p, "senders", K.pcb[s].next), s, p, p, s)
           ELSE Set(K, p, "state", "RECEIVING")

Send(p, dest, len, u) ==
  Calls(p) /\ TurnPlain(Sent(Args(kern, p, dest, len), p, dest), p, u)

Recv(p, src, len, u) ==
  Calls(p) /\ TurnPlain(Received(Args(kern, p, src, len), p, src), p, u)

-----------------------------------------------------------------------------
(* Sleep and the timer. *)

\* How far the walk of sleep() along list c gets, and what is left of n then.
Passed(K, c, n) ==
  LET left[i \in 0 .. Len(c)] ==
        IF i = 0 THEN n ELSE left[i - 1] - K.pcb[c[i]].delta
      stops == {i \in 0 .. Len(c) : i = Len(c) \/ K.pcb[c[i + 1]].delta > left[i]}
  IN  [at |-> Min(stops), left |-> left[Min(stops)]]

\* p is put on the delta list for n slices.
Slept(K, p, n) ==
  IF n = 0 THEN ready(K, p)
  ELSE LET c    == Chain(K, K.sleep_list)
           w    == Passed(K, c, n)
           succ == IF w.at = Len(c) THEN NULL ELSE c[w.at + 1]
           K1   == Set(Set(K, p, "next", succ), p, "delta", w.left)
           K2   == IF succ = NULL THEN K1
                   ELSE Set(K1, succ, "delta", K1.pcb[succ].delta - w.left)
           K3   == IF w.at = 0 THEN [K2 EXCEPT !.sleep_list = p]
                   ELSE Set(K2, c[w.at], "next", p)
       IN  Set(K3, p, "state", "SLEEPING")

Sleep(p, n, u) == Calls(p) /\ TurnPlain(Slept(kern, p, n), p, u)

\* The head of the delta list leaves it.
Woken(K) ==
  LET h == K.sleep_list
  IN  ready([Set(K, h, "irc", 0) EXCEPT !.sleep_list = K.pcb[h].next], h)

\* tick(): the head counts down, and all whose count is 0 leave the list.
Ticked(K) ==
  LET h == K.sleep_list
      wakes[i \in 0 .. NumProc + 1] ==
        IF i = 0 THEN Set(K, h, "delta", K.pcb[h].delta - 1)
        ELSE LET M == wakes[i - 1]
             IN  IF M.sleep_list # NULL /\ M.pcb[M.sleep_list].delta = 0
                 THEN Woken(M) ELSE M
  IN  IF h = NULL THEN K ELSE wakes[NumProc + 1]

\* A slice ends: p is interrupted with v in %eax.
Timer(p, v, u) ==
  Calls(p) /\ TurnPlain(ready(Ticked(Set(kern, p, "irc", v)), p), p, u)

\* A slice ends that the scale of sleeps leaves out: see README, section 2.
TimerUncounted(p, v, u) ==
  Calls(p) /\ TurnPlain(Returned(kern, p, v), p, u)

-----------------------------------------------------------------------------
(* Creation and clean-up. *)

\* The pcb that create() leaves in a slot, for a child of pid parent.
FreshPcb(pid, parent) ==
  [state |-> "READY", next |-> NULL, senders |-> NULL, receivers |-> NULL,
   irc |-> 0, delta |-> 0, peer |-> 0, len |-> 0, pid |-> pid,
   parentPid |-> parent]

\* Mutant of NoSignals: the new user of a slot inherits a full mask.
NoSignalsMasked ==
  [pending |-> {}, allowed |-> {}, hi |-> {}, handler |-> [s \in Sigs |-> "none"]]

NoSignals ==
  [pending |-> {}, allowed |-> {}, hi |-> Sigs, handler |-> [s \in Sigs |-> "none"]]

FreeSlots(K) == {q \in Procs : K.pcb[q].state = "STOPPED"}

\* p starts program f in slot q.
Create(p, q, f, u) ==
  /\ Calls(p)
  /\ FreeSlots(kern) # {} /\ q = Min(FreeSlots(kern))
  /\ LET pid == kern.nextPid
         K   == [kern EXCEPT !.pcb[q] = FreshPcb(pid, kern.pcb[p].pid),
                             !.named = @ \cup {q}, !.nextPid = @ + 1]
     IN  Turn(Returned(ready(K, q), p, pid), [sigs EXCEPT ![q] = NoSignals],
              [frames EXCEPT ![q] = <<>>],
              [user EXCEPT ![p] = [u EXCEPT !.kids = Append(@, pid)],
                           ![q] = Start(f)])

CreateRefused(p, u) == FreeSlots(kern) = {} /\ Returns(p, SYSERR, u)

\* All in one of the queues of p are readied, first come first.  ready() cuts
\* the link of whom it appends, so even a cycle is left.
Released(K, p, queue) ==
  LET rest[i \in 0 .. 2 * NumProc] ==
        IF i = 0 THEN K
        ELSE LET M == rest[i - 1]
                 w == M.pcb[p][queue]
             IN  IF w = NULL THEN M
                 ELSE ready(Set(Set(M, p, queue, M.pcb[w].next), w, "irc",
                                SYS_SR_NO_PID), w)
  IN  rest[2 * NumProc]

\* cleanup(): the memory and the devices of p are given back too.
Stopped(K, p) ==
  LET M == Released(Released(K, p, "senders"), p, "receivers")
  IN  [M EXCEPT !.pcb[p].next = NULL, !.pcb[p].state = "STOPPED",
                !.named = @ \ {p}, !.reader = IF @ = p THEN NULL ELSE @]

Stop(p) ==
  Calls(p) /\ Turn(Stopped(kern, p), sigs, [frames EXCEPT ![p] = <<>>],
                   [user EXCEPT ![p] = Start("none")])

\* A call that only puts the caller at the end of the ready queue.
Yield(p, u) == Calls(p) /\ TurnPlain(ready(kern, p), p, u)

-----------------------------------------------------------------------------
(* Signal calls. *)

Interruptible == {"SENDING", "RECEIVING", "SLEEPING", "READING", "WRITING"}

\* Mutant of Interrupted: sigwait() waits on.
InterruptedUnlessWaiting(K, q, s) ==
  IF K.pcb[q].state \in Interruptible THEN Returned(K, q, -129) ELSE K

\* A blocked process goes on; the queue it is in keeps it.
Interrupted(K, q, s) ==
  IF K.pcb[q].state \in Interruptible THEN Returned(K, q, -129)
  ELSE IF K.pcb[q].state = "WAITING" THEN Returned(K, q, s)
  ELSE K

KillRefused(p, pid, s, u) ==
  \/ s \notin Sigs /\ Returns(p, -12, u)
  \/ s \in Sigs /\ ~Knows(kern, pid) /\ Returns(p, -33, u)

Kill(p, pid, s, u) ==
  /\ s \in Sigs /\ Knows(kern, pid)
  /\ Calls(p)
  /\ LET q == SlotOf(kern, pid)
     IN  IF s \in sigs[q].allowed
         THEN Turn(Returned(Interrupted(kern, q, s), p, 0),
                   [sigs EXCEPT ![q].pending = @ \cup {s}], frames,
                   [user EXCEPT ![p] = u])
         ELSE TurnPlain(Returned(kern, p, 0), p, u)

SigHandlerRefused(p, s, h, u) ==
  \/ s \notin Sigs /\ Returns(p, -1, u)
  \/ s \in Sigs /\ h = "heap" /\ Returns(p, -2, u)

\* NULL takes the permission back and leaves what is pending.
SigHandler(p, s, h, u) ==
  /\ s \in Sigs /\ h # "heap"
  /\ Calls(p)
  /\ Turn(Returned(kern, p, 0),
          [sigs EXCEPT ![p].handler[s] = h,
                       ![p].allowed = IF h = "none" THEN @ \ {s} ELSE @ \cup {s}],
          frames, [user EXCEPT ![p] = u])

\* A handler ends: the trampoline calls syssigreturn().
SigReturn(p) ==
  /\ Calls(p) /\ frames[p] # <<>>
  /\ LET f == Last(frames[p])
     IN  Turn(Returned(kern, p, f.old_irc), [sigs EXCEPT ![p].hi = f.old_hi],
              [frames EXCEPT ![p] = Front(@)], [user EXCEPT ![p] = f.user])

SigWait(p, u) == Calls(p) /\ TurnPlain(Set(kern, p, "state", "WAITING"), p, u)

-----------------------------------------------------------------------------
(* Reads of one character; Keyboard has the driver itself. *)

\* Nothing is buffered: p blocks with a request in the driver.
ReadBlocks(p, u) ==
  Calls(p) /\ TurnPlain(Set([kern EXCEPT !.reader = p], p, "state", "READING"), p, u)

\* The keyboard interrupt, on the stack of whoever runs: the request is
\* served and its process readied.
Key(v) ==
  /\ run # NULL /\ kern.reader # NULL
  /\ kern' = [Returned(kern, kern.reader, v) EXCEPT !.reader = NULL]
  /\ UNCHANGED <<sigs, frames, user, run>>

=============================================================================
