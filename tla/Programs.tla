------------------------------ MODULE Programs ------------------------------
(***************************************************************************)
(* Client programs on the kernel of Pcbs: the test programs of             *)
(* src/c/init.c for messages, preemption, processes and signals, the user  *)
(* program of src/c/user.c, and programs that make any signal calls.      *)
(*                                                                         *)
(* A program is a sequence of instructions.  want and from are what the    *)
(* program asserts of the call: its result, and the sender of the message. *)
(* Calls that print or ask for a pid are left out where a timer interrupt  *)
(* has the same effect: the caller goes to the end of the queue.           *)
(***************************************************************************)
EXTENDS Pcbs

CONSTANTS
  Scenarios,  \* what is booted, see Boots
  FreeSigs    \* signals of the programs without a script

VARIABLE flag       \* the variable that programs of a test share

allVars == <<vars, flag>>

AnyResult == {}

Ins(op, to, n, want, from) ==
  [op |-> op, to |-> to, n |-> n, want |-> want, from |-> from]

Calling                == Ins("call", "", 0, AnyResult, "")
Creates(f)             == Ins("create", f, 0, AnyResult, "")
Sends(to, len, want)   == Ins("send", to, len, want, "")
Gets(from, len, want)  == Ins("recv", from, len, want, from)
GetsAny(len, want, who) == Ins("recv", "any", len, want, who)
GetsNone(from, want)   == Ins("recv", from, 0, want, "")
Sleeps(slices, want)   == Ins("sleep", "", slices, want, "")
Handles(s, h, want)    == Ins("sighandler", h, s, want, "")
Kills(to, s, want)     == Ins("kill", to, s, want, "")
Awaits(want)           == Ins("sigwait", "", 0, want, "")
Reads                  == Ins("read", "", 0, {-129, 0, 1}, "")
ReadsOn                == Ins("reads", "", 0, {-129, 0, 1}, "")
Loops                  == Ins("loop", "", 0, AnyResult, "")
Until                  == Ins("until", "", 0, AnyResult, "")
Sets                   == Ins("set", "", 0, AnyResult, "")
Spawned                == Ins("spawned", "", 0, AnyResult, "")
Handling               == Ins("any", "", 0, AnyResult, "")
Striking               == Ins("strike", "", 0, AnyResult, "")

-----------------------------------------------------------------------------
(* Tests of processes and messages, without preemption. *)

spawner == <<Calling, Creates("spawner"), Spawned>>

test_send_recv_fail ==
  <<Sends("bad", 256, {SYS_SR_NO_PID}), Calling, Sends("me", 256, {SYS_SR_SELF}),
    GetsNone("bad", {SYS_SR_NO_PID}), Calling, GetsNone("me", {SYS_SR_SELF})>>

receiver_1 == <<Calling, GetsAny(256, {256}, "parent"), Calling>>
sender_1 == <<Calling, Creates("receiver_1"), Calling, Calling, Calling,
              Sends("kid1", 512, {256})>>

receiver_2 == <<Calling, Calling, Calling, Calling, Calling,
                Gets("parent", 256, {256}), Calling>>
sender_2 == <<Calling, Creates("receiver_2"), Sends("kid1", 512, {256})>>

Started(f) == <<Creates(f), Calling, Calling, Calling>>

sender_3 == <<Calling, Calling, Sends("parent", 4, AnyResult)>>
receiver_3 ==
  <<Calling>> \o Started("sender_3") \o Started("sender_3") \o Started("sender_3")
  \o <<Gets("kid1", 4, {4}), Gets("kid2", 4, {4}), Gets("kid3", 4, {4})>>
  \o Started("sender_3") \o Started("sender_3") \o Started("sender_3")
  \o <<Gets("kid6", 4, {4}), Gets("kid5", 4, {4}), Gets("kid4", 4, {4})>>

receiver_4 == <<Calling, Calling, Gets("parent", 4, AnyResult)>>
sender_4 ==
  <<Calling>> \o Started("receiver_4") \o Started("receiver_4") \o Started("receiver_4")
  \o <<Sends("kid1", 4, {4}), Sends("kid2", 4, {4}), Sends("kid3", 4, {4})>>
  \o Started("receiver_4") \o Started("receiver_4") \o Started("receiver_4")
  \o <<Sends("kid6", 4, {4}), Sends("kid5", 4, {4}), Sends("kid4", 4, {4})>>

-----------------------------------------------------------------------------
(* Tests of preemption and of the sleep device. *)

preemptive == <<Calling, Calling, Calling, Calling, Sets>>
gets_preempted == <<Calling, Creates("preemptive"), Until>>

sleeping == <<Calling, Sleeps(2, {0}), Sets>>
idling == <<Until>>

-----------------------------------------------------------------------------
(* Tests of signals. *)

handler_exit == <<Ins("stop", "", 0, AnyResult, "")>>
handler_nothing == <<Calling>>

test_syssighandler ==
  <<Handles(-1, "none", {-1}), Handles(32, "none", {-1}),
    Handles(0, "handler_exit", {0}), Handles(31, "handler_exit", {0}),
    Handles(20, "heap", {-2}), Handles(20, "handler_exit", {0}),
    Handles(20, "none", {0})>>

idle_wait_sig == <<Handles(20, "handler_exit", {0}), Loops>>
loop_wait_sig ==
  <<Handles(20, "handler_exit", {0}), Sends("parent", 0, {0}), Loops>>
interrupted_by_sig ==
  <<Handles(20, "handler_nothing", {0}), Sends("parent", 4, AnyResult),
    GetsNone("parent", {-129})>>
test_syskill ==
  <<Creates("idle_wait_sig"), Kills("bad", 20, {-33}),
    Creates("loop_wait_sig"), Gets("kid2", 0, {0}),
    Kills("kid2", -1, {-12}), Kills("kid2", 20, {0}),
    Creates("interrupted_by_sig"), Gets("kid3", 4, {4}), Sleeps(2, AnyResult),
    Kills("kid3", 20, {0}), Kills("kid1", 20, {0})>>

blocked_wait_sig ==
  <<Handles(20, "handler_nothing", {0}), Sends("parent", 4, {4}), Awaits({20})>>
test_syssigwait ==
  <<Creates("idle_wait_sig"), Creates("blocked_wait_sig"), Gets("kid2", 4, {4}),
    Sleeps(2, AnyResult), Kills("kid2", 20, {0}), Kills("kid1", 20, {0})>>

send_sig_lo == <<GetsNone("parent", {-129}), Kills("me", 20, AnyResult)>>
send_sig_mid == <<GetsNone("parent", {-129})>>
send_sig_hi == <<Sends("parent", 4, {4})>>
stack_sigtramp ==
  <<Handles(20, "handler_exit", {0}), Handles(0, "send_sig_lo", {0}),
    Handles(16, "send_sig_mid", {0}), Handles(31, "send_sig_hi", {0}),
    Sends("parent", 4, AnyResult), Loops>>
test_stack_sigtramp ==
  <<Creates("idle_wait_sig"), Creates("stack_sigtramp"), Gets("kid2", 4, {4}),
    Kills("kid2", 0, {0}), Sleeps(2, AnyResult), Kills("kid2", 16, {0}), Sleeps(2, AnyResult),
    Kills("kid2", 31, {0}), Gets("kid2", 4, AnyResult), Kills("kid1", 20, AnyResult), Sleeps(3, AnyResult)>>

-----------------------------------------------------------------------------
(* The user program, from its step 10 on, and programs that do anything. *)

print_called_1 == <<Calling>>
print_called_2 == <<Calling>>
child_1 == <<Sleeps(1, AnyResult), Kills("parent", 20, AnyResult), Kills("parent", 18, AnyResult)>>
child_2 == <<Sleeps(2, AnyResult), Kills("parent", 18, AnyResult)>>
child_3 == <<Sleeps(2, AnyResult), Kills("parent", 20, AnyResult)>>
root ==
  <<Handles(18, "print_called_1", AnyResult), Creates("child_1"), Reads,
    Creates("child_2"), Handles(18, "print_called_2", AnyResult), Reads,
    Handles(20, "print_called_1", AnyResult), Creates("child_3"), Reads, ReadsOn, Reads>>

idleproc == <<Loops>>
handling == <<Handling>>
striking == <<Striking>>

Code ==
  [none |-> <<>>, spawner |-> spawner, test_send_recv_fail |-> test_send_recv_fail,
   receiver_1 |-> receiver_1, sender_1 |-> sender_1, receiver_2 |-> receiver_2,
   sender_2 |-> sender_2, sender_3 |-> sender_3, receiver_3 |-> receiver_3,
   receiver_4 |-> receiver_4, sender_4 |-> sender_4, preemptive |-> preemptive,
   gets_preempted |-> gets_preempted, sleeping |-> sleeping, idling |-> idling,
   handler_exit |-> handler_exit, handler_nothing |-> handler_nothing,
   test_syssighandler |-> test_syssighandler, idle_wait_sig |-> idle_wait_sig,
   loop_wait_sig |-> loop_wait_sig, interrupted_by_sig |-> interrupted_by_sig,
   test_syskill |-> test_syskill, blocked_wait_sig |-> blocked_wait_sig,
   test_syssigwait |-> test_syssigwait, send_sig_lo |-> send_sig_lo,
   send_sig_mid |-> send_sig_mid, send_sig_hi |-> send_sig_hi,
   stack_sigtramp |-> stack_sigtramp, test_stack_sigtramp |-> test_stack_sigtramp,
   print_called_1 |-> print_called_1, print_called_2 |-> print_called_2,
   child_1 |-> child_1, child_2 |-> child_2, child_3 |-> child_3, root |-> root,
   idleproc |-> idleproc, handling |-> handling, striking |-> striking]

Boot(progs, idle, timer) == [progs |-> progs, idle |-> idle, timer |-> timer]

\* How the tests and the programs are started: first programs, idle process, and
\* whether the timer is on.
testProcessManagement == [spawner |-> Boot(<<"spawner">>, NULL, FALSE)]

testSendReceive ==
  [s \in {"test_send_recv_fail", "sender_1", "sender_2", "receiver_3", "sender_4"}
     |-> Boot(<<s>>, NULL, FALSE)]

testTimeSharing ==
  [gets_preempted |-> Boot(<<"gets_preempted">>, NULL, TRUE),
   sleeping       |-> Boot(<<"sleeping", "idling">>, 2, TRUE)]

\* They inherit the pointer to an idle process from the test of the sleep device;
\* it points to their second slot.
test_signal ==
  [s \in {"test_syssighandler", "test_syskill", "test_syssigwait",
          "test_stack_sigtramp"} |-> Boot(<<s>>, 2, TRUE)]

initproc == [root |-> Boot(<<"root", "idleproc">>, 2, TRUE)]

anybody == [handling |-> Boot(<<"handling", "striking", "idleproc">>, 3, TRUE)]

Boots ==
  testProcessManagement @@ testSendReceive @@ testTimeSharing @@ test_signal
    @@ initproc @@ anybody

\* The pcbs after create() of the first programs, and the first next().
Init ==
  /\ \E b \in {Boots[s] : s \in Scenarios} :
       LET n == Len(b.progs)
       IN  /\ kern =
                [pcb |-> [p \in Procs |->
                   IF p > n THEN [FreshPcb(0, 0) EXCEPT !.state = "STOPPED"]
                   ELSE IF p = 1 THEN [FreshPcb(1, 0) EXCEPT !.state = "RUNNING"]
                   ELSE [FreshPcb(p, 0) EXCEPT !.next = IF p < n THEN p + 1 ELSE NULL]],
                 ready_queue |-> IF n > 1 THEN 2 ELSE NULL, sleep_list |-> NULL,
                 idle |-> b.idle, timer |-> b.timer, named |-> 1 .. n,
                 nextPid |-> n + 1, reader |-> NULL]
           /\ user = [p \in Procs |-> Start(IF p > n THEN "none" ELSE b.progs[p])]
  /\ sigs = [p \in Procs |-> NoSignals]
  /\ frames = [p \in Procs |-> <<>>]
  /\ run = 1
  /\ flag = FALSE

-----------------------------------------------------------------------------
(* How programs go on. *)

AtEnd(p) == user[p].pc > Len(Code[user[p].prog])
Now(p) == Code[user[p].prog][user[p].pc]
Does(p, op) == ~AtEnd(p) /\ Now(p).op = op

Kids == <<"kid1", "kid2", "kid3", "kid4", "kid5", "kid6">>

\* The pid that p means by a name.
To(p, name) ==
  CASE name = "parent" -> kern.pcb[p].parentPid
    [] name = "me"     -> kern.pcb[p].pid
    [] name = "bad"    -> 99
    [] name \in {"any", ""} -> 0
    [] OTHER           -> user[p].kids[SelectInSeq(Kids, LAMBDA k : k = name)]

\* The context of p after instruction i.
After(p, i) ==
  [user[p] EXCEPT !.pc = @ + 1, !.want = i.want, !.from = To(p, i.from)]

\* A program that repeats itself.
Again(p, want) == [user[p] EXCEPT !.want = want, !.from = 0]

\* A handler returns to its trampoline, a program to sysstop().
Ends(p) == IF frames[p] # <<>> THEN SigReturn(p) ELSE Stop(p)

\* The system calls of the scripts.
Performs(p) ==
  LET i  == Now(p)
      to == To(p, i.to)
      u  == After(p, i)
  IN  \/ Does(p, "call") /\ Yield(p, u)
      \/ Does(p, "create") /\ \E q \in Procs : Create(p, q, i.to, u)
      \/ Does(p, "create") /\ CreateRefused(p, u)
      \/ Does(p, "send") /\ Send(p, to, i.n, u)
      \/ Does(p, "recv") /\ Recv(p, to, i.n, u)
      \/ Does(p, "sleep") /\ Sleep(p, i.n, u)
      \/ Does(p, "sighandler") /\ SigHandlerRefused(p, i.n, i.to, u)
      \/ Does(p, "sighandler") /\ SigHandler(p, i.n, i.to, u)
      \/ Does(p, "kill") /\ KillRefused(p, to, i.n, u)
      \/ Does(p, "kill") /\ Kill(p, to, i.n, u)
      \/ Does(p, "sigwait") /\ SigWait(p, u)

\* A character is there already, or not.  ReadsOn goes on for as long as it
\* likes: what ends it is data.
PerformsRead(p) ==
  LET u == After(p, Now(p))
  IN  /\ Does(p, "read") \/ Does(p, "reads")
      /\ \E v \in {u} \cup (IF Does(p, "reads") THEN {Again(p, u.want)} ELSE {}) :
           ReadBlocks(p, v) \/ \E c \in {0, 1} : Returns(p, c, v)

\* A program, or a handler, that makes any signal call, and one that sends any
\* signal to it.
PerformsAnything(p) ==
  \/ /\ Does(p, "any")
     /\ \/ Yield(p, Again(p, AnyResult))
        \/ SigWait(p, Again(p, FreeSigs))
        \/ \E s \in FreeSigs, h \in {"handling", "none"} :
             SigHandler(p, s, h, Again(p, {0}))
        \/ \E s \in FreeSigs : Kill(p, kern.pcb[p].pid, s, Again(p, {0}))
        \/ Ends(p)
  \/ /\ Does(p, "strike")
     /\ \E s \in FreeSigs : Kill(p, kern.pcb[1].pid, s, Again(p, {0}))

\* The calls that do not touch what programs share.
Program(p) ==
  /\ \/ Performs(p) \/ PerformsRead(p) \/ PerformsAnything(p)
     \/ AtEnd(p) /\ Ends(p)
     \/ Does(p, "stop") /\ Stop(p)
     \/ Does(p, "until") /\ flag /\ Ends(p)
     \/ /\ Does(p, "spawned") /\ kern.pcb[p].irc # SYSERR
        /\ IF flag THEN Ends(p) ELSE Yield(p, user[p])
  /\ UNCHANGED flag

\* The last of the spawned, and those others wait for, say so and end.
Raise(p) ==
  /\ Does(p, "set") \/ (Does(p, "spawned") /\ kern.pcb[p].irc = SYSERR)
  /\ Ends(p)
  /\ flag' = TRUE

Computes(p) == Does(p, "loop") \/ (Does(p, "until") /\ ~flag)

\* Everybody waits for something that only time can bring.
Quiet ==
  \A p \in Procs : kern.pcb[p].state \in {"READY", "RUNNING"} => Computes(p)

\* The timer.  Sleeps are long: a slice counts only when all is quiet.
Tick ==
  /\ kern.timer
  /\ \E p \in Procs, v \in Eax :
       LET u == Again(p, {v})
       IN  IF Quiet THEN Timer(p, v, u) ELSE TimerUncounted(p, v, u)
  /\ UNCHANGED flag

Type == (\E v \in {0, 1} : Key(v)) /\ UNCHANGED flag

Next == (\E p \in Procs : Program(p) \/ Raise(p)) \/ Tick \/ Type

Spec == Init /\ [][Next]_allVars

-----------------------------------------------------------------------------
(* Correctness. *)

\* Handlers nest by priority: each runs above a handler of a lower signal, the
\* mask admits what is above the last, and each frame keeps the mask to go back
\* to.
HandlersNest ==
  \A p \in Procs :
    LET below(i) == IF i = 0 THEN Sigs ELSE Above(frames[p][i].sig)
    IN  /\ kern.pcb[p].state # "STOPPED" => sigs[p].hi = below(Len(frames[p]))
        /\ \A i \in 1 .. Len(frames[p]) :
             /\ frames[p][i].sig \in below(i - 1)
             /\ frames[p][i].old_hi = below(i - 1)

\* Nothing checks the stack before deliver_signal() puts a frame on it.  A frame
\* is for a higher signal than the one below it, so there are never more than
\* NUM_SIGNAL of them.
NestingBounded ==
  \A p \in Procs :
    /\ \A i, j \in 1 .. Len(frames[p]) : i < j => frames[p][i].sig < frames[p][j].sig
    /\ Len(frames[p]) <= 32

\* No process runs, or stays blocked in a call, with a signal that its mask
\* lets through.
SignalsAreDelivered ==
  \A p \in Procs :
    kern.pcb[p].state \notin {"READY", "STOPPED"} => sigs[p].pending \cap sigs[p].hi = {}

\* A process finds in %eax the result that its program asserts, whatever ran in
\* between: after a call, a preemption, or any nesting of handlers.  A message
\* comes from whom it was asked of, however many others wait to send theirs.
ResultsAsPromised ==
  run # NULL =>
    /\ user[run].want # AnyResult => kern.pcb[run].irc \in user[run].want
    /\ user[run].from # 0 => kern.pcb[run].peer = user[run].from

Ready == Chain(kern, kern.ready_queue)
Asleep == Chain(kern, kern.sleep_list)

\* The ready queue holds the READY processes once each, the sleep list the
\* sleeping ones, although signals take processes out of calls while they are
\* linked elsewhere.
QueuesSound ==
  /\ IsInjective(Ready) /\ Range(Ready) = {p \in Procs : kern.pcb[p].state = "READY"}
  /\ IsInjective(Asleep) /\ Range(Asleep) = {p \in Procs : kern.pcb[p].state = "SLEEPING"}

\* dispatch() returns only when every process has stopped.  One test ends
\* otherwise: it has stopped its idle process before its own last sleep.  The
\* spawner has then filled the table, without losing or repeating a process.
\* In test_syskill the last stop, that of the parent, is not covered: the child
\* that it has interrupted is still in its queue, and LinksTrue leaves it out.
AllStoppedAtReturn ==
  run = NULL =>
    /\ \A p \in Procs :
         kern.pcb[p].state = "STOPPED" \/ user[p].prog = "test_stack_sigtramp"
    /\ user[1].prog = "spawner" => kern.nextPid - 1 = NumProc

\* c/init.c: "This code should never be reached after you are done".
DispatchNeverReturns == run # NULL

-----------------------------------------------------------------------------
(* The programs and moments for which this is claimed. *)

\* Nobody who has left a call is still in a queue of p.
QueuesTrue(p) ==
  /\ \A q \in Range(Chain(kern, kern.pcb[p].senders)) : kern.pcb[q].state = "SENDING"
  /\ \A q \in Range(Chain(kern, kern.pcb[p].receivers)) : kern.pcb[q].state = "RECEIVING"

\* No process stops while somebody who was interrupted is still in its queues,
\* no key arrives for a read that was interrupted, and no handler is removed
\* while its signal is pending.  README, section 6, says what happens otherwise.
LinksTrue ==
  /\ \A p \in Procs :
       /\ kern.pcb[p].state # "STOPPED" /\ kern'.pcb[p].state = "STOPPED"
            => QueuesTrue(p)
       /\ \A s \in sigs'[p].pending : sigs'[p].handler[s] # "none"
  /\ Type => kern.pcb[kern.reader].state = "READING"

SpecWhileLinksTrue == Init /\ [][Next /\ LinksTrue]_allVars

\* p comes to its next call, or is sent to a handler.
Proceeds(p) ==
  run = p /\ <<user[p].prog, user[p].pc>> # <<user'[p].prog, user'[p].pc>>

\* The machine goes on, and a program that runs again and again comes to its
\* next call.
FairSpec ==
  /\ SpecWhileLinksTrue
  /\ []<><<TRUE>>_allVars \/ <>(run = NULL)
  /\ \A p \in 1 .. 3 :
       []<>(run = p /\ ~Computes(p)) => []<><<Proceeds(p)>>_allVars

Finished(p) == AtEnd(p) \/ kern.pcb[p].state = "STOPPED"

\* Every test comes to its end: no call that it makes blocks for ever, and the
\* signals that it counts on are not lost.
TestsEnd ==
  user[1].prog \notin {"root", "handling"} => <>(frames[1] = <<>> /\ Finished(1))

=============================================================================
