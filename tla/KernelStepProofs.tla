-------------------------- MODULE KernelStepProofs --------------------------
(***************************************************************************)
(* Theorems about the steps of Kernel: what a turn of the dispatcher loop  *)
(* may do to a process that waits, to the memory that the kernel holds and *)
(* to the sleepers, whose delta list implements a timer for each.          *)
(***************************************************************************)
EXTENDS KernelSleep, KernelProofs

-----------------------------------------------------------------------------
(* One turn of the loop. *)

\* A turn in which the processes of w are readied and the caller, if it is not
\* one of them, leaves the CPU in the state that st gives to it.
TurnOf(st, w) ==
  /\ run \in Procs
  /\ st \in [Procs -> States] /\ w \in Seq(Procs) /\ IsInjective(w)
  /\ ToSet(w) \cap ToSet(ready_queue) = {}
  /\ \A q \in Procs : q \notin ToSet(w) /\ q # run => st[q] = state[q]
  /\ run \in ToSet(w) \/ st[run] \notin {"READY", "RUNNING"}
  /\ Resume(st, w)

\* Who is readied, and who keeps waiting, in a turn.
LEMMA TurnFacts ==
  ASSUME IInv, NEW st, NEW w, TurnOf(st, w)
  PROVE  /\ \A q \in ToSet(w) : q \in Procs /\ state'[q] \in {"READY", "RUNNING"}
         /\ \A q \in Procs : state[q] = "READY" => /\ q \notin ToSet(w)
                                                  /\ state'[q] \in {"READY", "RUNNING"}
         /\ \A q \in Procs : q \notin ToSet(w) /\ state[q] \notin {"READY", "RUNNING"}
                               => state'[q] = state[q]
         /\ run \notin ToSet(w) => state'[run] = st[run]
         /\ state[run] = "RUNNING"
<1>1. /\ ready_queue \in Seq(Procs) /\ IsInjective(ready_queue)
      /\ \A q \in ToSet(ready_queue) : q \in Procs /\ state[q] = "READY"
      /\ \A q \in Procs : state[q] = "READY" => q \in ToSet(ready_queue)
      /\ \A q \in Procs : (q = run) <=> (state[q] = "RUNNING")
  BY PlaceFacts
<1>2. /\ run \in Procs
      /\ st \in [Procs -> States] /\ w \in Seq(Procs) /\ IsInjective(w)
      /\ ToSet(w) \cap ToSet(ready_queue) = {}
      /\ \A q \in Procs : q \notin ToSet(w) /\ q # run => st[q] = state[q]
      /\ run \in ToSet(w) \/ st[run] \notin {"READY", "RUNNING"}
      /\ Resume(st, w)
  BY DEF TurnOf
<1>3. \A q \in Procs :
        IF q \in ToSet(ready_queue) \cup ToSet(w)
        THEN state'[q] \in {"READY", "RUNNING"}
        ELSE state'[q] = st[q]
  BY <1>2, ResumeInPlace
<1>4. ToSet(w) \subseteq Procs
  BY <1>2, MemberSet
<1> QED BY <1>1, <1>2, <1>3, <1>4

\* A call that returns at once.
LEMMA ReturnTurn ==
  ASSUME IInv, NEW p \in Procs, Calls(p), Resume(state, <<p>>)
  PROVE  TurnOf(state, <<p>>) /\ ToSet(<<p>>) = {p} /\ run = p
<1>1. p = run /\ p \notin ToSet(ready_queue)
  BY CallerInNoQueue
<1>2. state \in [Procs -> States]
  BY PlaceFacts
<1>3. <<p>> \in Seq(Procs) /\ IsInjective(<<p>>) /\ ToSet(<<p>>) = {p}
  BY ShortQueues
<1> QED BY <1>1, <1>2, <1>3 DEF TurnOf

\* A call after which the caller and one other process go on.
LEMMA PairTurn ==
  ASSUME IInv, NEW p \in Procs, Calls(p), NEW a \in Procs, NEW b \in Procs,
         p \in {a, b}, \A r \in {a, b} \ {p} : state[r] # "READY", a # b,
         Resume(state, <<a, b>>)
  PROVE  TurnOf(state, <<a, b>>) /\ ToSet(<<a, b>>) = {a, b} /\ run = p
<1>1. p = run /\ p \notin ToSet(ready_queue)
  BY CallerInNoQueue
<1>2. state \in [Procs -> States] /\ \A q \in ToSet(ready_queue) : state[q] = "READY"
  BY PlaceFacts
<1>3. <<a, b>> \in Seq(Procs) /\ IsInjective(<<a, b>>) /\ ToSet(<<a, b>>) = {a, b}
  BY ShortQueues
<1> QED BY <1>1, <1>2, <1>3 DEF TurnOf

\* A call that blocks.
LEMMA BlockTurn ==
  ASSUME IInv, NEW p \in Procs, Calls(p),
         NEW b \in {"SENDING", "RECEIVING", "SLEEPING"},
         Resume([state EXCEPT ![p] = b], <<>>)
  PROVE  /\ TurnOf([state EXCEPT ![p] = b], <<>>) /\ ToSet(<<>>) = {} /\ run = p
         /\ state'[p] = b
<1>1. p = run /\ p \notin ToSet(ready_queue)
  BY CallerInNoQueue
<1>2. state \in [Procs -> States]
  BY PlaceFacts
<1>3. <<>> \in Seq(Procs) /\ IsInjective(<<>>) /\ ToSet(<<>>) = {}
  BY ShortQueues
<1> DEFINE st == [state EXCEPT ![p] = b]
           w == <<>>
<1>4. /\ st \in [Procs -> States] /\ st[p] = b
      /\ \A q \in Procs : q # p => st[q] = state[q]
      /\ w \in Seq(Procs) /\ IsInjective(w) /\ ToSet(w) = {} /\ Resume(st, w)
  BY <1>2, <1>3 DEF States
<1> HIDE DEF st, w
<1>5. TurnOf(st, w)
  BY <1>1, <1>4 DEF TurnOf
<1>6. state'[p] = st[p]
  BY <1>1, <1>4, <1>5, TurnFacts
<1> QED BY <1>1, <1>4, <1>5, <1>6 DEF st, w

\* cleanup() readies all who wait for the caller, which were blocked.
LEMMA StopTurn ==
  ASSUME IInv, NEW p \in Procs, Stop(p)
  PROVE  /\ TurnOf([state EXCEPT ![p] = "STOPPED"], Waiting(p)) /\ run = p
         /\ ToSet(Waiting(p)) = ToSet(senders[p]) \cup ToSet(receivers[p])
         /\ state'[p] = "STOPPED"
<1> DEFINE w == Waiting(p)
           st == [state EXCEPT ![p] = "STOPPED"]
<1>1. Calls(p) /\ Resume(st, w)
  BY DEF Stop
<1>2. /\ p = run /\ p \notin ToSet(ready_queue)
      /\ \A q \in Procs : p \notin ToSet(senders[q]) \cup ToSet(receivers[q])
  BY <1>1, CallerInNoQueue
<1>3. /\ senders[p] \in Seq(Procs) /\ receivers[p] \in Seq(Procs)
      /\ IsInjective(senders[p]) /\ IsInjective(receivers[p])
      /\ \A a \in ToSet(senders[p]) : state[a] = "SENDING"
      /\ \A a \in ToSet(receivers[p]) : state[a] = "RECEIVING"
  BY WaitFacts
<1>4. /\ w \in Seq(Procs) /\ IsInjective(w)
      /\ ToSet(w) = ToSet(senders[p]) \cup ToSet(receivers[p])
  BY <1>3, ConcatSet DEF Waiting
<1>5. state \in [Procs -> States] /\ \A q \in ToSet(ready_queue) : state[q] = "READY"
  BY PlaceFacts
<1>6. st \in [Procs -> States] /\ \A q \in Procs : st[q] = IF q = p THEN "STOPPED" ELSE state[q]
  BY <1>5 DEF States
<1> HIDE DEF w, st
<1>7. TurnOf(st, w)
  BY <1>1, <1>2, <1>3, <1>4, <1>5, <1>6 DEF TurnOf
<1>8. p \notin ToSet(w)
  BY <1>2, <1>4
<1>9. state'[p] = st[p]
  BY <1>2, <1>7, <1>8, TurnFacts
<1> QED BY <1>2, <1>4, <1>6, <1>7, <1>9 DEF st, w

\* tick() readies sleepers and the process that it interrupts.
LEMMA TimerTurn ==
  ASSUME IInv, NEW eax \in Eax, Timer(eax)
  PROVE  \E w : /\ TurnOf(state, w)
                /\ \A q \in ToSet(w) : q = run \/ state[q] = "SLEEPING"
                /\ irc' = [q \in Procs |-> IF q \in ToSet(w) \ {run} THEN 0
                                           ELSE IF q = run THEN eax ELSE irc[q]]
<1>1. run \in Procs
  BY DEF Timer, IInv, TypeOK
<1>2. PICK k \in 0 .. Len(sleep_list) :
        /\ irc' = [p \in Procs |-> IF p \in ToSet(SubSeq(sleep_list, 1, k)) THEN 0
                                   ELSE IF p = run THEN eax ELSE irc[p]]
        /\ Resume(state, Append(SubSeq(sleep_list, 1, k), run))
  BY DEF Timer
<1> DEFINE u == SubSeq(sleep_list, 1, k)
           w == Append(u, run)
<1>3. sleep_list \in Seq(Procs) /\ IsInjective(sleep_list)
  BY DEF IInv, TypeOK, NoDuplicates
<1>4. /\ u \in Seq(Procs) /\ IsInjective(u)
      /\ ToSet(u) \subseteq ToSet(sleep_list)
  BY <1>3, SplitSet
<1>5. /\ irc' = [p \in Procs |-> IF p \in ToSet(u) THEN 0
                                 ELSE IF p = run THEN eax ELSE irc[p]]
      /\ Resume(state, w)
  BY <1>2
<1> HIDE DEF u
<1>6. /\ state \in [Procs -> States]
      /\ \A q \in ToSet(ready_queue) : q \in Procs /\ state[q] = "READY"
      /\ \A q \in Procs : (q = run) <=> (state[q] = "RUNNING")
  BY PlaceFacts
<1>7. \A q \in ToSet(u) : q \in Procs /\ state[q] = "SLEEPING"
  BY <1>3, <1>4, MemberSet DEF IInv, InItsPlace
<1>8. run \notin ToSet(u)
  BY <1>1, <1>6, <1>7
<1>9. w \in Seq(Procs) /\ IsInjective(w) /\ ToSet(w) = ToSet(u) \cup {run}
  BY <1>1, <1>4, <1>8, AppendSet
<1> HIDE DEF w
<1>10. TurnOf(state, w)
  BY <1>1, <1>5, <1>6, <1>7, <1>9 DEF TurnOf
<1>11. irc' = [q \in Procs |-> IF q \in ToSet(w) \ {run} THEN 0
                               ELSE IF q = run THEN eax ELSE irc[q]]
  BY <1>5, <1>8, <1>9
<1> QED BY <1>7, <1>9, <1>10, <1>11

-----------------------------------------------------------------------------
(* An exchange: what send_receive_transfer() and the removal of the partner  *)
(* from its queue leave behind.                                              *)

\* recv_queue_remove(), send_queue_remove(): one element leaves its queue.
LEMMA TakenSet ==
  ASSUME NEW q \in Seq(Procs), IsInjective(q), NEW i \in DOMAIN q
  PROVE  ToSet(Taken(q, i)) = ToSet(q) \ {q[i]}
<1>1. i \in 1 .. Len(q)
  BY MemberSet
<1> QED BY <1>1, RemoveAtSet DEF Taken

\* Both calls return the length that fits both buffers.
LEMMA TransferExchanges ==
  ASSUME IInv, NEW s \in Procs, NEW r \in Procs, s # r,
         NEW a \in [Procs -> [peer : Pids, len : Nat]], Transfer(s, r, a)
  PROVE  /\ Exchanged(s, r)
         /\ \A q \in Procs \ {s, r} : irc'[q] = irc[q] /\ arg'[q] = a[q]
<1>1. irc \in [Procs -> Int] /\ pid \in [Procs -> Pids]
  BY DEF IInv, TypeOK
<1> DEFINE n == IF a[s].len <= a[r].len THEN a[s].len ELSE a[r].len
<1>2. irc' = [irc EXCEPT ![s] = n, ![r] = n]
  BY DEF Transfer
<1>3. arg' = [a EXCEPT ![r] = [a[r] EXCEPT !.peer = pid[s]]]
  BY DEF Transfer
<1>4. a[s] \in [peer : Pids, len : Nat] /\ a[r] \in [peer : Pids, len : Nat]
  OBVIOUS
<1>5. /\ arg'[s].len = a[s].len /\ arg'[r].len = a[r].len /\ arg'[r].peer = pid[s]
      /\ \A q \in Procs \ {s, r} : arg'[q] = a[q]
  BY <1>3, <1>4
<1>6. /\ irc'[s] = n /\ irc'[r] = n
      /\ \A q \in Procs \ {s, r} : irc'[q] = irc[q]
  BY <1>1, <1>2
<1> QED BY <1>4, <1>5, <1>6 DEF Exchanged

\* The process r goes on together with the caller p, after an exchange with it.
Meets(p, r) ==
  /\ Calls(p) /\ r # p
  /\ Resume(state, <<p, r>>)
  /\ \A q \in Procs : /\ ToSet(senders'[q]) = ToSet(senders[q]) \ {r}
                      /\ ToSet(receivers'[q]) = ToSet(receivers[q]) \ {r}
  /\ \A q \in Procs \ {p, r} : irc'[q] = irc[q] /\ arg'[q] = arg[q]
  /\ \/ state[r] = "SENDING" /\ IsPeer(p, r) /\ Exchanged(r, p)
     \/ state[r] = "RECEIVING" /\ arg[r].peer \in {0, pid[p]} /\ Exchanged(p, r)
  /\ UNCHANGED <<procVars, sleepVars>>

\* The four ways in which send() and receive() complete a rendezvous.
LEMMA ExchangeMeets ==
  ASSUME IInv, NEW p \in Procs, NEW x \in Pids, NEW len \in Lens,
         \/ SendToWaiting(p, x, len) \/ SendToAny(p, x, len)
         \/ RecvFrom(p, x, len) \/ RecvAny(p, len)
  PROVE  \E r \in Procs : Meets(p, r)
<1> DEFINE c == Called(p, x, len)
           c0 == Called(p, 0, len)
<1>1. 0 \in Pids
  BY TableAssumption, PidAssumption DEF Pids
<1>2. /\ c \in [Procs -> [peer : Pids, len : Nat]]
      /\ \A q \in Procs \ {p} : c[q] = arg[q]
  BY CalledType
<1>3. /\ c0 \in [Procs -> [peer : Pids, len : Nat]]
      /\ \A q \in Procs \ {p} : c0[q] = arg[q]
  BY <1>1, CalledType
<1>4. /\ senders \in [Procs -> Seq(Procs)] /\ receivers \in [Procs -> Seq(Procs)]
      /\ \A q \in Procs : IsInjective(senders[q]) /\ IsInjective(receivers[q])
      /\ \A q \in Procs : \A a \in ToSet(senders[q]) :
           /\ a \in Procs /\ state[a] = "SENDING"
           /\ \A t \in Procs : a \notin ToSet(receivers[t])
                               /\ (a \in ToSet(senders[t]) => t = q)
      /\ \A q \in Procs : \A a \in ToSet(receivers[q]) :
           /\ a \in Procs /\ state[a] = "RECEIVING"
           /\ \A t \in Procs : a \notin ToSet(senders[t])
                               /\ (a \in ToSet(receivers[t]) => t = q)
  BY WaitFacts
<1>5. \A a \in ToSet(senders[p]) \cup ToSet(receivers[p]) : IsPeer(p, a)
  BY DEF IInv, WaitsOnTarget
<1>6. \A a \in Procs : IsPeer(p, a) => arg[a].peer = pid[p]
  BY DEF IsPeer
<1> HIDE DEF c, c0, IInv
<1>7. CASE SendToWaiting(p, x, len)
  <2>1. PICK i \in DOMAIN receivers[p] :
          /\ Transfer(p, receivers[p][i], c)
          /\ receivers' = [receivers EXCEPT ![p] = Taken(@, i)]
          /\ Resume(state, <<p, receivers[p][i]>>)
    BY <1>7 DEF SendToWaiting, c
  <2>2. Calls(p) /\ UNCHANGED <<senders, procVars, sleepVars>>
    BY <1>7 DEF SendToWaiting
  <2> DEFINE r == receivers[p][i]
  <2>3. r \in ToSet(receivers[p])
    BY <1>4, MemberSet
  <2>4. /\ r \in Procs /\ state[r] = "RECEIVING" /\ arg[r].peer = pid[p]
        /\ \A q \in Procs : /\ r \notin ToSet(senders[q])
                            /\ (r \in ToSet(receivers[q]) => q = p)
    BY <1>4, <1>5, <1>6, <2>3
  <2>5. \A q \in Procs : ToSet(receivers'[q]) = ToSet(receivers[q]) \ {r}
    <3> DEFINE w == Taken(receivers[p], i)
    <3>1. ToSet(w) = ToSet(receivers[p]) \ {r}
      BY <1>4, TakenSet
    <3>2. receivers' = [receivers EXCEPT ![p] = w]
      BY <2>1
    <3> HIDE DEF w, r
    <3>3. \A q \in Procs : receivers'[q] = IF q = p THEN w ELSE receivers[q]
      BY <1>4, <3>2
    <3> QED BY <2>4, <3>1, <3>3
  <2>6. Transfer(p, r, c) /\ Resume(state, <<p, r>>)
    BY <2>1
  <2> HIDE DEF r
  <2>7. r # p
    BY <2>2, <2>4, CallerInNoQueue
  <2>8. /\ Exchanged(p, r)
        /\ \A q \in Procs \ {p, r} : irc'[q] = irc[q] /\ arg'[q] = arg[q]
    BY <1>2, <2>4, <2>6, <2>7, TransferExchanges
  <2>9. \A q \in Procs : ToSet(senders'[q]) = ToSet(senders[q]) \ {r}
    BY <2>2, <2>4
  <2> QED BY <2>2, <2>4, <2>5, <2>6, <2>7, <2>8, <2>9 DEF Meets
<1>8. CASE SendToAny(p, x, len)
  <2> DEFINE r == pidMapLookup(x)
  <2>1. /\ Calls(p) /\ Refused(p, x) = 0 /\ AcceptsAny(r)
        /\ Transfer(p, r, c) /\ Resume(state, <<p, r>>)
        /\ UNCHANGED <<senders, receivers, procVars, sleepVars>>
    BY <1>8 DEF SendToAny, c
  <2>2. r \in Procs /\ state[r] = "RECEIVING" /\ arg[r].peer = 0
    BY <2>1, NotRefused DEF AcceptsAny
  <2> HIDE DEF r
  <2>3. \A q \in Procs : r \notin ToSet(senders[q]) /\ r \notin ToSet(receivers[q])
    BY <2>2, WaitFacts
  <2>4. r # p
    BY <2>1, <2>2, CallerInNoQueue
  <2>5. /\ Exchanged(p, r)
        /\ \A q \in Procs \ {p, r} : irc'[q] = irc[q] /\ arg'[q] = arg[q]
    BY <1>2, <2>1, <2>2, <2>4, TransferExchanges
  <2>6. \A q \in Procs : /\ ToSet(senders'[q]) = ToSet(senders[q]) \ {r}
                         /\ ToSet(receivers'[q]) = ToSet(receivers[q]) \ {r}
    BY <2>1, <2>3
  <2> QED BY <2>1, <2>2, <2>4, <2>5, <2>6 DEF Meets
<1>9. ASSUME NEW i \in DOMAIN senders[p], NEW a \in {c, c0}, Calls(p),
             Transfer(senders[p][i], p, a),
             senders' = [senders EXCEPT ![p] = Taken(@, i)],
             Resume(state, <<p, senders[p][i]>>),
             UNCHANGED <<receivers, procVars, sleepVars>>
      PROVE  \E r \in Procs : Meets(p, r)
  <2> DEFINE r == senders[p][i]
  <2>1. r \in ToSet(senders[p])
    <3>1. senders[p] \in Seq(Procs) /\ i \in DOMAIN senders[p]
      BY <1>4
    <3> QED BY <3>1, MemberSet
  <2>2. /\ r \in Procs /\ state[r] = "SENDING" /\ IsPeer(p, r)
        /\ \A q \in Procs : /\ r \notin ToSet(receivers[q])
                            /\ (r \in ToSet(senders[q]) => q = p)
    BY <1>4, <1>5, <2>1
  <2>3. \A q \in Procs : ToSet(senders'[q]) = ToSet(senders[q]) \ {r}
    <3> DEFINE w == Taken(senders[p], i)
    <3>1. ToSet(w) = ToSet(senders[p]) \ {r}
      BY <1>4, TakenSet
    <3>2. senders' = [senders EXCEPT ![p] = w]
      BY <1>9
    <3> HIDE DEF w, r
    <3>3. \A q \in Procs : senders'[q] = IF q = p THEN w ELSE senders[q]
      BY <1>4, <3>2
    <3> QED BY <2>2, <3>1, <3>3
  <2>4. Transfer(r, p, a) /\ Resume(state, <<p, r>>)
    BY <1>9
  <2> HIDE DEF r
  <2>5. r # p
    BY <1>9, <2>2, CallerInNoQueue
  <2>6. /\ Exchanged(r, p)
        /\ \A q \in Procs \ {p, r} : irc'[q] = irc[q] /\ arg'[q] = arg[q]
    <3>1. a \in [Procs -> [peer : Pids, len : Nat]] /\ \A q \in Procs \ {p} : a[q] = arg[q]
      BY <1>2, <1>3, <1>9
    <3>2. /\ Exchanged(r, p)
          /\ \A q \in Procs \ {r, p} : irc'[q] = irc[q] /\ arg'[q] = a[q]
      BY <2>2, <2>4, <2>5, <3>1, TransferExchanges
    <3> QED BY <3>1, <3>2
  <2>7. \A q \in Procs : ToSet(receivers'[q]) = ToSet(receivers[q]) \ {r}
    BY <1>9, <2>2
  <2> QED BY <1>9, <2>2, <2>3, <2>4, <2>5, <2>6, <2>7 DEF Meets
<1>10. CASE RecvFrom(p, x, len)
  BY <1>9, <1>10 DEF RecvFrom, c
<1>11. CASE RecvAny(p, len)
  <2>1. /\ Calls(p) /\ senders[p] # <<>>
        /\ Transfer(Head(senders[p]), p, c0)
        /\ senders' = [senders EXCEPT ![p] = Taken(@, 1)]
        /\ Resume(state, <<p, Head(senders[p])>>)
        /\ UNCHANGED <<receivers, procVars, sleepVars>>
    BY <1>11 DEF RecvAny, c0
  <2>2. Head(senders[p]) = senders[p][1] /\ 1 \in DOMAIN senders[p]
    BY <1>4, <2>1, HeadSet, LenProperties
  <2> QED BY <1>9, <2>1, <2>2
<1> QED BY <1>7, <1>8, <1>10, <1>11

-----------------------------------------------------------------------------
(* The kinds of steps. *)

\* A call that returns at once to its caller, and touches nobody else.
Returns(p) ==
  /\ Calls(p)
  /\ Resume(state, <<p>>)
  /\ \A q \in Procs \ {p} : irc'[q] = irc[q] /\ arg'[q] = arg[q]
  /\ UNCHANGED <<senders, receivers, procVars, sleepVars>>

\* The queues Q with p added to the queue of t.
Joined(Q, R, p, t) ==
  \A q \in Procs : ToSet(R[q]) = ToSet(Q[q]) \cup (IF q = t THEN {p} ELSE {})

\* A call that blocks its caller in state b, and what the code has looked at
\* before it: nobody is waiting for the opposite call.
WaitsIn(p, b) ==
  /\ Calls(p)
  /\ Resume([state EXCEPT ![p] = b], <<>>)
  /\ \A q \in Procs \ {p} : arg'[q] = arg[q]
  /\ UNCHANGED <<irc, procVars>>
  /\ \/ /\ b = "SLEEPING" /\ \E ms \in Sleeps : Sleep(p, ms)
        /\ UNCHANGED <<senders, receivers>>
     \/ /\ b = "RECEIVING" /\ senders[p] = <<>>
        /\ UNCHANGED <<senders, receivers, sleepVars>>
     \/ /\ b = "SENDING"
        /\ \E t \in Procs \ {p} : /\ ~AcceptsAny(t) /\ t \notin ToSet(receivers[p])
                                  /\ Joined(senders, senders', p, t)
        /\ UNCHANGED <<receivers, sleepVars>>
     \/ /\ b = "RECEIVING" /\ arg'[p].peer # 0
        /\ \E t \in Procs : /\ t \notin ToSet(senders[p])
                            /\ Joined(receivers, receivers', p, t)
        /\ UNCHANGED <<senders, sleepVars>>

\* A step that is no turn of the loop: abort(), or the spinning after it.
Quiet ==
  /\ UNCHANGED <<state, ready_queue, run, irc, arg, senders, receivers, pidMap,
                 sleep_list, delta>>
  /\ halted' \/ UNCHANGED vars

\* The calls of ReturnsAtOnce.
LEMMA ReturnsFacts ==
  ASSUME IInv, NEW p \in Procs,
         \/ CreateRefused(p) \/ Yield(p) \/ GetPid(p) \/ GetParentPid(p)
         \/ \E x \in Pids : SendRefused(p, x) \/ RecvRefused(p, x)
         \/ \E ms \in Sleeps : SleepZero(p, ms)
  PROVE  Returns(p)
<1>0. /\ irc \in [Procs -> Int] /\ arg \in [Procs -> [peer : Pids, len : Nat]]
  BY DEF IInv, TypeOK
<1>1. ASSUME NEW v, irc' = [irc EXCEPT ![p] = v]
      PROVE  \A q \in Procs \ {p} : irc'[q] = irc[q]
  BY <1>0, <1>1
<1>2. CASE CreateRefused(p)
  BY <1>1, <1>2 DEF CreateRefused, Returns, ipcVars
<1>3. CASE Yield(p)
  BY <1>3 DEF Yield, Returns, ipcVars
<1>4. CASE GetPid(p)
  BY <1>1, <1>4 DEF GetPid, Returns, ipcVars
<1>5. CASE GetParentPid(p)
  BY <1>1, <1>5 DEF GetParentPid, Returns, ipcVars
<1>6. ASSUME NEW x \in Pids, SendRefused(p, x) \/ RecvRefused(p, x)
      PROVE  Returns(p)
  <2>1. /\ Calls(p) /\ Resume(state, <<p>>)
        /\ irc' = [irc EXCEPT ![p] = Refused(p, x)]
        /\ UNCHANGED <<arg, senders, receivers, procVars, sleepVars>>
    BY <1>6 DEF SendRefused, RecvRefused, ipcVars
  <2> QED BY <1>1, <2>1 DEF Returns
<1>7. ASSUME NEW ms \in Sleeps, SleepZero(p, ms) PROVE Returns(p)
  BY <1>7 DEF SleepZero, Returns, ipcVars
<1> QED BY <1>2, <1>3, <1>4, <1>5, <1>6, <1>7

\* send_queue_insert(), recv_queue_insert(): one process joins one queue.
LEMMA AppendedSet ==
  ASSUME NEW Q \in [Procs -> Seq(Procs)], NEW p \in Procs, NEW t \in Procs
  PROVE  Joined(Q, [Q EXCEPT ![t] = Append(@, p)], p, t)
<1> DEFINE w == Append(Q[t], p)
<1>1. ToSet(w) = ToSet(Q[t]) \cup {p}
  BY AppendSet
<1>2. [Q EXCEPT ![t] = Append(@, p)] = [Q EXCEPT ![t] = w]
  OBVIOUS
<1> HIDE DEF w
<1>3. \A q \in Procs : [Q EXCEPT ![t] = w][q] = IF q = t THEN w ELSE Q[q]
  OBVIOUS
<1> QED BY <1>1, <1>2, <1>3 DEF Joined

\* The calls that block.
LEMMA BlocksFacts ==
  ASSUME IInv, NEW p \in Procs,
         \/ \E x \in Pids, len \in Lens :
              SendBlocks(p, x, len) \/ RecvFromBlocks(p, x, len)
         \/ \E len \in Lens : RecvAnyBlocks(p, len)
         \/ \E ms \in Sleeps : Sleep(p, ms)
  PROVE  \E b \in {"SENDING", "RECEIVING", "SLEEPING"} : WaitsIn(p, b)
<1>0. /\ senders \in [Procs -> Seq(Procs)] /\ receivers \in [Procs -> Seq(Procs)]
      /\ \A q \in Procs : \A a \in ToSet(senders[q]) \cup ToSet(receivers[q]) : a \in Procs
  BY WaitFacts
<1>1. ASSUME NEW x \in Pids, NEW Q \in [Procs -> Seq(Procs)],
             pidMapLookup(x) \in ToSet(Q[p]), pid[pidMapLookup(x)] = x
      PROVE  HasPid(Q[p], x)
  <2>1. \E i \in 1 .. Len(Q[p]) : Q[p][i] = pidMapLookup(x)
    BY <1>1, MemberSet
  <2>2. DOMAIN Q[p] = 1 .. Len(Q[p])
    BY MemberSet
  <2> QED BY <1>1, <2>1, <2>2 DEF HasPid
<1>2. ASSUME NEW x \in Pids, NEW len \in Lens, SendBlocks(p, x, len)
      PROVE  WaitsIn(p, "SENDING")
  <2> DEFINE t == pidMapLookup(x)
  <2>1. /\ Calls(p) /\ Refused(p, x) = 0 /\ ~HasPid(receivers[p], x) /\ ~AcceptsAny(t)
        /\ senders' = [senders EXCEPT ![t] = Append(@, p)]
        /\ arg' = Called(p, x, len)
        /\ Resume([state EXCEPT ![p] = "SENDING"], <<>>)
        /\ UNCHANGED <<irc, receivers, procVars, sleepVars>>
    BY <1>2 DEF SendBlocks
  <2>2. t \in Procs /\ pid[t] = x /\ t # p
    BY <2>1, NotRefused
  <2>3. \A q \in Procs \ {p} : arg'[q] = arg[q]
    BY <2>1, CalledType
  <2>4. t \notin ToSet(receivers[p])
    BY <1>0, <1>1, <2>1, <2>2
  <2>5. Joined(senders, senders', p, t)
    BY <1>0, <2>1, <2>2, AppendedSet
  <2> QED BY <2>1, <2>2, <2>3, <2>4, <2>5 DEF WaitsIn
<1>3. ASSUME NEW x \in Pids, NEW len \in Lens, RecvFromBlocks(p, x, len)
      PROVE  WaitsIn(p, "RECEIVING")
  <2> DEFINE t == pidMapLookup(x)
  <2>1. /\ Calls(p) /\ x # 0 /\ Refused(p, x) = 0 /\ ~HasPid(senders[p], x)
        /\ receivers' = [receivers EXCEPT ![t] = Append(@, p)]
        /\ arg' = Called(p, x, len)
        /\ Resume([state EXCEPT ![p] = "RECEIVING"], <<>>)
        /\ UNCHANGED <<irc, senders, procVars, sleepVars>>
    BY <1>3 DEF RecvFromBlocks
  <2>2. t \in Procs /\ pid[t] = x
    BY <2>1, NotRefused
  <2>3. arg'[p].peer = x /\ \A q \in Procs \ {p} : arg'[q] = arg[q]
    BY <2>1, CalledType
  <2>4. t \notin ToSet(senders[p])
    BY <1>0, <1>1, <2>1, <2>2
  <2>5. Joined(receivers, receivers', p, t)
    BY <1>0, <2>1, <2>2, AppendedSet
  <2> QED BY <2>1, <2>2, <2>3, <2>4, <2>5 DEF WaitsIn
<1>4. ASSUME NEW len \in Lens, RecvAnyBlocks(p, len)
      PROVE  WaitsIn(p, "RECEIVING")
  <2>1. 0 \in Pids
    BY TableAssumption, PidAssumption DEF Pids
  <2>2. \A q \in Procs \ {p} : arg'[q] = arg[q]
    BY <1>4, <2>1, CalledType DEF RecvAnyBlocks
  <2> QED BY <1>4, <2>2 DEF RecvAnyBlocks, WaitsIn
<1>5. ASSUME NEW ms \in Sleeps, Sleep(p, ms)
      PROVE  WaitsIn(p, "SLEEPING")
  BY <1>5 DEF Sleep, WaitsIn, ipcVars
<1> QED BY <1>2, <1>3, <1>4, <1>5

\* Every step of the kernel is of one of these kinds.
LEMMA StepKinds ==
  ASSUME IInv, [Next]_vars
  PROVE  \/ Quiet
         \/ \E p \in Procs : Returns(p)
         \/ \E p, r \in Procs : Meets(p, r)
         \/ \E p \in Procs, b \in {"SENDING", "RECEIVING", "SLEEPING"} : WaitsIn(p, b)
         \/ \E p, s \in Procs, x \in Pids : Create(p, s, x)
         \/ \E p \in Procs : Stop(p)
         \/ \E eax \in Eax : Timer(eax)
<1>1. CASE UNCHANGED vars \/ Spin
  BY <1>1 DEF Quiet, vars, Spin, procVars, ipcVars, sleepVars
<1>2. ASSUME NEW p \in Procs, NEW s \in Procs, NEW x \in Pids, CreateAborts(p, s, x)
      PROVE  Quiet
  BY <1>2 DEF Quiet, CreateAborts, ipcVars, sleepVars
<1>3. ASSUME NEW p \in Procs, Lifecycle(p)
      PROVE  \/ Quiet
             \/ Returns(p)
             \/ \E s \in Procs, x \in Pids : Create(p, s, x)
             \/ Stop(p)
  BY <1>2, <1>3, ReturnsFacts DEF Lifecycle
<1>4. ASSUME NEW p \in Procs, Messaging(p)
      PROVE  \/ Returns(p)
             \/ \E r \in Procs : Meets(p, r)
             \/ \E b \in {"SENDING", "RECEIVING", "SLEEPING"} : WaitsIn(p, b)
  <2>1. 0 \in Pids
    BY TableAssumption, PidAssumption DEF Pids
  <2>2. CASE \E x \in Pids : SendRefused(p, x) \/ RecvRefused(p, x)
    BY <2>2, ReturnsFacts
  <2>3. ASSUME NEW len \in Lens,
               \/ \E x \in Pids : \/ SendToWaiting(p, x, len) \/ SendToAny(p, x, len)
                                  \/ RecvFrom(p, x, len)
               \/ RecvAny(p, len)
        PROVE  \E r \in Procs : Meets(p, r)
    BY <2>1, <2>3, ExchangeMeets
  <2>4. ASSUME NEW len \in Lens,
               \/ \E x \in Pids : SendBlocks(p, x, len) \/ RecvFromBlocks(p, x, len)
               \/ RecvAnyBlocks(p, len)
        PROVE  \E b \in {"SENDING", "RECEIVING", "SLEEPING"} : WaitsIn(p, b)
    BY <2>4, BlocksFacts
  <2> QED BY <1>4, <2>2, <2>3, <2>4 DEF Messaging
<1>5. ASSUME NEW p \in Procs, Sleeping(p)
      PROVE  \/ Returns(p)
             \/ \E b \in {"SENDING", "RECEIVING", "SLEEPING"} : WaitsIn(p, b)
  BY <1>5, ReturnsFacts, BlocksFacts DEF Sleeping
<1> QED BY <1>1, <1>3, <1>4, <1>5 DEF Next

-----------------------------------------------------------------------------
(* No rendezvous is missed. *)

\* A process that accepts any sender after a turn did so before, unless it is
\* the caller.
LEMMA StillAccepts ==
  ASSUME IInv, NEW st, NEW w, TurnOf(st, w),
         \A q \in Procs \ (ToSet(w) \cup {run}) : arg'[q] = arg[q],
         NEW q \in Procs, AcceptsAny(q)', q = run => st[run] # "RECEIVING"
  PROVE  AcceptsAny(q)
<1>1. state'[q] = "RECEIVING" /\ arg'[q].peer = 0
  BY DEF AcceptsAny
<1>2. q \notin ToSet(w) /\ state[q] # "READY"
  BY <1>1, TurnFacts
<1>3. q # run
  BY <1>1, <1>2, TurnFacts
<1>4. state[q] # "RUNNING"
  BY <1>3, PlaceFacts
<1>5. state'[q] = state[q] /\ arg'[q] = arg[q]
  BY <1>2, <1>3, <1>4, TurnFacts
<1> QED BY <1>1, <1>5 DEF AcceptsAny

\* Steps that only take processes out of queues, and make nobody accept.
LEMMA RendezvousKept ==
  ASSUME NoMissedRendezvous,
         \A q \in Procs : /\ ToSet(senders'[q]) \subseteq ToSet(senders[q])
                          /\ ToSet(receivers'[q]) \subseteq ToSet(receivers[q]),
         \A q \in Procs : ToSet(senders[q]) \subseteq Procs,
         \A q \in Procs : AcceptsAny(q)' => AcceptsAny(q)
  PROVE  NoMissedRendezvous'
<1>1. ASSUME NEW r \in Procs, NEW s \in ToSet(senders'[r])
      PROVE  ~AcceptsAny(r)' /\ r \notin ToSet(receivers'[s])
  BY <1>1 DEF NoMissedRendezvous
<1> QED BY <1>1 DEF NoMissedRendezvous

\* send() and receive() look for the partner before they queue the caller.
LEMMA NextMeets ==
  ASSUME IInv, NoMissedRendezvous, [Next]_vars
  PROVE  NoMissedRendezvous'
<1>0. \A q \in Procs : /\ ToSet(senders[q]) \subseteq Procs
                       /\ senders[q] \in Seq(Procs) /\ receivers[q] \in Seq(Procs)
  BY WaitFacts
<1>1. CASE Quiet
  BY <1>1 DEF Quiet, NoMissedRendezvous, AcceptsAny
<1>2. ASSUME NEW p \in Procs, Returns(p) PROVE NoMissedRendezvous'
  <2> DEFINE w == <<p>>
  <2>1. TurnOf(state, w) /\ ToSet(w) = {p} /\ run = p
    BY <1>2, ReturnTurn DEF Returns
  <2> HIDE DEF w
  <2>2. /\ \A q \in Procs \ (ToSet(w) \cup {run}) : arg'[q] = arg[q]
        /\ state[run] # "RECEIVING" /\ UNCHANGED <<senders, receivers>>
    BY <1>2, <2>1, TurnFacts DEF Returns
  <2>3. \A q \in Procs : AcceptsAny(q)' => AcceptsAny(q)
    BY <2>1, <2>2, StillAccepts
  <2> QED BY <1>0, <2>2, <2>3, RendezvousKept
<1>3. ASSUME NEW p \in Procs, NEW r \in Procs, Meets(p, r)
      PROVE  NoMissedRendezvous'
  <2> DEFINE w == <<p, r>>
  <2>1. TurnOf(state, w) /\ ToSet(w) = {p, r} /\ run = p
    BY <1>3, PairTurn DEF Meets
  <2> HIDE DEF w
  <2>2. /\ \A q \in Procs \ (ToSet(w) \cup {run}) : arg'[q] = arg[q]
        /\ state[run] # "RECEIVING"
        /\ \A q \in Procs : /\ ToSet(senders'[q]) \subseteq ToSet(senders[q])
                            /\ ToSet(receivers'[q]) \subseteq ToSet(receivers[q])
    BY <1>3, <2>1, TurnFacts DEF Meets
  <2>3. \A q \in Procs : AcceptsAny(q)' => AcceptsAny(q)
    BY <2>1, <2>2, StillAccepts
  <2> QED BY <1>0, <2>2, <2>3, RendezvousKept
<1>4. ASSUME NEW p \in Procs, NEW b \in {"SENDING", "RECEIVING", "SLEEPING"}, WaitsIn(p, b)
      PROVE  NoMissedRendezvous'
  <2> DEFINE st == [state EXCEPT ![p] = b]
             w == <<>>
  <2>1. TurnOf(st, w) /\ ToSet(w) = {} /\ run = p /\ state'[p] = b
    BY <1>4, BlockTurn DEF WaitsIn
  <2> HIDE DEF st, w
  <2>2. /\ \A q \in Procs \ {p} : arg'[q] = arg[q]
        /\ run \notin ToSet(w) /\ state'[run] = st[run]
    BY <1>4, <2>1, TurnFacts DEF WaitsIn
  <2>3. \A q \in Procs \ {p} : AcceptsAny(q)' => AcceptsAny(q)
    BY <2>1, <2>2, StillAccepts
  <2>4. AcceptsAny(p)' => b = "RECEIVING" /\ arg'[p].peer = 0
    BY <2>1 DEF AcceptsAny
  <2>5. CASE b = "SLEEPING" /\ UNCHANGED <<senders, receivers>>
    <3>1. \A q \in Procs : AcceptsAny(q)' => AcceptsAny(q)
      BY <2>3, <2>4, <2>5
    <3> QED BY <1>0, <2>5, <3>1, RendezvousKept
  <2>6. CASE b = "RECEIVING" /\ senders[p] = <<>> /\ UNCHANGED <<senders, receivers>>
    <3>1. ToSet(senders[p]) = {}
      BY <2>6 DEF ToSet
    <3>2. ASSUME NEW r \in Procs, NEW s \in ToSet(senders'[r])
          PROVE  ~AcceptsAny(r)' /\ r \notin ToSet(receivers'[s])
      <4>1. r # p /\ s \in ToSet(senders[r])
        BY <2>6, <3>1, <3>2
      <4> QED BY <2>3, <2>6, <4>1 DEF NoMissedRendezvous
    <3> QED BY <3>2 DEF NoMissedRendezvous
  <2>7. ASSUME b = "SENDING", UNCHANGED receivers, NEW t \in Procs \ {p},
               ~AcceptsAny(t), t \notin ToSet(receivers[p]),
               Joined(senders, senders', p, t)
        PROVE  NoMissedRendezvous'
    <3>1. ASSUME NEW r \in Procs, NEW s \in ToSet(senders'[r])
          PROVE  ~AcceptsAny(r)' /\ r \notin ToSet(receivers'[s])
      <4>1. ~AcceptsAny(p)'
        BY <2>4, <2>7
      <4>2. s \in ToSet(senders[r]) \/ (r = t /\ s = p)
        BY <2>7, <3>1 DEF Joined
      <4>3. CASE s \in ToSet(senders[r])
        BY <2>3, <2>7, <4>1, <4>3 DEF NoMissedRendezvous
      <4>4. CASE r = t /\ s = p
        BY <2>3, <2>7, <4>4
      <4> QED BY <4>2, <4>3, <4>4
    <3> QED BY <3>1 DEF NoMissedRendezvous
  <2>8. ASSUME arg'[p].peer # 0, UNCHANGED senders, NEW t \in Procs,
               t \notin ToSet(senders[p]), Joined(receivers, receivers', p, t)
        PROVE  NoMissedRendezvous'
    <3>1. ASSUME NEW r \in Procs, NEW s \in ToSet(senders'[r])
          PROVE  ~AcceptsAny(r)' /\ r \notin ToSet(receivers'[s])
      <4>1. ~AcceptsAny(p)'
        BY <2>4, <2>8
      <4>2. s \in ToSet(senders[r]) /\ s \in Procs
        BY <1>0, <2>8, <3>1
      <4>3. ~AcceptsAny(r) /\ r \notin ToSet(receivers[s])
        BY <4>2 DEF NoMissedRendezvous
      <4>4. r = p => s # t
        BY <2>8, <4>2
      <4> QED BY <2>3, <2>8, <4>1, <4>2, <4>3, <4>4 DEF Joined
    <3> QED BY <3>1 DEF NoMissedRendezvous
  <2> QED BY <1>4, <2>5, <2>6, <2>7, <2>8 DEF WaitsIn
<1>5. ASSUME NEW p \in Procs, NEW s \in Procs, NEW x \in Pids, Create(p, s, x)
      PROVE  NoMissedRendezvous'
  <2> DEFINE w == <<s, p>>
  <2>1. /\ Calls(p) /\ state[s] = "STOPPED" /\ Resume(state, w)
        /\ senders' = [senders EXCEPT ![s] = <<>>]
        /\ receivers' = [receivers EXCEPT ![s] = <<>>]
        /\ arg' = arg
    BY <1>5 DEF Create, FirstFree
  <2>2. s # p
    BY <2>1, CallerInNoQueue
  <2>3. TurnOf(state, w) /\ ToSet(w) = {s, p} /\ run = p
    BY <2>1, <2>2, PairTurn
  <2> HIDE DEF w
  <2>4. state[run] # "RECEIVING"
    BY <2>3, TurnFacts
  <2>5. \A q \in Procs : AcceptsAny(q)' => AcceptsAny(q)
    BY <2>1, <2>3, <2>4, StillAccepts
  <2>6. \A q \in Procs : /\ senders'[q] = IF q = s THEN <<>> ELSE senders[q]
                         /\ receivers'[q] = IF q = s THEN <<>> ELSE receivers[q]
    BY <2>1, WaitFacts
  <2>7. \A q \in Procs : /\ ToSet(senders'[q]) \subseteq ToSet(senders[q])
                         /\ ToSet(receivers'[q]) \subseteq ToSet(receivers[q])
    BY <2>6 DEF ToSet
  <2> QED BY <1>0, <2>5, <2>7, RendezvousKept
<1>6. ASSUME NEW p \in Procs, Stop(p) PROVE NoMissedRendezvous'
  <2> DEFINE st == [state EXCEPT ![p] = "STOPPED"]
             w == Waiting(p)
  <2>1. TurnOf(st, w) /\ run = p /\ state'[p] = "STOPPED"
    BY <1>6, StopTurn
  <2>2. st[p] = "STOPPED"
    BY PlaceFacts
  <2>3. /\ senders' = [senders EXCEPT ![p] = <<>>]
        /\ receivers' = [receivers EXCEPT ![p] = <<>>]
        /\ arg' = arg
    BY <1>6 DEF Stop
  <2> HIDE DEF st, w
  <2>4. \A q \in Procs : AcceptsAny(q)' => AcceptsAny(q)
    BY <2>1, <2>2, <2>3, StillAccepts
  <2>5. \A q \in Procs : /\ senders'[q] = IF q = p THEN <<>> ELSE senders[q]
                         /\ receivers'[q] = IF q = p THEN <<>> ELSE receivers[q]
    BY <2>3, WaitFacts
  <2>6. \A q \in Procs : /\ ToSet(senders'[q]) \subseteq ToSet(senders[q])
                         /\ ToSet(receivers'[q]) \subseteq ToSet(receivers[q])
    BY <2>5 DEF ToSet
  <2> QED BY <1>0, <2>4, <2>6, RendezvousKept
<1>7. ASSUME NEW eax \in Eax, Timer(eax) PROVE NoMissedRendezvous'
  <2>1. PICK w : TurnOf(state, w)
    BY <1>7, TimerTurn
  <2>2. UNCHANGED <<arg, senders, receivers>>
    BY <1>7 DEF Timer, ipcVars
  <2>3. state[run] # "RECEIVING"
    BY <2>1, TurnFacts
  <2>4. \A q \in Procs : AcceptsAny(q)' => AcceptsAny(q)
    BY <2>1, <2>2, <2>3, StillAccepts
  <2> QED BY <1>0, <2>2, <2>4, RendezvousKept
<1> QED BY <1>1, <1>2, <1>3, <1>4, <1>5, <1>6, <1>7, StepKinds

\* send() and receive() miss no rendezvous: a sender is never queued at a process
\* that is blocked ready to receive from it, so that both would wait for an
\* exchange that each of them has offered.
THEOREM RendezvousNotMissed == Spec => []NoMissedRendezvous
<1>1. Init => NoMissedRendezvous
  <2> SUFFICES ASSUME Init PROVE NoMissedRendezvous
    OBVIOUS
  <2>1. \A r \in Procs : ToSet(senders[r]) = {}
    BY DEF Init, ToSet
  <2> QED BY <2>1 DEF NoMissedRendezvous
<1>2. IInv /\ NoMissedRendezvous /\ [Next]_vars => NoMissedRendezvous'
  BY NextMeets
<1> QED BY <1>1, <1>2, Safety, PTL DEF Spec

-----------------------------------------------------------------------------
(* Memory. *)

\* In a turn, exactly those live on whom the caller has left alive, and those
\* who are readied.
LEMMA LivingTurn ==
  ASSUME IInv, NEW st, NEW w, TurnOf(st, w)
  PROVE  Living' = {q \in Procs : st[q] # "STOPPED"} \cup ToSet(w)
<1>1. ToSet(w) \subseteq Procs
  BY MemberSet DEF TurnOf
<1>2. ASSUME NEW q \in Procs
      PROVE  (state'[q] # "STOPPED") <=> (st[q] # "STOPPED" \/ q \in ToSet(w))
  <2>1. CASE q \in ToSet(w)
    BY <2>1, TurnFacts
  <2>2. CASE q \notin ToSet(w) /\ q = run
    BY <2>2, TurnFacts
  <2>3. CASE q \notin ToSet(w) /\ q # run
    <3>1. st[q] = state[q]
      BY <2>3 DEF TurnOf
    <3>2. state[q] # "RUNNING"
      BY <2>3, PlaceFacts
    <3> QED BY <2>3, <3>1, <3>2, TurnFacts
  <2> QED BY <2>1, <2>2, <2>3
<1> QED BY <1>1, <1>2 DEF Living

\* The two ways in which the blocks that the kernel holds may change.
Balances ==
  LET stacks == Cardinality(Living') - Cardinality(Living)
      nodes  == IF UNCHANGED pidMap THEN 0
                ELSE Cardinality(Entries(pidMap')) - Cardinality(Entries(pidMap))
  IN  ~halted' =>
        \/ heap' - heap = stacks + nodes
        \/ /\ heap' - heap > stacks + nodes
           /\ \E p, s \in Procs, x \in Pids :
                Create(p, s, x) /\ ~InsertsLeftOnly(pidMap, x, s)

\* Turns in which nobody is created or stops.
LEMMA SameBalances ==
  ASSUME IInv, Living' = Living, UNCHANGED <<heap, pidMap>>
  PROVE  Balances
<1>1. heap \in Int /\ Cardinality(Living) \in Nat
  BY HeldType DEF IInv, TypeOK
<1> QED BY <1>1 DEF Balances

\* A failing create() frees what it has allocated, and cleanup() frees all that
\* it finds.
LEMMA NextBalances ==
  ASSUME IInv, [Next]_vars
  PROVE  Balances
<1>0. /\ TypeOK /\ MapInv /\ heap \in Int /\ Cardinality(Living) \in Nat
      /\ Cardinality(Entries(pidMap)) \in Nat
  BY HeldType DEF IInv, TypeOK
<1>1. CASE Quiet
  <2>1. Living' = Living
    BY <1>1 DEF Quiet, Living
  <2>2. CASE halted'
    BY <2>2 DEF Balances
  <2>3. CASE UNCHANGED vars
    BY <2>1, <2>3, SameBalances DEF vars, procVars
  <2> QED BY <1>1, <2>2, <2>3 DEF Quiet
<1>2. ASSUME NEW p \in Procs, Returns(p) PROVE Balances
  <2>1. TurnOf(state, <<p>>) /\ ToSet(<<p>>) = {p} /\ run = p /\ state[p] = "RUNNING"
    BY <1>2, ReturnTurn, CallerInNoQueue DEF Returns
  <2>2. Living' = Living
    BY <2>1, LivingTurn DEF Living
  <2> QED BY <1>2, <2>2, SameBalances DEF Returns, procVars
<1>3. ASSUME NEW p \in Procs, NEW r \in Procs, Meets(p, r) PROVE Balances
  <2>1. Calls(p) /\ state[r] \in {"SENDING", "RECEIVING"} /\ r # p
    BY <1>3 DEF Meets
  <2>2. /\ TurnOf(state, <<p, r>>) /\ ToSet(<<p, r>>) = {p, r}
        /\ state[p] = "RUNNING"
    BY <1>3, <2>1, PairTurn, CallerInNoQueue DEF Meets
  <2>3. Living' = Living
    BY <2>1, <2>2, LivingTurn DEF Living
  <2> QED BY <1>3, <2>3, SameBalances DEF Meets, procVars
<1>4. ASSUME NEW p \in Procs, NEW b \in {"SENDING", "RECEIVING", "SLEEPING"}, WaitsIn(p, b)
      PROVE  Balances
  <2> DEFINE st == [state EXCEPT ![p] = b]
             w == <<>>
  <2>1. TurnOf(st, w) /\ ToSet(w) = {} /\ state[p] = "RUNNING"
    BY <1>4, BlockTurn, CallerInNoQueue DEF WaitsIn
  <2>2. \A q \in Procs : st[q] = IF q = p THEN b ELSE state[q]
    BY PlaceFacts
  <2> HIDE DEF st, w
  <2>3. Living' = {q \in Procs : st[q] # "STOPPED"}
    BY <2>1, LivingTurn
  <2>4. Living' = Living
    BY <2>1, <2>2, <2>3 DEF Living
  <2> QED BY <1>4, <2>4, SameBalances DEF WaitsIn, procVars
<1>5. ASSUME NEW p \in Procs, NEW s \in Procs, NEW x \in Pids, Create(p, s, x)
      PROVE  Balances
  <2> DEFINE w == <<s, p>>
  <2>1. /\ Calls(p) /\ state[s] = "STOPPED" /\ Resume(state, w) /\ Unused(x)
        /\ pid' = [pid EXCEPT ![s] = x] /\ pidMap' = pidMapInsert(x, s)
        /\ heap' = heap + 2
    BY <1>5 DEF Create, FirstFree, FreshPid
  <2>2. s # p /\ state[p] = "RUNNING"
    BY <2>1, CallerInNoQueue
  <2>3. TurnOf(state, w) /\ ToSet(w) = {s, p}
    BY <2>1, <2>2, PairTurn
  <2> HIDE DEF w
  <2>4. Living' = Living \cup {s}
    BY <2>1, <2>2, <2>3, LivingTurn DEF Living
  <2> DEFINE n == Cardinality(Entries(pidMap))
             m == Cardinality(Entries(pidMap'))
  <2>5. /\ Cardinality(Living') = Cardinality(Living) + 1
        /\ m \in 0 .. n + 1
        /\ InsertsLeftOnly(pidMap, x, s) => m = n + 1
    BY <1>0, <2>1, <2>4, CreateMap
  <2>6. n = m => heap' - heap > Cardinality(Living') - Cardinality(Living) + 0
    BY <1>0, <2>1, <2>5
  <2>7. pidMap' = pidMap => n = m
    OBVIOUS
  <2> HIDE DEF n, m
  <2>8. CASE m = n + 1
    <3>1. heap' - heap = Cardinality(Living') - Cardinality(Living) + (m - n)
      BY <1>0, <2>1, <2>5, <2>8 DEF n
    <3>2. pidMap' # pidMap
      BY <1>0, <2>7, <2>8 DEF n
    <3> QED BY <3>1, <3>2 DEF Balances, n, m
  <2>9. CASE m # n + 1
    <3>1. heap' - heap > Cardinality(Living') - Cardinality(Living) + (m - n)
      BY <1>0, <2>1, <2>5, <2>9 DEF n
    <3>2. ~InsertsLeftOnly(pidMap, x, s)
      BY <2>5, <2>9
    <3> QED BY <1>5, <2>6, <2>7, <3>1, <3>2 DEF Balances, n, m
  <2> QED BY <2>8, <2>9
<1>6. ASSUME NEW p \in Procs, Stop(p) PROVE Balances
  <2> DEFINE st == [state EXCEPT ![p] = "STOPPED"]
             w == Waiting(p)
  <2>1. TurnOf(st, w) /\ ToSet(w) = ToSet(senders[p]) \cup ToSet(receivers[p])
    BY <1>6, StopTurn
  <2>2. /\ Calls(p) /\ pid' = pid /\ pidMap' = pidMapDelete(pid[p])
        /\ heap' = heap - 1 - NodesFreed(pid[p])
    BY <1>6 DEF Stop
  <2>3. p \notin ToSet(w) /\ state[p] = "RUNNING"
    BY <2>1, <2>2, CallerInNoQueue
  <2>4. \A q \in ToSet(w) : q \in Procs /\ state[q] # "STOPPED"
    BY <2>1, WaitFacts
  <2>5. \A q \in Procs : st[q] = IF q = p THEN "STOPPED" ELSE state[q]
    BY PlaceFacts
  <2> HIDE DEF st, w
  <2>6. Living' = {q \in Procs : st[q] # "STOPPED"} \cup ToSet(w)
    BY <2>1, LivingTurn
  <2>7. Living' = Living \ {p} /\ p \in Living
    BY <2>3, <2>4, <2>5, <2>6 DEF Living
  <2> DEFINE k == NodesFreed(pid[p])
             n == Cardinality(Entries(pidMap))
             m == Cardinality(Entries(pidMap'))
  <2>8. /\ Cardinality(Living') = Cardinality(Living) - 1
        /\ m = n - k
    BY <1>0, <2>2, <2>7, StopMap
  <2>9. k \in {0, 1} /\ heap' = heap - 1 - k
    BY <2>2 DEF NodesFreed
  <2>10. pidMap' = pidMap => m = n
    OBVIOUS
  <2>11. n \in Nat
    BY <1>0
  <2> HIDE DEF n, m, k
  <2>12. heap' - heap = Cardinality(Living') - Cardinality(Living) + (m - n)
    BY <1>0, <2>8, <2>9, <2>11
  <2>13. pidMap' = pidMap => heap' - heap = Cardinality(Living') - Cardinality(Living) + 0
    BY <1>0, <2>10, <2>11, <2>12, <2>8
  <2> QED BY <2>12, <2>13 DEF Balances, n, m
<1>7. ASSUME NEW eax \in Eax, Timer(eax) PROVE Balances
  <2>1. PICK w : /\ TurnOf(state, w)
                 /\ \A q \in ToSet(w) : q = run \/ state[q] = "SLEEPING"
    BY <1>7, TimerTurn
  <2>2. \A q \in ToSet(w) : q \in Procs /\ state[q] # "STOPPED"
    BY <2>1, TurnFacts
  <2>3. Living' = Living
    BY <2>1, <2>2, LivingTurn DEF Living
  <2> QED BY <1>7, <2>3, SameBalances DEF Timer, procVars
<1> QED BY <1>1, <1>2, <1>3, <1>4, <1>5, <1>6, <1>7, StepKinds

\* Every turn of the dispatcher loop that does not abort takes from kmalloc
\* exactly the stacks of those it brings to life and the nodes it adds to the
\* PID map, and gives back those of whom it ends; what is never given back is
\* lost by an insertion into the map that rotates right, and by nothing else.
THEOREM OnlyRotationsLeak == Spec => HeapBalance
<1>1. IInv /\ [Next]_vars => Balances
  BY NextBalances
<1>2. IInv /\ [Next]_vars => [Balances]_vars
  BY <1>1
<1>3. HeapBalance <=> [][Balances]_vars
  BY DEF HeapBalance, Balances
<1> QED BY <1>2, <1>3, Safety, PTL DEF Spec

-----------------------------------------------------------------------------
(* What a turn may not do. *)

\* Every step is a turn, or leaves the queues and the results alone; a turn
\* writes the saved results of those it readies and of the caller, and no other.
LEMMA StepIsTurn ==
  ASSUME IInv, [Next]_vars
  PROVE  \/ UNCHANGED irc /\ (halted' \/ UNCHANGED vars)
         \/ \E st, w : /\ TurnOf(st, w)
                       /\ \A q \in Procs \ (ToSet(w) \cup {run}) : irc'[q] = irc[q]
<1>1. CASE Quiet
  BY <1>1 DEF Quiet
<1>2. ASSUME NEW p \in Procs, Returns(p)
      PROVE  /\ TurnOf(state, <<p>>)
             /\ \A q \in Procs \ (ToSet(<<p>>) \cup {run}) : irc'[q] = irc[q]
  BY <1>2, ReturnTurn DEF Returns
<1>3. ASSUME NEW p \in Procs, NEW r \in Procs, Meets(p, r)
      PROVE  /\ TurnOf(state, <<p, r>>)
             /\ \A q \in Procs \ (ToSet(<<p, r>>) \cup {run}) : irc'[q] = irc[q]
  BY <1>3, PairTurn DEF Meets
<1>4. ASSUME NEW p \in Procs, NEW b \in {"SENDING", "RECEIVING", "SLEEPING"}, WaitsIn(p, b)
      PROVE  TurnOf([state EXCEPT ![p] = b], <<>>) /\ irc' = irc
  BY <1>4, BlockTurn DEF WaitsIn
<1>5. ASSUME NEW p \in Procs, NEW s \in Procs, NEW x \in Pids, Create(p, s, x)
      PROVE  /\ TurnOf(state, <<s, p>>)
             /\ \A q \in Procs \ (ToSet(<<s, p>>) \cup {run}) : irc'[q] = irc[q]
  <2>1. /\ Calls(p) /\ state[s] = "STOPPED" /\ Resume(state, <<s, p>>)
        /\ irc' = [irc EXCEPT ![s] = 0, ![p] = x]
    BY <1>5 DEF Create, FirstFree
  <2>2. s # p
    BY <2>1, CallerInNoQueue
  <2>3. TurnOf(state, <<s, p>>) /\ ToSet(<<s, p>>) = {s, p}
    BY <2>1, <2>2, PairTurn
  <2>4. irc \in [Procs -> Int]
    BY DEF IInv, TypeOK
  <2> QED BY <2>1, <2>3, <2>4
<1>6. ASSUME NEW p \in Procs, Stop(p)
      PROVE  /\ TurnOf([state EXCEPT ![p] = "STOPPED"], Waiting(p))
             /\ \A q \in Procs \ (ToSet(Waiting(p)) \cup {run}) : irc'[q] = irc[q]
  BY <1>6, StopTurn DEF Stop
<1>7. ASSUME NEW eax \in Eax, Timer(eax)
      PROVE  \E w : /\ TurnOf(state, w)
                    /\ \A q \in Procs \ (ToSet(w) \cup {run}) : irc'[q] = irc[q]
  BY <1>7, TimerTurn
<1>8. ASSUME NEW p \in Procs, NEW b \in {"SENDING", "RECEIVING", "SLEEPING"}, WaitsIn(p, b)
      PROVE  \E st, w : /\ TurnOf(st, w)
                        /\ \A q \in Procs \ (ToSet(w) \cup {run}) : irc'[q] = irc[q]
  BY <1>4, <1>8
<1>9. ASSUME NEW p \in Procs, Stop(p)
      PROVE  \E st, w : /\ TurnOf(st, w)
                        /\ \A q \in Procs \ (ToSet(w) \cup {run}) : irc'[q] = irc[q]
  BY <1>6, <1>9
<1> QED BY <1>1, <1>2, <1>3, <1>5, <1>7, <1>8, <1>9, StepKinds

\* While a process waits in the ready queue, nothing that the others do touches
\* pcb.irc, the result that its next iret puts into %eax: whoever readied it has
\* already stored the result, and no later call overwrites it.
THEOREM ResultsAreKept == Spec => SavedResultStable
<1> DEFINE Kept == \A p \in Procs : state[p] = "READY" => irc'[p] = irc[p]
<1>1. ASSUME IInv, [Next]_vars PROVE Kept
  <2>1. ASSUME NEW st, NEW w, TurnOf(st, w),
               \A q \in Procs \ (ToSet(w) \cup {run}) : irc'[q] = irc[q]
        PROVE  Kept
    BY <1>1, <2>1, TurnFacts
  <2> QED BY <1>1, <2>1, StepIsTurn
<1>2. IInv /\ [Next]_vars => [Kept]_vars
  BY <1>1
<1> QED BY <1>2, Safety, PTL DEF Spec, SavedResultStable

\* The i-th process of a queue, unless it is idle, is chosen or comes nearer.
LEMMA ChosenOrNearer ==
  ASSUME NEW q \in Seq(Procs), NEW i \in DOMAIN q, q[i] # Idle
  PROVE  Chosen(q) = q[i] \/ \E j \in 1 .. i - 1 : Left(q)[j] = q[i]
<1>1. i \in 1 .. Len(q) /\ Len(q) \in Nat /\ q # <<>>
  BY MemberSet, EmptySeq
<1> DEFINE t == Tail(q)
<1>2. Head(q) = q[1] /\ t \in Seq(Procs) /\ Len(t) = Len(q) - 1
      /\ \A j \in 1 .. Len(q) - 1 : t[j] = q[j + 1]
  BY <1>1, HeadTailProperties
<1> HIDE DEF t
<1>3. CASE ~(Head(q) = Idle /\ Len(q) > 1)
  <2>1. Chosen(q) = q[1] /\ Left(q) = t
    BY <1>1, <1>2, <1>3 DEF Chosen, Left, t
  <2>2. CASE i = 1
    BY <2>1, <2>2
  <2>3. CASE i > 1
    <3>1. i - 1 \in 1 .. Len(q) - 1 /\ (i - 1) + 1 = i /\ i - 1 \in 1 .. i - 1
      BY <1>1, <2>3
    <3>2. t[i - 1] = q[i]
      BY <1>2, <3>1
    <3> QED BY <2>1, <3>1, <3>2
  <2> QED BY <1>1, <2>2, <2>3
<1>4. CASE Head(q) = Idle /\ Len(q) > 1
  <2> DEFINE u == Tail(t)
  <2>1. t # <<>>
    BY <1>2, <1>4, EmptySeq
  <2>2. /\ u \in Seq(Procs) /\ Len(u) = Len(q) - 2
        /\ \A j \in 1 .. Len(q) - 2 : u[j] = t[j + 1]
    BY <1>1, <1>2, <2>1, HeadTailProperties
  <2>3. Chosen(q) = q[2] /\ Left(q) = Append(u, Idle)
    BY <1>1, <1>4 DEF Chosen, Left, t
  <2> HIDE DEF u
  <2>4. \A j \in 1 .. Len(q) - 2 : Append(u, Idle)[j] = u[j]
    BY <2>2, AppendProperties, NoProcIsNone
  <2>5. i # 1
    BY <1>2, <1>4
  <2>6. CASE i = 2
    BY <2>3, <2>6
  <2>7. CASE i > 2
    <3>1. /\ i - 2 \in 1 .. Len(q) - 2 /\ (i - 2) + 1 = i - 1
          /\ i - 1 \in 1 .. Len(q) - 1 /\ (i - 1) + 1 = i /\ i - 2 \in 1 .. i - 1
      BY <1>1, <2>7
    <3>2. u[i - 2] = q[i]
      BY <1>2, <2>2, <3>1
    <3> QED BY <2>3, <2>4, <3>1, <3>2
  <2> QED BY <1>1, <2>5, <2>6, <2>7
<1> QED BY <1>3, <1>4

\* Nobody overtakes: every turn of the dispatcher loop runs the queued process,
\* or moves it towards the head of the ready queue; only idle is passed over.
THEOREM NobodyOvertakes == Spec => QueueAdvances
<1> DEFINE Nearer ==
      ~halted' => \A i \in DOMAIN ready_queue :
                    LET p == ready_queue[i]
                    IN  p # Idle => \/ run' = p
                                    \/ \E j \in 1 .. i - 1 : ready_queue'[j] = p
<1>1. ASSUME IInv, [Next]_vars PROVE Nearer \/ UNCHANGED vars
  <2>1. ASSUME NEW st, NEW w, TurnOf(st, w) PROVE Nearer
    <3> DEFINE q == ready_queue \o w
    <3>1. ready_queue \in Seq(Procs) /\ w \in Seq(Procs)
      BY <1>1, <2>1, PlaceFacts DEF TurnOf
    <3>2. run' = Chosen(q) /\ ready_queue' = Left(q)
      BY <2>1 DEF TurnOf, Resume, Queued
    <3>3. q \in Seq(Procs) /\ \A i \in DOMAIN ready_queue :
                                i \in DOMAIN q /\ q[i] = ready_queue[i]
      BY <3>1, ConcatProperties, MemberSet
    <3> HIDE DEF q
    <3>4. ASSUME NEW i \in DOMAIN ready_queue, ready_queue[i] # Idle
          PROVE  \/ run' = ready_queue[i]
                 \/ \E j \in 1 .. i - 1 : ready_queue'[j] = ready_queue[i]
      <4>1. i \in DOMAIN q /\ q[i] = ready_queue[i]
        BY <3>3
      <4>2. Chosen(q) = q[i] \/ \E j \in 1 .. i - 1 : Left(q)[j] = q[i]
        BY <3>3, <3>4, <4>1, ChosenOrNearer
      <4> QED BY <3>2, <4>1, <4>2
    <3> QED BY <3>4
  <2> QED BY <1>1, <2>1, StepIsTurn
<1>2. IInv /\ [Next]_vars => [Nearer]_vars
  BY <1>1
<1> QED BY <1>2, Safety, PTL DEF Spec, QueueAdvances

\* A process leaves syssend and sysrecv only by an exchange with the process that
\* it has named, which both calls report alike, or with SYS_SR_NO_PID in the step
\* in which the process that it has named stops.
THEOREM OnlyThePeerReleases == Spec => ReleasedByPeer
<1> DEFINE Gone(p) == /\ irc'[p] = SYS_SR_NO_PID
                      /\ \E t \in Procs : IsPeer(t, p) /\ state'[t] = "STOPPED"
           Let(p) == /\ state[p] = "SENDING" /\ state'[p] # "SENDING"
                          => Gone(p) \/ (IsPeer(run, p) /\ Exchanged(p, run))
                     /\ state[p] = "RECEIVING" /\ state'[p] # "RECEIVING"
                          => \/ Gone(p)
                             \/ arg[p].peer \in {0, pid[run]} /\ Exchanged(run, p)
<1>1. ASSUME IInv, NEW st, NEW w, TurnOf(st, w), NEW p \in Procs, p \notin ToSet(w)
      PROVE  Let(p)
  <2>1. state[p] \in {"SENDING", "RECEIVING"} => state'[p] = state[p]
    BY <1>1, TurnFacts
  <2> QED BY <2>1
<1>2. ASSUME IInv, [Next]_vars, NEW p \in Procs PROVE Let(p)
  <2>1. CASE Quiet
    BY <2>1 DEF Quiet
  <2>2. ASSUME NEW c \in Procs, Returns(c) PROVE Let(p)
    <3>1. TurnOf(state, <<c>>) /\ ToSet(<<c>>) = {c} /\ state[c] = "RUNNING"
      BY <1>2, <2>2, ReturnTurn, CallerInNoQueue DEF Returns
    <3> QED BY <1>1, <1>2, <3>1
  <2>3. ASSUME NEW c \in Procs, NEW r \in Procs, Meets(c, r) PROVE Let(p)
    <3>1. /\ TurnOf(state, <<c, r>>) /\ ToSet(<<c, r>>) = {c, r}
          /\ state[c] = "RUNNING" /\ run = c
      BY <1>2, <2>3, PairTurn, CallerInNoQueue DEF Meets
    <3>2. CASE p # r
      BY <1>1, <1>2, <3>1, <3>2
    <3>3. CASE p = r
      BY <2>3, <3>1, <3>3 DEF Meets
    <3> QED BY <3>2, <3>3
  <2>4. ASSUME NEW c \in Procs, NEW b \in {"SENDING", "RECEIVING", "SLEEPING"}, WaitsIn(c, b)
        PROVE  Let(p)
    <3>1. TurnOf([state EXCEPT ![c] = b], <<>>) /\ ToSet(<<>>) = {}
      BY <1>2, <2>4, BlockTurn DEF WaitsIn
    <3> QED BY <1>1, <1>2, <3>1
  <2>5. ASSUME NEW c \in Procs, NEW s \in Procs, NEW x \in Pids, Create(c, s, x)
        PROVE  Let(p)
    <3>1. Calls(c) /\ state[s] = "STOPPED" /\ Resume(state, <<s, c>>)
      BY <2>5 DEF Create, FirstFree
    <3>2. s # c /\ state[c] = "RUNNING"
      BY <1>2, <3>1, CallerInNoQueue
    <3>3. TurnOf(state, <<s, c>>) /\ ToSet(<<s, c>>) = {s, c}
      BY <1>2, <3>1, <3>2, PairTurn
    <3> QED BY <1>1, <1>2, <3>1, <3>2, <3>3
  <2>6. ASSUME NEW c \in Procs, Stop(c) PROVE Let(p)
    <3> DEFINE w == Waiting(c)
    <3>1. /\ TurnOf([state EXCEPT ![c] = "STOPPED"], w) /\ state'[c] = "STOPPED"
          /\ ToSet(w) = ToSet(senders[c]) \cup ToSet(receivers[c])
      BY <1>2, <2>6, StopTurn
    <3>2. CASE p \notin ToSet(w)
      BY <1>1, <1>2, <3>1, <3>2
    <3>3. CASE p \in ToSet(w)
      <4>1. IsPeer(c, p)
        BY <1>2, <3>1, <3>3 DEF IInv, WaitsOnTarget
      <4>2. irc'[p] = SYS_SR_NO_PID
        BY <2>6, <3>3 DEF Stop
      <4> QED BY <3>1, <4>1, <4>2, NoProcIsNone
    <3> QED BY <3>2, <3>3
  <2>7. ASSUME NEW eax \in Eax, Timer(eax) PROVE Let(p)
    <3>1. PICK w : /\ TurnOf(state, w)
                   /\ \A q \in ToSet(w) : q = run \/ state[q] = "SLEEPING"
      BY <1>2, <2>7, TimerTurn
    <3>2. state[run] = "RUNNING"
      BY <1>2, <3>1, TurnFacts
    <3> QED BY <1>1, <1>2, <3>1, <3>2
  <2> HIDE DEF Let
  <2> QED BY <1>2, <2>1, <2>2, <2>3, <2>4, <2>5, <2>6, <2>7, StepKinds
<1>3. IInv /\ [Next]_vars => [\A p \in Procs : Let(p)]_vars
  BY <1>2
<1> QED BY <1>3, Safety, PTL DEF Spec, ReleasedByPeer

-----------------------------------------------------------------------------
(* The delta list of c/sleep.c: prefix sums. *)

\* f has the sums of the first deltas of list q, which are numbers.
SumsUp(f, q, d) ==
  /\ f \in [0 .. Len(q) -> Nat]
  /\ f[0] = 0
  /\ \A i \in 1 .. Len(q) : f[i] = f[i - 1] + d[q[i]]

\* Every list has its sums.
LEMMA SumsExist ==
  ASSUME NEW q \in Seq(Procs), NEW d \in [Procs -> Nat]
  PROVE  \E f : SumsUp(f, q, d)
<1> DEFINE Upto(n, f) == /\ f \in [0 .. n -> Nat]
                         /\ f[0] = 0
                         /\ \A i \in 1 .. n : f[i] = f[i - 1] + d[q[i]]
           N == Len(q)
           S == {n \in 0 .. N : \E f : Upto(n, f)}
<1>1. N \in Nat /\ \A i \in 1 .. N : q[i] \in Procs /\ d[q[i]] \in Nat
  BY LenProperties
<1> HIDE DEF N
<1>2. 0 \in S
  <2> DEFINE z == [i \in 0 .. 0 |-> 0]
  <2>1. Upto(0, z)
    OBVIOUS
  <2> HIDE DEF z, Upto
  <2>2. 0 \in 0 .. N
    BY <1>1
  <2> QED BY <2>1, <2>2
<1>3. ASSUME NEW n \in 0 .. N, n < N, n \in S PROVE n + 1 \in S
  <2>1. PICK f : Upto(n, f)
    BY <1>3
  <2> DEFINE g == [i \in 0 .. n + 1 |-> IF i = n + 1 THEN f[n] + d[q[n + 1]] ELSE f[i]]
  <2>2. n \in Nat /\ n + 1 \in 1 .. N /\ f[n] \in Nat /\ d[q[n + 1]] \in Nat
    BY <1>1, <1>3, <2>1
  <2>3. g \in [0 .. n + 1 -> Nat] /\ g[0] = 0
    BY <2>1, <2>2
  <2>4. ASSUME NEW i \in 1 .. n + 1 PROVE g[i] = g[i - 1] + d[q[i]]
    <3>1. CASE i = n + 1
      <4>1. i \in 0 .. n + 1 /\ i - 1 \in 0 .. n + 1 /\ i - 1 = n /\ n # n + 1
        BY <2>2, <3>1
      <4> QED BY <3>1, <4>1
    <3>2. CASE i # n + 1
      <4>1. /\ i \in 0 .. n + 1 /\ i - 1 \in 0 .. n + 1 /\ i - 1 # n + 1
            /\ i \in 1 .. n
        BY <2>2, <3>2
      <4>2. g[i] = f[i] /\ g[i - 1] = f[i - 1]
        BY <3>2, <4>1
      <4> QED BY <2>1, <4>1, <4>2
    <3> QED BY <3>1, <3>2
  <2>5. Upto(n + 1, g)
    BY <2>3, <2>4
  <2> HIDE DEF g, Upto
  <2> QED BY <2>2, <2>5
<1>4. N \in S
  <2> HIDE DEF S
  <2>1. \A n \in 0 .. N : n \in S
    BY <1>1, <1>2, <1>3, CountUp
  <2> QED BY <1>1, <2>1
<1> QED BY <1>4 DEF SumsUp, N

\* WakeTimes computes the sums.
LEMMA WakeTimesSum ==
  ASSUME NEW q \in Seq(Procs), NEW d \in [Procs -> Nat], NEW f, SumsUp(f, q, d)
  PROVE  \A i \in 0 .. Len(q) : WakeTimes(q, d)[i] = f[i]
<1> DEFINE Def(g) == g = [i \in 0 .. Len(q) |-> IF i = 0 THEN 0 ELSE g[i - 1] + d[q[i]]]
           w == WakeTimes(q, d)
           N == Len(q)
           S == {i \in 0 .. N : w[i] = f[i]}
<1>1. N \in Nat
  BY LenProperties
<1>2. Def(f)
  BY <1>1 DEF SumsUp
<1>3. w = CHOOSE g : Def(g)
  BY DEF WakeTimes
<1>4. Def(w)
  BY <1>2, <1>3
<1> HIDE DEF w
<1>5. \A i \in 0 .. N : w[i] = IF i = 0 THEN 0 ELSE w[i - 1] + d[q[i]]
  BY <1>4
<1>6. f[0] = 0 /\ \A i \in 1 .. N : f[i] = f[i - 1] + d[q[i]]
  BY DEF SumsUp
<1> HIDE DEF N
<1>7. 0 \in S
  BY <1>1, <1>5, <1>6
<1>8. ASSUME NEW n \in 0 .. N, n < N, n \in S PROVE n + 1 \in S
  <2>1. n + 1 \in 1 .. N /\ (n + 1) - 1 = n /\ n + 1 \in 0 .. N /\ n + 1 # 0
    BY <1>1, <1>8
  <2>2. f[n + 1] = f[n] + d[q[n + 1]] /\ w[n + 1] = w[n] + d[q[n + 1]]
    BY <1>5, <1>6, <2>1
  <2> QED BY <1>8, <2>1, <2>2
<1>9. \A i \in S : w[i] = f[i]
  OBVIOUS
<1> HIDE DEF S
<1>10. \A n \in 0 .. N : n \in S
  BY <1>1, <1>7, <1>8, CountUp
<1> QED BY <1>9, <1>10 DEF w, N

\* With a positive head all sums are positive.
LEMMA SumsPositive ==
  ASSUME NEW q \in Seq(Procs), NEW d \in [Procs -> Nat], NEW f, SumsUp(f, q, d),
         q # <<>> => d[q[1]] > 0
  PROVE  \A i \in 1 .. Len(q) : f[i] > 0
<1> DEFINE N == Len(q)
           S == {i \in 0 .. N : i = 0 \/ f[i] > 0}
<1>1. N \in Nat /\ \A i \in 1 .. N : q[i] \in Procs /\ d[q[i]] \in Nat
  BY LenProperties
<1>2. /\ f \in [0 .. N -> Nat] /\ f[0] = 0
      /\ \A i \in 1 .. N : f[i] = f[i - 1] + d[q[i]]
  BY DEF SumsUp
<1>3. N > 0 => d[q[1]] > 0
  BY <1>1, EmptySeq
<1> HIDE DEF N
<1>4. 0 \in S
  BY <1>1
<1>5. ASSUME NEW n \in 0 .. N, n < N, n \in S PROVE n + 1 \in S
  <2>1. n + 1 \in 1 .. N /\ (n + 1) - 1 = n /\ n + 1 \in 0 .. N
    BY <1>1, <1>5
  <2>2. f[n + 1] = f[n] + d[q[n + 1]] /\ d[q[n + 1]] \in Nat /\ f[n] \in Nat
    BY <1>1, <1>2, <2>1
  <2>3. f[n + 1] > 0
    <3>1. CASE n = 0
      BY <1>2, <1>3, <1>5, <2>2, <3>1
    <3>2. CASE n # 0
      BY <1>5, <2>2, <3>2
    <3> QED BY <3>1, <3>2
  <2> QED BY <2>1, <2>3
<1>6. \A i \in S : i = 0 \/ f[i] > 0
  OBVIOUS
<1> HIDE DEF S
<1>7. \A n \in 0 .. N : n \in S
  BY <1>1, <1>4, <1>5, CountUp
<1> QED BY <1>1, <1>6, <1>7 DEF N

\* What is left to sleep for p, when list q has the deltas d.
TimeLeft(q, d, p) ==
  IF p \in ToSet(q)
  THEN WakeTimes(q, d)[CHOOSE i \in DOMAIN q : q[i] = p]
  ELSE 0

\* It is the sum of the deltas up to p.
LEMMA TimeLeftIs ==
  ASSUME NEW q \in Seq(Procs), NEW d \in [Procs -> Nat], NEW f,
         NEW i \in 1 .. Len(q), IsInjective(q), SumsUp(f, q, d)
  PROVE  TimeLeft(q, d, q[i]) = f[i]
<1>1. DOMAIN q = 1 .. Len(q) /\ Len(q) \in Nat /\ q[i] \in ToSet(q)
  BY MemberSet
<1>2. (CHOOSE j \in DOMAIN q : q[j] = q[i]) = i
  BY <1>1 DEF IsInjective
<1>3. WakeTimes(q, d)[i] = f[i]
  BY <1>1, WakeTimesSum
<1> QED BY <1>1, <1>2, <1>3 DEF TimeLeft

\* f says how much is left to each sleeper on the list.
TimesAre(q, d, f) == \A i \in 1 .. Len(q) : TimeLeft(q, d, q[i]) = f[i]

LEMMA TimesAreSums ==
  ASSUME NEW q \in Seq(Procs), NEW d \in [Procs -> Nat], NEW f,
         IsInjective(q), SumsUp(f, q, d)
  PROVE  TimesAre(q, d, f)
<1> SUFFICES ASSUME NEW i \in 1 .. Len(q) PROVE TimeLeft(q, d, q[i]) = f[i]
  BY DEF TimesAre
<1> QED BY TimeLeftIs

\* A list with one element more: where the elements are.
LEMMA InsertAtElements ==
  ASSUME NEW q \in Seq(Procs), NEW k \in 0 .. Len(q), NEW x \in Procs
  PROVE  /\ Len(InsertAt(q, k + 1, x)) = Len(q) + 1
         /\ \A i \in 1 .. Len(q) + 1 :
              InsertAt(q, k + 1, x)[i] = IF i <= k THEN q[i]
                                         ELSE IF i = k + 1 THEN x ELSE q[i - 1]
<1> DEFINE u == SubSeq(q, 1, k)
           v == SubSeq(q, k + 1, Len(q))
           w == Append(u, x)
           t == w \o v
<1>1. Len(q) \in Nat /\ k \in Nat /\ k <= Len(q)
  BY LenProperties
<1>2. u \in Seq(Procs) /\ Len(u) = k /\ \A i \in 1 .. k : u[i] = q[i]
  <2>1. \A i \in 1 .. k : q[i] \in Procs
    BY <1>1, LenProperties
  <2> QED BY <1>1, <2>1, SubSeqProperties
<1>3. /\ v \in Seq(Procs) /\ Len(v) = Len(q) - k
      /\ \A i \in 1 .. Len(q) - k : v[i] = q[k + i]
  <2>1. \A i \in k + 1 .. Len(q) : q[i] \in Procs
    BY <1>1, LenProperties
  <2> QED BY <1>1, <2>1, SubSeqProperties
<1>4. InsertAt(q, k + 1, x) = t
  <2>1. (k + 1) - 1 = k
    BY <1>1
  <2>2. w = u \o <<x>>
    BY <1>2, AppendIsConcat
  <2> QED BY <2>1, <2>2 DEF InsertAt
<1> HIDE DEF u, v
<1>5. /\ w \in Seq(Procs) /\ Len(w) = k + 1 /\ w[k + 1] = x
      /\ \A i \in 1 .. k : w[i] = q[i]
  BY <1>2, AppendProperties
<1> HIDE DEF w
<1>6. /\ Len(t) = Len(q) + 1
      /\ \A i \in 1 .. Len(q) + 1 : t[i] = IF i <= k + 1 THEN w[i] ELSE v[i - (k + 1)]
  BY <1>1, <1>3, <1>5, ConcatProperties
<1> HIDE DEF t
<1>7. ASSUME NEW i \in 1 .. Len(q) + 1
      PROVE  t[i] = IF i <= k THEN q[i] ELSE IF i = k + 1 THEN x ELSE q[i - 1]
  <2>1. CASE i <= k + 1
    BY <1>1, <1>5, <1>6, <2>1
  <2>2. CASE i > k + 1
    <3>1. i - (k + 1) \in 1 .. Len(q) - k /\ k + (i - (k + 1)) = i - 1
      BY <1>1, <2>2
    <3>2. v[i - (k + 1)] = q[i - 1]
      BY <1>3, <3>1
    <3> QED BY <1>1, <1>6, <2>2, <3>2
  <2> QED BY <1>1, <2>1, <2>2
<1> QED BY <1>4, <1>6, <1>7

\* rem[i] is what is left of n slices after the first i sleepers.
WalksOver(q, d, n, k, rem) ==
  /\ q \in Seq(Procs) /\ d \in [Procs -> Nat] /\ n \in Nat
  /\ k \in 0 .. Len(q) /\ rem \in [0 .. k -> 0 .. n]
  /\ rem[0] = n
  /\ \A i \in 1 .. k : rem[i] = rem[i - 1] - d[q[i]]

\* sleep(): the search for the place of the new sleeper counts the slices down.
LEMMA SleepWalks ==
  ASSUME NEW q, NEW d, NEW f, NEW n \in Nat, NEW k, NEW rem,
         SumsUp(f, q, d), WalksOver(q, d, n, k, rem)
  PROVE  \A i \in 0 .. k : rem[i] = n - f[i]
<1> DEFINE N == Len(q)
           S == {i \in 0 .. k : rem[i] = n - f[i]}
<1>0. /\ q \in Seq(Procs) /\ d \in [Procs -> Nat] /\ n \in Nat
      /\ k \in 0 .. N /\ rem \in [0 .. k -> 0 .. n]
  BY DEF WalksOver
<1>1. N \in Nat /\ \A i \in 1 .. N : q[i] \in Procs /\ d[q[i]] \in Nat
  BY <1>0, LenProperties
<1>2. /\ f \in [0 .. N -> Nat] /\ f[0] = 0
      /\ \A i \in 1 .. N : f[i] = f[i - 1] + d[q[i]]
  BY DEF SumsUp
<1>3. k \in Nat /\ k <= N
  BY <1>0, <1>1
<1> HIDE DEF N
<1>4. 0 \in S
  BY <1>0, <1>2, <1>3 DEF WalksOver
<1>5. ASSUME NEW i \in 0 .. k, i < k, i \in S PROVE i + 1 \in S
  <2>1. /\ i + 1 \in 1 .. k /\ i + 1 \in 1 .. N /\ (i + 1) - 1 = i /\ i + 1 \in 0 .. k
        /\ i \in 0 .. N
    BY <1>1, <1>3, <1>5
  <2>2. f[i + 1] = f[i] + d[q[i + 1]] /\ rem[i + 1] = rem[i] - d[q[i + 1]]
    BY <1>2, <2>1 DEF WalksOver
  <2>3. f[i] \in Nat /\ d[q[i + 1]] \in Nat /\ rem[i] = n - f[i]
    BY <1>0, <1>1, <1>2, <1>5, <2>1
  <2>4. rem[i + 1] = n - f[i + 1]
    BY <1>0, <2>2, <2>3
  <2> QED BY <2>1, <2>4
<1>6. \A i \in S : rem[i] = n - f[i]
  OBVIOUS
<1> HIDE DEF S
<1>7. \A i \in 0 .. k : i \in S
  BY <1>3, <1>4, <1>5, CountUp
<1> QED BY <1>6, <1>7

\* sleep(): the new sleeper wakes up after n slices, the others as before.
LEMMA SleepSums ==
  ASSUME NEW q \in Seq(Procs), NEW d \in [Procs -> Nat], NEW f, NEW n \in Nat,
         NEW p \in Procs \ ToSet(q), NEW k \in 0 .. Len(q), NEW e,
         IsInjective(q), SumsUp(f, q, d),
         n >= f[k], k < Len(q) => d[q[k + 1]] > n - f[k],
         e = [r \in Procs |-> IF r = p THEN n - f[k]
                                     ELSE IF k < Len(q) /\ r = q[k + 1]
                                     THEN d[r] - (n - f[k]) ELSE d[r]]
  PROVE  SumsUp([i \in 0 .. Len(q) + 1 |-> IF i <= k THEN f[i]
                                           ELSE IF i = k + 1 THEN n ELSE f[i - 1]],
                InsertAt(q, k + 1, p), e)
<1> DEFINE N == Len(q)
           l == InsertAt(q, k + 1, p)
           g == [i \in 0 .. N + 1 |-> IF i <= k THEN f[i]
                                      ELSE IF i = k + 1 THEN n ELSE f[i - 1]]
<1>1. /\ N \in Nat /\ \A i \in 1 .. N : q[i] \in Procs /\ d[q[i]] \in Nat /\ q[i] # p
      /\ \A i, j \in 1 .. N : q[i] = q[j] => i = j
  <2>1. DOMAIN q = 1 .. N /\ N \in Nat /\ ToSet(q) \subseteq Procs
        /\ \A i \in 1 .. N : q[i] \in ToSet(q)
    BY MemberSet
  <2> QED BY <2>1 DEF IsInjective
<1>2. /\ f \in [0 .. N -> Nat] /\ f[0] = 0
      /\ \A i \in 1 .. N : f[i] = f[i - 1] + d[q[i]]
  BY DEF SumsUp
<1>3. k \in Nat /\ k <= N /\ f[k] \in Nat
  BY <1>1, <1>2
<1>4. /\ Len(l) = N + 1
      /\ \A i \in 1 .. N + 1 : l[i] = IF i <= k THEN q[i]
                                      ELSE IF i = k + 1 THEN p ELSE q[i - 1]
  BY InsertAtElements
<1> HIDE DEF N, l
<1>5. \A i \in 0 .. N + 1 : g[i] = IF i <= k THEN f[i]
                                   ELSE IF i = k + 1 THEN n ELSE f[i - 1]
  OBVIOUS
<1>6. g \in [0 .. N + 1 -> Nat]
  <2>1. ASSUME NEW i \in 0 .. N + 1
        PROVE  (IF i <= k THEN f[i] ELSE IF i = k + 1 THEN n ELSE f[i - 1]) \in Nat
    <3>1. CASE i <= k
      BY <1>1, <1>2, <1>3, <3>1
    <3>2. CASE i > k + 1
      <4>1. i - 1 \in 0 .. N /\ ~(i <= k) /\ i # k + 1
        BY <1>1, <1>3, <3>2
      <4> QED BY <1>2, <4>1
    <3> QED BY <1>1, <1>3, <3>1, <3>2
  <2> QED BY <2>1
<1>7. g[0] = 0
  BY <1>1, <1>2, <1>3, <1>5
<1> HIDE DEF g
<1>8. \A r \in Procs : e[r] = IF r = p THEN n - f[k]
                              ELSE IF k < N /\ r = q[k + 1]
                              THEN d[r] - (n - f[k]) ELSE d[r]
  BY DEF N
<1>9. ASSUME NEW i \in 1 .. N + 1 PROVE g[i] = g[i - 1] + e[l[i]]
  <2>0. /\ i \in 0 .. N + 1 /\ i - 1 \in 0 .. N + 1 /\ i \in Nat
    BY <1>1
  <2>1. CASE i <= k
    <3>1. i \in 1 .. N /\ i - 1 <= k /\ l[i] = q[i] /\ i # k + 1
      BY <1>1, <1>3, <1>4, <2>1
    <3>2. k < N => k + 1 \in 1 .. N
      BY <1>1, <1>3
    <3>3. e[l[i]] = d[q[i]]
      BY <1>1, <1>8, <3>1, <3>2
    <3> QED BY <1>2, <1>5, <2>0, <2>1, <3>1, <3>3
  <2>2. CASE i = k + 1
    <3>1. l[i] = p /\ i - 1 = k /\ ~(i <= k)
      BY <1>3, <1>4, <2>2
    <3>2. e[p] = n - f[k] /\ g[i] = n /\ g[i - 1] = f[k]
      BY <1>3, <1>5, <1>8, <2>0, <2>2, <3>1
    <3> QED BY <1>3, <3>1, <3>2
  <2>3. CASE i = k + 2
    <3>1. /\ l[i] = q[k + 1] /\ k < N /\ k + 1 \in 1 .. N
          /\ i - 1 = k + 1 /\ ~(i <= k) /\ i # k + 1 /\ ~(k + 1 <= k)
      BY <1>1, <1>3, <1>4, <2>3
    <3>2. g[i] = f[k + 1] /\ g[i - 1] = n
      BY <1>5, <2>0, <3>1
    <3>3. e[q[k + 1]] = d[q[k + 1]] - (n - f[k])
      BY <1>1, <1>8, <3>1
    <3>4. f[k + 1] = f[k] + d[q[k + 1]] /\ d[q[k + 1]] \in Nat
      <4>1. (k + 1) - 1 = k
        BY <1>3
      <4> QED BY <1>1, <1>2, <3>1, <4>1
    <3>5. n \in Nat /\ f[k] \in Nat
      BY <1>3
    <3>6. f[k] + d[q[k + 1]] = n + (d[q[k + 1]] - (n - f[k]))
      BY <3>4, <3>5
    <3> QED BY <3>1, <3>2, <3>3, <3>4, <3>6
  <2>4. CASE i > k + 2
    <3>1. /\ i - 1 \in 1 .. N /\ i - 1 # k + 1 /\ ~(i <= k) /\ i # k + 1
          /\ ~(i - 1 <= k) /\ l[i] = q[i - 1]
      BY <1>1, <1>3, <1>4, <2>4
    <3>2. g[i] = f[i - 1] /\ g[i - 1] = f[(i - 1) - 1]
      BY <1>5, <2>0, <3>1
    <3>3. k < N => k + 1 \in 1 .. N
      BY <1>1, <1>3
    <3>4. e[q[i - 1]] = d[q[i - 1]]
      BY <1>1, <1>8, <3>1, <3>3
    <3> QED BY <1>2, <3>1, <3>2, <3>4
  <2> QED BY <1>1, <1>3, <2>1, <2>2, <2>3, <2>4
<1>10. SumsUp(g, l, e)
  BY <1>4, <1>6, <1>7, <1>9 DEF SumsUp
<1> QED BY <1>10 DEF g, l, N

\* tick() takes one slice from the head, then the first k have none left.
TakesOne(q, d, k, e) ==
  /\ q \in Seq(Procs) /\ IsInjective(q) /\ d \in [Procs -> Nat]
  /\ k \in 0 .. Len(q) /\ q # <<>> /\ d[q[1]] > 0
  /\ e = [d EXCEPT ![q[1]] = @ - 1]
  /\ \A i \in 1 .. k : e[q[i]] = 0

\* tick(): those who are woken had one slice left, the others have one less.
LEMMA TickSums ==
  ASSUME NEW q, NEW d, NEW f, NEW k, NEW e, SumsUp(f, q, d), TakesOne(q, d, k, e)
  PROVE  /\ \A i \in 1 .. k : f[i] = 1
         /\ SumsUp([i \in 0 .. Len(q) - k |-> IF i = 0 THEN 0 ELSE f[k + i] - 1],
                   SubSeq(q, k + 1, Len(q)), e)
<1> DEFINE N == Len(q)
           l == SubSeq(q, k + 1, N)
           g == [i \in 0 .. N - k |-> IF i = 0 THEN 0 ELSE f[k + i] - 1]
<1>0. /\ q \in Seq(Procs) /\ IsInjective(q) /\ d \in [Procs -> Nat]
      /\ k \in 0 .. N /\ q # <<>> /\ d[q[1]] > 0
      /\ \A i \in 1 .. k : e[q[i]] = 0
  BY DEF TakesOne
<1>1. /\ N \in Nat /\ N > 0 /\ \A i \in 1 .. N : q[i] \in Procs /\ d[q[i]] \in Nat
      /\ \A i, j \in 1 .. N : q[i] = q[j] => i = j
  <2>1. DOMAIN q = 1 .. N /\ N \in Nat /\ ToSet(q) \subseteq Procs
        /\ \A i \in 1 .. N : q[i] \in ToSet(q)
    BY <1>0, MemberSet
  <2>2. N # 0
    BY <1>0, EmptySeq
  <2> HIDE DEF N
  <2>3. N \in Nat /\ N > 0
    BY <2>1, <2>2
  <2>4. \A i, j \in 1 .. N : q[i] = q[j] => i = j
    BY <1>0, <2>1 DEF IsInjective
  <2>5. \A i \in 1 .. N : q[i] \in Procs /\ d[q[i]] \in Nat
    BY <1>0, <2>1
  <2> QED BY <2>3, <2>4, <2>5
<1>2. /\ f \in [0 .. N -> Nat] /\ f[0] = 0
      /\ \A i \in 1 .. N : f[i] = f[i - 1] + d[q[i]]
  BY DEF SumsUp
<1>3. k \in Nat /\ k <= N
  BY <1>0, <1>1
<1>4. \A i \in 1 .. N : f[i] \in Nat /\ f[i] > 0
  <2>1. \A i \in 1 .. N : f[i] > 0
    BY <1>0, SumsPositive
  <2>2. \A i \in 1 .. N : i \in 0 .. N
    BY <1>1
  <2> QED BY <1>2, <2>1, <2>2
<1>5. /\ Len(l) = N - k
      /\ \A i \in 1 .. N - k : l[i] = q[k + i]
  <2>1. \A i \in k + 1 .. N : q[i] \in Procs
    BY <1>1, <1>3
  <2>2. k + 1 \in Int /\ N \in Int
    BY <1>1, <1>3
  <2> QED BY <1>1, <1>3, <2>1, <2>2, SubSeqProperties
<1> HIDE DEF N, l
<1>6. 1 \in 1 .. N /\ f[1] = d[q[1]]
  <2>1. 1 \in 1 .. N /\ 1 - 1 = 0
    BY <1>1
  <2> QED BY <1>1, <1>2, <2>1
<1>7. \A i \in 1 .. N : e[q[i]] = IF i = 1 THEN d[q[1]] - 1 ELSE d[q[i]]
  BY <1>0, <1>1, <1>6 DEF TakesOne
<1>8. \A i \in 1 .. k : f[i] = 1
  <2> DEFINE S == {i \in 0 .. k : i = 0 \/ f[i] = 1}
  <2>1. 0 \in S
    BY <1>3
  <2>2. ASSUME NEW i \in 0 .. k, i < k, i \in S PROVE i + 1 \in S
    <3>1. /\ i + 1 \in 1 .. k /\ i + 1 \in 1 .. N /\ (i + 1) - 1 = i
          /\ i + 1 \in 0 .. k /\ i \in Nat
      BY <1>1, <1>3, <2>2
    <3>2. e[q[i + 1]] = 0 /\ f[i + 1] = f[i] + d[q[i + 1]]
      BY <1>0, <1>2, <3>1
    <3>3. CASE i = 0
      <4>1. e[q[1]] = 0 /\ e[q[1]] = d[q[1]] - 1 /\ d[q[1]] \in Nat
        BY <1>1, <1>6, <1>7, <3>2, <3>3
      <4> QED BY <1>6, <3>1, <3>3, <4>1
    <3>4. CASE i # 0
      <4>1. f[i] = 1 /\ i + 1 # 1
        BY <2>2, <3>1, <3>4
      <4>2. d[q[i + 1]] = 0
        BY <1>7, <3>1, <3>2, <4>1
      <4> QED BY <3>1, <3>2, <4>1, <4>2
    <3> QED BY <3>3, <3>4
  <2>3. \A i \in S : i = 0 \/ f[i] = 1
    OBVIOUS
  <2> HIDE DEF S
  <2>4. \A i \in 0 .. k : i \in S
    BY <1>3, <2>1, <2>2, CountUp
  <2>5. \A i \in 1 .. k : i \in 0 .. k /\ i # 0
    BY <1>3
  <2> QED BY <2>3, <2>4, <2>5
<1>9. \A i \in 0 .. N - k : g[i] = IF i = 0 THEN 0 ELSE f[k + i] - 1
  OBVIOUS
<1>10. g \in [0 .. N - k -> Nat]
  <2>1. ASSUME NEW i \in 0 .. N - k
        PROVE  (IF i = 0 THEN 0 ELSE f[k + i] - 1) \in Nat
    <3>1. CASE i # 0
      <4>1. k + i \in 1 .. N
        BY <1>1, <1>3, <3>1
      <4> QED BY <1>4, <3>1, <4>1
    <3> QED BY <3>1
  <2> QED BY <2>1
<1>11. g[0] = 0
  BY <1>1, <1>3, <1>9
<1> HIDE DEF g
<1>12. ASSUME NEW i \in 1 .. N - k PROVE g[i] = g[i - 1] + e[l[i]]
  <2>1. /\ i \in 0 .. N - k /\ i - 1 \in 0 .. N - k /\ i # 0 /\ i \in Nat
        /\ k + i \in 1 .. N /\ (k + i) - 1 = k + (i - 1)
    BY <1>1, <1>3
  <2>2. g[i] = f[k + i] - 1 /\ l[i] = q[k + i]
    BY <1>5, <1>9, <2>1
  <2>3. f[k + i] = f[k + (i - 1)] + d[q[k + i]] /\ d[q[k + i]] \in Nat
    BY <1>1, <1>2, <2>1
  <2>4. CASE i # 1
    <3>0. i - 1 # 0 /\ k + i # 1 /\ k + (i - 1) \in 1 .. N
      BY <1>1, <1>3, <2>1, <2>4
    <3>1. g[i - 1] = f[k + (i - 1)] - 1 /\ k + i # 1 /\ k + (i - 1) \in 1 .. N
      BY <1>9, <2>1, <3>0
    <3>2. e[q[k + i]] = d[q[k + i]] /\ f[k + (i - 1)] \in Nat
      BY <1>4, <1>7, <2>1, <3>1
    <3> DEFINE a == f[k + (i - 1)]
               b == d[q[k + i]]
               c == e[l[i]]
    <3>3. /\ g[i] = (a + b) - 1 /\ g[i - 1] = a - 1 /\ c = b
          /\ a \in Nat /\ b \in Nat
      BY <2>2, <2>3, <3>1, <3>2
    <3> HIDE DEF a, b, c
    <3>4. g[i] = g[i - 1] + c
      BY <3>3
    <3> QED BY <3>4 DEF c
  <2>5. CASE i = 1 /\ k = 0
    <3>1. e[q[k + i]] = d[q[1]] - 1 /\ g[i - 1] = 0 /\ k + i = 1
      BY <1>7, <1>11, <2>1, <2>5
    <3> QED BY <1>6, <2>2, <2>3, <3>1
  <2>6. CASE i = 1 /\ k # 0
    <3>1. k + i # 1 /\ g[i - 1] = 0 /\ k + (i - 1) = k /\ k \in 1 .. k
      BY <1>3, <1>11, <2>6
    <3>2. e[q[k + i]] = d[q[k + i]] /\ f[k + (i - 1)] = 1
      BY <1>7, <1>8, <2>1, <3>1
    <3> QED BY <2>2, <2>3, <3>1, <3>2
  <2> QED BY <2>4, <2>5, <2>6
<1>13. SumsUp(g, l, e)
  BY <1>5, <1>10, <1>11, <1>12 DEF SumsUp
<1> QED BY <1>8, <1>13 DEF g, l, N

-----------------------------------------------------------------------------
(* The refinement. *)

\* The state says who is in the sleep list.
LEMMA RemainingIs ==
  ASSUME IInv
  PROVE  \A p \in Procs : Remaining(p) = TimeLeft(sleep_list, delta, p)
  BY DEF IInv, InItsPlace, Remaining, TimeLeft

\* Who keeps the same list with the same deltas keeps his time.
LEMMA SameTimeLeft ==
  ASSUME NEW q \in Seq(Procs), IsInjective(q),
         NEW d \in [Procs -> Nat], NEW e \in [Procs -> Nat],
         \A r \in ToSet(q) : e[r] = d[r], NEW p \in Procs
  PROVE  TimeLeft(q, e, p) = TimeLeft(q, d, p)
<1>1. CASE p \notin ToSet(q)
  BY <1>1 DEF TimeLeft
<1>2. CASE p \in ToSet(q)
  <2>1. PICK i \in 1 .. Len(q) : q[i] = p
    BY <1>2, MemberSet
  <2>2. PICK f : SumsUp(f, q, d)
    BY SumsExist
  <2>3. SumsUp(f, q, e)
    <3>1. \A j \in 1 .. Len(q) : e[q[j]] = d[q[j]]
      BY MemberSet
    <3> QED BY <2>2, <3>1 DEF SumsUp
  <2>4. TimeLeft(q, d, q[i]) = f[i]
    BY <2>2, TimeLeftIs
  <2>5. TimeLeft(q, e, q[i]) = f[i]
    BY <2>3, TimeLeftIs
  <2> QED BY <2>1, <2>4, <2>5
<1> QED BY <1>1, <1>2

\* sleep() starts the timer of the caller and leaves the others alone.
LEMMA SleepRemaining ==
  ASSUME IInv, NEW p \in Procs, NEW ms \in Sleeps, Sleep(p, ms)
  PROVE  /\ Slices(ms) \in Nat \ {0}
         /\ TimeLeft(sleep_list, delta, p) = 0
         /\ \A r \in Procs : TimeLeft(sleep_list', delta', r) =
              IF r = p THEN Slices(ms) ELSE TimeLeft(sleep_list, delta, r)
<1>0. PICK q \in Seq(Procs), d \in [Procs -> Nat] : q = sleep_list /\ d = delta
  BY DEF IInv, TypeOK
<1> DEFINE N == Len(q)
<1>2. PICK n \in Nat : n = Slices(ms)
  BY InputAssumption, SliceAssumption DEF Slices
<1>1. Calls(p) /\ n > 0
  BY <1>2 DEF Sleep
<1>3. PICK k \in 0 .. N : \E rem \in [0 .. k -> 0 .. n] :
        Walk(n, k, rem) /\ InsertSleeper(p, k, rem[k])
  BY <1>0, <1>2 DEF Sleep
<1>4. PICK rem \in [0 .. k -> 0 .. n] : Walk(n, k, rem) /\ InsertSleeper(p, k, rem[k])
  BY <1>3
<1>5. /\ IsInjective(q)
      /\ p \notin ToSet(q) /\ p \in Procs \ ToSet(q)
  BY <1>0, <1>1, CallerInNoQueue DEF IInv, TypeOK, NoDuplicates
<1>6. N \in Nat /\ k \in Nat /\ k <= N
  BY <1>5, LenProperties
<1>7. PICK f : SumsUp(f, q, d)
  BY <1>5, SumsExist
<1>8. rem[k] = n - f[k]
  <2>1. WalksOver(q, d, n, k, rem)
    BY <1>0, <1>4 DEF Walk, WalksOver
  <2>2. \A i \in 0 .. k : rem[i] = n - f[i]
    BY <1>7, <2>1, SleepWalks, SMTT(30)
  <2> QED BY <1>6, <2>2
<1>9. f \in [0 .. N -> Nat]
  BY <1>7 DEF SumsUp
<1>10. n >= f[k] /\ (k < N => d[q[k + 1]] > n - f[k])
  <2>1. rem[k] \in 0 .. n /\ f[k] \in Nat
    BY <1>6, <1>9
  <2> QED BY <1>0, <1>2, <1>4, <1>8, <2>1 DEF Walk
<1> DEFINE l == InsertAt(q, k + 1, p)
           g == [i \in 0 .. N + 1 |-> IF i <= k THEN f[i]
                                      ELSE IF i = k + 1 THEN n ELSE f[i - 1]]
           e == [r \in Procs |-> IF r = p THEN n - f[k]
                                 ELSE IF k < N /\ r = q[k + 1]
                                 THEN d[r] - (n - f[k]) ELSE d[r]]
<1>11. sleep_list' = l /\ delta' = e
  BY <1>0, <1>4, <1>8 DEF InsertSleeper
<1>12. SumsUp(g, l, e)
  BY <1>2, <1>5, <1>7, <1>10, SleepSums
<1>13. /\ Len(l) = N + 1
       /\ \A i \in 1 .. N + 1 : l[i] = IF i <= k THEN q[i]
                                       ELSE IF i = k + 1 THEN p ELSE q[i - 1]
  BY <1>5, InsertAtElements
<1>14. l \in Seq(Procs) /\ IsInjective(l) /\ ToSet(l) = ToSet(q) \cup {p}
  <2> DEFINE j == k + 1
  <2>1. j \in 1 .. N + 1
    BY <1>6
  <2> HIDE DEF j
  <2>2. /\ InsertAt(q, j, p) \in Seq(Procs) /\ IsInjective(InsertAt(q, j, p))
        /\ ToSet(InsertAt(q, j, p)) = ToSet(q) \cup {p}
    BY <1>5, <2>1, InsertAtSet
  <2> QED BY <2>2 DEF j
<1>15. \A i \in 0 .. N + 1 : g[i] = IF i <= k THEN f[i]
                                    ELSE IF i = k + 1 THEN n ELSE f[i - 1]
  OBVIOUS
<1>16. e \in [Procs -> Nat]
  <2>1. IInv'
    BY SleepSafe
  <2>2. delta' \in [Procs -> Nat]
    BY <2>1 DEF IInv, TypeOK
  <2> QED BY <1>11, <2>2
<1> HIDE DEF N, l, g, e
<1>17. \A i \in 1 .. N + 1 : TimeLeft(l, e, l[i]) = g[i]
  <2>1. \A i \in 1 .. Len(l) : TimeLeft(l, e, l[i]) = g[i]
    BY <1>12, <1>14, <1>16, TimeLeftIs
  <2> QED BY <1>13, <2>1
<1>18. \A i \in 1 .. N : TimeLeft(q, d, q[i]) = f[i]
  BY <1>5, <1>7, TimeLeftIs DEF N
<1>19. TimeLeft(q, d, p) = 0
  BY <1>5 DEF TimeLeft
<1>20. ASSUME NEW r \in Procs
       PROVE  TimeLeft(l, e, r) = IF r = p THEN n ELSE TimeLeft(q, d, r)
  <2>1. CASE r = p
    <3>1. /\ k + 1 \in 1 .. N + 1 /\ k + 1 \in 0 .. N + 1 /\ ~(k + 1 <= k)
      BY <1>6
    <3>2. l[k + 1] = p /\ g[k + 1] = n
      BY <1>13, <1>15, <3>1
    <3> QED BY <1>17, <2>1, <3>1, <3>2
  <2>2. CASE r \notin ToSet(q) /\ r # p
    <3>1. r \notin ToSet(l)
      BY <1>14, <2>2
    <3> QED BY <2>2, <3>1 DEF TimeLeft
  <2>3. CASE r \in ToSet(q)
    <3>1. PICK i \in 1 .. N : q[i] = r
      BY <1>5, <2>3, MemberSet DEF N
    <3>2. r # p
      BY <1>5, <2>3
    <3>3. CASE i <= k
      <4>1. i \in 1 .. N + 1 /\ i \in 0 .. N + 1
        BY <1>6
      <4>2. l[i] = r /\ g[i] = f[i]
        BY <1>13, <1>15, <3>1, <3>3, <4>1
      <4> QED BY <1>17, <1>18, <3>1, <3>2, <4>1, <4>2
    <3>4. CASE i > k
      <4>1. /\ i + 1 \in 1 .. N + 1 /\ i + 1 \in 0 .. N + 1 /\ ~(i + 1 <= k)
            /\ i + 1 # k + 1 /\ (i + 1) - 1 = i
        BY <1>6, <3>4
      <4>2. l[i + 1] = r /\ g[i + 1] = f[i]
        BY <1>13, <1>15, <3>1, <4>1
      <4> QED BY <1>17, <1>18, <3>1, <3>2, <4>1, <4>2
    <3> QED BY <1>6, <3>3, <3>4
  <2> QED BY <2>1, <2>2, <2>3
<1> QED BY <1>0, <1>1, <1>2, <1>11, <1>19, <1>20

\* tick() takes one slice from every timer that runs.
LEMMA TickRemaining ==
  ASSUME IInv, NEW eax \in Eax, Timer(eax)
  PROVE  \A r \in Procs : TimeLeft(sleep_list', delta', r) =
           IF TimeLeft(sleep_list, delta, r) = 0 THEN 0
           ELSE TimeLeft(sleep_list, delta, r) - 1
<1>0. PICK q \in Seq(Procs), d \in [Procs -> Nat] : q = sleep_list /\ d = delta
  BY DEF IInv, TypeOK
<1> DEFINE N == Len(q)
<1>1. PICK k \in 0 .. N :
        /\ WakesFirst(k)
        /\ sleep_list' = SubSeq(q, k + 1, N)
  BY <1>0 DEF Timer
<1>2. IsInjective(q)
  BY <1>0 DEF IInv, TypeOK, NoDuplicates
<1>3. delta' = Ticked
  BY DEF Timer
<1>4. CASE q = <<>>
  <2>1. N = 0 /\ k = 0
    BY <1>4, EmptySeq
  <2>2. Len(SubSeq(q, k + 1, N)) = 0 /\ SubSeq(q, k + 1, N) \in Seq(Procs)
    BY <1>2, <2>1, SubSeqProperties
  <2>3. ToSet(q) = {} /\ ToSet(sleep_list') = {}
    BY <1>1, <1>4, <2>2, EmptySeq DEF ToSet
  <2> QED BY <1>0, <2>3 DEF TimeLeft
<1>5. CASE q # <<>>
  <2>1. q[1] = Head(q) /\ d[q[1]] > 0
    BY <1>0, <1>5, HeadSet DEF IInv, SleepHeadPositive
  <2>2. PICK f : SumsUp(f, q, d)
    BY <1>2, SumsExist
  <2> DEFINE e == [d EXCEPT ![q[1]] = @ - 1]
             l == SubSeq(q, k + 1, N)
             g == [i \in 0 .. N - k |-> IF i = 0 THEN 0 ELSE f[k + i] - 1]
  <2>3. delta' = e /\ sleep_list' = l
    BY <1>0, <1>1, <1>3, <1>5, <2>1 DEF Ticked
  <2>4. \A i \in 1 .. k : e[q[i]] = 0
    BY <1>0, <1>1, <1>3, <2>3 DEF WakesFirst
  <2>5. (\A i \in 1 .. k : f[i] = 1) /\ SumsUp(g, l, e)
    <3>1. TakesOne(q, d, k, e)
      BY <1>2, <1>5, <2>1, <2>4 DEF TakesOne
    <3> HIDE DEF e
    <3> QED BY <2>2, <3>1, TickSums
  <2>6. \A i \in 1 .. N : f[i] \in Nat /\ f[i] > 0
    <3>1. \A i \in 1 .. N : f[i] > 0
      BY <1>2, <2>1, <2>2, SumsPositive
    <3>2. N \in Nat /\ f \in [0 .. N -> Nat]
      BY <1>2, <2>2, LenProperties DEF SumsUp
    <3> QED BY <3>1, <3>2
  <2>7. N \in Nat /\ k \in Nat /\ k <= N
    BY <1>2, LenProperties
  <2>8. /\ l \in Seq(Procs) /\ IsInjective(l)
        /\ ToSet(l) = ToSet(q) \ ToSet(SubSeq(q, 1, k))
    BY <1>2, SplitSet
  <2>9. Len(l) = N - k /\ \A i \in 1 .. N - k : l[i] = q[k + i]
    <3>1. \A i \in k + 1 .. N : q[i] \in Procs
      BY <1>2, <2>7, LenProperties
    <3>2. k + 1 \in Int /\ N \in Int
      BY <2>7
    <3> HIDE DEF N
    <3> QED BY <2>7, <3>1, <3>2, SubSeqProperties
  <2>10. e \in [Procs -> Nat]
    <3>1. IInv'
      BY TimerSafe
    <3>2. delta' \in [Procs -> Nat]
      BY <3>1 DEF IInv, TypeOK
    <3> QED BY <2>3, <3>2
  <2>11. \A i \in 0 .. N - k : g[i] = IF i = 0 THEN 0 ELSE f[k + i] - 1
    OBVIOUS
  <2>12. ToSet(SubSeq(q, 1, k)) = {q[i] : i \in 1 .. k}
    BY <1>2, <2>7, SliceSet
  <2> HIDE DEF N, l, g, e
  <2>13. \A i \in 1 .. N - k : TimeLeft(l, e, l[i]) = g[i]
    <3>1. TimesAre(l, e, g)
      BY <2>5, <2>8, <2>10, TimesAreSums
    <3> QED BY <2>9, <3>1 DEF TimesAre
  <2>14. \A i \in 1 .. N : TimeLeft(q, d, q[i]) = f[i]
    BY <1>2, <2>2, TimeLeftIs DEF N
  <2>15. ASSUME NEW r \in Procs
         PROVE  TimeLeft(l, e, r) = IF TimeLeft(q, d, r) = 0 THEN 0
                                    ELSE TimeLeft(q, d, r) - 1
    <3>1. CASE r \notin ToSet(q)
      <4>1. TimeLeft(q, d, r) = 0 /\ TimeLeft(l, e, r) = 0
        BY <2>8, <3>1 DEF TimeLeft
      <4> QED BY <4>1
    <3>2. CASE r \in ToSet(q)
      <4>1. PICK i \in 1 .. N : q[i] = r
        BY <1>2, <3>2, MemberSet DEF N
      <4>2. TimeLeft(q, d, r) = f[i] /\ f[i] \in Nat /\ f[i] > 0
        BY <2>6, <2>14, <4>1
      <4>3. CASE i <= k
        <5>1. i \in 1 .. k
          BY <2>7, <4>3
        <5>2. f[i] = 1 /\ r \in ToSet(SubSeq(q, 1, k))
          BY <2>5, <2>12, <4>1, <5>1
        <5>3. TimeLeft(l, e, r) = 0
          BY <2>8, <5>2 DEF TimeLeft
        <5> QED BY <4>2, <5>2, <5>3
      <4>4. CASE i > k
        <5>1. /\ i - k \in 1 .. N - k /\ i - k \in 0 .. N - k /\ i - k # 0
              /\ k + (i - k) = i
          BY <2>7, <4>4
        <5>2. l[i - k] = r /\ g[i - k] = f[i] - 1
          BY <2>9, <2>11, <4>1, <5>1
        <5>3. TimeLeft(l, e, r) = f[i] - 1
          BY <2>13, <5>1, <5>2
        <5> QED BY <4>2, <5>3
      <4> QED BY <2>7, <4>3, <4>4
    <3> QED BY <3>1, <3>2
  <2> QED BY <1>0, <2>3, <2>15
<1> QED BY <1>4, <1>5

\* What is left to sleep for every process.
AllLeft == [p \in Procs |-> Remaining(p)]

\* The timers are the times left, in the next state as well.
LEMMA TimersLeft ==
  ASSUME IInv, IInv'
  PROVE  /\ AllLeft = [p \in Procs |-> TimeLeft(sleep_list, delta, p)]
         /\ AllLeft' = [p \in Procs |-> TimeLeft(sleep_list', delta', p)]
<1>1. \A p \in Procs : Remaining(p) = TimeLeft(sleep_list, delta, p)
  BY RemainingIs
<1>2. \A p \in Procs : Remaining(p)' = TimeLeft(sleep_list', delta', p)
  BY DEF IInv, InItsPlace, Remaining, TimeLeft
<1> QED BY <1>1, <1>2 DEF AllLeft

\* Every step of the kernel is a step of the timers or leaves them alone.
LEMMA StepTimers ==
  ASSUME IInv, IInv', [Next]_vars
  PROVE  [Timers!Next]_AllLeft
<1> DEFINE now(p) == TimeLeft(sleep_list, delta, p)
           then(p) == TimeLeft(sleep_list', delta', p)
<1>1. AllLeft = [p \in Procs |-> now(p)] /\ AllLeft' = [p \in Procs |-> then(p)]
  BY TimersLeft
<1>2. CASE UNCHANGED <<sleep_list, delta>>
  BY <1>1, <1>2
<1>3. ASSUME NEW p \in Procs, NEW ms \in Sleeps, Sleep(p, ms)
      PROVE  Timers!Next
  <2> DEFINE n == Slices(ms)
  <2>1. /\ n \in Nat \ {0} /\ now(p) = 0
        /\ \A r \in Procs : then(r) = IF r = p THEN n ELSE now(r)
    BY <1>3, SleepRemaining
  <2>2. n \in {Slices(m) : m \in Sleeps} \ {0}
    BY <2>1
  <2> HIDE DEF n, now, then
  <2>3. AllLeft[p] = 0 /\ AllLeft' = [AllLeft EXCEPT ![p] = n]
    BY <1>1, <2>1
  <2>4. Timers!FallAsleep(p, n)
    BY <2>3 DEF Timers!FallAsleep, AllLeft
  <2> QED BY <2>2, <2>4 DEF Timers!Next
<1>4. ASSUME NEW eax \in Eax, Timer(eax)
      PROVE  Timers!Next
  <2>1. \A r \in Procs : then(r) = IF now(r) = 0 THEN 0 ELSE now(r) - 1
    BY <1>4, TickRemaining
  <2> HIDE DEF now, then
  <2>2. AllLeft' = [p \in Procs |-> IF AllLeft[p] = 0 THEN 0 ELSE AllLeft[p] - 1]
    BY <1>1, <2>1
  <2> QED BY <2>2 DEF Timers!Next, Timers!Tick, AllLeft
<1>5. ASSUME NEW p \in Procs, NEW s \in Procs, NEW x \in Pids, Create(p, s, x)
      PROVE  UNCHANGED AllLeft
  <2>1. /\ state[s] = "STOPPED" /\ sleep_list' = sleep_list
        /\ delta' = [delta EXCEPT ![s] = 0]
    BY <1>5 DEF Create, FirstFree
  <2>2. PICK q \in Seq(Procs), d \in [Procs -> Nat], e \in [Procs -> Nat] :
          q = sleep_list /\ d = delta /\ e = delta'
    BY DEF IInv, TypeOK
  <2>3. IsInjective(q) /\ \A r \in ToSet(q) : r \in Procs /\ state[r] = "SLEEPING"
    BY <2>2, MemberSet DEF IInv, InItsPlace, NoDuplicates
  <2>4. \A r \in ToSet(q) : e[r] = d[r]
    BY <2>1, <2>2, <2>3
  <2>5. \A r \in Procs : TimeLeft(q, e, r) = TimeLeft(q, d, r)
    BY <2>3, <2>4, SameTimeLeft
  <2> QED BY <1>1, <2>1, <2>2, <2>5
<1>6. ASSUME NEW p \in Procs, NEW b \in {"SENDING", "RECEIVING", "SLEEPING"}, WaitsIn(p, b)
      PROVE  (\E ms \in Sleeps : Sleep(p, ms)) \/ UNCHANGED <<sleep_list, delta>>
  BY <1>6 DEF WaitsIn, sleepVars
<1>7. ASSUME \/ Quiet \/ \E p \in Procs : Returns(p) \/ Stop(p)
             \/ \E p, r \in Procs : Meets(p, r)
      PROVE  UNCHANGED <<sleep_list, delta>>
  BY <1>7 DEF Quiet, Returns, Stop, Meets, sleepVars
<1> HIDE DEF now, then
<1> QED BY <1>2, <1>3, <1>4, <1>5, <1>6, <1>7, StepKinds

\* Every sleeper wakes up at exactly the tick it asked for, however the others'
\* sleeps begin and end meanwhile: whatever the number of processes and the
\* lengths of their sleeps, sleep() and tick() of c/sleep.c implement one timer
\* for each process.
THEOREM SleepersWakeOnTime == Spec => SleepersTimed
<1>1. Init => Timers!Init
  <2> SUFFICES ASSUME Init PROVE Timers!Init
    OBVIOUS
  <2>1. \A p \in Procs : Remaining(p) = 0
    BY DEF Init, Remaining
  <2> QED BY <2>1 DEF Timers!Init
<1>2. IInv /\ IInv' /\ [Next]_vars => [Timers!Next]_AllLeft
  BY StepTimers
<1> QED BY <1>1, <1>2, Safety, PTL DEF Spec, SleepersTimed, Timers!Spec, AllLeft

=============================================================================
