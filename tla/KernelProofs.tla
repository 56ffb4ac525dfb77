---------------------------- MODULE KernelProofs ----------------------------
(***************************************************************************)
(* Theorems about Kernel, for every size of the process table and of the   *)
(* pid space and every set of inputs.                                      *)
(***************************************************************************)
EXTENDS Kernel, PidMapProofs, FiniteSetTheorems

-----------------------------------------------------------------------------
(* The end of one turn of the dispatcher loop. *)

\* Queues with one or two elements.
LEMMA ShortQueues ==
  ASSUME NEW a \in Procs, NEW b \in Procs
  PROVE  /\ <<>> \in Seq(Procs) /\ IsInjective(<<>>) /\ ToSet(<<>>) = {}
         /\ <<a>> \in Seq(Procs) /\ IsInjective(<<a>>) /\ ToSet(<<a>>) = {a}
         /\ <<a, b>> \in Seq(Procs) /\ ToSet(<<a, b>>) = {a, b}
         /\ a # b => IsInjective(<<a, b>>)
  BY DEF ToSet, IsInjective

\* NULL is no slot.
LEMMA NoProcIsNone == NoProc \notin Procs /\ Root \in Procs /\ Idle \in Procs
  BY TableAssumption DEF NoProc, Procs, Root, Idle

\* The selection takes one process out of the queue and keeps all others.
LEMMA ChosenAndLeft ==
  ASSUME NEW q \in Seq(Procs), IsInjective(q)
  PROVE  /\ q = <<>> => Chosen(q) = NoProc
         /\ q # <<>> => Chosen(q) \in ToSet(q)
         /\ Chosen(q) \in Procs \cup {NoProc}
         /\ Left(q) \in Seq(Procs)
         /\ IsInjective(Left(q))
         /\ ToSet(Left(q)) = ToSet(q) \ {Chosen(q)}
<1>1. CASE q = <<>>
  BY <1>1, ShortQueues, NoProcIsNone DEF Chosen, Left
<1>2. CASE q # <<>> /\ ~(Head(q) = Idle /\ Len(q) > 1)
  <2>1. Chosen(q) = Head(q) /\ Left(q) = Tail(q)
    BY <1>2 DEF Chosen, Left
  <2> QED BY <1>2, <2>1, HeadSet
<1>3. CASE q # <<>> /\ Head(q) = Idle /\ Len(q) > 1
  <2> DEFINE t == Tail(q)
  <2>1. /\ t \in Seq(Procs) /\ IsInjective(t) /\ ToSet(t) = ToSet(q) \ {Idle}
        /\ Idle \in ToSet(q) /\ Len(t) = Len(q) - 1 /\ Idle \in Procs
    BY <1>3, HeadSet
  <2> HIDE DEF t
  <2>2. t # <<>> /\ t[1] = q[2]
    <3>1. Len(q) \in Nat /\ Len(<<>>) = 0
      BY LenProperties
    <3>2. Len(t) >= 1 /\ 1 \in 1 .. Len(t)
      BY <1>3, <2>1, <3>1
    <3>3. t[1] = q[1 + 1]
      BY <1>3, <3>2, HeadTailProperties DEF t
    <3> QED BY <3>1, <3>2, <3>3
  <2> DEFINE u == Tail(t)
  <2>3. /\ Head(t) = q[2] /\ Head(t) \in ToSet(t) /\ u \in Seq(Procs)
        /\ ToSet(u) = ToSet(t) \ {Head(t)} /\ IsInjective(u)
    BY <2>1, <2>2, HeadSet
  <2>4. Chosen(q) = q[2] /\ Left(q) = Append(u, Idle)
    BY <1>3 DEF Chosen, Left, t
  <2> HIDE DEF u
  <2>5. /\ Append(u, Idle) \in Seq(Procs) /\ IsInjective(Append(u, Idle))
        /\ ToSet(Append(u, Idle)) = ToSet(u) \cup {Idle}
    BY <2>1, <2>3, AppendSet
  <2>6. ToSet(q) \subseteq Procs
    BY MemberSet
  <2>7. Chosen(q) \in ToSet(q) \ {Idle}
    BY <2>1, <2>3, <2>4
  <2> QED BY <1>3, <2>1, <2>3, <2>4, <2>5, <2>6, <2>7
<1> QED BY <1>1, <1>2, <1>3

\* What holds after Resume(st, woken), if st gives READY and RUNNING to nobody
\* but the processes in ready_queue and in woken: the queue and the CPU hold
\* exactly these processes, and the others keep the state they have in st.
LEMMA ResumeFacts ==
  ASSUME NEW st \in [Procs -> States], NEW woken \in Seq(Procs),
         ready_queue \in Seq(Procs), IsInjective(ready_queue),
         IsInjective(woken), ToSet(woken) \cap ToSet(ready_queue) = {},
         \A q \in ToSet(ready_queue) : st[q] = "READY",
         \A q \in Procs : st[q] \in {"READY", "RUNNING"}
                            => q \in ToSet(ready_queue) \cup ToSet(woken),
         Resume(st, woken)
  PROVE  /\ run' \in Procs \cup {NoProc}
         /\ ready_queue' \in Seq(Procs) /\ IsInjective(ready_queue')
         /\ state' \in [Procs -> States]
         /\ \A q \in Procs :
              /\ (q \in ToSet(ready_queue')) <=> (state'[q] = "READY")
              /\ (q = run') <=> (state'[q] = "RUNNING")
              /\ IF q \in ToSet(ready_queue) \cup ToSet(woken)
                 THEN state'[q] \in {"READY", "RUNNING"}
                 ELSE state'[q] = st[q]
         /\ ready_queue # <<>> \/ woken # <<>> => run' \in Procs
<1> DEFINE Q == ready_queue \o woken
           R == Readied(st, woken)
<1>1. /\ Q \in Seq(Procs) /\ IsInjective(Q)
      /\ ToSet(Q) = ToSet(ready_queue) \cup ToSet(woken)
  BY ConcatSet
<1>2. run' = Chosen(Q) /\ ready_queue' = Left(Q)
        /\ state' = IF run' = NoProc THEN R ELSE [R EXCEPT ![run'] = "RUNNING"]
  BY DEF Resume, Queued
<1>3. Q = <<>> <=> ready_queue = <<>> /\ woken = <<>>
  BY ConcatEqualIffEmpty
<1>4. /\ R \in [Procs -> States]
      /\ \A q \in Procs : R[q] = IF q \in ToSet(woken) THEN "READY" ELSE st[q]
  BY DEF Readied, States
<1> HIDE DEF Q, R
<1>5. /\ Q = <<>> => run' = NoProc
      /\ Q # <<>> => run' \in ToSet(Q)
      /\ run' \in Procs \cup {NoProc}
      /\ ready_queue' \in Seq(Procs) /\ IsInjective(ready_queue')
      /\ ToSet(ready_queue') = ToSet(Q) \ {run'}
  BY <1>1, <1>2, ChosenAndLeft
<1>6. ToSet(Q) \subseteq Procs
  BY <1>1, MemberSet
<1>7. \A q \in Procs : R[q] = IF q \in ToSet(Q) THEN "READY" ELSE st[q]
  BY <1>1, <1>4
<1>8. \A q \in Procs \ ToSet(Q) : R[q] \notin {"READY", "RUNNING"}
  BY <1>1, <1>7
<1>9. CASE Q = <<>>
  <2>1. ToSet(Q) = {}
    BY <1>9 DEF ToSet
  <2>2. state' = R /\ run' = NoProc
    BY <1>2, <1>5, <1>9
  <2> QED BY <1>1, <1>3, <1>4, <1>5, <1>7, <1>8, <1>9, <2>1, <2>2, NoProcIsNone
<1>10. CASE Q # <<>>
  <2>1. run' \in ToSet(Q) /\ run' \in Procs /\ run' # NoProc
    BY <1>5, <1>6, <1>10, NoProcIsNone
  <2>2. state' = [R EXCEPT ![run'] = "RUNNING"]
    BY <1>2, <2>1
  <2>3. state' \in [Procs -> States]
    BY <1>4, <2>1, <2>2 DEF States
  <2>4. \A q \in Procs : state'[q] = IF q = run' THEN "RUNNING" ELSE R[q]
    BY <1>4, <2>2
  <2> QED BY <1>1, <1>5, <1>7, <1>8, <2>1, <2>3, <2>4
<1> QED BY <1>9, <1>10

-----------------------------------------------------------------------------
(* The inductive invariant.  None of its parts is inductive alone: a queue   *)
(* stays free of duplicates because whoever is appended to it is, by its     *)
(* state, in no queue; the head of the sleep list stays positive because the *)
(* running process is not in the list; a caller joins the queue of a living  *)
(* process because the PID map never leads to another.  The map may lose     *)
(* entries, but each one that it loses leaves a block that is not held.      *)

\* The entries that the PID map should have.
Owned == {<<pid[p], p>> : p \in Living}

\* The PID map is a search tree of entries of living processes; it has all of
\* them as long as the kernel holds no other blocks.
MapInv ==
  /\ IsMap(pidMap, Entries(pidMap))
  /\ Entries(pidMap) \subseteq Owned
  /\ \A p \in Living : pid[p] # 0
  /\ heap >= Held
  /\ heap = Held => Entries(pidMap) = Owned

\* idle is never anywhere but on the CPU or in the ready queue.
IdleAtHand == state[Idle] \in {"READY", "RUNNING"}

IInv ==
  /\ TypeOK
  /\ NoDuplicates
  /\ InItsPlace
  /\ WaitsOnTarget
  /\ MapInv
  /\ SleepHeadPositive
  /\ IdleAtHand

-----------------------------------------------------------------------------
(* The PID map. *)

LEMMA Numbers == Pids \subseteq Nat /\ Procs \subseteq Nat /\ Living \subseteq Procs
BY TableAssumption, PidAssumption DEF Pids, Procs, Living

\* What the map holds of a pid is what a lookup finds.
LEMMA LookupFinds ==
  ASSUME TypeOK, MapInv, NEW x \in Pids
  PROVE  /\ pidMapLookup(x) # NoProc =>
              /\ pidMapLookup(x) \in Living /\ pidMapLookup(x) \in Procs
              /\ pid[pidMapLookup(x)] = x /\ x # 0
              /\ <<x, pidMapLookup(x)>> \in Entries(pidMap)
         /\ pidMapLookup(x) = NoProc => \A e \in Entries(pidMap) : e[1] # x
<1> DEFINE q == pidMapLookup(x)
<1>1. /\ \A s : <<x, s>> \in Entries(pidMap) => q = s
      /\ (\A e \in Entries(pidMap) : e[1] # x) => q = NoProc
  BY Numbers, LookupMap DEF MapInv, pidMapLookup
<1> HIDE DEF q
<1>2. ASSUME NEW e \in Entries(pidMap), e[1] = x
      PROVE  /\ q \in Living /\ q \in Procs /\ q # NoProc /\ pid[q] = x /\ x # 0
             /\ <<x, q>> \in Entries(pidMap)
  <2>1. PICK p \in Living : e = <<pid[p], p>>
    BY DEF MapInv, Owned
  <2>2. e = <<x, p>>
    BY <1>2, <2>1
  <2>3. q = p
    BY <1>1, <2>2
  <2> QED BY <1>2, <2>1, <2>2, <2>3, Numbers, NoProcIsNone DEF MapInv
<1> QED BY <1>1, <1>2 DEF q

\* The processes and the entries are finitely many, no more entries than processes.
LEMMA HeldType ==
  ASSUME TypeOK, MapInv
  PROVE  /\ IsFiniteSet(Living) /\ IsFiniteSet(Entries(pidMap))
         /\ Cardinality(Living) \in Nat /\ Cardinality(Entries(pidMap)) \in Nat
<1>1. IsFiniteSet(Living)
  <2>1. IsFiniteSet(Procs)
    BY TableAssumption, FS_Interval DEF Procs
  <2> QED BY <2>1, Numbers, FS_Subset
<1>2. IsFiniteSet(Entries(pidMap))
  <2> DEFINE E == Entries(pidMap)
             f == [e \in E |-> e[2]]
  <2>1. \A e \in E : e[2] \in Living /\ e = <<pid[e[2]], e[2]>>
    BY DEF MapInv, Owned
  <2> HIDE DEF E
  <2>2. f \in [E -> Living] /\ \A e, g \in E : f[e] = f[g] => e = g
    BY <2>1
  <2>3. f \in Injection(E, Living)
    BY <2>2 DEF Injection, IsInjective
  <2> QED BY <1>1, <2>3, FS_Injection DEF E
<1> QED BY <1>1, <1>2, FS_CardinalityType

\* Nobody starts or stops.  A block that is not held may be added.
LEMMA MapKept ==
  ASSUME TypeOK, MapInv, Living' = Living, \A q \in Living : pid'[q] = pid[q],
         pidMap' = pidMap, heap' \in {heap, heap + 1}
  PROVE  MapInv'
<1>1. Held' = Held /\ Entries(pidMap') = Entries(pidMap) /\ Held \in Nat /\ heap \in Int
  BY HeldType DEF Held, TypeOK
<1>2. Owned' = Owned
  BY DEF Owned
<1>3. heap' >= Held' /\ (heap' = Held' => heap = Held)
  BY <1>1 DEF MapInv
<1> QED BY <1>1, <1>2, <1>3 DEF MapInv

\* create() in a free slot: the new pid is put into the map, which keeps all it
\* had, or loses some of it to a right rotation.
LEMMA CreateMap ==
  ASSUME TypeOK, MapInv, NEW s \in Procs, NEW x \in Pids,
         state[s] = "STOPPED", Unused(x), Living' = Living \cup {s},
         pid' = [pid EXCEPT ![s] = x], pidMap' = pidMapInsert(x, s), heap' = heap + 2
  PROVE  /\ MapInv'
         /\ Cardinality(Living') = Cardinality(Living) + 1
         /\ Cardinality(Entries(pidMap')) \in 0 .. Cardinality(Entries(pidMap)) + 1
         /\ InsertsLeftOnly(pidMap, x, s)
              => Cardinality(Entries(pidMap')) = Cardinality(Entries(pidMap)) + 1
         /\ Entries(pidMap') \subseteq Pids \X Procs
<1> DEFINE E == Entries(pidMap)
           L == Living
           o == Owned
           new == <<x, s>>
<1>1. x # 0 /\ (\A e \in E : e[1] # x) /\ s \notin L
  BY LookupFinds DEF Unused, Living
<1>2. IsMap(pidMap, E) /\ E \subseteq o /\ (\A p \in L : pid[p] # 0)
      /\ heap >= Held /\ (heap = Held => E = o)
  BY DEF MapInv
<1>3. PICK G \in SUBSET (E \cup {new}) :
        /\ IsMap(pidMap', G)
        /\ InsertsLeftOnly(pidMap, x, s) => G = E \cup {new}
  BY <1>1, <1>2, Numbers, InsertMap DEF pidMapInsert
<1>4. G = Entries(pidMap')
  BY <1>3 DEF IsMap
<1>5. /\ IsFiniteSet(L) /\ IsFiniteSet(E)
      /\ Cardinality(L) \in Nat /\ Cardinality(E) \in Nat
  BY HeldType
<1>6. Cardinality(Living') = Cardinality(L) + 1
  BY <1>1, <1>5, FS_AddElement
<1>7. /\ IsFiniteSet(E \cup {new}) /\ Cardinality(E \cup {new}) = Cardinality(E) + 1
  <2>1. new \notin E
    BY <1>1
  <2> QED BY <1>5, <2>1, FS_AddElement
<1>8. /\ IsFiniteSet(G) /\ Cardinality(G) \in Nat /\ Cardinality(G) <= Cardinality(E) + 1
      /\ Cardinality(G) = Cardinality(E) + 1 => G = E \cup {new}
  <2>1. /\ IsFiniteSet(G) /\ Cardinality(G) <= Cardinality(E \cup {new})
        /\ Cardinality(E \cup {new}) = Cardinality(G) => E \cup {new} = G
    BY <1>7, FS_Subset
  <2> QED BY <1>7, <2>1, FS_CardinalityType
<1>9. Owned' = o \cup {new}
  <2>1. pid \in [Procs -> Pids]
    BY DEF TypeOK
  <2>2. pid'[s] = x /\ \A q \in L : pid'[q] = pid[q]
    BY <1>1, <2>1, Numbers
  <2> QED BY <2>2 DEF Owned
<1>10. Held = Cardinality(L) + Cardinality(E) /\ heap \in Int
       /\ Held' = Cardinality(L) + 1 + Cardinality(G)
  BY <1>4, <1>6 DEF Held, TypeOK
<1>11. \A q \in Living' : pid'[q] # 0
  <2>1. pid \in [Procs -> Pids]
    BY DEF TypeOK
  <2> QED BY <1>1, <1>2, <2>1, Numbers
<1>12. E \cup {new} \subseteq Pids \X Procs
  BY DEF TypeOK
<1> HIDE DEF E, L, o, new
<1>13. heap' >= Held' /\ (heap' = Held' => heap = Held /\ G = E \cup {new})
  BY <1>2, <1>5, <1>8, <1>10
<1>14. MapInv'
  BY <1>2, <1>3, <1>4, <1>9, <1>11, <1>13 DEF MapInv
<1> QED BY <1>3, <1>4, <1>6, <1>7, <1>8, <1>12, <1>14 DEF E, L

\* cleanup(): the entry of the pid leaves the map if it is there, and its node
\* is counted in NodesFreed.
LEMMA StopMap ==
  ASSUME TypeOK, MapInv, NEW p \in Living, Living' = Living \ {p}, pid' = pid,
         pidMap' = pidMapDelete(pid[p]), heap' = heap - 1 - NodesFreed(pid[p])
  PROVE  /\ MapInv'
         /\ Cardinality(Living') = Cardinality(Living) - 1
         /\ Cardinality(Entries(pidMap')) = Cardinality(Entries(pidMap)) - NodesFreed(pid[p])
         /\ Entries(pidMap') \subseteq Entries(pidMap)
<1> DEFINE E == Entries(pidMap)
           L == Living
           o == Owned
           x == pid[p]
           G == Without(E, x)
           n == NodesFreed(x)
<1>1. x \in Pids /\ x \in Nat
  BY Numbers DEF TypeOK
<1>2. IsMap(pidMap, E) /\ E \subseteq o /\ (\A q \in L : pid[q] # 0)
      /\ heap >= Held /\ (heap = Held => E = o)
  BY DEF MapInv
<1>3. IsMap(pidMap', G) /\ G = Entries(pidMap') /\ G \subseteq E
  <2>1. IsMap(pidMap', G)
    BY <1>1, <1>2, DeleteMap DEF pidMapDelete
  <2> QED BY <2>1 DEF IsMap, Without
<1>4. /\ IsFiniteSet(L) /\ IsFiniteSet(E)
      /\ Cardinality(L) \in Nat /\ Cardinality(E) \in Nat
  BY HeldType
<1>5. Cardinality(Living') = Cardinality(L) - 1
  BY <1>4, FS_RemoveElement
<1>6. n \in {0, 1} /\ Cardinality(G) = Cardinality(E) - n
  <2>1. CASE pidMapLookup(x) = NoProc
    <3>1. \A e \in E : e[1] # x
      BY <1>1, <2>1, LookupFinds
    <3>2. G = E
      BY <3>1 DEF Without
    <3> QED BY <1>4, <2>1, <3>2 DEF NodesFreed
  <2>2. CASE pidMapLookup(x) # NoProc
    <3>1. PICK e \in E : e[1] = x
      BY <1>1, <2>2, LookupFinds
    <3>2. G = E \ {e}
      BY <1>2, <3>1, MapUnique DEF Without
    <3>3. Cardinality(G) = Cardinality(E) - 1
      BY <1>4, <3>2, FS_RemoveElement
    <3> QED BY <2>2, <3>3 DEF NodesFreed
  <2> QED BY <2>1, <2>2
<1>7. G \subseteq Owned'
  <2>1. ASSUME NEW e \in G PROVE e \in Owned'
    <3>1. e \in E /\ e[1] # x
      BY DEF Without
    <3>2. PICK q \in L : e = <<pid[q], q>>
      BY <1>2, <3>1 DEF Owned
    <3>3. q \in Living'
      BY <3>1, <3>2
    <3> QED BY <3>2, <3>3 DEF Owned
  <2> QED BY <2>1
<1>8. E = o => Owned' \subseteq G
  <2>1. ASSUME E = o, NEW e \in Owned' PROVE e \in G
    <3>1. PICK q \in Living' : e = <<pid[q], q>>
      BY DEF Owned
    <3>2. q \in L /\ q # p /\ e \in E /\ <<x, p>> \in E
      BY <2>1, <3>1 DEF Owned
    <3>3. e[1] # x
      BY <1>2, <3>1, <3>2, MapUnique
    <3> QED BY <3>2, <3>3 DEF Without
  <2> QED BY <2>1
<1>9. Held = Cardinality(L) + Cardinality(E) /\ heap \in Int
      /\ Held' = Cardinality(L) - 1 + Cardinality(G)
  BY <1>3, <1>5 DEF Held, TypeOK
<1>10. \A q \in Living' : pid'[q] # 0
  BY <1>2
<1> HIDE DEF E, L, o, G
<1>11. heap' >= Held' /\ (heap' = Held' => heap = Held)
  <2> HIDE DEF n
  <2>1. heap' = heap - 1 - n
    BY DEF n
  <2> QED BY <1>2, <1>4, <1>6, <1>9, <2>1
<1>12. MapInv'
  BY <1>2, <1>3, <1>7, <1>8, <1>10, <1>11 DEF MapInv
<1> QED BY <1>3, <1>5, <1>6, <1>12 DEF E, L

-----------------------------------------------------------------------------
(* Who is where, before and after a turn. *)

\* What InItsPlace says about Resume's premises.
LEMMA PlaceFacts ==
  ASSUME IInv
  PROVE  /\ state \in [Procs -> States]
         /\ ready_queue \in Seq(Procs) /\ IsInjective(ready_queue)
         /\ \A q \in ToSet(ready_queue) : q \in Procs /\ state[q] = "READY"
         /\ \A q \in Procs : state[q] = "READY" => q \in ToSet(ready_queue)
         /\ \A q \in Procs : (q = run) <=> (state[q] = "RUNNING")
<1>1. /\ ready_queue \in Seq(Procs) /\ IsInjective(ready_queue) /\ InItsPlace
      /\ state \in [Procs -> States]
  BY DEF IInv, TypeOK, NoDuplicates
<1>2. ToSet(ready_queue) \subseteq Procs
  BY <1>1, MemberSet
<1> QED BY <1>1, <1>2 DEF InItsPlace

\* What Resume leaves behind when exactly the caller and some processes that
\* were blocked, or just created, are readied and the caller keeps running.
LEMMA ResumeInPlace ==
  ASSUME IInv, NEW st \in [Procs -> States], NEW woken \in Seq(Procs),
         IsInjective(woken), ToSet(woken) \cap ToSet(ready_queue) = {},
         \A q \in Procs : q \notin ToSet(woken) /\ q # run => st[q] = state[q],
         run \in Procs,
         run \in ToSet(woken) \/ st[run] \notin {"READY", "RUNNING"},
         Resume(st, woken)
  PROVE  /\ run' \in Procs \cup {NoProc}
         /\ ready_queue' \in Seq(Procs) /\ IsInjective(ready_queue')
         /\ state' \in [Procs -> States]
         /\ \A q \in Procs :
              /\ (q \in ToSet(ready_queue')) <=> (state'[q] = "READY")
              /\ (q = run') <=> (state'[q] = "RUNNING")
              /\ IF q \in ToSet(ready_queue) \cup ToSet(woken)
                 THEN state'[q] \in {"READY", "RUNNING"}
                 ELSE state'[q] = st[q]
         /\ ready_queue # <<>> \/ woken # <<>> => run' \in Procs
<1>1. /\ ready_queue \in Seq(Procs) /\ IsInjective(ready_queue)
      /\ \A q \in ToSet(ready_queue) : q \in Procs /\ state[q] = "READY"
      /\ \A q \in Procs : state[q] = "READY" => q \in ToSet(ready_queue)
      /\ \A q \in Procs : (q = run) <=> (state[q] = "RUNNING")
  BY PlaceFacts
<1>2. \A q \in ToSet(ready_queue) : st[q] = "READY"
  BY <1>1
<1>3. \A q \in Procs : st[q] \in {"READY", "RUNNING"}
                         => q \in ToSet(ready_queue) \cup ToSet(woken)
  BY <1>1
<1> QED BY <1>1, <1>2, <1>3, ResumeFacts

\* Nobody in a queue is disturbed by a step that takes the processes in W, who
\* do not wait any more, out of the queues, if the others' peers live on.
LEMMA WaitsKept ==
  ASSUME WaitsOnTarget, NEW W \in SUBSET Procs,
         \A a \in W : state'[a] \notin {"SENDING", "RECEIVING"},
         \A a \in Procs \ W :
           /\ (state'[a] = "SENDING") <=> (state[a] = "SENDING")
           /\ (state'[a] = "RECEIVING") <=> (state[a] = "RECEIVING")
           /\ arg'[a] = arg[a],
         \A q \in Procs :
           /\ ToSet(senders[q]) \subseteq Procs
           /\ ToSet(receivers[q]) \subseteq Procs
           /\ ToSet(senders'[q]) = ToSet(senders[q]) \ W
           /\ ToSet(receivers'[q]) = ToSet(receivers[q]) \ W,
         \A q \in Procs :
           (ToSet(senders[q]) \cup ToSet(receivers[q])) \ W # {} /\ state[q] # "STOPPED"
             => state'[q] # "STOPPED" /\ pid'[q] = pid[q]
  PROVE  WaitsOnTarget'
<1>1. \A a \in Procs \ W : Sends(a)' = Sends(a) /\ ReceivesFrom(a)' = ReceivesFrom(a)
  BY DEF Sends, ReceivesFrom
<1>2. \A a \in W : ~Sends(a)' /\ ~ReceivesFrom(a)'
  BY DEF Sends, ReceivesFrom
<1>3. ASSUME NEW q \in Procs, NEW a \in (ToSet(senders[q]) \cup ToSet(receivers[q])) \ W,
             IsPeer(q, a)
      PROVE  IsPeer(q, a)'
  BY <1>3 DEF IsPeer
<1>4. ASSUME NEW q \in Procs
      PROVE  /\ \A a \in ToSet(senders'[q]) : Sends(a)' /\ IsPeer(q, a)'
             /\ \A a \in ToSet(receivers'[q]) : ReceivesFrom(a)' /\ IsPeer(q, a)'
  BY <1>1, <1>3 DEF WaitsOnTarget
<1>5. ASSUME NEW a \in Procs
      PROVE  /\ Sends(a)' => \E q \in Procs : \A t \in Procs :
                                (a \in ToSet(senders'[t])) <=> (t = q)
             /\ ReceivesFrom(a)' => \E q \in Procs : \A t \in Procs :
                                       (a \in ToSet(receivers'[t])) <=> (t = q)
  <2>1. CASE a \in W
    BY <1>2, <2>1
  <2>2. CASE a \notin W
    <3>1. /\ \A t \in Procs : (a \in ToSet(senders'[t])) <=> (a \in ToSet(senders[t]))
          /\ \A t \in Procs : (a \in ToSet(receivers'[t])) <=> (a \in ToSet(receivers[t]))
      BY <2>2
    <3>2. Sends(a)' = Sends(a) /\ ReceivesFrom(a)' = ReceivesFrom(a)
      BY <1>1, <2>2
    <3> QED BY <3>1, <3>2 DEF WaitsOnTarget
  <2> QED BY <2>1, <2>2
<1> QED BY <1>4, <1>5 DEF WaitsOnTarget

\* What the queues of senders and receivers say about their elements.
LEMMA WaitFacts ==
  ASSUME IInv
  PROVE  /\ senders \in [Procs -> Seq(Procs)]
         /\ receivers \in [Procs -> Seq(Procs)]
         /\ \A q \in Procs : IsInjective(senders[q]) /\ IsInjective(receivers[q])
         /\ \A q \in Procs : \A a \in ToSet(senders[q]) :
              /\ a \in Procs /\ state[a] = "SENDING"
              /\ \A t \in Procs : a \notin ToSet(receivers[t])
                                  /\ (a \in ToSet(senders[t]) => t = q)
         /\ \A q \in Procs : \A a \in ToSet(receivers[q]) :
              /\ a \in Procs /\ state[a] = "RECEIVING" /\ arg[a].peer # 0
              /\ \A t \in Procs : a \notin ToSet(senders[t])
                                  /\ (a \in ToSet(receivers[t]) => t = q)
<1>1. /\ senders \in [Procs -> Seq(Procs)] /\ receivers \in [Procs -> Seq(Procs)]
      /\ \A q \in Procs : IsInjective(senders[q]) /\ IsInjective(receivers[q])
  BY DEF IInv, TypeOK, NoDuplicates
<1>2. \A q \in Procs : ToSet(senders[q]) \subseteq Procs
                       /\ ToSet(receivers[q]) \subseteq Procs
  BY <1>1, MemberSet
<1>3. ASSUME NEW a \in Procs, NEW q \in Procs
      PROVE  /\ a \in ToSet(senders[q]) =>
                  /\ state[a] = "SENDING"
                  /\ \A t \in Procs : a \in ToSet(senders[t]) => t = q
             /\ a \in ToSet(receivers[q]) =>
                  /\ state[a] = "RECEIVING" /\ arg[a].peer # 0
                  /\ \A t \in Procs : a \in ToSet(receivers[t]) => t = q
  BY DEF IInv, WaitsOnTarget, Sends, ReceivesFrom
<1>4. ASSUME NEW q \in Procs, NEW a \in ToSet(senders[q])
      PROVE  /\ a \in Procs /\ state[a] = "SENDING"
             /\ \A t \in Procs : a \notin ToSet(receivers[t])
                                 /\ (a \in ToSet(senders[t]) => t = q)
  BY <1>2, <1>3
<1>5. ASSUME NEW q \in Procs, NEW a \in ToSet(receivers[q])
      PROVE  /\ a \in Procs /\ state[a] = "RECEIVING" /\ arg[a].peer # 0
             /\ \A t \in Procs : a \notin ToSet(senders[t])
                                 /\ (a \in ToSet(receivers[t]) => t = q)
  BY <1>2, <1>3
<1> QED BY <1>1, <1>4, <1>5

\* The queues of IInv after a step that readies the processes in W, which were
\* running or blocked in a call, and takes them out of the queues they were in.
LEMMA Released ==
  ASSUME IInv, NEW p \in Procs, Calls(p), NEW woken \in Seq(Procs),
         IsInjective(woken), p \in ToSet(woken),
         \A q \in ToSet(woken) \ {p} : state[q] \in {"SENDING", "RECEIVING"},
         Resume(state, woken),
         irc' \in [Procs -> Int],
         arg' \in [Procs -> [peer : Pids, len : Nat]],
         \A q \in Procs \ ToSet(woken) : arg'[q] = arg[q],
         senders' \in [Procs -> Seq(Procs)],
         receivers' \in [Procs -> Seq(Procs)],
         \A q \in Procs :
           /\ ToSet(senders'[q]) = ToSet(senders[q]) \ ToSet(woken)
           /\ ToSet(receivers'[q]) = ToSet(receivers[q]) \ ToSet(woken)
           /\ IsInjective(senders'[q]) /\ IsInjective(receivers'[q]),
         UNCHANGED <<procVars, sleepVars>>
  PROVE  IInv'
<1>0. /\ p = run /\ p # Idle /\ run \in Procs
      /\ UNCHANGED <<pid, parentPid, pidMap, nextPid, heap, halted>>
      /\ UNCHANGED <<sleep_list, delta>>
  BY DEF Calls, procVars, sleepVars
<1>1. /\ ready_queue \in Seq(Procs) /\ state \in [Procs -> States]
      /\ \A q \in ToSet(ready_queue) : q \in Procs /\ state[q] = "READY"
      /\ \A q \in Procs : state[q] = "READY" => q \in ToSet(ready_queue)
      /\ \A q \in Procs : (q = run) <=> (state[q] = "RUNNING")
  BY PlaceFacts
<1>2. ToSet(woken) \subseteq Procs
  BY MemberSet
<1>3. ToSet(woken) \cap ToSet(ready_queue) = {}
  BY <1>0, <1>1, <1>2
<1>4. /\ run' \in Procs \cup {NoProc}
      /\ ready_queue' \in Seq(Procs) /\ IsInjective(ready_queue')
      /\ state' \in [Procs -> States]
      /\ \A q \in Procs :
           /\ (q \in ToSet(ready_queue')) <=> (state'[q] = "READY")
           /\ (q = run') <=> (state'[q] = "RUNNING")
           /\ IF q \in ToSet(ready_queue) \cup ToSet(woken)
              THEN state'[q] \in {"READY", "RUNNING"}
              ELSE state'[q] = state[q]
  BY <1>0, <1>1, <1>3, ResumeInPlace
<1>5. TypeOK'
  BY <1>0, <1>4 DEF IInv, TypeOK
<1>6. NoDuplicates'
  BY <1>0, <1>4 DEF IInv, NoDuplicates
<1>7. \A q \in Procs : state[q] \in {"STOPPED", "SLEEPING"}
                         => q \notin ToSet(ready_queue) \cup ToSet(woken)
  BY <1>0, <1>1
<1>8. InItsPlace'
  BY <1>0, <1>1, <1>4, <1>7 DEF IInv, InItsPlace
<1>9. \A q \in Procs : (state'[q] = "STOPPED") <=> (state[q] = "STOPPED")
  BY <1>1, <1>4, <1>7
<1>10. WaitsOnTarget'
  <2>1. /\ \A a \in ToSet(woken) : state'[a] \notin {"SENDING", "RECEIVING"}
        /\ \A a \in Procs \ ToSet(woken) :
             /\ (state'[a] = "SENDING") <=> (state[a] = "SENDING")
             /\ (state'[a] = "RECEIVING") <=> (state[a] = "RECEIVING")
    BY <1>1, <1>2, <1>4
  <2>2. WaitsOnTarget /\ \A q \in Procs : ToSet(senders[q]) \subseteq Procs
                                          /\ ToSet(receivers[q]) \subseteq Procs
    BY WaitFacts DEF IInv
  <2> QED BY <1>0, <1>2, <1>9, <2>1, <2>2, WaitsKept
<1>11. MapInv'
  <2>1. Living' = Living
    BY <1>9 DEF Living
  <2> QED BY <1>0, <2>1, MapKept DEF IInv, TypeOK
<1>12. SleepHeadPositive'
  BY <1>0 DEF IInv, SleepHeadPositive
<1>13. IdleAtHand'
  <2>1. Idle \in Procs /\ Idle \in ToSet(ready_queue)
    BY <1>0, <1>1, NoProcIsNone DEF IInv, IdleAtHand
  <2> QED BY <1>4, <2>1 DEF IdleAtHand
<1> QED BY <1>5, <1>6, <1>8, <1>10, <1>11, <1>12, <1>13 DEF IInv

-----------------------------------------------------------------------------
(* Calls that return at once to the caller alone. *)

\* The running process is in no queue.
LEMMA CallerInNoQueue ==
  ASSUME IInv, NEW p \in Procs, Calls(p)
  PROVE  /\ p = run /\ p # Idle /\ state[p] = "RUNNING"
         /\ \A q \in Procs : p \notin ToSet(senders[q]) \cup ToSet(receivers[q])
         /\ p \notin ToSet(ready_queue) \cup ToSet(sleep_list)
  BY DEF Calls, IInv, InItsPlace, WaitsOnTarget, Sends, ReceivesFrom

LEMMA CallerReturns ==
  ASSUME IInv, NEW p \in Procs, Calls(p), Resume(state, <<p>>),
         irc' \in [Procs -> Int],
         arg' \in [Procs -> [peer : Pids, len : Nat]],
         \A q \in Procs \ {p} : arg'[q] = arg[q],
         UNCHANGED <<senders, receivers, procVars, sleepVars>>
  PROVE  IInv'
<1>1. <<p>> \in Seq(Procs) /\ IsInjective(<<p>>) /\ ToSet(<<p>>) = {p}
  BY ShortQueues
<1>2. /\ senders' \in [Procs -> Seq(Procs)] /\ receivers' \in [Procs -> Seq(Procs)]
      /\ \A q \in Procs : IsInjective(senders'[q]) /\ IsInjective(receivers'[q])
  BY DEF IInv, TypeOK, NoDuplicates
<1>3. \A q \in Procs : /\ ToSet(senders'[q]) = ToSet(senders[q]) \ {p}
                       /\ ToSet(receivers'[q]) = ToSet(receivers[q]) \ {p}
  BY CallerInNoQueue
<1> HIDE DEF IInv
<1>4. UNCHANGED <<procVars, sleepVars>>
  OBVIOUS
<1> DEFINE w == <<p>>
<1>5. w \in Seq(Procs) /\ IsInjective(w) /\ ToSet(w) = {p} /\ Resume(state, w)
  BY <1>1
<1> HIDE DEF w
<1> QED BY <1>2, <1>3, <1>4, <1>5, Released

\* The arguments of a call.
LEMMA CalledType ==
  ASSUME IInv, NEW p \in Procs, NEW x \in Pids, NEW len \in Lens
  PROVE  /\ Called(p, x, len) \in [Procs -> [peer : Pids, len : Nat]]
         /\ Called(p, x, len)[p].peer = x
         /\ \A q \in Procs \ {p} : Called(p, x, len)[q] = arg[q]
<1>1. arg \in [Procs -> [peer : Pids, len : Nat]]
  BY DEF IInv, TypeOK
<1>2. [peer |-> x, len |-> len] \in [peer : Pids, len : Nat]
  BY InputAssumption
<1> QED BY <1>1, <1>2 DEF Called

\* A pid that is not refused leads to the living process that has it.
LEMMA NotRefused ==
  ASSUME IInv, NEW p \in Procs, NEW x \in Pids, Refused(p, x) = 0
  PROVE  /\ pidMapLookup(x) \in Procs /\ x # pid[p] /\ x # 0
         /\ pid[pidMapLookup(x)] = x /\ state[pidMapLookup(x)] # "STOPPED"
<1>1. x # pid[p] /\ pidMapLookup(x) # NoProc
  BY DEF Refused, SYS_SR_SELF, SYS_SR_NO_PID
<1> QED BY <1>1, LookupFinds DEF IInv, Living

LEMMA RefusedType ==
  ASSUME NEW p, NEW x PROVE Refused(p, x) \in Int
  BY DEF Refused, SYS_SR_SELF, SYS_SR_NO_PID

LEMMA ReturnsAtOnce ==
  ASSUME IInv, NEW p \in Procs,
         \/ CreateRefused(p) \/ Yield(p) \/ GetPid(p) \/ GetParentPid(p)
         \/ \E x \in Pids : SendRefused(p, x) \/ RecvRefused(p, x)
         \/ \E ms \in Sleeps : SleepZero(p, ms)
  PROVE  IInv'
<1>0. /\ irc \in [Procs -> Int] /\ arg \in [Procs -> [peer : Pids, len : Nat]]
      /\ pid \in [Procs -> Pids] /\ parentPid \in [Procs -> Pids]
  BY DEF IInv, TypeOK
<1>1. \A v \in Int : [irc EXCEPT ![p] = v] \in [Procs -> Int]
  BY <1>0
<1>2. pid[p] \in Int /\ parentPid[p] \in Int /\ SYSERR \in Int
  BY <1>0, PidAssumption DEF Pids, SYSERR
<1>3. CASE CreateRefused(p)
  BY <1>0, <1>1, <1>2, <1>3, CallerReturns DEF CreateRefused, ipcVars
<1>4. CASE Yield(p)
  BY <1>0, <1>1, <1>4, CallerReturns DEF Yield, ipcVars
<1>5. CASE GetPid(p)
  BY <1>0, <1>1, <1>2, <1>5, CallerReturns DEF GetPid, ipcVars
<1>6. CASE GetParentPid(p)
  BY <1>0, <1>1, <1>2, <1>6, CallerReturns DEF GetParentPid, ipcVars
<1>7. ASSUME NEW x \in Pids, SendRefused(p, x) \/ RecvRefused(p, x)
      PROVE  IInv'
  <2>1. irc' = [irc EXCEPT ![p] = Refused(p, x)]
    BY <1>7 DEF SendRefused, RecvRefused
  <2>2. irc' \in [Procs -> Int]
    BY <1>1, <2>1, RefusedType
  <2> QED BY <1>0, <1>7, <2>2, CallerReturns DEF SendRefused, RecvRefused, ipcVars
<1>8. ASSUME NEW ms \in Sleeps, SleepZero(p, ms) PROVE IInv'
  BY <1>0, <1>8, CallerReturns DEF SleepZero, ipcVars
<1> QED BY <1>3, <1>4, <1>5, <1>6, <1>7, <1>8

-----------------------------------------------------------------------------
(* Calls that complete a rendezvous. *)

\* What send_receive_transfer() leaves in the pcbs and in the arguments.
LEMMA TransferType ==
  ASSUME IInv, NEW s \in Procs, NEW r \in Procs,
         NEW a \in [Procs -> [peer : Pids, len : Nat]],
         Transfer(s, r, a)
  PROVE  /\ irc' \in [Procs -> Int]
         /\ arg' \in [Procs -> [peer : Pids, len : Nat]]
         /\ \A q \in Procs \ {s, r} : arg'[q] = a[q]
<1>1. irc \in [Procs -> Int] /\ pid \in [Procs -> Pids]
  BY DEF IInv, TypeOK
<1>2. a[s].len \in Nat /\ a[r].len \in Nat
  OBVIOUS
<1>3. irc' \in [Procs -> Int]
  BY <1>1, <1>2 DEF Transfer
<1>4. arg' = [a EXCEPT ![r] = [a[r] EXCEPT !.peer = pid[s]]]
  BY DEF Transfer
<1>5. [a[r] EXCEPT !.peer = pid[s]] \in [peer : Pids, len : Nat]
  BY <1>1
<1> QED BY <1>3, <1>4, <1>5

\* The caller p and its partner r are readied, r is taken out of its queue.
LEMMA PartnersReturn ==
  ASSUME IInv, NEW p \in Procs, Calls(p), NEW r \in Procs,
         state[r] \in {"SENDING", "RECEIVING"}, Resume(state, <<p, r>>),
         irc' \in [Procs -> Int],
         arg' \in [Procs -> [peer : Pids, len : Nat]],
         \A q \in Procs \ {p, r} : arg'[q] = arg[q],
         senders' \in [Procs -> Seq(Procs)],
         receivers' \in [Procs -> Seq(Procs)],
         \A q \in Procs :
           /\ ToSet(senders'[q]) = ToSet(senders[q]) \ {r}
           /\ ToSet(receivers'[q]) = ToSet(receivers[q]) \ {r}
           /\ IsInjective(senders'[q]) /\ IsInjective(receivers'[q]),
         UNCHANGED <<procVars, sleepVars>>
  PROVE  IInv'
<1>1. p # r
  BY CallerInNoQueue
<1> DEFINE w == <<p, r>>
<1>2. w \in Seq(Procs) /\ IsInjective(w) /\ ToSet(w) = {p, r}
  BY <1>1, ShortQueues
<1>3. Resume(state, w)
  OBVIOUS
<1> HIDE DEF w
<1>4. \A q \in Procs :
        /\ ToSet(senders'[q]) = ToSet(senders[q]) \ ToSet(w)
        /\ ToSet(receivers'[q]) = ToSet(receivers[q]) \ ToSet(w)
        /\ IsInjective(senders'[q]) /\ IsInjective(receivers'[q])
  BY <1>2, CallerInNoQueue
<1>5. UNCHANGED <<procVars, sleepVars>>
  OBVIOUS
<1> QED BY <1>2, <1>3, <1>4, <1>5, Released

LEMMA ExchangeReturns ==
  ASSUME IInv, NEW p \in Procs, NEW x \in Pids, NEW len \in Lens,
         \/ SendToWaiting(p, x, len) \/ SendToAny(p, x, len)
         \/ RecvFrom(p, x, len) \/ RecvAny(p, len)
  PROVE  IInv'
<1> DEFINE c == Called(p, x, len)
           c0 == Called(p, 0, len)
<1>1. c \in [Procs -> [peer : Pids, len : Nat]] /\ \A q \in Procs \ {p} : c[q] = arg[q]
  BY CalledType
<1>2. 0 \in Pids
  BY TableAssumption, PidAssumption DEF Pids
<1>3. /\ c0 \in [Procs -> [peer : Pids, len : Nat]]
      /\ \A q \in Procs \ {p} : c0[q] = arg[q]
  BY <1>2, CalledType
<1>5. /\ senders \in [Procs -> Seq(Procs)] /\ receivers \in [Procs -> Seq(Procs)]
      /\ \A q \in Procs : IsInjective(senders[q]) /\ IsInjective(receivers[q])
      /\ \A q \in Procs : \A a \in ToSet(senders[q]) :
           /\ a \in Procs /\ state[a] = "SENDING"
           /\ \A t \in Procs : a \notin ToSet(receivers[t])
                               /\ (a \in ToSet(senders[t]) => t = q)
      /\ \A q \in Procs : \A a \in ToSet(receivers[q]) :
           /\ a \in Procs /\ state[a] = "RECEIVING" /\ arg[a].peer # 0
           /\ \A t \in Procs : a \notin ToSet(senders[t])
                               /\ (a \in ToSet(receivers[t]) => t = q)
  BY WaitFacts
<1> HIDE DEF c, c0, IInv
<1>6. CASE SendToWaiting(p, x, len)
  <2>1. PICK i \in DOMAIN receivers[p] :
          /\ Transfer(p, receivers[p][i], c)
          /\ receivers' = [receivers EXCEPT ![p] = Taken(@, i)]
          /\ Resume(state, <<p, receivers[p][i]>>)
    BY <1>6 DEF SendToWaiting, c
  <2>2. Calls(p) /\ UNCHANGED <<senders, procVars, sleepVars>>
    BY <1>6 DEF SendToWaiting
  <2> DEFINE r == receivers[p][i]
  <2>3. /\ r \in ToSet(receivers[p]) /\ r \in Procs /\ state[r] = "RECEIVING"
        /\ \A q \in Procs : r \notin ToSet(senders[q])
    BY <1>5 DEF ToSet
  <2>4. receivers' = [receivers EXCEPT ![p] = Taken(receivers[p], i)]
        /\ r = receivers[p][i] /\ \A q \in Procs : r \in ToSet(receivers[q]) => q = p
    BY <1>5, <2>1, <2>3
  <2> HIDE DEF r
  <2>5. /\ receivers' \in [Procs -> Seq(Procs)]
        /\ \A q \in Procs : /\ ToSet(receivers'[q]) = ToSet(receivers[q]) \ {r}
                            /\ IsInjective(receivers'[q])
    <3> DEFINE w == Taken(receivers[p], i)
    <3>1. receivers[p] \in Seq(Procs) /\ IsInjective(receivers[p]) /\ i \in 1 .. Len(receivers[p])
      BY <1>5, MemberSet
    <3>2. w \in Seq(Procs) /\ ToSet(w) = ToSet(receivers[p]) \ {r} /\ IsInjective(w)
      BY <2>4, <3>1, RemoveAtSet DEF Taken
    <3>3. receivers' = [receivers EXCEPT ![p] = w]
      BY <2>4
    <3> HIDE DEF w
    <3>4. \A q \in Procs : receivers'[q] = IF q = p THEN w ELSE receivers[q]
      BY <1>5, <3>3
    <3>5. receivers' \in [Procs -> Seq(Procs)]
      BY <1>5, <3>2, <3>3
    <3> QED BY <1>5, <2>4, <3>2, <3>4, <3>5
  <2>6. Transfer(p, r, c) /\ Resume(state, <<p, r>>)
    BY <2>1 DEF r
  <2>7. /\ irc' \in [Procs -> Int] /\ arg' \in [Procs -> [peer : Pids, len : Nat]]
        /\ \A q \in Procs \ {p, r} : arg'[q] = arg[q]
    BY <1>1, <2>3, <2>6, TransferType
  <2>8. /\ senders' \in [Procs -> Seq(Procs)]
        /\ \A q \in Procs :
             /\ ToSet(senders'[q]) = ToSet(senders[q]) \ {r}
             /\ ToSet(receivers'[q]) = ToSet(receivers[q]) \ {r}
             /\ IsInjective(senders'[q]) /\ IsInjective(receivers'[q])
    BY <1>5, <2>2, <2>3, <2>5, SMTT(30)
  <2>9. UNCHANGED <<procVars, sleepVars>> /\ state[r] \in {"SENDING", "RECEIVING"}
    BY <2>2, <2>3
  <2> QED BY <2>2, <2>3, <2>5, <2>6, <2>7, <2>8, <2>9, PartnersReturn
<1>7. CASE SendToAny(p, x, len)
  <2> DEFINE r == pidMapLookup(x)
  <2>1. /\ Calls(p) /\ Refused(p, x) = 0 /\ AcceptsAny(r)
        /\ Transfer(p, r, c) /\ Resume(state, <<p, r>>)
        /\ UNCHANGED <<senders, receivers, procVars, sleepVars>>
    BY <1>7 DEF SendToAny, c
  <2>2. r \in Procs /\ state[r] = "RECEIVING" /\ arg[r].peer = 0
    BY <2>1, NotRefused DEF AcceptsAny
  <2> HIDE DEF r
  <2>3. \A q \in Procs : r \notin ToSet(senders[q]) /\ r \notin ToSet(receivers[q])
    BY <1>5, <2>2
  <2>4. /\ irc' \in [Procs -> Int] /\ arg' \in [Procs -> [peer : Pids, len : Nat]]
        /\ \A q \in Procs \ {p, r} : arg'[q] = arg[q]
    BY <1>1, <2>1, <2>2, TransferType
  <2>5. /\ senders' \in [Procs -> Seq(Procs)] /\ receivers' \in [Procs -> Seq(Procs)]
        /\ \A q \in Procs :
             /\ ToSet(senders'[q]) = ToSet(senders[q]) \ {r}
             /\ ToSet(receivers'[q]) = ToSet(receivers[q]) \ {r}
             /\ IsInjective(senders'[q]) /\ IsInjective(receivers'[q])
    BY <1>5, <2>1, <2>3
  <2>6. UNCHANGED <<procVars, sleepVars>> /\ state[r] \in {"SENDING", "RECEIVING"}
    BY <2>1, <2>2
  <2> QED BY <2>1, <2>2, <2>4, <2>5, <2>6, PartnersReturn
<1>8. ASSUME NEW i \in DOMAIN senders[p], NEW a \in {c, c0}, Calls(p),
             Transfer(senders[p][i], p, a),
             senders' = [senders EXCEPT ![p] = Taken(@, i)],
             Resume(state, <<p, senders[p][i]>>),
             UNCHANGED <<receivers, procVars, sleepVars>>
      PROVE  IInv'
  <2> DEFINE r == senders[p][i]
  <2>1. /\ r \in ToSet(senders[p]) /\ r \in Procs /\ state[r] = "SENDING"
        /\ \A q \in Procs : r \notin ToSet(receivers[q])
    BY <1>5 DEF ToSet
  <2>2. senders' = [senders EXCEPT ![p] = Taken(senders[p], i)]
        /\ r = senders[p][i] /\ \A q \in Procs : r \in ToSet(senders[q]) => q = p
    BY <1>5, <1>8, <2>1
  <2> HIDE DEF r
  <2>3. /\ senders' \in [Procs -> Seq(Procs)]
        /\ \A q \in Procs : /\ ToSet(senders'[q]) = ToSet(senders[q]) \ {r}
                            /\ IsInjective(senders'[q])
    <3> DEFINE w == Taken(senders[p], i)
    <3>1. senders[p] \in Seq(Procs) /\ IsInjective(senders[p]) /\ i \in 1 .. Len(senders[p])
      BY <1>5, MemberSet
    <3>2. w \in Seq(Procs) /\ ToSet(w) = ToSet(senders[p]) \ {r} /\ IsInjective(w)
      BY <2>2, <3>1, RemoveAtSet DEF Taken
    <3>3. senders' = [senders EXCEPT ![p] = w]
      BY <2>2
    <3> HIDE DEF w
    <3>4. \A q \in Procs : senders'[q] = IF q = p THEN w ELSE senders[q]
      BY <1>5, <3>3
    <3>5. senders' \in [Procs -> Seq(Procs)]
      BY <1>5, <3>2, <3>3
    <3> QED BY <1>5, <2>2, <3>2, <3>4, <3>5
  <2>4. Transfer(r, p, a) /\ Resume(state, <<p, r>>)
    BY <1>8, <2>2
  <2>5. /\ irc' \in [Procs -> Int] /\ arg' \in [Procs -> [peer : Pids, len : Nat]]
        /\ \A q \in Procs \ {p, r} : arg'[q] = arg[q]
    BY <1>1, <1>3, <2>1, <2>4, TransferType
  <2>6. /\ receivers' \in [Procs -> Seq(Procs)]
        /\ \A q \in Procs :
             /\ ToSet(senders'[q]) = ToSet(senders[q]) \ {r}
             /\ ToSet(receivers'[q]) = ToSet(receivers[q]) \ {r}
             /\ IsInjective(senders'[q]) /\ IsInjective(receivers'[q])
    <3>1. receivers' = receivers
      BY <1>8
    <3>2. \A q \in Procs : r \notin ToSet(receivers[q])
      BY <1>5, <2>1
    <3>3. \A q \in Procs : ToSet(receivers'[q]) = ToSet(receivers[q]) \ {r}
      BY <3>1, <3>2
    <3> QED BY <1>5, <2>3, <3>1, <3>3
  <2>7. UNCHANGED <<procVars, sleepVars>> /\ state[r] \in {"SENDING", "RECEIVING"}
    BY <1>8, <2>1
  <2> QED BY <1>8, <2>1, <2>3, <2>4, <2>5, <2>6, <2>7, PartnersReturn
<1>9. CASE RecvFrom(p, x, len)
  BY <1>8, <1>9 DEF RecvFrom, c
<1>10. CASE RecvAny(p, len)
  <2>1. /\ Calls(p) /\ senders[p] # <<>>
        /\ Transfer(Head(senders[p]), p, c0)
        /\ senders' = [senders EXCEPT ![p] = Taken(@, 1)]
        /\ Resume(state, <<p, Head(senders[p])>>)
        /\ UNCHANGED <<receivers, procVars, sleepVars>>
    BY <1>10 DEF RecvAny, c0
  <2>2. Head(senders[p]) = senders[p][1] /\ 1 \in DOMAIN senders[p]
    BY <1>5, <2>1, HeadSet, LenProperties
  <2> QED BY <1>8, <2>1, <2>2
<1> QED BY <1>6, <1>7, <1>9, <1>10

-----------------------------------------------------------------------------
(* Calls that block the caller. *)

\* Who runs and who is ready after the caller has entered state b.
LEMMA BlockedInPlace ==
  ASSUME IInv, NEW p \in Procs, Calls(p),
         NEW b \in {"SENDING", "RECEIVING", "SLEEPING"},
         Resume([state EXCEPT ![p] = b], <<>>)
  PROVE  /\ run' \in Procs
         /\ ready_queue' \in Seq(Procs) /\ IsInjective(ready_queue')
         /\ state' \in [Procs -> States]
         /\ \A q \in Procs :
              /\ (q \in ToSet(ready_queue')) <=> (state'[q] = "READY")
              /\ (q = run') <=> (state'[q] = "RUNNING")
              /\ q # p => \/ state'[q] = state[q]
                          \/ /\ state[q] = "READY"
                             /\ state'[q] \in {"READY", "RUNNING"}
         /\ state'[p] = b
<1> DEFINE st == [state EXCEPT ![p] = b]
           w == <<>>
<1>0. p = run /\ p # Idle /\ run \in Procs /\ p \notin ToSet(ready_queue)
  BY CallerInNoQueue
<1>1. /\ ready_queue \in Seq(Procs) /\ state \in [Procs -> States]
      /\ \A q \in ToSet(ready_queue) : q \in Procs /\ state[q] = "READY"
      /\ \A q \in Procs : state[q] = "READY" => q \in ToSet(ready_queue)
      /\ \A q \in Procs : (q = run) <=> (state[q] = "RUNNING")
  BY PlaceFacts
<1>2. st \in [Procs -> States] /\ \A q \in Procs : st[q] = IF q = p THEN b ELSE state[q]
  BY <1>1 DEF States
<1>3. w \in Seq(Procs) /\ IsInjective(w) /\ ToSet(w) = {} /\ Resume(st, w)
  BY ShortQueues
<1> HIDE DEF st, w
<1>4. /\ ToSet(w) \cap ToSet(ready_queue) = {}
      /\ \A q \in Procs : q \notin ToSet(w) /\ q # run => st[q] = state[q]
      /\ run \in ToSet(w) \/ st[run] \notin {"READY", "RUNNING"}
  BY <1>0, <1>2, <1>3
<1>5. ready_queue # <<>>
  <2>1. Idle \in ToSet(ready_queue)
    BY <1>0, <1>1, NoProcIsNone DEF IInv, IdleAtHand
  <2> QED BY <2>1 DEF ToSet
<1>6. /\ run' \in Procs
      /\ ready_queue' \in Seq(Procs) /\ IsInjective(ready_queue')
      /\ state' \in [Procs -> States]
      /\ \A q \in Procs :
           /\ (q \in ToSet(ready_queue')) <=> (state'[q] = "READY")
           /\ (q = run') <=> (state'[q] = "RUNNING")
           /\ IF q \in ToSet(ready_queue) \cup ToSet(w)
              THEN state'[q] \in {"READY", "RUNNING"}
              ELSE state'[q] = st[q]
  BY <1>0, <1>2, <1>3, <1>4, <1>5, ResumeInPlace
<1>7. ASSUME NEW q \in Procs, q # p
      PROVE  \/ state'[q] = state[q]
             \/ state[q] = "READY" /\ state'[q] \in {"READY", "RUNNING"}
  BY <1>1, <1>2, <1>3, <1>6, <1>7
<1>8. state'[p] = b
  BY <1>0, <1>2, <1>3, <1>6
<1> QED BY <1>6, <1>7, <1>8

\* The queue that process p joins, in state b: the sleep list, or senders or
\* receivers of the process it names, which is t; a process that receives from
\* any joins none.
Joins(p, b) ==
  /\ \A a \in Procs : (a \in ToSet(sleep_list')) <=>
                        a \in ToSet(sleep_list) \/ (a = p /\ b = "SLEEPING")
  /\ \E t \in Procs :
       /\ b = "SENDING" \/ (b = "RECEIVING" /\ arg'[p].peer # 0)
            => state[t] # "STOPPED" /\ pid[t] = arg'[p].peer
       /\ \A q \in Procs :
            /\ ToSet(senders'[q]) =
                 IF b = "SENDING" /\ q = t THEN ToSet(senders[q]) \cup {p}
                 ELSE ToSet(senders[q])
            /\ ToSet(receivers'[q]) =
                 IF b = "RECEIVING" /\ arg'[p].peer # 0 /\ q = t
                 THEN ToSet(receivers[q]) \cup {p} ELSE ToSet(receivers[q])

\* The caller enters state b and one queue, and somebody else runs.
LEMMA CallerBlocks ==
  ASSUME IInv, NEW p \in Procs, Calls(p),
         NEW b \in {"SENDING", "RECEIVING", "SLEEPING"},
         Resume([state EXCEPT ![p] = b], <<>>),
         irc' = irc, UNCHANGED procVars,
         arg' \in [Procs -> [peer : Pids, len : Nat]],
         \A q \in Procs \ {p} : arg'[q] = arg[q],
         senders' \in [Procs -> Seq(Procs)],
         receivers' \in [Procs -> Seq(Procs)],
         sleep_list' \in Seq(Procs), delta' \in [Procs -> Nat],
         IsInjective(sleep_list'), SleepHeadPositive',
         \A q \in Procs : IsInjective(senders'[q]) /\ IsInjective(receivers'[q]),
         Joins(p, b)
  PROVE  IInv'
<1>0. /\ p = run /\ p # Idle /\ state[p] = "RUNNING"
      /\ UNCHANGED <<pid, parentPid, pidMap, nextPid, heap, halted>>
      /\ \A q \in Procs : p \notin ToSet(senders[q]) \cup ToSet(receivers[q])
      /\ p \notin ToSet(sleep_list)
  BY CallerInNoQueue DEF procVars
<1>1. /\ run' \in Procs
      /\ ready_queue' \in Seq(Procs) /\ IsInjective(ready_queue')
      /\ state' \in [Procs -> States]
      /\ \A q \in Procs :
           /\ (q \in ToSet(ready_queue')) <=> (state'[q] = "READY")
           /\ (q = run') <=> (state'[q] = "RUNNING")
           /\ q # p => \/ state'[q] = state[q]
                       \/ /\ state[q] = "READY"
                          /\ state'[q] \in {"READY", "RUNNING"}
      /\ state'[p] = b
  BY BlockedInPlace
<1>2. TypeOK'
  BY <1>0, <1>1 DEF IInv, TypeOK
<1>3. NoDuplicates'
  BY <1>1 DEF NoDuplicates
<1>4. InItsPlace'
  <2>1. \A q \in Procs : (q \in ToSet(sleep_list)) <=> (state[q] = "SLEEPING")
    BY DEF IInv, InItsPlace
  <2>2. \A q \in Procs : (q \in ToSet(sleep_list')) <=>
                           q \in ToSet(sleep_list) \/ (q = p /\ b = "SLEEPING")
    BY DEF Joins
  <2>3. ASSUME NEW q \in Procs
        PROVE  (q \in ToSet(sleep_list')) <=> (state'[q] = "SLEEPING")
    BY <1>0, <1>1, <2>1, <2>2
  <2> QED BY <1>1, <2>3 DEF InItsPlace
<1>5. WaitsOnTarget'
  <2>1. PICK t \in Procs :
          /\ b = "SENDING" \/ (b = "RECEIVING" /\ arg'[p].peer # 0)
               => state[t] # "STOPPED" /\ pid[t] = arg'[p].peer
          /\ \A q \in Procs :
               /\ ToSet(senders'[q]) =
                    IF b = "SENDING" /\ q = t THEN ToSet(senders[q]) \cup {p}
                    ELSE ToSet(senders[q])
               /\ ToSet(receivers'[q]) =
                    IF b = "RECEIVING" /\ arg'[p].peer # 0 /\ q = t
                    THEN ToSet(receivers[q]) \cup {p} ELSE ToSet(receivers[q])
    BY DEF Joins
  <2>2. \A q \in Procs : ToSet(senders[q]) \subseteq Procs
                         /\ ToSet(receivers[q]) \subseteq Procs
    BY WaitFacts
  <2>3. \A q \in Procs : (state'[q] = "STOPPED") <=> (state[q] = "STOPPED")
    BY <1>0, <1>1
  <2>4. \A a \in Procs \ {p} :
          (Sends(a)' <=> Sends(a)) /\ (ReceivesFrom(a)' <=> ReceivesFrom(a))
    BY <1>0, <1>1 DEF Sends, ReceivesFrom
  <2>5. /\ Sends(p)' <=> b = "SENDING"
        /\ ReceivesFrom(p)' <=> b = "RECEIVING" /\ arg'[p].peer # 0
    BY <1>0, <1>1 DEF Sends, ReceivesFrom
  <2>6. /\ \A q \in Procs : \A a \in Procs \ {p} : IsPeer(q, a) => IsPeer(q, a)'
        /\ Sends(p)' \/ ReceivesFrom(p)' => IsPeer(t, p)'
    BY <1>0, <2>1, <2>3, <2>5 DEF IsPeer
  <2>7. ASSUME NEW q \in Procs
        PROVE  /\ \A a \in ToSet(senders'[q]) : Sends(a)' /\ IsPeer(q, a)'
               /\ \A a \in ToSet(receivers'[q]) : ReceivesFrom(a)' /\ IsPeer(q, a)'
    <3>1. /\ \A a \in ToSet(senders[q]) : Sends(a)' /\ IsPeer(q, a)'
          /\ \A a \in ToSet(receivers[q]) : ReceivesFrom(a)' /\ IsPeer(q, a)'
      <4>1. /\ \A a \in ToSet(senders[q]) : Sends(a) /\ IsPeer(q, a)
            /\ \A a \in ToSet(receivers[q]) : ReceivesFrom(a) /\ IsPeer(q, a)
            /\ \A a \in ToSet(senders[q]) \cup ToSet(receivers[q]) : a \in Procs \ {p}
        BY <1>0, <2>2 DEF IInv, WaitsOnTarget
      <4> QED BY <2>4, <2>6, <4>1
    <3>2. ToSet(senders'[q]) # ToSet(senders[q])
            => /\ ToSet(senders'[q]) = ToSet(senders[q]) \cup {p}
               /\ Sends(p)' /\ IsPeer(q, p)'
      BY <2>1, <2>5, <2>6
    <3>3. ToSet(receivers'[q]) # ToSet(receivers[q])
            => /\ ToSet(receivers'[q]) = ToSet(receivers[q]) \cup {p}
               /\ ReceivesFrom(p)' /\ IsPeer(q, p)'
      BY <2>1, <2>5, <2>6
    <3> QED BY <3>1, <3>2, <3>3
  <2>8. ASSUME NEW a \in Procs
        PROVE  /\ Sends(a)' => \E q \in Procs : \A u \in Procs :
                                  (a \in ToSet(senders'[u])) <=> (u = q)
               /\ ReceivesFrom(a)' => \E q \in Procs : \A u \in Procs :
                                         (a \in ToSet(receivers'[u])) <=> (u = q)
    <3>1. CASE a = p
      <4>1. /\ b = "SENDING" => \A u \in Procs : (p \in ToSet(senders'[u])) <=> (u = t)
            /\ b = "RECEIVING" /\ arg'[p].peer # 0
                 => \A u \in Procs : (p \in ToSet(receivers'[u])) <=> (u = t)
        BY <1>0, <2>1
      <4> QED BY <2>5, <3>1, <4>1
    <3>2. CASE a # p
      <4>1. /\ \A u \in Procs : (a \in ToSet(senders'[u])) <=> (a \in ToSet(senders[u]))
            /\ \A u \in Procs : (a \in ToSet(receivers'[u])) <=> (a \in ToSet(receivers[u]))
        BY <2>1, <3>2
      <4>2. (Sends(a)' <=> Sends(a)) /\ (ReceivesFrom(a)' <=> ReceivesFrom(a))
        BY <2>4, <3>2
      <4>3. /\ Sends(a) => \E q \in Procs : \A u \in Procs :
                               (a \in ToSet(senders[u])) <=> (u = q)
            /\ ReceivesFrom(a) => \E q \in Procs : \A u \in Procs :
                                      (a \in ToSet(receivers[u])) <=> (u = q)
        BY DEF IInv, WaitsOnTarget
      <4> QED BY <4>1, <4>2, <4>3
    <3> QED BY <3>1, <3>2
  <2> QED BY <2>7, <2>8 DEF WaitsOnTarget
<1>6. MapInv'
  <2>1. Living' = Living
    BY <1>0, <1>1 DEF Living
  <2> QED BY <1>0, <2>1, MapKept DEF IInv, TypeOK
<1>7. IdleAtHand'
  BY <1>0, <1>1, NoProcIsNone DEF IInv, IdleAtHand
<1> QED BY <1>2, <1>3, <1>4, <1>5, <1>6, <1>7 DEF IInv

\* send_queue_insert(): the caller waits in senders of its destination.
LEMMA SendBlocksSafe ==
  ASSUME IInv, NEW p \in Procs, NEW x \in Pids, NEW len \in Lens,
         SendBlocks(p, x, len)
  PROVE  IInv'
<1> DEFINE t == pidMapLookup(x)
           c == Called(p, x, len)
           w == Append(senders[t], p)
<1>1. /\ Calls(p) /\ Refused(p, x) = 0 /\ arg' = c
      /\ senders' = [senders EXCEPT ![t] = w]
      /\ Resume([state EXCEPT ![p] = "SENDING"], <<>>)
      /\ irc' = irc /\ receivers' = receivers
      /\ UNCHANGED procVars /\ UNCHANGED sleepVars
  BY DEF SendBlocks
<1>2. /\ c \in [Procs -> [peer : Pids, len : Nat]] /\ c[p].peer = x
      /\ \A q \in Procs \ {p} : c[q] = arg[q]
  BY CalledType
<1>3. t \in Procs /\ state[t] # "STOPPED" /\ pid[t] = x /\ x # 0
  BY <1>1, NotRefused
<1>4. /\ senders \in [Procs -> Seq(Procs)] /\ receivers \in [Procs -> Seq(Procs)]
      /\ \A q \in Procs : IsInjective(senders[q]) /\ IsInjective(receivers[q])
      /\ sleep_list \in Seq(Procs) /\ IsInjective(sleep_list)
      /\ delta \in [Procs -> Nat] /\ SleepHeadPositive
  BY DEF IInv, TypeOK, NoDuplicates
<1>5. \A q \in Procs : p \notin ToSet(senders[q])
  BY <1>1, CallerInNoQueue
<1> HIDE DEF IInv, c, t
<1>6. w \in Seq(Procs) /\ IsInjective(w) /\ ToSet(w) = ToSet(senders[t]) \cup {p}
  BY <1>3, <1>4, <1>5, AppendSet
<1> HIDE DEF w
<1>7. /\ senders' \in [Procs -> Seq(Procs)]
      /\ \A q \in Procs : senders'[q] = IF q = t THEN w ELSE senders[q]
  BY <1>1, <1>4, <1>6
<1>8. \A q \in Procs : IsInjective(senders'[q]) /\ IsInjective(receivers'[q])
  BY <1>1, <1>4, <1>6, <1>7
<1>9. UNCHANGED <<sleep_list, delta>> /\ UNCHANGED procVars
  BY <1>1 DEF sleepVars
<1>10. arg'[p].peer = x
  BY <1>1, <1>2
<1>11. Joins(p, "SENDING")
  BY <1>1, <1>3, <1>5, <1>6, <1>7, <1>9, <1>10 DEF Joins
<1>12. SleepHeadPositive'
  BY <1>4, <1>9 DEF SleepHeadPositive
<1>13. /\ arg' \in [Procs -> [peer : Pids, len : Nat]]
       /\ \A q \in Procs \ {p} : arg'[q] = arg[q]
       /\ receivers' \in [Procs -> Seq(Procs)] /\ sleep_list' \in Seq(Procs)
       /\ delta' \in [Procs -> Nat] /\ IsInjective(sleep_list')
  BY <1>1, <1>2, <1>4, <1>9
<1> QED BY <1>1, <1>7, <1>8, <1>9, <1>11, <1>12, <1>13, CallerBlocks

\* recv_queue_insert(): the caller waits in receivers of the process it names.
LEMMA RecvFromBlocksSafe ==
  ASSUME IInv, NEW p \in Procs, NEW x \in Pids, NEW len \in Lens,
         RecvFromBlocks(p, x, len)
  PROVE  IInv'
<1> DEFINE t == pidMapLookup(x)
           c == Called(p, x, len)
           w == Append(receivers[t], p)
<1>1. /\ Calls(p) /\ Refused(p, x) = 0 /\ arg' = c
      /\ receivers' = [receivers EXCEPT ![t] = w]
      /\ Resume([state EXCEPT ![p] = "RECEIVING"], <<>>)
      /\ irc' = irc /\ senders' = senders
      /\ UNCHANGED procVars /\ UNCHANGED sleepVars
  BY DEF RecvFromBlocks
<1>2. /\ c \in [Procs -> [peer : Pids, len : Nat]] /\ c[p].peer = x
      /\ \A q \in Procs \ {p} : c[q] = arg[q]
  BY CalledType
<1>3. t \in Procs /\ state[t] # "STOPPED" /\ pid[t] = x /\ x # 0
  BY <1>1, NotRefused
<1>4. /\ receivers \in [Procs -> Seq(Procs)] /\ senders \in [Procs -> Seq(Procs)]
      /\ \A q \in Procs : IsInjective(receivers[q]) /\ IsInjective(senders[q])
      /\ sleep_list \in Seq(Procs) /\ IsInjective(sleep_list)
      /\ delta \in [Procs -> Nat] /\ SleepHeadPositive
  BY DEF IInv, TypeOK, NoDuplicates
<1>5. \A q \in Procs : p \notin ToSet(receivers[q])
  BY <1>1, CallerInNoQueue
<1> HIDE DEF IInv, c, t
<1>6. w \in Seq(Procs) /\ IsInjective(w) /\ ToSet(w) = ToSet(receivers[t]) \cup {p}
  BY <1>3, <1>4, <1>5, AppendSet
<1> HIDE DEF w
<1>7. /\ receivers' \in [Procs -> Seq(Procs)]
      /\ \A q \in Procs : receivers'[q] = IF q = t THEN w ELSE receivers[q]
  BY <1>1, <1>4, <1>6
<1>8. \A q \in Procs : IsInjective(receivers'[q]) /\ IsInjective(senders'[q])
  BY <1>1, <1>4, <1>6, <1>7
<1>9. UNCHANGED <<sleep_list, delta>> /\ UNCHANGED procVars
  BY <1>1 DEF sleepVars
<1>10. arg'[p].peer = x
  BY <1>1, <1>2
<1>11. Joins(p, "RECEIVING")
  BY <1>1, <1>3, <1>5, <1>6, <1>7, <1>9, <1>10 DEF Joins
<1>12. SleepHeadPositive'
  BY <1>4, <1>9 DEF SleepHeadPositive
<1>13. /\ arg' \in [Procs -> [peer : Pids, len : Nat]]
       /\ \A q \in Procs \ {p} : arg'[q] = arg[q]
       /\ senders' \in [Procs -> Seq(Procs)] /\ sleep_list' \in Seq(Procs)
       /\ delta' \in [Procs -> Nat] /\ IsInjective(sleep_list')
  BY <1>1, <1>2, <1>4, <1>9
<1> QED BY <1>1, <1>7, <1>8, <1>9, <1>11, <1>12, <1>13, CallerBlocks

\* The caller waits for any sender, in nobody's queue.
LEMMA RecvAnyBlocksSafe ==
  ASSUME IInv, NEW p \in Procs, NEW len \in Lens, RecvAnyBlocks(p, len)
  PROVE  IInv'
<1> DEFINE c == Called(p, 0, len)
<1>1. /\ Calls(p) /\ arg' = c
      /\ Resume([state EXCEPT ![p] = "RECEIVING"], <<>>)
      /\ irc' = irc /\ receivers' = receivers /\ senders' = senders
      /\ UNCHANGED procVars /\ UNCHANGED <<sleep_list, delta>>
  BY DEF RecvAnyBlocks, sleepVars
<1>2. /\ c \in [Procs -> [peer : Pids, len : Nat]] /\ c[p].peer = 0
      /\ \A q \in Procs \ {p} : c[q] = arg[q]
  <2>1. 0 \in Pids
    BY TableAssumption, PidAssumption DEF Pids
  <2> QED BY <2>1, CalledType
<1>3. /\ senders \in [Procs -> Seq(Procs)] /\ receivers \in [Procs -> Seq(Procs)]
      /\ \A q \in Procs : IsInjective(senders[q]) /\ IsInjective(receivers[q])
      /\ sleep_list \in Seq(Procs) /\ IsInjective(sleep_list)
      /\ delta \in [Procs -> Nat] /\ SleepHeadPositive
  BY DEF IInv, TypeOK, NoDuplicates
<1> HIDE DEF IInv, c
<1>4. Joins(p, "RECEIVING")
  BY <1>1, <1>2, NoProcIsNone DEF Joins
<1>5. SleepHeadPositive'
  BY <1>1, <1>3 DEF SleepHeadPositive
<1>6. /\ arg' \in [Procs -> [peer : Pids, len : Nat]]
      /\ \A q \in Procs \ {p} : arg'[q] = arg[q]
      /\ senders' \in [Procs -> Seq(Procs)] /\ receivers' \in [Procs -> Seq(Procs)]
      /\ \A q \in Procs : IsInjective(senders'[q]) /\ IsInjective(receivers'[q])
      /\ sleep_list' \in Seq(Procs)
      /\ delta' \in [Procs -> Nat] /\ IsInjective(sleep_list')
  BY <1>1, <1>2, <1>3
<1> QED BY <1>1, <1>4, <1>5, <1>6, CallerBlocks

\* sleep() keeps the deltas from wrapping below 0 and the head above it: what
\* is left of the slices is less than the successor's delta, and is all of them
\* if the caller becomes the head.
LEMMA SleepSafe ==
  ASSUME IInv, NEW p \in Procs, NEW ms \in Sleeps, Sleep(p, ms)
  PROVE  IInv'
<1> DEFINE n == Slices(ms)
<1>1. /\ Calls(p) /\ n > 0
      /\ Resume([state EXCEPT ![p] = "SLEEPING"], <<>>)
      /\ irc' = irc /\ arg' = arg /\ receivers' = receivers /\ senders' = senders
      /\ UNCHANGED procVars
  BY DEF Sleep, ipcVars
<1>0. PICK k \in 0 .. Len(sleep_list) : \E rem \in [0 .. k -> 0 .. n] :
        Walk(n, k, rem) /\ InsertSleeper(p, k, rem[k])
  BY DEF Sleep
<1>2. PICK rem \in [0 .. k -> 0 .. n] : Walk(n, k, rem) /\ InsertSleeper(p, k, rem[k])
  BY <1>0
<1>3. n \in Nat
  BY InputAssumption, SliceAssumption DEF Slices
<1>4. /\ senders \in [Procs -> Seq(Procs)] /\ receivers \in [Procs -> Seq(Procs)]
      /\ \A q \in Procs : IsInjective(senders[q]) /\ IsInjective(receivers[q])
      /\ sleep_list \in Seq(Procs) /\ IsInjective(sleep_list)
      /\ delta \in [Procs -> Nat] /\ SleepHeadPositive
      /\ arg \in [Procs -> [peer : Pids, len : Nat]]
  BY DEF IInv, TypeOK, NoDuplicates
<1>5. /\ p \notin ToSet(sleep_list) /\ Len(sleep_list) \in Nat
      /\ \A q \in Procs : p \notin ToSet(senders[q]) \cup ToSet(receivers[q])
  BY <1>1, <1>4, CallerInNoQueue, LenProperties
<1> HIDE DEF IInv, n
<1> DEFINE l == InsertAt(sleep_list, k + 1, p)
           m == rem[k]
<1>6. /\ m \in Nat /\ (k = 0 => m > 0)
      /\ k < Len(sleep_list) => delta[sleep_list[k + 1]] > m
  BY <1>1, <1>2, <1>3, <1>5 DEF Walk
<1>7. sleep_list' = l
      /\ delta' = [q \in Procs |->
                    IF q = p THEN m
                    ELSE IF k < Len(sleep_list) /\ q = sleep_list[k + 1]
                    THEN delta[q] - m ELSE delta[q]]
  BY <1>2 DEF InsertSleeper
<1>8. /\ l \in Seq(Procs) /\ IsInjective(l) /\ ToSet(l) = ToSet(sleep_list) \cup {p}
  <2>1. k + 1 \in 1 .. Len(sleep_list) + 1
    BY <1>5
  <2>2. /\ sleep_list \in Seq(Procs) /\ IsInjective(sleep_list)
        /\ p \notin ToSet(sleep_list)
    BY <1>4, <1>5
  <2> DEFINE i == k + 1
  <2> HIDE DEF i
  <2>3. i \in 1 .. Len(sleep_list) + 1
    BY <2>1 DEF i
  <2>4. /\ InsertAt(sleep_list, i, p) \in Seq(Procs)
        /\ ToSet(InsertAt(sleep_list, i, p)) = ToSet(sleep_list) \cup {p}
        /\ IsInjective(InsertAt(sleep_list, i, p))
    BY <2>2, <2>3, InsertAtSet
  <2> QED BY <2>4 DEF i
<1>9. Head(l) = IF k = 0 THEN p ELSE sleep_list[1]
  BY <1>4, InsertAtHead
<1> HIDE DEF l, m
<1>10. \A q \in Procs : delta'[q] = IF q = p THEN m
                          ELSE IF k < Len(sleep_list) /\ q = sleep_list[k + 1]
                          THEN delta[q] - m ELSE delta[q]
  BY <1>7
<1>11. delta' \in [Procs -> Nat]
  <2>1. \A q \in Procs : delta'[q] \in Nat
    <3> SUFFICES ASSUME NEW q \in Procs PROVE delta'[q] \in Nat
      OBVIOUS
    <3>1. CASE q # p /\ k < Len(sleep_list) /\ q = sleep_list[k + 1]
      <4>1. delta'[q] = delta[q] - m /\ delta[q] > m /\ delta[q] \in Nat
        BY <1>4, <1>6, <1>10, <3>1
      <4> QED BY <1>6, <4>1
    <3>2. CASE ~(q # p /\ k < Len(sleep_list) /\ q = sleep_list[k + 1])
      BY <1>4, <1>6, <1>10, <3>2
    <3> QED BY <3>1, <3>2
  <2> QED BY <1>7, <2>1
<1>12. SleepHeadPositive'
  <2>1. CASE k = 0
    BY <1>6, <1>7, <1>9, <1>10, <2>1 DEF SleepHeadPositive
  <2>2. CASE k > 0
    <3>1. /\ sleep_list # <<>> /\ Head(sleep_list) = sleep_list[1]
          /\ sleep_list[1] \in Procs /\ sleep_list[1] \in ToSet(sleep_list)
      BY <1>4, <1>5, <2>2, HeadSet, LenProperties
    <3>2. k < Len(sleep_list) => sleep_list[1] # sleep_list[k + 1]
      <4>a. DOMAIN sleep_list = 1 .. Len(sleep_list) /\ Len(sleep_list) \in Nat
        BY <1>4, LenProperties
      <4>b. k \in Nat /\ k <= Len(sleep_list)
        BY <1>5
      <4>1. /\ 1 \in DOMAIN sleep_list
            /\ k < Len(sleep_list) => k + 1 \in DOMAIN sleep_list
        BY <2>2, <4>a, <4>b
      <4> QED BY <1>4, <2>2, <4>1 DEF IsInjective
    <3>3. delta'[sleep_list[1]] = delta[sleep_list[1]]
      BY <1>5, <1>10, <3>1, <3>2
    <3>4. delta[sleep_list[1]] > 0
      BY <1>4, <3>1 DEF SleepHeadPositive
    <3>5. Head(sleep_list') = sleep_list[1]
      BY <1>7, <1>9, <2>2
    <3> QED BY <3>3, <3>4, <3>5 DEF SleepHeadPositive
  <2> QED BY <2>1, <2>2
<1>13. Joins(p, "SLEEPING")
  BY <1>1, <1>7, <1>8, NoProcIsNone DEF Joins
<1>14. /\ arg' \in [Procs -> [peer : Pids, len : Nat]]
       /\ \A q \in Procs \ {p} : arg'[q] = arg[q]
       /\ senders' \in [Procs -> Seq(Procs)] /\ receivers' \in [Procs -> Seq(Procs)]
       /\ \A q \in Procs : IsInjective(senders'[q]) /\ IsInjective(receivers'[q])
       /\ sleep_list' \in Seq(Procs) /\ IsInjective(sleep_list')
  BY <1>1, <1>4, <1>7, <1>8
<1> QED BY <1>1, <1>11, <1>12, <1>13, <1>14, CallerBlocks

-----------------------------------------------------------------------------
(* Creation. *)

\* The counter stays in its width when it steps over the pid handed out.
LEMMA NextPidType ==
  ASSUME NEW x \in Pids
  PROVE  (IF x = PidSpace - 1 THEN 0 ELSE x + 1) \in Pids
  BY PidAssumption, TableAssumption DEF Pids

\* A free slot is in no queue, and nobody waits on it.
LEMMA FreeSlot ==
  ASSUME IInv, NEW s \in Procs, state[s] = "STOPPED"
  PROVE  /\ s \notin ToSet(ready_queue) \cup ToSet(sleep_list)
         /\ s # run /\ s # Idle
         /\ \A q \in Procs : s \notin ToSet(senders[q]) \cup ToSet(receivers[q])
         /\ ToSet(senders[s]) = {} /\ ToSet(receivers[s]) = {}
<1>1. /\ s \notin ToSet(ready_queue) \cup ToSet(sleep_list)
      /\ s # run /\ s # Idle
  BY DEF IInv, InItsPlace, IdleAtHand
<1>2. \A q \in Procs : s \notin ToSet(senders[q]) \cup ToSet(receivers[q])
  BY DEF IInv, WaitsOnTarget, Sends, ReceivesFrom
<1>3. ToSet(senders[s]) = {} /\ ToSet(receivers[s]) = {}
  BY DEF IInv, WaitsOnTarget, IsPeer
<1> QED BY <1>1, <1>2, <1>3

\* create() takes a free slot, which is in no queue and in no entry of the map,
\* so that no process that waits on a peer is disturbed.
LEMMA CreateSafe ==
  ASSUME IInv, NEW p \in Procs, NEW s \in Procs, NEW x \in Pids, Create(p, s, x)
  PROVE  IInv'
<1> DEFINE w == <<s, p>>
<1>1. /\ Calls(p) /\ state[s] = "STOPPED" /\ Unused(x)
      /\ pid' = [pid EXCEPT ![s] = x]
      /\ parentPid' = [parentPid EXCEPT ![s] = pid[p]]
      /\ pidMap' = pidMapInsert(x, s)
      /\ senders' = [senders EXCEPT ![s] = <<>>]
      /\ receivers' = [receivers EXCEPT ![s] = <<>>]
      /\ delta' = [delta EXCEPT ![s] = 0]
      /\ irc' = [irc EXCEPT ![s] = 0, ![p] = x]
      /\ heap' = heap + 2
      /\ Resume(state, w)
      /\ arg' = arg /\ sleep_list' = sleep_list /\ halted' = halted
  BY DEF Create, FirstFree, FreshPid
<1>2. nextPid' \in Pids
  BY NextPidType DEF Create
<1>3. /\ p = run /\ p # Idle /\ state[p] = "RUNNING" /\ p \notin ToSet(ready_queue)
      /\ \A q \in Procs : p \notin ToSet(senders[q]) \cup ToSet(receivers[q])
  BY <1>1, CallerInNoQueue
<1>4. /\ s \notin ToSet(ready_queue) \cup ToSet(sleep_list) /\ s # run
      /\ \A q \in Procs : s \notin ToSet(senders[q]) \cup ToSet(receivers[q])
      /\ ToSet(senders[s]) = {} /\ ToSet(receivers[s]) = {}
  BY <1>1, FreeSlot
<1>5. /\ w \in Seq(Procs) /\ IsInjective(w) /\ ToSet(w) = {s, p}
      /\ <<>> \in Seq(Procs) /\ IsInjective(<<>>) /\ ToSet(<<>>) = {}
  BY <1>3, <1>4, ShortQueues
<1> HIDE DEF w
<1>6. /\ ready_queue \in Seq(Procs) /\ state \in [Procs -> States]
      /\ \A q \in ToSet(ready_queue) : q \in Procs /\ state[q] = "READY"
      /\ \A q \in Procs : state[q] = "READY" => q \in ToSet(ready_queue)
      /\ \A q \in Procs : (q = run) <=> (state[q] = "RUNNING")
  BY PlaceFacts
<1>7. /\ run' \in Procs \cup {NoProc}
      /\ ready_queue' \in Seq(Procs) /\ IsInjective(ready_queue')
      /\ state' \in [Procs -> States]
      /\ \A q \in Procs :
           /\ (q \in ToSet(ready_queue')) <=> (state'[q] = "READY")
           /\ (q = run') <=> (state'[q] = "RUNNING")
           /\ IF q \in ToSet(ready_queue) \cup ToSet(w)
              THEN state'[q] \in {"READY", "RUNNING"}
              ELSE state'[q] = state[q]
  <2>1. /\ ToSet(w) \cap ToSet(ready_queue) = {}
        /\ run \in Procs /\ run \in ToSet(w)
    BY <1>3, <1>4, <1>5
  <2> QED BY <1>1, <1>5, <1>6, <2>1, ResumeInPlace
<1>8. \A q \in Procs :
        IF q \in {s, p} \/ state[q] = "READY"
        THEN state'[q] \in {"READY", "RUNNING"} ELSE state'[q] = state[q]
  BY <1>5, <1>6, <1>7
<1>9. /\ pid \in [Procs -> Pids] /\ parentPid \in [Procs -> Pids]
      /\ irc \in [Procs -> Int] /\ delta \in [Procs -> Nat] /\ heap \in Int
      /\ senders \in [Procs -> Seq(Procs)] /\ receivers \in [Procs -> Seq(Procs)]
      /\ arg \in [Procs -> [peer : Pids, len : Nat]] /\ sleep_list \in Seq(Procs)
      /\ x \in Int /\ halted \in BOOLEAN
  <2>1. x \in Int
    BY PidAssumption DEF Pids
  <2> QED BY <2>1 DEF IInv, TypeOK
<1>10. /\ pid' \in [Procs -> Pids] /\ parentPid' \in [Procs -> Pids]
       /\ irc' \in [Procs -> Int] /\ delta' \in [Procs -> Nat] /\ heap' \in Int
       /\ senders' \in [Procs -> Seq(Procs)] /\ receivers' \in [Procs -> Seq(Procs)]
  <2>1. pid' \in [Procs -> Pids] /\ parentPid' \in [Procs -> Pids]
    BY <1>1, <1>9
  <2>2. irc' \in [Procs -> Int] /\ heap' \in Int
    <3>1. irc' = [irc EXCEPT ![s] = 0, ![p] = x] /\ heap' = heap + 2
      BY <1>1
    <3>2. irc \in [Procs -> Int] /\ x \in Int /\ heap \in Int
      BY <1>9
    <3>3. heap' \in Int
      BY <3>1, <3>2
    <3>4. irc' \in [Procs -> Int]
      BY <3>1, <3>2
    <3> QED BY <3>3, <3>4
  <2>3. delta' \in [Procs -> Nat]
    BY <1>1, <1>9
  <2>4. senders' \in [Procs -> Seq(Procs)] /\ receivers' \in [Procs -> Seq(Procs)]
    BY <1>1, <1>9, ShortQueues
  <2> QED BY <2>1, <2>2, <2>3, <2>4
<1>11. MapInv' /\ Entries(pidMap') \subseteq Pids \X Procs
  <2>1. Living' = Living \cup {s}
    BY <1>1, <1>3, <1>8 DEF Living
  <2> QED BY <1>1, <2>1, CreateMap DEF IInv
<1>12. TypeOK'
  <2>1. nextPid' \in Pids /\ halted' \in BOOLEAN
    BY <1>1, <1>2, <1>9
  <2>2. arg' \in [Procs -> [peer : Pids, len : Nat]] /\ sleep_list' \in Seq(Procs)
    BY <1>1, <1>9
  <2> QED BY <1>7, <1>10, <1>11, <2>1, <2>2 DEF TypeOK
<1>13. /\ \A q \in Procs : senders'[q] = IF q = s THEN <<>> ELSE senders[q]
       /\ \A q \in Procs : receivers'[q] = IF q = s THEN <<>> ELSE receivers[q]
       /\ \A q \in Procs : pid'[q] = IF q = s THEN x ELSE pid[q]
       /\ \A q \in Procs : delta'[q] = IF q = s THEN 0 ELSE delta[q]
  BY <1>1, <1>9
<1>14. NoDuplicates'
  BY <1>1, <1>5, <1>7, <1>13 DEF IInv, NoDuplicates
<1>15. InItsPlace'
  <2>1. \A q \in Procs : (q \in ToSet(sleep_list)) <=> (state[q] = "SLEEPING")
    BY DEF IInv, InItsPlace
  <2>2. \A q \in Procs : (q \in ToSet(sleep_list')) <=> (state'[q] = "SLEEPING")
    BY <1>1, <1>3, <1>8, <2>1
  <2> QED BY <1>7, <2>2 DEF InItsPlace
<1>16. WaitsOnTarget'
  <2>1. /\ WaitsOnTarget /\ {} \in SUBSET Procs
        /\ \A q \in Procs : ToSet(senders[q]) \subseteq Procs
                            /\ ToSet(receivers[q]) \subseteq Procs
    BY WaitFacts DEF IInv
  <2>2. \A a \in Procs \ {} :
          /\ (state'[a] = "SENDING") <=> (state[a] = "SENDING")
          /\ (state'[a] = "RECEIVING") <=> (state[a] = "RECEIVING")
          /\ arg'[a] = arg[a]
    BY <1>1, <1>3, <1>8
  <2>3. \A q \in Procs : /\ ToSet(senders'[q]) = ToSet(senders[q]) \ {}
                         /\ ToSet(receivers'[q]) = ToSet(receivers[q]) \ {}
    BY <1>4, <1>5, <1>13
  <2>4. \A q \in Procs : state[q] # "STOPPED" => state'[q] # "STOPPED" /\ pid'[q] = pid[q]
    BY <1>1, <1>8, <1>13
  <2> QED BY <2>1, <2>2, <2>3, <2>4, WaitsKept
<1>17. SleepHeadPositive'
  <2>1. sleep_list # <<>> => Head(sleep_list) \in ToSet(sleep_list)
                             /\ Head(sleep_list) \in Procs
    BY <1>9, HeadSet DEF IInv, NoDuplicates
  <2> QED BY <1>1, <1>4, <1>13, <2>1 DEF IInv, SleepHeadPositive
<1>18. IdleAtHand'
  BY <1>6, <1>8, NoProcIsNone DEF IInv, IdleAtHand
<1> QED BY <1>11, <1>12, <1>14, <1>15, <1>16, <1>17, <1>18 DEF IInv

\* abort() leaves a slot with a new pid that is neither live nor in the map, and
\* a stack that belongs to nobody.
LEMMA CreateAbortsSafe ==
  ASSUME IInv, NEW p \in Procs, NEW s \in Procs, NEW x \in Pids,
         CreateAborts(p, s, x)
  PROVE  IInv'
<1>1. /\ state[s] = "STOPPED"
      /\ pid' = [pid EXCEPT ![s] = x]
      /\ parentPid' = [parentPid EXCEPT ![s] = pid[p]]
      /\ heap' = heap + 1 /\ halted' = TRUE
      /\ UNCHANGED <<state, irc, ready_queue, run, pidMap, arg, senders,
                     receivers, sleep_list, delta>>
  BY DEF CreateAborts, FirstFree, ipcVars, sleepVars
<1>2. nextPid' \in Pids
  BY NextPidType DEF CreateAborts
<1>3. /\ pid \in [Procs -> Pids] /\ parentPid \in [Procs -> Pids] /\ heap \in Int
      /\ Entries(pidMap) \subseteq Pids \X Procs
  BY DEF IInv, TypeOK
<1>4. pid' \in [Procs -> Pids] /\ parentPid' \in [Procs -> Pids] /\ heap' \in Int
  BY <1>1, <1>3
<1>5. TypeOK'
  BY <1>1, <1>2, <1>4 DEF IInv, TypeOK
<1>6. \A q \in Procs : state[q] # "STOPPED" => pid'[q] = pid[q]
  BY <1>1, <1>3
<1>7. MapInv'
  <2>1. Living' = Living /\ \A q \in Living : pid'[q] = pid[q]
    BY <1>1, <1>6 DEF Living
  <2> QED BY <1>1, <2>1, MapKept DEF IInv
<1>8. WaitsOnTarget'
  BY <1>1, <1>6 DEF IInv, WaitsOnTarget, Sends, ReceivesFrom, IsPeer
<1>9. NoDuplicates' /\ InItsPlace' /\ SleepHeadPositive' /\ IdleAtHand'
  BY <1>1 DEF IInv, NoDuplicates, InItsPlace, SleepHeadPositive, IdleAtHand
<1> QED BY <1>5, <1>7, <1>8, <1>9 DEF IInv

-----------------------------------------------------------------------------
(* Clean-up. *)

\* cleanup() empties the queues of the caller and readies everybody in them:
\* these are all the processes that wait on it.
LEMMA StopSafe ==
  ASSUME IInv, NEW p \in Procs, Stop(p)
  PROVE  IInv'
<1> DEFINE w == Waiting(p)
           st == [state EXCEPT ![p] = "STOPPED"]
<1>1. /\ Calls(p)
      /\ irc' = [q \in Procs |-> IF q \in ToSet(w) THEN SYS_SR_NO_PID ELSE irc[q]]
      /\ senders' = [senders EXCEPT ![p] = <<>>]
      /\ receivers' = [receivers EXCEPT ![p] = <<>>]
      /\ pidMap' = pidMapDelete(pid[p])
      /\ heap' = heap - 1 - NodesFreed(pid[p])
      /\ Resume(st, w)
      /\ pid' = pid /\ parentPid' = parentPid /\ nextPid' = nextPid
      /\ halted' = halted /\ arg' = arg
      /\ sleep_list' = sleep_list /\ delta' = delta
  BY DEF Stop, sleepVars
<1>2. /\ p = run /\ p # Idle /\ state[p] = "RUNNING" /\ p \notin ToSet(ready_queue)
      /\ \A q \in Procs : p \notin ToSet(senders[q]) \cup ToSet(receivers[q])
  BY <1>1, CallerInNoQueue
<1>3. /\ senders \in [Procs -> Seq(Procs)] /\ receivers \in [Procs -> Seq(Procs)]
      /\ \A q \in Procs : IsInjective(senders[q]) /\ IsInjective(receivers[q])
      /\ \A q \in Procs : \A a \in ToSet(senders[q]) :
           /\ a \in Procs /\ state[a] = "SENDING"
           /\ \A t \in Procs : a \notin ToSet(receivers[t])
                               /\ (a \in ToSet(senders[t]) => t = q)
      /\ \A q \in Procs : \A a \in ToSet(receivers[q]) :
           /\ a \in Procs /\ state[a] = "RECEIVING" /\ arg[a].peer # 0
           /\ \A t \in Procs : a \notin ToSet(senders[t])
                               /\ (a \in ToSet(receivers[t]) => t = q)
  BY WaitFacts
<1>4. /\ w \in Seq(Procs) /\ IsInjective(w)
      /\ ToSet(w) = ToSet(senders[p]) \cup ToSet(receivers[p])
  <2>1. /\ senders[p] \in Seq(Procs) /\ receivers[p] \in Seq(Procs)
        /\ IsInjective(senders[p]) /\ IsInjective(receivers[p])
        /\ ToSet(senders[p]) \cap ToSet(receivers[p]) = {}
    BY <1>3
  <2> QED BY <2>1, ConcatSet DEF Waiting
<1> HIDE DEF w
<1>5. /\ p \notin ToSet(w)
      /\ \A a \in ToSet(w) : a \in Procs /\ state[a] \in {"SENDING", "RECEIVING"}
  BY <1>2, <1>3, <1>4
<1>6. /\ ready_queue \in Seq(Procs) /\ state \in [Procs -> States]
      /\ \A q \in ToSet(ready_queue) : q \in Procs /\ state[q] = "READY"
      /\ \A q \in Procs : state[q] = "READY" => q \in ToSet(ready_queue)
      /\ \A q \in Procs : (q = run) <=> (state[q] = "RUNNING")
  BY PlaceFacts
<1>7. st \in [Procs -> States]
        /\ \A q \in Procs : st[q] = IF q = p THEN "STOPPED" ELSE state[q]
  BY <1>6 DEF States
<1> HIDE DEF st, IInv
<1>8. /\ run' \in Procs \cup {NoProc}
      /\ ready_queue' \in Seq(Procs) /\ IsInjective(ready_queue')
      /\ state' \in [Procs -> States]
      /\ \A q \in Procs :
           /\ (q \in ToSet(ready_queue')) <=> (state'[q] = "READY")
           /\ (q = run') <=> (state'[q] = "RUNNING")
           /\ IF q \in ToSet(ready_queue) \cup ToSet(w)
              THEN state'[q] \in {"READY", "RUNNING"}
              ELSE state'[q] = st[q]
  <2>1. /\ ToSet(w) \cap ToSet(ready_queue) = {} /\ run \in Procs
        /\ \A q \in Procs : q \notin ToSet(w) /\ q # run => st[q] = state[q]
        /\ run \in ToSet(w) \/ st[run] \notin {"READY", "RUNNING"}
    BY <1>2, <1>5, <1>6, <1>7
  <2>2. Resume(st, w)
    BY <1>1
  <2> QED BY <1>4, <1>7, <2>1, <2>2, ResumeInPlace
<1>9. /\ state'[p] = "STOPPED"
      /\ \A q \in Procs \ {p} :
           IF q \in ToSet(w) \/ state[q] = "READY"
           THEN state'[q] \in {"READY", "RUNNING"} ELSE state'[q] = state[q]
  BY <1>2, <1>5, <1>6, <1>7, <1>8
<1>10. /\ pid \in [Procs -> Pids] /\ parentPid \in [Procs -> Pids]
       /\ irc \in [Procs -> Int] /\ Entries(pidMap) \subseteq Pids \X Procs
       /\ delta \in [Procs -> Nat] /\ heap \in Int /\ nextPid \in Pids
       /\ arg \in [Procs -> [peer : Pids, len : Nat]] /\ sleep_list \in Seq(Procs)
       /\ halted \in BOOLEAN
  BY DEF IInv, TypeOK
<1>11. MapInv' /\ Entries(pidMap') \subseteq Entries(pidMap)
  <2>1. p \in Living /\ Living' = Living \ {p}
    BY <1>2, <1>5, <1>9 DEF Living
  <2> QED BY <1>1, <2>1, StopMap DEF IInv
<1>12. TypeOK'
  <2>1. irc' \in [Procs -> Int]
    BY <1>1, <1>10 DEF SYS_SR_NO_PID
  <2>2. senders' \in [Procs -> Seq(Procs)] /\ receivers' \in [Procs -> Seq(Procs)]
    BY <1>1, <1>3, ShortQueues
  <2>3. heap' \in Int
    BY <1>1, <1>10 DEF NodesFreed
  <2>4. /\ pid' \in [Procs -> Pids] /\ parentPid' \in [Procs -> Pids]
        /\ nextPid' \in Pids /\ halted' \in BOOLEAN
        /\ arg' \in [Procs -> [peer : Pids, len : Nat]]
        /\ sleep_list' \in Seq(Procs) /\ delta' \in [Procs -> Nat]
    BY <1>1, <1>10
  <2>5. Entries(pidMap') \subseteq Pids \X Procs
    BY <1>10, <1>11
  <2> QED BY <1>8, <2>1, <2>2, <2>3, <2>4, <2>5 DEF TypeOK
<1>13. /\ \A q \in Procs : senders'[q] = IF q = p THEN <<>> ELSE senders[q]
       /\ \A q \in Procs : receivers'[q] = IF q = p THEN <<>> ELSE receivers[q]
       /\ ToSet(<<>>) = {} /\ IsInjective(<<>>)
  BY <1>1, <1>3, ShortQueues
<1>14. NoDuplicates'
  BY <1>1, <1>3, <1>8, <1>13 DEF IInv, NoDuplicates
<1>15. InItsPlace'
  <2>1. \A q \in Procs : (q \in ToSet(sleep_list)) <=> (state[q] = "SLEEPING")
    BY DEF IInv, InItsPlace
  <2>2. \A q \in Procs : (q \in ToSet(sleep_list')) <=> (state'[q] = "SLEEPING")
    BY <1>1, <1>2, <1>5, <1>9, <2>1
  <2> QED BY <1>8, <2>2 DEF InItsPlace
<1>16. WaitsOnTarget'
  <2> DEFINE W == ToSet(w)
  <2>1. /\ WaitsOnTarget /\ W \in SUBSET Procs
        /\ \A q \in Procs : ToSet(senders[q]) \subseteq Procs
                            /\ ToSet(receivers[q]) \subseteq Procs
    BY <1>3, <1>5 DEF IInv
  <2>2. /\ \A a \in W : state'[a] \notin {"SENDING", "RECEIVING"}
        /\ \A a \in Procs \ W :
             /\ (state'[a] = "SENDING") <=> (state[a] = "SENDING")
             /\ (state'[a] = "RECEIVING") <=> (state[a] = "RECEIVING")
             /\ arg'[a] = arg[a]
    BY <1>1, <1>2, <1>5, <1>9
  <2>3. \A q \in Procs : /\ ToSet(senders'[q]) = ToSet(senders[q]) \ W
                         /\ ToSet(receivers'[q]) = ToSet(receivers[q]) \ W
    <3> SUFFICES ASSUME NEW q \in Procs
                 PROVE  /\ ToSet(senders'[q]) = ToSet(senders[q]) \ W
                        /\ ToSet(receivers'[q]) = ToSet(receivers[q]) \ W
      OBVIOUS
    <3>1. CASE q = p
      BY <1>4, <1>13, <3>1
    <3>2. CASE q # p
      <4>1. senders'[q] = senders[q] /\ receivers'[q] = receivers[q]
        BY <1>13, <3>2
      <4>2. \A a \in W : a \notin ToSet(senders[q]) \cup ToSet(receivers[q])
        BY <1>3, <1>4, <3>2
      <4> QED BY <4>1, <4>2
    <3> QED BY <3>1, <3>2
  <2>4. \A q \in Procs :
          (ToSet(senders[q]) \cup ToSet(receivers[q])) \ W # {} /\ state[q] # "STOPPED"
            => state'[q] # "STOPPED" /\ pid'[q] = pid[q]
    BY <1>1, <1>4, <1>9
  <2> QED BY <2>1, <2>2, <2>3, <2>4, WaitsKept
<1>17. SleepHeadPositive'
  BY <1>1 DEF IInv, SleepHeadPositive
<1>18. IdleAtHand'
  BY <1>2, <1>6, <1>9, NoProcIsNone DEF IInv, IdleAtHand
<1> QED BY <1>11, <1>12, <1>14, <1>15, <1>16, <1>17, <1>18 DEF IInv

-----------------------------------------------------------------------------
(* The timer. *)

\* tick() never takes the head below 0, because the head had a slice to wait,
\* and stops at a sleeper that still has one.
LEMMA TimerSafe ==
  ASSUME IInv, NEW eax \in Eax, Timer(eax)
  PROVE  IInv'
<1>1. /\ run \in Procs /\ halted = FALSE /\ delta' = Ticked
      /\ UNCHANGED <<pid, parentPid, pidMap, nextPid, heap, halted>>
      /\ UNCHANGED <<arg, senders, receivers>>
  <2>1. run # NoProc /\ ~halted /\ run \in Procs \cup {NoProc} /\ halted \in BOOLEAN
    BY DEF Timer, IInv, TypeOK
  <2> QED BY <2>1 DEF Timer, procVars, ipcVars
<1>2. PICK k \in 0 .. Len(sleep_list) :
        /\ WakesFirst(k)
        /\ sleep_list' = SubSeq(sleep_list, k + 1, Len(sleep_list))
        /\ irc' = [p \in Procs |-> IF p \in ToSet(SubSeq(sleep_list, 1, k)) THEN 0
                                   ELSE IF p = run THEN eax ELSE irc[p]]
        /\ Resume(state, Append(SubSeq(sleep_list, 1, k), run))
  BY DEF Timer
<1> DEFINE u == SubSeq(sleep_list, 1, k)
           v == SubSeq(sleep_list, k + 1, Len(sleep_list))
           w == Append(u, run)
<1>3. /\ sleep_list \in Seq(Procs) /\ IsInjective(sleep_list)
      /\ delta \in [Procs -> Nat] /\ irc \in [Procs -> Int]
      /\ SleepHeadPositive
  BY DEF IInv, TypeOK, NoDuplicates
<1>4. /\ u \in Seq(Procs) /\ v \in Seq(Procs) /\ IsInjective(u) /\ IsInjective(v)
      /\ ToSet(v) = ToSet(sleep_list) \ ToSet(u)
      /\ ToSet(u) \subseteq ToSet(sleep_list)
  BY <1>3, SplitSet
<1>5. v # <<>> => k < Len(sleep_list) /\ Head(v) = sleep_list[k + 1]
  BY <1>3, SplitHead
<1>6. /\ WakesFirst(k) /\ sleep_list' = v
      /\ irc' = [p \in Procs |-> IF p \in ToSet(u) THEN 0
                                 ELSE IF p = run THEN eax ELSE irc[p]]
      /\ Resume(state, w)
  BY <1>2
<1> HIDE DEF u, v
<1>7. /\ ready_queue \in Seq(Procs) /\ state \in [Procs -> States]
      /\ \A q \in ToSet(ready_queue) : q \in Procs /\ state[q] = "READY"
      /\ \A q \in Procs : state[q] = "READY" => q \in ToSet(ready_queue)
      /\ \A q \in Procs : (q = run) <=> (state[q] = "RUNNING")
  BY PlaceFacts
<1>8. \A q \in Procs : (q \in ToSet(sleep_list)) <=> (state[q] = "SLEEPING")
  BY DEF IInv, InItsPlace
<1>9. ToSet(u) \subseteq Procs /\ run \notin ToSet(u)
  BY <1>1, <1>4, <1>7, <1>8, MemberSet
<1>10. w \in Seq(Procs) /\ IsInjective(w) /\ ToSet(w) = ToSet(u) \cup {run}
  BY <1>1, <1>4, <1>9, AppendSet
<1> HIDE DEF w, IInv
<1>11. /\ run' \in Procs \cup {NoProc}
       /\ ready_queue' \in Seq(Procs) /\ IsInjective(ready_queue')
       /\ state' \in [Procs -> States]
       /\ \A q \in Procs :
            /\ (q \in ToSet(ready_queue')) <=> (state'[q] = "READY")
            /\ (q = run') <=> (state'[q] = "RUNNING")
            /\ IF q \in ToSet(ready_queue) \cup ToSet(w)
               THEN state'[q] \in {"READY", "RUNNING"}
               ELSE state'[q] = state[q]
  <2>1. ToSet(w) \cap ToSet(ready_queue) = {} /\ run \in ToSet(w)
    BY <1>1, <1>4, <1>7, <1>8, <1>10
  <2> QED BY <1>1, <1>6, <1>7, <1>10, <2>1, ResumeInPlace
<1>12. \A q \in Procs :
         IF q \in ToSet(u) \/ q = run \/ state[q] = "READY"
         THEN state'[q] \in {"READY", "RUNNING"} ELSE state'[q] = state[q]
  BY <1>7, <1>10, <1>11
<1>13. Ticked \in [Procs -> Nat]
  <2>1. CASE sleep_list = <<>>
    BY <1>3, <2>1 DEF Ticked
  <2>2. CASE sleep_list # <<>>
    <3>1. Head(sleep_list) \in Procs /\ delta[Head(sleep_list)] > 0
      BY <1>3, <2>2, HeadSet DEF SleepHeadPositive
    <3> QED BY <1>3, <2>2, <3>1 DEF Ticked
  <2> QED BY <2>1, <2>2
<1>14. TypeOK'
  <2>1. irc' \in [Procs -> Int]
    BY <1>3, <1>6, InputAssumption
  <2> QED BY <1>1, <1>4, <1>6, <1>11, <1>13, <2>1 DEF IInv, TypeOK
<1>15. NoDuplicates'
  BY <1>1, <1>4, <1>6, <1>11 DEF IInv, NoDuplicates
<1>16. InItsPlace'
  <2>1. \A q \in Procs : (q \in ToSet(sleep_list')) <=> (state'[q] = "SLEEPING")
    BY <1>4, <1>6, <1>7, <1>8, <1>12
  <2> QED BY <1>11, <2>1 DEF InItsPlace
<1>17. /\ \A q \in Procs :
            /\ (state'[q] = "SENDING") <=> (state[q] = "SENDING")
            /\ (state'[q] = "RECEIVING") <=> (state[q] = "RECEIVING")
       /\ \A q \in Procs : (state'[q] = "STOPPED") <=> (state[q] = "STOPPED")
  BY <1>1, <1>4, <1>7, <1>8, <1>9, <1>12
<1>18. WaitsOnTarget' /\ MapInv'
  <2>1. WaitsOnTarget'
    <3>1. /\ WaitsOnTarget /\ {} \in SUBSET Procs
          /\ \A q \in Procs : ToSet(senders[q]) \subseteq Procs
                              /\ ToSet(receivers[q]) \subseteq Procs
      BY WaitFacts DEF IInv
    <3>2. /\ senders' = senders /\ receivers' = receivers /\ arg' = arg
          /\ pid' = pid
      BY <1>1
    <3>3. /\ \A a \in {} : state'[a] \notin {"SENDING", "RECEIVING"}
          /\ \A a \in Procs \ {} :
               /\ (state'[a] = "SENDING") <=> (state[a] = "SENDING")
               /\ (state'[a] = "RECEIVING") <=> (state[a] = "RECEIVING")
               /\ arg'[a] = arg[a]
      BY <1>17, <3>2
    <3>4. \A q \in Procs : /\ ToSet(senders'[q]) = ToSet(senders[q]) \ {}
                           /\ ToSet(receivers'[q]) = ToSet(receivers[q]) \ {}
      BY <3>2
    <3>5. \A q \in Procs :
            state[q] # "STOPPED" => state'[q] # "STOPPED" /\ pid'[q] = pid[q]
      BY <1>17, <3>2
    <3> QED BY <3>1, <3>3, <3>4, <3>5, WaitsKept
  <2>2. Living' = Living
    BY <1>17 DEF Living
  <2> QED BY <1>1, <2>1, <2>2, MapKept DEF IInv
<1>19. SleepHeadPositive'
  <2> SUFFICES ASSUME v # <<>> PROVE Ticked[Head(v)] > 0
    BY <1>1, <1>6 DEF SleepHeadPositive
  <2>1. Ticked[Head(v)] # 0
    BY <1>5, <1>6 DEF WakesFirst
  <2>2. Head(v) \in Procs
    BY <1>4, HeadSet
  <2> QED BY <1>13, <2>1, <2>2
<1>20. IdleAtHand'
  BY <1>1, <1>7, <1>12, NoProcIsNone DEF IInv, IdleAtHand
<1> QED BY <1>14, <1>15, <1>16, <1>18, <1>19, <1>20 DEF IInv

-----------------------------------------------------------------------------
(* The theorems. *)

\* initproc() leaves root on the CPU and idle in the ready queue.
LEMMA InitSafe == Init => IInv
<1> SUFFICES ASSUME Init PROVE IInv
  OBVIOUS
<1>0. /\ Root \in Procs /\ Idle \in Procs /\ Root # Idle /\ NoProc \notin Procs
      /\ {0, 1, 2, 3} \subseteq Pids /\ Root # NoProc /\ Idle # NoProc
  BY TableAssumption, PidAssumption DEF Pids, Procs, Root, Idle, NoProc
<1>1. /\ <<>> \in Seq(Procs) /\ IsInjective(<<>>) /\ ToSet(<<>>) = {}
      /\ <<Idle>> \in Seq(Procs) /\ IsInjective(<<Idle>>) /\ ToSet(<<Idle>>) = {Idle}
  BY <1>0, ShortQueues
<1>2. /\ state \in [Procs -> States]
      /\ \A p \in Procs : state[p] = CASE p = Root -> "RUNNING"
                                       [] p = Idle -> "READY"
                                       [] OTHER -> "STOPPED"
  BY DEF Init, States
<1>3. /\ pid \in [Procs -> Pids] /\ pid[Root] = 1 /\ pid[Idle] = 2
      /\ Living = {Root, Idle}
  BY <1>0, <1>2 DEF Init, Living
<1> DEFINE E == {<<1, 0>>} \cup {<<2, 1>>}
<1>4. IsMap(pidMap, E) /\ Entries(pidMap) = E
  BY FirstTwo DEF Init, IsMap, Root, Idle
<1>5. MapInv
  <2>1. Owned = E
    BY <1>3 DEF Owned, Root, Idle
  <2>2. Cardinality(E) = 2 /\ Cardinality(Living) = 2
    <3>1. /\ IsFiniteSet({<<1, 0>>}) /\ Cardinality({<<1, 0>>}) = 1
          /\ IsFiniteSet({Root}) /\ Cardinality({Root}) = 1
      BY FS_Singleton
    <3>2. <<2, 1>> \notin {<<1, 0>>} /\ Idle \notin {Root}
      BY <1>0
    <3>3. Cardinality(E) = 1 + 1 /\ Cardinality({Root} \cup {Idle}) = 1 + 1
      BY <3>1, <3>2, FS_AddElement
    <3>4. Living = {Root} \cup {Idle}
      BY <1>3
    <3> QED BY <3>3, <3>4
  <2>3. Held = 4 /\ heap = 4
    <3>1. Cardinality(Entries(pidMap)) = 2
      BY <1>4, <2>2
    <3> HIDE DEF E
    <3> QED BY <2>2, <3>1 DEF Held, Init
  <2>4. \A p \in Living : pid[p] # 0
    BY <1>3
  <2> HIDE DEF E
  <2> QED BY <1>4, <2>1, <2>3, <2>4 DEF MapInv
<1>6. TypeOK
  <2>1. arg \in [Procs -> [peer : Pids, len : Nat]]
    <3>1. [peer |-> 0, len |-> 0] \in [peer : Pids, len : Nat]
      BY <1>0
    <3> QED BY <3>1 DEF Init
  <2>2. /\ parentPid \in [Procs -> Pids] /\ irc \in [Procs -> Int]
        /\ senders \in [Procs -> Seq(Procs)] /\ receivers \in [Procs -> Seq(Procs)]
        /\ delta \in [Procs -> Nat] /\ nextPid \in Pids
    BY <1>0, <1>1 DEF Init
  <2>3. ready_queue \in Seq(Procs) /\ sleep_list \in Seq(Procs)
    BY <1>1 DEF Init
  <2>4. run = Root /\ heap = 4 /\ halted \in BOOLEAN
    BY DEF Init
  <2>5. run \in Procs \cup {NoProc} /\ heap \in Int
    BY <1>0, <2>4
  <2>6. Entries(pidMap) \subseteq Pids \X Procs
    BY <1>0, <1>4 DEF Root, Idle
  <2> QED BY <1>2, <1>3, <2>1, <2>2, <2>3, <2>4, <2>5, <2>6 DEF TypeOK
<1>7. NoDuplicates
  BY <1>1 DEF Init, NoDuplicates
<1>8. InItsPlace
  BY <1>0, <1>1, <1>2 DEF Init, InItsPlace
<1>9. WaitsOnTarget
  <2>1. \A p \in Procs : state[p] # "SENDING" /\ state[p] # "RECEIVING"
    BY <1>2
  <2>2. \A q \in Procs : ToSet(senders[q]) = {} /\ ToSet(receivers[q]) = {}
    BY <1>1 DEF Init
  <2> QED BY <2>1, <2>2 DEF WaitsOnTarget, Sends, ReceivesFrom
<1>10. SleepHeadPositive /\ IdleAtHand
  BY <1>0, <1>2 DEF Init, SleepHeadPositive, IdleAtHand
<1> QED BY <1>5, <1>6, <1>7, <1>8, <1>9, <1>10 DEF IInv

\* No step of the kernel breaks the inductive invariant.
LEMMA NextSafe == IInv /\ [Next]_vars => IInv'
<1> SUFFICES ASSUME IInv, [Next]_vars PROVE IInv'
  OBVIOUS
<1>1. CASE UNCHANGED vars
  <2>1. /\ UNCHANGED <<state, pid, parentPid, irc, arg, ready_queue, senders, receivers>>
        /\ UNCHANGED <<sleep_list, delta, run, pidMap, nextPid, heap, halted>>
    BY <1>1 DEF vars, procVars, ipcVars, sleepVars
  <2>2. TypeOK'
    BY <2>1 DEF IInv, TypeOK
  <2>3. NoDuplicates' /\ InItsPlace'
    BY <2>1 DEF IInv, NoDuplicates, InItsPlace
  <2>4. WaitsOnTarget'
    BY <2>1 DEF IInv, WaitsOnTarget, Sends, ReceivesFrom, IsPeer
  <2>5. MapInv'
    BY <2>1 DEF IInv, MapInv, Living, Held, Owned
  <2>6. SleepHeadPositive' /\ IdleAtHand'
    BY <2>1 DEF IInv, SleepHeadPositive, IdleAtHand
  <2> QED BY <2>2, <2>3, <2>4, <2>5, <2>6 DEF IInv
<1>2. ASSUME NEW p \in Procs, Lifecycle(p) PROVE IInv'
  BY <1>2, CreateSafe, CreateAbortsSafe, ReturnsAtOnce, StopSafe DEF Lifecycle
<1>3. ASSUME NEW p \in Procs, Messaging(p) PROVE IInv'
  <2>1. 0 \in Pids
    BY TableAssumption, PidAssumption DEF Pids
  <2> QED BY <1>3, <2>1, ReturnsAtOnce, ExchangeReturns, SendBlocksSafe,
             RecvFromBlocksSafe, RecvAnyBlocksSafe DEF Messaging
<1>4. ASSUME NEW p \in Procs, Sleeping(p) PROVE IInv'
  BY <1>4, SleepSafe, ReturnsAtOnce DEF Sleeping
<1>5. ASSUME NEW eax \in Eax, Timer(eax) PROVE IInv'
  BY <1>5, TimerSafe
<1>6. CASE Spin
  BY <1>1, <1>6 DEF Spin
<1> QED BY <1>1, <1>2, <1>3, <1>4, <1>5, <1>6 DEF Next

\* Whenever a process has called, idle is in the ready queue.
LEMMA SomebodyChosen ==
  ASSUME IInv, NEW p \in Procs, Calls(p), NEW st, NEW woken \in Seq(Procs),
         Resume(st, woken)
  PROVE  run' \in Procs
<1> DEFINE q == ready_queue \o woken
<1>1. ready_queue \in Seq(Procs) /\ Idle \in ToSet(ready_queue)
  BY CallerInNoQueue, PlaceFacts, NoProcIsNone DEF IInv, IdleAtHand
<1>2. q \in Seq(Procs) /\ Idle \in ToSet(q)
  BY <1>1, ConcatSet
<1>3. run' = Chosen(q)
  BY DEF Resume, Queued
<1> HIDE DEF q
<1>4. Len(q) \in Nat /\ 1 \in 1 .. Len(q) /\ q # <<>>
  BY <1>2, MemberSet
<1>5. Head(q) = q[1] /\ q[1] \in Procs /\ (Len(q) > 1 => q[2] \in Procs)
  BY <1>2, <1>4
<1> QED BY <1>3, <1>4, <1>5 DEF Chosen

\* Every step ends with a process on the CPU.
LEMMA SomebodyRuns ==
  ASSUME IInv, run # NoProc, Next
  PROVE  run' # NoProc
<1>1. /\ senders \in [Procs -> Seq(Procs)] /\ receivers \in [Procs -> Seq(Procs)]
      /\ \A q \in Procs : \A a \in ToSet(senders[q]) \cup ToSet(receivers[q]) :
           a \in Procs
  BY WaitFacts
<1>2. \A p, q \in Procs : /\ <<>> \in Seq(Procs) /\ <<p>> \in Seq(Procs)
                          /\ <<p, q>> \in Seq(Procs)
  OBVIOUS
<1>3. \A p \in Procs : \A st : \A woken \in Seq(Procs) :
        Calls(p) /\ Resume(st, woken) => run' # NoProc
  BY SomebodyChosen, NoProcIsNone
<1> HIDE DEF IInv
<1>4. ASSUME NEW p \in Procs, Lifecycle(p) PROVE run' # NoProc
  <2>1. CASE \E s \in Procs, x \in Pids : Create(p, s, x)
    BY <1>2, <1>3, <2>1 DEF Create
  <2>2. CASE \E s \in Procs, x \in Pids : CreateAborts(p, s, x)
    BY <2>2 DEF CreateAborts
  <2>3. CASE Stop(p)
    <3>1. Waiting(p) \in Seq(Procs)
      BY <1>1 DEF Waiting
    <3> QED BY <1>3, <2>3, <3>1 DEF Stop
  <2>4. CASE CreateRefused(p) \/ Yield(p) \/ GetPid(p) \/ GetParentPid(p)
    BY <1>2, <1>3, <2>4 DEF CreateRefused, Yield, GetPid, GetParentPid
  <2> QED BY <1>4, <2>1, <2>2, <2>3, <2>4 DEF Lifecycle
<1>5. ASSUME NEW p \in Procs, NEW x \in Pids, NEW len,
             \/ SendRefused(p, x) \/ SendBlocks(p, x, len)
             \/ RecvRefused(p, x) \/ RecvFromBlocks(p, x, len)
             \/ RecvAnyBlocks(p, len)
      PROVE  run' # NoProc
  BY <1>2, <1>3, <1>5 DEF SendRefused, SendBlocks, RecvRefused, RecvFromBlocks,
     RecvAnyBlocks
<1>6. ASSUME NEW p \in Procs, NEW x \in Pids, NEW len \in Lens,
             \/ SendToWaiting(p, x, len) \/ SendToAny(p, x, len)
             \/ RecvFrom(p, x, len) \/ RecvAny(p, len)
      PROVE  run' # NoProc
  <2>1. CASE SendToWaiting(p, x, len)
    <3>1. PICK i \in DOMAIN receivers[p] : Resume(state, <<p, receivers[p][i]>>)
      BY <2>1 DEF SendToWaiting
    <3>2. receivers[p][i] \in Procs /\ Calls(p)
      BY <1>1, <2>1 DEF ToSet, SendToWaiting
    <3> QED BY <1>2, <1>3, <3>1, <3>2
  <2>2. CASE SendToAny(p, x, len)
    <3>1. /\ Calls(p) /\ Resume(state, <<p, pidMapLookup(x)>>)
          /\ pidMapLookup(x) \in Procs
      BY <2>2, NotRefused DEF SendToAny
    <3> QED BY <1>2, <1>3, <3>1
  <2>3. CASE RecvFrom(p, x, len)
    <3>1. PICK i \in DOMAIN senders[p] : Resume(state, <<p, senders[p][i]>>)
      BY <2>3 DEF RecvFrom
    <3>2. senders[p][i] \in Procs /\ Calls(p)
      BY <1>1, <2>3 DEF ToSet, RecvFrom
    <3> QED BY <1>2, <1>3, <3>1, <3>2
  <2>4. CASE RecvAny(p, len)
    <3>1. Calls(p) /\ Resume(state, <<p, Head(senders[p])>>) /\ senders[p] # <<>>
      BY <2>4 DEF RecvAny
    <3>2. Head(senders[p]) \in Procs
      BY <1>1, <3>1
    <3> QED BY <1>2, <1>3, <3>1, <3>2
  <2> QED BY <1>6, <2>1, <2>2, <2>3, <2>4
<1>7. ASSUME NEW p \in Procs, Messaging(p) PROVE run' # NoProc
  <2>1. 0 \in Pids
    BY TableAssumption, PidAssumption DEF Pids
  <2> QED BY <1>5, <1>6, <1>7, <2>1 DEF Messaging
<1>8. ASSUME NEW p \in Procs, Sleeping(p) PROVE run' # NoProc
  BY <1>2, <1>3, <1>8 DEF Sleeping, Sleep, SleepZero
<1>9. ASSUME NEW eax \in Eax, Timer(eax) PROVE run' # NoProc
  <2>1. PICK k \in 0 .. Len(sleep_list) :
          Resume(state, Append(SubSeq(sleep_list, 1, k), run))
    BY <1>9 DEF Timer
  <2> DEFINE u == SubSeq(sleep_list, 1, k)
             w == Append(u, run)
             q == ready_queue \o w
  <2>2. /\ run \in Procs /\ sleep_list \in Seq(Procs) /\ IsInjective(sleep_list)
        /\ ready_queue \in Seq(Procs)
    BY DEF IInv, TypeOK, NoDuplicates
  <2>3. u \in Seq(Procs)
    BY <2>2, SplitSet
  <2> HIDE DEF u
  <2>4. w \in Seq(Procs) /\ run \in ToSet(w)
    BY <2>2, <2>3, AppendSet
  <2> HIDE DEF w
  <2>5. q \in Seq(Procs) /\ run \in ToSet(q)
    BY <2>2, <2>4, ConcatSet
  <2>6. run' = Chosen(q)
    BY <2>1 DEF Resume, Queued, u, w
  <2> HIDE DEF q
  <2>7. Len(q) \in Nat /\ 1 \in 1 .. Len(q) /\ q # <<>>
    BY <2>5, MemberSet
  <2>8. Head(q) = q[1] /\ q[1] \in Procs /\ (Len(q) > 1 => q[2] \in Procs)
    BY <2>5, <2>7
  <2> QED BY <2>6, <2>7, <2>8, NoProcIsNone DEF Chosen
<1>10. CASE Spin
  BY <1>10 DEF Spin, vars
<1> QED BY <1>4, <1>7, <1>8, <1>9, <1>10 DEF Next

\* The invariant holds in every state the kernel reaches.
THEOREM Safety == Spec => []IInv
  BY InitSafe, NextSafe, PTL DEF Spec

\* Every variable keeps its type.  In particular no delta field, an unsigned
\* integer in c/sleep.c, is ever decremented below 0.
THEOREM TypeCorrect == Spec => []TypeOK
<1>1. IInv => TypeOK
  BY DEF IInv
<1> QED BY <1>1, Safety, PTL

\* No process is ever linked twice into a queue through its only next pointer.
THEOREM QueuedOnce == Spec => []NoDuplicates
<1>1. IInv => NoDuplicates
  BY DEF IInv
<1> QED BY <1>1, Safety, PTL

\* Every process is where its state says, and nowhere else: none is lost.
THEOREM NoneLost == Spec => []InItsPlace
<1>1. IInv => InItsPlace
  BY DEF IInv
<1> QED BY <1>1, Safety, PTL

\* A process blocked in syssend or sysrecv waits on a live process that has the
\* pid it named, in that process's queue: cleanup() and pid reuse strand nobody.
THEOREM NobodyWaitsOnTheDead == Spec => []WaitsOnTarget
<1>1. IInv => WaitsOnTarget
  BY DEF IInv
<1> QED BY <1>1, Safety, PTL

\* The tree of the PID map, with all that its rotations lose: a lookup never
\* leads to a stopped process or to one of another pid, and as long as no node
\* has leaked it leads to every living process.
THEOREM PidMapStaysSound == Spec => []PidMapSound
<1>1. ASSUME IInv PROVE PidMapSound
  <2>1. TypeOK /\ MapInv
    BY <1>1 DEF IInv
  <2>2. ASSUME heap = Held, NEW p \in Living PROVE pidMapLookup(pid[p]) = p
    <3>1. <<pid[p], p>> \in Entries(pidMap) /\ pid[p] \in Nat
      BY <2>1, <2>2, Numbers DEF MapInv, Owned, TypeOK
    <3> QED BY <2>1, <3>1, LookupMap DEF MapInv, pidMapLookup
  <2>3. ASSUME NEW x \in Pids, pidMapLookup(x) # NoProc
        PROVE  x # 0 /\ pid[pidMapLookup(x)] = x /\ pidMapLookup(x) \in Living
    BY <2>1, <2>3, LookupFinds
  <2> QED BY <2>2, <2>3 DEF PidMapSound
<1> QED BY <1>1, Safety, PTL

\* The next tick() can always decrement the head of the sleep list.
THEOREM SleepersCounted == Spec => []SleepHeadPositive
<1>1. IInv => SleepHeadPositive
  BY DEF IInv
<1> QED BY <1>1, Safety, PTL

\* dispatch() always finds a process to run: idle never blocks, stops or sleeps.
THEOREM AlwaysDispatches == Spec => []DispatcherNeverRunsDry
<1>1. Init => DispatcherNeverRunsDry
  BY DEF Init, DispatcherNeverRunsDry, Root, NoProc
<1>2. IInv /\ DispatcherNeverRunsDry /\ [Next]_vars => DispatcherNeverRunsDry'
  BY SomebodyRuns DEF vars, DispatcherNeverRunsDry
<1> QED BY <1>1, <1>2, Safety, PTL DEF Spec

=============================================================================
