--------------------------- MODULE PidTreeProofs ---------------------------
(***************************************************************************)
(* The PID map, for every number of slots and every bound on the counter:  *)
(* the recorded heights cover the depth in every history, and the tree is  *)
(* an exact map in every history without right rotations.  What the        *)
(* operations do to a tree is in PidMapProofs.                             *)
(***************************************************************************)
EXTENDS PidTree, PidMapProofs

-----------------------------------------------------------------------------
\* The trees of PidMap hold natural numbers.
LEMMA Numbers == Pids \subseteq Nat /\ Procs \subseteq Nat
BY PidTreeAssumption DEF Pids, Procs

(* Heights, in every history. *)

\* Slots hold pids, and the PID map is a tree whose heights go up.
TypeOK ==
  /\ owner \in [Procs -> Pids \cup {0}]
  /\ nextPid \in Nat
  /\ Tree(pidMap)

LEMMA InitTyped == Init => TypeOK
<1> SUFFICES ASSUME Init PROVE TypeOK
  OBVIOUS
<1>1. 1 \in Pids /\ 2 \in Pids /\ 0 \in Procs /\ 1 \in Procs /\ Procs \subseteq Nat
  BY PidTreeAssumption DEF Pids, Procs
<1>2. owner \in [Procs -> Pids \cup {0}]
  BY <1>1, PidTreeAssumption DEF Init, Procs, Pids
<1>3. Tree(insert(Null, 1, 0))
  BY NullTree, InsertTree
<1>4. Tree(pidMap)
  BY <1>3, InsertTree DEF Init
<1> QED BY <1>2, <1>4 DEF TypeOK, Init

LEMMA NextTyped == TypeOK /\ [Next]_vars => TypeOK'
<1> SUFFICES ASSUME TypeOK, [Next]_vars PROVE TypeOK'
  OBVIOUS
<1>1. ASSUME NEW s \in Procs, NEW x \in Pids, Create(s, x) PROVE TypeOK'
  <2>1. Tree(insert(pidMap, x, s))
    BY Numbers, InsertTree DEF TypeOK
  <2>2. nextPid' \in Nat
    BY <1>1 DEF Create, Pids
  <2> QED BY <1>1, <2>1, <2>2 DEF TypeOK, Create
<1>2. ASSUME NEW s \in Procs, Stop(s) PROVE TypeOK'
  <2>1. owner[s] \in Pids
    BY <1>2 DEF TypeOK, Stop
  <2>2. Tree(delete(pidMap, owner[s]))
    BY <2>1, Numbers, DeleteTree DEF TypeOK
  <2> QED BY <1>2, <2>2 DEF TypeOK, Stop
<1>3. CASE UNCHANGED vars
  BY <1>3 DEF TypeOK, vars
<1> QED BY <1>1, <1>2, <1>3 DEF Next

LEMMA TreeCovers == TypeOK => HeightsCoverDepth
<1> SUFFICES ASSUME TypeOK, NEW n \in Nodes(pidMap) PROVE Levels(n)[n.height] = {}
  BY DEF HeightsCoverDepth
<1>1. Tree(n) /\ n # Null
  BY NodeTree DEF TypeOK
<1> QED BY <1>1, TreeClosed

\* The recorded heights cover the depth whatever processes start and stop, after
\* right rotations too: the descents of lookup(), insert() and delete() end
\* within them, and no rotation turns around a child that is not there.
THEOREM HeightsCover == Spec => []HeightsCoverDepth
BY InitTyped, NextTyped, TreeCovers, PTL DEF Spec

-----------------------------------------------------------------------------
(* The PID map: what it holds in every history, and in those without right  *)
(* rotations.                                                               *)

\* The entries of the living processes.
Living == {<<owner[s], s>> : s \in {p \in Procs : owner[p] # 0}}

\* The tree is a search tree of living processes, their pids differ, and the
\* counter is ahead of them.
MapInv ==
  /\ TypeOK
  /\ Sorted(pidMap)
  /\ Entries(pidMap) \subseteq Living
  /\ \A s \in Procs : owner[s] < nextPid
  /\ \A s, q \in Procs : owner[s] = owner[q] /\ owner[s] # 0 => s = q

\* It is one of all living processes.
ExactInv == MapInv /\ Entries(pidMap) = Living

LEMMA TreeIsMap == MapInv => IsMap(pidMap, Entries(pidMap))
BY DEF MapInv, TypeOK, IsMap

LEMMA InitMap == Init => ExactInv
<1> SUFFICES ASSUME Init PROVE ExactInv
  OBVIOUS
<1>1. /\ 1 \in Pids /\ 2 \in Pids /\ 0 \in Procs /\ 1 \in Procs /\ Procs \subseteq Nat
  BY PidTreeAssumption DEF Pids, Procs
<1>2. IsMap(pidMap, {<<1, 0>>} \cup {<<2, 1>>})
  BY FirstTwo DEF Init
<1>3. \A s \in Procs : owner[s] = IF s <= 1 THEN s + 1 ELSE 0
  BY DEF Init
<1>4. Living = {<<1, 0>>} \cup {<<2, 1>>}
  <2>1. \A s \in Procs : owner[s] # 0 => s \in {0, 1}
    BY <1>1, <1>3
  <2>2. owner[0] = 1 /\ owner[1] = 2
    BY <1>1, <1>3
  <2> QED BY <1>1, <2>1, <2>2 DEF Living
<1>5. \A s \in Procs : owner[s] < nextPid
  BY <1>1, <1>3 DEF Init
<1>6. \A s, q \in Procs : owner[s] = owner[q] /\ owner[s] # 0 => s = q
  BY <1>1, <1>3
<1> QED BY <1>2, <1>4, <1>5, <1>6, InitTyped DEF ExactInv, MapInv, IsMap

LEMMA NextMap ==
  /\ MapInv /\ [Next]_vars => MapInv'
  /\ ExactInv /\ [Next /\ TurnsLeftOnly]_vars => ExactInv'
<1> SUFFICES ASSUME MapInv, [Next]_vars
             PROVE  /\ MapInv'
                    /\ ExactInv /\ [Next /\ TurnsLeftOnly]_vars => ExactInv'
  BY DEF ExactInv
<1>1. TypeOK' /\ TypeOK
  BY NextTyped DEF MapInv
<1>2. owner \in [Procs -> Pids \cup {0}] /\ \A s \in Procs : owner[s] \in Nat
  BY <1>1 DEF TypeOK, Pids
<1>3. IsMap(pidMap, Entries(pidMap))
  BY TreeIsMap
<1>4. ASSUME NEW s \in Procs, NEW x \in Pids, Create(s, x)
      PROVE  MapInv' /\ (ExactInv /\ TurnsLeftOnly => ExactInv')
  <2>1. /\ owner[s] = 0 /\ x >= nextPid /\ nextPid' = x + 1
        /\ owner' = [owner EXCEPT ![s] = x] /\ pidMap' = insert(pidMap, x, s)
    BY <1>4 DEF Create
  <2>2. x \in Nat /\ x # 0 /\ \A q \in Procs : owner[q] < x
    BY <1>1, <1>2, <2>1 DEF MapInv, TypeOK, Pids
  <2>3. \A e \in Entries(pidMap) : e[1] # x
    <3>1. \A e \in Living : e[1] # x
      BY <1>2, <2>2 DEF Living
    <3> QED BY <3>1 DEF MapInv
  <2>4. PICK G \in SUBSET (Entries(pidMap) \cup {<<x, s>>}) :
          /\ IsMap(pidMap', G)
          /\ InsertsLeftOnly(pidMap, x, s) => G = Entries(pidMap) \cup {<<x, s>>}
    BY <1>3, <2>1, <2>3, Numbers, InsertMap
  <2>5. \A q \in Procs : owner'[q] = IF q = s THEN x ELSE owner[q]
    BY <1>2, <2>1
  <2>6. Living' = Living \cup {<<x, s>>}
    BY <2>1, <2>2, <2>5 DEF Living
  <2>7. \A q \in Procs : owner'[q] < nextPid'
    BY <1>2, <2>1, <2>2, <2>5
  <2>8. \A p, q \in Procs : owner'[p] = owner'[q] /\ owner'[p] # 0 => p = q
    BY <1>2, <2>2, <2>5 DEF MapInv
  <2>9. Sorted(pidMap') /\ G = Entries(pidMap')
    BY <2>4 DEF IsMap
  <2>10. MapInv'
    <3>1. Entries(pidMap') \subseteq Living'
      BY <2>4, <2>6, <2>9 DEF MapInv
    <3> QED BY <1>1, <2>7, <2>8, <2>9, <3>1 DEF MapInv
  <2>11. TurnsLeftOnly => InsertsLeftOnly(pidMap, x, s)
    BY <1>4 DEF TurnsLeftOnly
  <2> QED BY <2>4, <2>6, <2>9, <2>10, <2>11 DEF ExactInv
<1>5. ASSUME NEW s \in Procs, Stop(s)
      PROVE  MapInv' /\ (ExactInv => ExactInv')
  <2>1. /\ owner[s] # 0 /\ owner' = [owner EXCEPT ![s] = 0]
        /\ pidMap' = delete(pidMap, owner[s]) /\ nextPid' = nextPid
    BY <1>5 DEF Stop
  <2>2. owner[s] \in Pids
    BY <1>2, <2>1
  <2>3. IsMap(pidMap', Without(Entries(pidMap), owner[s]))
    BY <1>3, <2>1, <2>2, Numbers, DeleteMap
  <2>4. \A q \in Procs : owner'[q] = IF q = s THEN 0 ELSE owner[q]
    BY <1>2, <2>1
  <2>5. Living' = Without(Living, owner[s])
    <3>1. \A q \in Procs : owner[q] = owner[s] <=> q = s
      BY <2>1 DEF MapInv
    <3> QED BY <2>1, <2>4, <3>1 DEF Living, Without
  <2>6. \A q \in Procs : owner'[q] < nextPid'
    BY <1>1, <1>2, <2>1, <2>4 DEF MapInv, TypeOK
  <2>7. \A p, q \in Procs : owner'[p] = owner'[q] /\ owner'[p] # 0 => p = q
    BY <2>4 DEF MapInv
  <2>8. Sorted(pidMap') /\ Entries(pidMap') = Without(Entries(pidMap), owner[s])
    BY <2>3 DEF IsMap
  <2>9. Entries(pidMap') \subseteq Living'
    BY <2>5, <2>8 DEF MapInv, Without
  <2> QED BY <1>1, <2>5, <2>6, <2>7, <2>8, <2>9 DEF MapInv, ExactInv
<1>6. CASE UNCHANGED vars
  BY <1>1, <1>6 DEF MapInv, ExactInv, Living, vars
<1> QED BY <1>4, <1>5, <1>6 DEF Next

\* A lookup that finds a slot finds the process with that pid, after right
\* rotations too: a process may be out of reach, but is never taken for another.
LookupNeverWrong ==
  \A x \in Pids : lookup(pidMap, x) # NoProc => owner[lookup(pidMap, x)] = x

\* Entries of living processes are found, and those that are found are theirs.
LEMMA MapFinds ==
  /\ MapInv => LookupNeverWrong
  /\ ExactInv => LookupExact
<1> SUFFICES ASSUME MapInv PROVE LookupNeverWrong /\ (ExactInv => LookupExact)
  BY DEF ExactInv
<1>1. IsMap(pidMap, Entries(pidMap))
  BY TreeIsMap
<1>2. ASSUME NEW x \in Pids, lookup(pidMap, x) # NoProc
      PROVE  owner[lookup(pidMap, x)] = x
  <2>1. PICK e \in Entries(pidMap) : e[1] = x
    BY <1>1, <1>2, Numbers, LookupMap
  <2>2. e \in Living
    BY <2>1 DEF MapInv
  <2>3. PICK s \in Procs : e = <<owner[s], s>>
    BY <2>2 DEF Living
  <2>4. <<x, s>> \in Entries(pidMap) /\ owner[s] = x
    BY <2>1, <2>3
  <2>5. lookup(pidMap, x) = s
    BY <1>1, <2>4, Numbers, LookupMap
  <2> QED BY <2>4, <2>5
<1>3. ASSUME ExactInv, NEW x \in Pids
      PROVE  lookup(pidMap, x) = IF \E s \in Procs : owner[s] = x
                                 THEN CHOOSE s \in Procs : owner[s] = x ELSE NoProc
  <2>1. Entries(pidMap) = Living /\ x # 0
    BY <1>3 DEF ExactInv, Pids
  <2>2. CASE \E s \in Procs : owner[s] = x
    <3>1. PICK s : s = CHOOSE q \in Procs : owner[q] = x
      OBVIOUS
    <3>2. s \in Procs /\ owner[s] = x
      BY <2>2, <3>1
    <3>3. <<x, s>> \in Living
      BY <2>1, <3>2 DEF Living
    <3> QED BY <1>1, <2>1, <2>2, <3>1, <3>3, Numbers, LookupMap
  <2>3. CASE ~ \E s \in Procs : owner[s] = x
    <3>1. \A e \in Living : e[1] # x
      BY <2>3 DEF Living
    <3> QED BY <1>1, <2>1, <2>3, <3>1, Numbers, LookupMap
  <2> QED BY <2>2, <2>3
<1> QED BY <1>2, <1>3 DEF LookupNeverWrong, LookupExact

\* Lookups see the entries.
LEMMA MappingEntries ==
  ASSUME NEW t, NEW E, IsMap(t, E), E \subseteq Pids \X Procs
  PROVE  Mapping(t) = E
<1>1. ASSUME NEW e \in E PROVE e \in Mapping(t)
  <2>1. PICK x \in Pids, s \in Procs : e = <<x, s>>
    OBVIOUS
  <2>2. lookup(t, x) = s /\ s # NoProc
    BY <2>1, Numbers, LookupMap DEF NoProc
  <2> QED BY <2>1, <2>2 DEF Mapping
<1>2. ASSUME NEW e \in Mapping(t) PROVE e \in E
  <2>1. PICK x \in Pids : lookup(t, x) # NoProc /\ e = <<x, lookup(t, x)>>
    BY DEF Mapping
  <2>2. PICK f \in E : f[1] = x
    BY <2>1, Numbers, LookupMap
  <2>3. f = <<x, f[2]>>
    BY <2>2
  <2> QED BY <2>1, <2>2, <2>3, Numbers, LookupMap
<1> QED BY <1>1, <1>2

\* What ActsAsMap says of a step.
LEMMA StepActs ==
  ASSUME MapInv
  PROVE  /\ \A s \in Procs, x \in Pids : Create(s, x) =>
              LET meant == Mapping(pidMap) \cup {<<x, s>>}
              IN  /\ Mapping(pidMap') \subseteq meant
                  /\ InsertsLeftOnly(pidMap, x, s) => Mapping(pidMap') = meant
         /\ \A s \in Procs : Stop(s) =>
              Mapping(pidMap') = {e \in Mapping(pidMap) : e[1] # owner[s]}
<1>1. /\ IsMap(pidMap, Entries(pidMap)) /\ Mapping(pidMap) = Entries(pidMap)
      /\ Entries(pidMap) \subseteq Pids \X Procs
  <2>1. Living \subseteq Pids \X Procs
    BY DEF MapInv, TypeOK, Living
  <2>2. Entries(pidMap) \subseteq Pids \X Procs
    BY <2>1 DEF MapInv
  <2> QED BY <2>2, TreeIsMap, MappingEntries
<1>2. owner \in [Procs -> Pids \cup {0}] /\ \A s \in Procs : owner[s] \in Nat
  BY DEF MapInv, TypeOK, Pids
<1>3. ASSUME NEW s \in Procs, NEW x \in Pids, Create(s, x)
      PROVE  /\ Mapping(pidMap') \subseteq Mapping(pidMap) \cup {<<x, s>>}
             /\ InsertsLeftOnly(pidMap, x, s) =>
                  Mapping(pidMap') = Mapping(pidMap) \cup {<<x, s>>}
  <2>1. x >= nextPid /\ pidMap' = insert(pidMap, x, s)
    BY <1>3 DEF Create
  <2>2. x \in Nat /\ x # 0 /\ \A q \in Procs : owner[q] < x
    BY <1>2, <2>1 DEF MapInv, TypeOK, Pids
  <2>3. \A e \in Entries(pidMap) : e[1] # x
    <3>1. \A e \in Living : e[1] # x
      BY <1>2, <2>2 DEF Living
    <3> QED BY <3>1 DEF MapInv
  <2>4. PICK G \in SUBSET (Entries(pidMap) \cup {<<x, s>>}) :
          /\ IsMap(pidMap', G)
          /\ InsertsLeftOnly(pidMap, x, s) => G = Entries(pidMap) \cup {<<x, s>>}
    BY <1>1, <2>1, <2>3, Numbers, InsertMap
  <2> QED BY <1>1, <2>4, MappingEntries
<1>4. ASSUME NEW s \in Procs, Stop(s)
      PROVE  Mapping(pidMap') = {e \in Mapping(pidMap) : e[1] # owner[s]}
  <2>1. owner[s] \in Pids /\ pidMap' = delete(pidMap, owner[s])
    BY <1>2, <1>4 DEF Stop
  <2>2. IsMap(pidMap', Without(Entries(pidMap), owner[s]))
    BY <1>1, <2>1, Numbers, DeleteMap
  <2> QED BY <1>1, <2>2, MappingEntries DEF Without
<1> QED BY <1>3, <1>4

LEMMA InitMapInv == Init => MapInv
BY InitMap DEF ExactInv

\* Insertions and deletions do to the lookups what they should, for every number of
\* processes and every history: only a right rotation loses entries.
THEOREM TreeActsAsMap == Spec => ActsAsMap
<1>1. MapInv /\ [Next]_vars => MapInv'
  BY NextMap
<1>2. MapInv => [/\ \A s \in Procs, x \in Pids : Create(s, x) =>
                      LET meant == Mapping(pidMap) \cup {<<x, s>>}
                      IN  /\ Mapping(pidMap') \subseteq meant
                          /\ InsertsLeftOnly(pidMap, x, s) => Mapping(pidMap') = meant
                 /\ \A s \in Procs : Stop(s) =>
                      Mapping(pidMap') = {e \in Mapping(pidMap) : e[1] # owner[s]}]_vars
  BY StepActs
<1> QED BY <1>1, <1>2, InitMapInv, PTL DEF Spec, ActsAsMap

\* A lookup never finds the wrong process, whatever processes start and stop and
\* whatever right rotations lose.
THEOREM LookupIsNeverWrong == Spec => []LookupNeverWrong
BY InitMapInv, NextMap, MapFinds, PTL DEF Spec

\* As long as insert() takes no right rotation the tree is the exact map from
\* pids to slots that create(), send() and receive() take it for, for every
\* number of processes and whatever the order in which they start and stop.
THEOREM LookupIsExact == SpecWhileLeft => []LookupExact
BY InitMap, NextMap, MapFinds, PTL DEF SpecWhileLeft

=============================================================================
