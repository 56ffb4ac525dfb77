----------------------------- MODULE PidTree -------------------------------
(***************************************************************************)
(* Long histories of the PID map: the processes come and go, and nothing   *)
(* else happens.  The module tells how far the tree of PidMap is the map   *)
(* from pids to slots that its users take it for.                          *)
(*                                                                         *)
(* create() and cleanup() are the only users, so the tree sees pids in     *)
(* increasing order until the 32-bit counter wraps; LastPid stops the      *)
(* counter before it does.  In Kernel the same tree lives through wraps.   *)
(***************************************************************************)
EXTENDS PidMap

CONSTANTS NumProc,  \* MAX_NUM_PROCESS
          LastPid   \* bound on the pids handed out

ASSUME PidTreeAssumption == NumProc \in Nat /\ NumProc >= 2 /\ LastPid \in Nat /\ LastPid >= 2

Procs == 0 .. NumProc - 1
Pids  == 1 .. LastPid
IdlePid == 2        \* idleproc() never stops

-----------------------------------------------------------------------------
VARIABLES
  pidMap,   \* the tree
  owner,    \* the pid of the process in each slot, 0 if the slot is STOPPED
  nextPid   \* the pid counter

vars == <<pidMap, owner, nextPid>>

\* initproc(): root has slot 0 and pid 1, idle has slot 1 and pid 2.
Init ==
  /\ pidMap = insert(insert(Null, 1, 0), 2, 1)
  /\ owner = [s \in Procs |-> IF s <= 1 THEN s + 1 ELSE 0]
  /\ nextPid = 3

\* create() gives the first free slot s the pid x that getNextPid() returns; a
\* process other than idle calls it.
Create(s, x) ==
  /\ \E q \in Procs : owner[q] \notin {0, IdlePid}
  /\ owner[s] = 0 /\ \A q \in Procs : q < s => owner[q] # 0
  /\ x >= nextPid /\ lookup(pidMap, x) = NoProc
  /\ \A y \in nextPid .. x - 1 : lookup(pidMap, y) # NoProc
  /\ nextPid' = x + 1
  /\ owner' = [owner EXCEPT ![s] = x]
  /\ pidMap' = insert(pidMap, x, s)

\* cleanup() of the process in slot s.
Stop(s) ==
  /\ owner[s] \notin {0, IdlePid}
  /\ owner' = [owner EXCEPT ![s] = 0]
  /\ pidMap' = delete(pidMap, owner[s])
  /\ UNCHANGED nextPid

Next ==
  \/ \E s \in Procs, x \in Pids : Create(s, x)
  \/ \E s \in Procs : Stop(s)

Spec == Init /\ [][Next]_vars

\* No right rotation in this step.
TurnsLeftOnly ==
  \A s \in Procs, x \in Pids : Create(s, x) => InsertsLeftOnly(pidMap, x, s)

\* The histories in which rotateRight() is never called.
SpecWhileLeft == Init /\ [][Next /\ TurnsLeftOnly]_vars

\* The map that lookups see.
Mapping(t) == {<<x, lookup(t, x)>> : x \in {y \in Pids : lookup(t, y) # NoProc}}

-----------------------------------------------------------------------------
(* Correctness. *)

\* A lookup finds each living process in its slot and finds nobody else: the
\* tree is the map that create(), send() and receive() take it for, whatever
\* the order in which processes end.
LookupExact ==
  \A x \in Pids :
    lookup(pidMap, x) = IF \E s \in Procs : owner[s] = x
                        THEN CHOOSE s \in Procs : owner[s] = x ELSE NoProc

\* An insertion adds its entry, a deletion takes its entry out, and the lookups of
\* all other pids stay as they are, whatever the tree has gone through: only an
\* insertion that takes a right rotation may lose entries, its own among them.
ActsAsMap ==
  [][/\ \A s \in Procs, x \in Pids : Create(s, x) =>
          LET meant == Mapping(pidMap) \cup {<<x, s>>}
          IN  /\ Mapping(pidMap') \subseteq meant
              /\ InsertsLeftOnly(pidMap, x, s) => Mapping(pidMap') = meant
     /\ \A s \in Procs : Stop(s) =>
          Mapping(pidMap') = {e \in Mapping(pidMap) : e[1] # owner[s]}]_vars

\* The recorded heights, which delete() leaves as they are, never understate
\* the depth: insert() may rebalance too early but not too late.
HeightsCoverDepth == \A n \in Nodes(pidMap) : Levels(n)[n.height] = {}

=============================================================================
