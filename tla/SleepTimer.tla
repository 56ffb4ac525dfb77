----------------------------- MODULE SleepTimer -----------------------------
(***************************************************************************)
(* What the sleep device promises: each process that called syssleep has a *)
(* timer of its own, and every timer loses one slice at each tick,         *)
(* whatever the other sleepers do.  The kernel keeps one list of           *)
(* differences instead; KernelSleep shows that it implements this.         *)
(***************************************************************************)
EXTENDS Naturals

CONSTANTS Sleepers,   \* the processes
          Durations   \* numbers of slices, at least 1, that a sleep may take

VARIABLE left         \* slices until each process wakes up, 0 if it is awake

Init == left = [p \in Sleepers |-> 0]

FallAsleep(p, n) == left[p] = 0 /\ left' = [left EXCEPT ![p] = n]

Tick == left' = [p \in Sleepers |-> IF left[p] = 0 THEN 0 ELSE left[p] - 1]

Next == (\E p \in Sleepers, n \in Durations : FallAsleep(p, n)) \/ Tick

Spec == Init /\ [][Next]_left

=============================================================================
