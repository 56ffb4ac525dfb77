---------------------------- MODULE KernelSleep -----------------------------
(***************************************************************************)
(* The delta list of c/sleep.c implements a timer for each sleeper.        *)
(***************************************************************************)
EXTENDS Kernel

\* Sums of the first deltas d of list q: when each of its sleepers wakes up.
WakeTimes(q, d) ==
  LET sum[i \in 0 .. Len(q)] == IF i = 0 THEN 0 ELSE sum[i - 1] + d[q[i]]
  IN  sum

\* What is left to sleep for p: 0 unless its state is SLEEPING.
Remaining(p) ==
  IF state[p] = "SLEEPING"
  THEN WakeTimes(sleep_list, delta)[CHOOSE i \in DOMAIN sleep_list :
                                      sleep_list[i] = p]
  ELSE 0

Timers == INSTANCE SleepTimer
  WITH Sleepers <- Procs,
       Durations <- {Slices(ms) : ms \in Sleeps} \ {0},
       left <- [p \in Procs |-> Remaining(p)]

\* Every sleeper wakes up at exactly the tick it asked for, however the others'
\* sleeps begin and end meanwhile: sleep() and tick() of c/sleep.c implement
\* one timer for each process.
SleepersTimed == Timers!Spec

=============================================================================
