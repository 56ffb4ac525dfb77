------------------------------ MODULE MCKernel ------------------------------
(***************************************************************************)
(* Instances of Kernel for TLC.                                            *)
(***************************************************************************)
EXTENDS KernelSleep

\* What later steps can depend on.  Left out: irc and parentPid, which are only
\* handed to programs, the arguments of calls that are over, the buffer lengths
\* of blocked calls, which decide nothing but the result of an exchange (the
\* caller that completes it comes with every length), and the fields of free
\* slots and of processes that do not sleep.
LiveState ==
  LET Mask(p, st, f, none) == IF state[p] \in st THEN f ELSE none
  IN  <<state, ready_queue, senders, receivers, sleep_list, run, nextPid,
        halted, pidMap, heap,
        [p \in Procs |-> Mask(p, States \ {"STOPPED"}, pid[p], 0)],
        [p \in Procs |-> Mask(p, {"SENDING", "RECEIVING"}, arg[p].peer, 0)],
        [p \in Procs |-> Mask(p, {"SLEEPING"}, delta[p], 0)]>>

=============================================================================
