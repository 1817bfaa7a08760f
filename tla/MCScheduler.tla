---------------------------- MODULE MCScheduler ----------------------------
(***************************************************************************)
(* Instances of Scheduler for TLC: main starts threads as kernel/main.c    *)
(* does, and every thread uses the lock of a memory pool.                  *)
(***************************************************************************)
EXTENDS Scheduler

CONSTANTS thread_a, thread_b, prog_a, pool

NoNesting == {}

\* The priorities differ, as those of main and the other threads do.
Priorities == [t \in Threads |-> IF t = main THEN 0 ELSE 1]

MainStarts(list) == [t \in Threads |-> IF t = main THEN list ELSE <<>>]

\* Two kernel threads and a process.
TwoKernelThreads == MainStarts(<<thread_a, thread_b, prog_a>>)
=============================================================================
