------------------------------ MODULE KThread ------------------------------
(***************************************************************************)
(* The part of thread/thread.c that every other kernel module is built on: *)
(* the running thread, the ready list, the status of each thread, and the  *)
(* three operations that change them: schedule, thread_block and           *)
(* thread_unblock.  All three run with interrupts disabled on the only     *)
(* CPU, so each is one atomic change of state, written here as an action   *)
(* that the modules extending this one take as part of their own steps.    *)
(*                                                                         *)
(* A failed ASSERT calls panic_spin, which disables interrupts and spins:  *)
(* the machine stops.  panic is the set of the assertions that failed in   *)
(* the last step taken, and no step is taken once it is not empty.  The    *)
(* operators named ..._asserts are the assertions of an operation that     *)
(* fail in the current state.                                              *)
(***************************************************************************)
EXTENDS Naturals, Sequences, FiniteSets, Functions

CONSTANT Threads    \* the threads (their PCBs)

ASSUME ThreadsAssumption == IsFiniteSet(Threads) /\ Threads # {}

VARIABLES
  cur,      \* running_thread(): the thread whose stack the CPU is on
  ready,    \* thread_ready_list, first element first
  status,   \* task_struct.status of every thread
  panic     \* assertions that have failed

kthread == <<cur, ready, status, panic>>

\* The values of enum task_status that the code ever stores.
TASK_RUNNING == "TASK_RUNNING"
TASK_READY   == "TASK_READY"
TASK_BLOCKED == "TASK_BLOCKED"

Status == {TASK_RUNNING, TASK_READY, TASK_BLOCKED}

\* A thread that has not been started: its PCB does not exist.
NOT_CREATED == "NOT_CREATED"

(***************************************************************************)
(* lib/kernel/list.c on lists without repetition.                          *)
(***************************************************************************)
elem_find(plist, elem) == elem \in Range(plist)

\* Mutants of list_push: the element is lost, or goes to the other end.
list_push_nothing(plist, elem) == plist

list_push_back(plist, elem) == Append(plist, elem)

list_push(plist, elem) == <<elem>> \o plist

\* init_thread writes task_struct.stack_magic when it has written the status.
\* (What would overwrite it is a stack that grows into the PCB: see MaxDepth in
\* Interrupts.)
stack_magic(t) == status[t] # NOT_CREATED

Failing(condition, label) == IF condition THEN {} ELSE {label}

(***************************************************************************)
(* schedule(), called while the status of the running thread is stat.  Its *)
(* assertion that interrupts are disabled is in module Interrupts, which   *)
(* has the flag.                                                           *)
(***************************************************************************)
schedule_asserts(stat) ==
  IF stat = TASK_RUNNING
  THEN Failing(~elem_find(ready, cur), "schedule: cur in ready list")
  ELSE Failing(ready # <<>>, "schedule: ready list empty")

schedule(stat) ==
  LET queue  == IF stat = TASK_RUNNING THEN Append(ready, cur) ELSE ready
      parked == IF stat = TASK_RUNNING THEN TASK_READY ELSE stat
      asleep == [status EXCEPT ![cur] = parked]
  IN  /\ cur' = IF queue = <<>> THEN cur ELSE Head(queue)
      /\ ready' = IF queue = <<>> THEN <<>> ELSE Tail(queue)
      /\ status' = IF queue = <<>> THEN asleep
                   ELSE [asleep EXCEPT ![Head(queue)] = TASK_RUNNING]

(***************************************************************************)
(* thread_block(TASK_BLOCKED), the only status the callers pass.           *)
(***************************************************************************)
thread_block_asserts == schedule_asserts(TASK_BLOCKED)

thread_block == schedule(TASK_BLOCKED)

(***************************************************************************)
(* thread_unblock(pthread): the thread goes to the front of the list.      *)
(***************************************************************************)
thread_unblock_asserts(pthread) ==
  Failing(status[pthread] = TASK_BLOCKED, "thread_unblock: not blocked")
  \cup Failing(~elem_find(ready, pthread), "thread_unblock: in ready list")

thread_unblock(pthread) ==
  /\ ready' = list_push(ready, pthread)
  /\ status' = [status EXCEPT ![pthread] = TASK_READY]
  /\ cur' = cur

-----------------------------------------------------------------------------

KThreadTypeOK ==
  /\ cur \in Threads
  /\ ready \in Seq(Threads)
  /\ status \in [Threads -> Status \cup {NOT_CREATED}]

(***************************************************************************)
(* The ready list and the status fields describe the same thing, although  *)
(* the code changes them in separate statements of several functions: the  *)
(* list holds exactly the TASK_READY threads, each once, and the one       *)
(* TASK_RUNNING thread is the one on the CPU.                              *)
(***************************************************************************)
ReadyListInv ==
  /\ \A t \in Threads : status[t] = TASK_RUNNING <=> t = cur
  /\ \A t \in Threads : status[t] = TASK_READY <=> t \in Range(ready)
  /\ IsInjective(ready)

(***************************************************************************)
(* The state after main has started the other threads: all but one are     *)
(* ready, in any order.                                                    *)
(***************************************************************************)
KThreadInit ==
  /\ cur \in Threads
  /\ ready \in [1 .. Cardinality(Threads) - 1 -> Threads]
  /\ IsInjective(ready)
  /\ Range(ready) = Threads \ {cur}
  /\ status = [t \in Threads |-> IF t = cur THEN TASK_RUNNING ELSE TASK_READY]
  /\ panic = {}
=============================================================================
