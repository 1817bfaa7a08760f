----------------------------- MODULE Scheduler -----------------------------
(***************************************************************************)
(* The scheduler with everything that calls it: the timer handler and its  *)
(* time slices (device/timer.c), the activation of the next thread's       *)
(* address space (userprog/process.c, userprog/tss.c), the creation of     *)
(* kernel threads and user processes (thread/thread.c, process.c), and the *)
(* locks of thread/sync.c, on which threads block and wake each other.     *)
(*                                                                         *)
(* Interrupts are disabled from the moment schedule() switches to a thread *)
(* until that thread enables them: in kernel_thread when it has never run  *)
(* before, on return from sema_down when it was blocked there, and by the  *)
(* iret of the timer interrupt otherwise.                                  *)
(***************************************************************************)
EXTENDS Sync

CONSTANTS
  main,      \* the thread that runs main()
  Procs,     \* user processes: the threads with a page directory
  Prio,      \* task_struct.priority of each thread
  Starts,    \* the threads each thread starts, in order
  pid_lock

ASSUME SchedulerAssumption ==
  /\ main \in Threads
  /\ Procs \subseteq Threads \ {main}
  /\ Prio \in [Threads -> Nat]
  /\ Starts \in [Threads -> Seq(Threads \ {main})]
  /\ pid_lock \in Locks

(***************************************************************************)
(* main.c: main alone starts threads, each once, and at most two kernel    *)
(* threads before the processes.                                           *)
(***************************************************************************)
ASSUME MainAssumption ==
  /\ \A t \in Threads \ {main} : Starts[t] = <<>>
  /\ IsInjective(Starts[main])
  /\ \A i \in DOMAIN Starts[main] : i > 2 => Starts[main][i] \in Procs

VARIABLES
  ticks,       \* task_struct.ticks
  fresh,       \* threads that have not yet reached kernel_thread's intr_enable
  cr3,         \* the process whose page directory is loaded; NULL: the kernel's
  esp0,        \* the thread whose kernel stack tss.esp0 points to
  all,         \* thread_all_list
  pid,         \* task_struct.pid
  next_pid,    \* allocate_pid's counter
  todo,        \* the threads each thread has still to start
  step,        \* how far the start of the first of them has got
  ptr          \* the list node at which that thread's elem_find stands

space    == <<cr3, esp0>>
creation == <<all, pid, next_pid, todo, step, ptr>>
svars    == <<vars, ticks, fresh, space, creation>>

(***************************************************************************)
(* The steps of thread_start and process_execute: nothing done; in         *)
(* lock_acquire, before the increment, in lock_release, all of             *)
(* allocate_pid; PCB filled in; in elem_find; on the ready list.           *)
(***************************************************************************)
Step == {"idle", "acquire", "release", "made", "walking", "queued"}

\* The tail of the ready list, and a pointer that has left the list.
TAIL == "tail"
LOST == "lost"

\* thread_init, and main after init_all and intr_enable.
SInit ==
  /\ cur = main
  /\ ready = <<>>
  /\ status = [t \in Threads |-> IF t = main THEN TASK_RUNNING ELSE NOT_CREATED]
  /\ panic = {}
  /\ lock_init
  /\ pc = [t \in Threads |-> "run"]
  /\ arg = [t \in Threads |-> NULL]
  /\ ticks = [t \in Threads |-> Prio[t]]
  /\ fresh = Threads \ {main}
  /\ cr3 = NULL
  /\ esp0 = NULL
  /\ all = <<main>>
  /\ pid = [t \in Threads |-> IF t = main THEN 1 ELSE 0]
  /\ next_pid = 1
  /\ todo = Starts
  /\ step = [t \in Threads |-> "idle"]
  /\ ptr = [t \in Threads |-> TAIL]

-----------------------------------------------------------------------------
\* Mutant of page_dir_activate: kernel threads keep the previous page directory.
page_dir_activate_procs(p_thread) == cr3' = IF p_thread \in Procs THEN p_thread ELSE cr3

page_dir_activate(p_thread) == cr3' = IF p_thread \in Procs THEN p_thread ELSE NULL

update_tss_esp(pthread) == esp0' = pthread

process_activate(p_thread) ==
  /\ page_dir_activate(p_thread)
  /\ IF p_thread \in Procs THEN update_tss_esp(p_thread) ELSE UNCHANGED esp0

(***************************************************************************)
(* intr_timer_handler.  A thread with ticks left keeps the CPU; otherwise  *)
(* schedule() gives it a new slice and puts it at the end of the list.     *)
(***************************************************************************)
timer_asserts == Failing(stack_magic(cur), "intr_timer_handler: stack_magic")

InterruptsOn == cur \notin fresh /\ pc[cur] # "waiting"

\* Mutants of timer_decrement: no test for 0, and no decrement.
timer_decrement_past_zero ==
  /\ ticks' = [ticks EXCEPT ![cur] = @ - 1]
  /\ UNCHANGED <<kthread, space>>

timer_decrement_nothing ==
  /\ ticks[cur] # 0
  /\ UNCHANGED <<ticks, kthread, space>>

timer_decrement ==
  /\ ticks[cur] # 0
  /\ ticks' = [ticks EXCEPT ![cur] = @ - 1]
  /\ panic' = timer_asserts
  /\ UNCHANGED <<cur, ready, status, space>>

timer_schedule ==
  /\ ticks[cur] = 0
  /\ ticks' = [ticks EXCEPT ![cur] = Prio[cur]]
  /\ schedule(TASK_RUNNING)
  /\ panic' = timer_asserts \cup schedule_asserts(TASK_RUNNING)
  /\ process_activate(cur')

intr_timer_handler ==
  /\ InterruptsOn
  /\ timer_decrement \/ timer_schedule
  /\ UNCHANGED <<sync, fresh, creation>>

\* The first thing a new thread does.
kernel_thread ==
  /\ cur \in fresh
  /\ fresh' = fresh \ {cur}
  /\ UNCHANGED <<vars, ticks, space, creation>>

(***************************************************************************)
(* sync.c.  Blocking is the other way into schedule(): the slice of the    *)
(* thread that blocks is not renewed.                                      *)
(***************************************************************************)
InCall ==
  /\ cur \notin fresh
  /\ \/ sema_down_block /\ process_activate(cur')
     \/ (sema_down_take \/ set_holder \/ set_repeat \/ clear_repeat \/ sema_up)
          /\ UNCHANGED space
  /\ UNCHANGED <<ticks, fresh, creation>>

\* Outside thread_start and allocate_pid a thread uses any lock but pid_lock;
\* process_execute uses the pool's for the pages it needs.
Call ==
  /\ cur \notin fresh
  /\ \/ step[cur] = "idle"
     \/ step[cur] = "made" /\ Head(todo[cur]) \in Procs
  /\ \E l \in Locks \ {pid_lock} : Acquire(l) \/ Release(l)
  /\ UNCHANGED <<ticks, fresh, space, creation>>

-----------------------------------------------------------------------------
(***************************************************************************)
(* thread_start and process_execute, up to the point where the PCB is      *)
(* complete.  allocate_pid increments next_pid under pid_lock and reads it *)
(* again after it has released the lock.                                   *)
(***************************************************************************)
At(s) == cur \notin fresh /\ pc[cur] = "run" /\ todo[cur] # <<>> /\ step[cur] = s

goto_step(s) == step' = [step EXCEPT ![cur] = s]

New == Head(todo[cur])

\* Mutant of allocate_pid_acquire: a thread is started while a lock is held.
allocate_pid_acquire_holding ==
  /\ At("idle")
  /\ lock_acquire(pid_lock)
  /\ goto_step("acquire")
  /\ UNCHANGED <<ticks, fresh, space, all, pid, next_pid, todo, ptr>>

allocate_pid_acquire ==
  /\ At("idle")
  /\ Held(cur) = {}
  /\ lock_acquire(pid_lock)
  /\ goto_step("acquire")
  /\ UNCHANGED <<ticks, fresh, space, all, pid, next_pid, todo, ptr>>

\* Mutant of allocate_pid_release: the counter stays.
allocate_pid_release_same ==
  /\ At("acquire")
  /\ lock_release(pid_lock)
  /\ goto_step("release")
  /\ UNCHANGED <<ticks, fresh, space, all, pid, next_pid, todo, ptr>>

allocate_pid_release ==
  /\ At("acquire")
  /\ next_pid' = next_pid + 1
  /\ lock_release(pid_lock)
  /\ goto_step("release")
  /\ UNCHANGED <<ticks, fresh, space, all, pid, todo, ptr>>

init_thread ==
  /\ At("release")
  /\ pid' = [pid EXCEPT ![New] = next_pid]
  /\ status' = [status EXCEPT ![New] = TASK_READY]
  /\ ticks' = [ticks EXCEPT ![New] = Prio[New]]
  /\ goto_step("made")
  /\ UNCHANGED <<cur, ready, panic, sync, fresh, space, all, next_pid, todo, ptr>>

(***************************************************************************)
(* thread_start puts the thread on the two lists one after the other, with *)
(* interrupts enabled; process_execute disables them for both.             *)
(*                                                                         *)
(* The elem_find of thread_start follows the next pointers of the ready    *)
(* list node by node.  A node that has moved to the waiters of a lock      *)
(* leads on to the tail of those, and from there nowhere.                  *)
(***************************************************************************)
SuccessorIn(list, t, end) ==
  LET i == CHOOSE j \in DOMAIN list : list[j] = t
  IN  IF i = Len(list) THEN end ELSE list[i + 1]

next(t) ==
  IF elem_find(ready, t) THEN SuccessorIn(ready, t, TAIL)
  ELSE IF \E l \in Locks : elem_find(waiters[l], t)
  THEN SuccessorIn(waiters[CHOOSE l \in Locks : elem_find(waiters[l], t)], t, LOST)
  ELSE LOST

ready_append_asserts ==
  Failing(~elem_find(ready, New), "thread_start: in ready list")

all_append_asserts ==
  Failing(~elem_find(all, New), "thread_start: in all list")

FirstReady == IF ready = <<>> THEN TAIL ELSE Head(ready)

elem_find_begin ==
  /\ At("made")
  /\ New \notin Procs
  /\ ptr' = [ptr EXCEPT ![cur] = FirstReady]
  /\ goto_step("walking")
  /\ UNCHANGED <<kthread, sync, ticks, fresh, space, all, pid, next_pid, todo>>

elem_find_next ==
  /\ At("walking")
  /\ ptr[cur] # TAIL
  /\ ptr' = [ptr EXCEPT ![cur] = next(@)]
  /\ panic' = Failing(ptr[cur] # New, "thread_start: in ready list")
                \cup Failing(ptr'[cur] # LOST, "elem_find: end of another list")
  /\ UNCHANGED <<cur, ready, status, sync, ticks, fresh, space, all, pid, next_pid, todo, step>>

thread_start_ready ==
  /\ At("walking")
  /\ ptr[cur] = TAIL
  /\ ready' = Append(ready, New)
  /\ goto_step("queued")
  /\ UNCHANGED <<cur, status, panic, sync, ticks, fresh, space, all, pid, next_pid, todo, ptr>>

thread_start_all ==
  /\ At("queued")
  /\ all' = Append(all, New)
  /\ panic' = all_append_asserts
  /\ goto_step("idle")
  /\ todo' = [todo EXCEPT ![cur] = Tail(@)]
  /\ UNCHANGED <<cur, ready, status, sync, ticks, fresh, space, pid, next_pid, ptr>>

process_execute ==
  /\ At("made")
  /\ Held(cur) = {}
  /\ New \in Procs
  /\ ready' = Append(ready, New)
  /\ all' = Append(all, New)
  /\ panic' = ready_append_asserts \cup all_append_asserts
  /\ goto_step("idle")
  /\ todo' = [todo EXCEPT ![cur] = Tail(@)]
  /\ UNCHANGED <<cur, status, sync, ticks, fresh, space, pid, next_pid, ptr>>

Create ==
  \/ allocate_pid_acquire \/ allocate_pid_release \/ init_thread
  \/ elem_find_begin \/ elem_find_next \/ thread_start_ready
  \/ thread_start_all \/ process_execute

SNext ==
  /\ panic = {}
  /\ intr_timer_handler \/ kernel_thread \/ InCall \/ Call \/ Create

SSpec == SInit /\ [][SNext]_svars

(***************************************************************************)
(* The timer keeps interrupting, and code that runs with interrupts        *)
(* disabled goes on until it enables them or blocks.                       *)
(***************************************************************************)
TimerFairness ==
  /\ SF_svars(panic = {} /\ intr_timer_handler)
  /\ WF_svars(panic = {} /\ kernel_thread)
  /\ WF_svars(panic = {} /\ pc[cur] = "waiting" /\ InCall)

SFairSpec == SSpec /\ TimerFairness

-----------------------------------------------------------------------------

STypeOK ==
  /\ cur \in Threads
  /\ ready \in Seq(Threads)
  /\ status \in [Threads -> Status \cup {NOT_CREATED}]
  /\ ticks \in [Threads -> Nat]
  /\ \A t \in Threads : ticks[t] <= Prio[t]
  /\ fresh \subseteq Threads
  /\ cr3 \in Procs \cup {NULL}
  /\ esp0 \in Procs \cup {NULL}
  /\ all \in Seq(Threads)
  /\ pid \in [Threads -> Nat]
  /\ next_pid \in Nat
  /\ todo \in [Threads -> Seq(Threads)]
  /\ step \in [Threads -> Step]
  /\ ptr \in [Threads -> Threads \cup {TAIL}]

\* The PCBs that are filled in but not yet on the ready list.
Making == {Head(todo[c]) : c \in {t \in Threads : todo[t] # <<>> /\ step[t] \in {"made", "walking"}}}

(***************************************************************************)
(* The lists and the status fields agree, for every thread whose creation  *)
(* has put it on the ready list: one thread is running, the ready list     *)
(* holds each TASK_READY thread once, and a blocked thread waits for a     *)
(* lock.  thread_all_list misses at most threads that are being started.   *)
(***************************************************************************)
ThreadListsInv ==
  LET Known == {t \in Threads : status[t] # NOT_CREATED} \ Making
      Queued == {Head(todo[c]) : c \in {t \in Threads : todo[t] # <<>> /\ step[t] = "queued"}}
  IN
  /\ \A t \in Threads : status[t] = TASK_RUNNING <=> t = cur
  /\ \A t \in Known : status[t] = TASK_READY <=> t \in Range(ready)
  /\ Range(ready) \subseteq Known
  /\ IsInjective(ready)
  /\ IsInjective(all)
  /\ Range(all) = Known \ Queued
  /\ \A t \in Threads : status[t] = TASK_BLOCKED <=>
                          \E l \in Locks : t \in Range(waiters[l])

(***************************************************************************)
(* The running thread runs in its own address space, and an interrupt in a *)
(* user process switches to that process's own kernel stack, whichever way *)
(* schedule() was entered.                                                 *)
(***************************************************************************)
OwnAddressSpace ==
  /\ cr3 = IF cur \in Procs THEN cur ELSE NULL
  /\ cur \in Procs => esp0 = cur

(***************************************************************************)
(* No two threads have the same pid, although allocate_pid reads next_pid  *)
(* outside pid_lock.                                                       *)
(***************************************************************************)
UniquePids ==
  \A t, u \in Threads \ {v \in Threads : status[v] = NOT_CREATED} :
    t # u => pid[t] # pid[u]

(***************************************************************************)
(* The elem_find of thread_start, which the timer may interrupt between    *)
(* two nodes, stands on a node of the ready list or on its tail whenever   *)
(* it goes on: the threads that ran meanwhile are back in the list.        *)
(***************************************************************************)
WalkInReadyList ==
  step[cur] = "walking" => elem_find(ready, ptr[cur]) \/ ptr[cur] = TAIL

(***************************************************************************)
(* Every ready thread gets the CPU: the slices end, and the threads that   *)
(* thread_unblock puts in front cannot keep the others waiting for ever.   *)
(***************************************************************************)
ReadyRuns == \A t \in Threads : t \in Range(ready) ~> t = cur
=============================================================================
