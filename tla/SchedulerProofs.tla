-------------------------- MODULE SchedulerProofs --------------------------
(***************************************************************************)
(* The scheduler with its callers, for every number of threads, processes, *)
(* locks and every priority, as long as main starts the threads the way    *)
(* kernel/main.c does (MainAssumption).                                    *)
(***************************************************************************)
EXTENDS Scheduler, KThreadProofs

(***************************************************************************)
(* To sync.c a thread exists once it is on the ready list.  Seen so, the   *)
(* scheduler takes the steps of module Sync, and one more: the start of a  *)
(* thread.                                                                 *)
(***************************************************************************)
SyncStatus == [t \in Threads |-> IF t \in Making THEN NOT_CREATED ELSE status[t]]

S == INSTANCE SyncProofs WITH status <- SyncStatus

\* The threads whose start main has finished.
Started == Range(Starts[main]) \ Range(todo[main])

Exists(t) ==
  \/ t = main
  \/ t \in Started
  \/ step[main] = "queued" /\ t = Head(todo[main])

(***************************************************************************)
(* main goes through its list in order; nobody else has one.               *)
(***************************************************************************)
TodoInv ==
  /\ \A t \in Threads \ {main} : todo[t] = <<>> /\ step[t] = "idle"
  /\ IsInjective(todo[main])
  /\ Len(todo[main]) <= Len(Starts[main])
  /\ \A i \in 1 .. Len(todo[main]) :
       todo[main][i] = Starts[main][Len(Starts[main]) - Len(todo[main]) + i]
  /\ step[main] # "idle" => todo[main] # <<>>

\* Which threads exist, for sync.c and in the all list.
ExistInv ==
  /\ \A t \in Threads : SyncStatus[t] # NOT_CREATED <=> Exists(t)
  /\ \A t \in Making : status[t] = TASK_READY
  /\ IsInjective(all)
  /\ Range(all) = {main} \cup Started

\* No thread has a pid that allocate_pid has yet to give.
PidInv ==
  \A t \in Threads : status[t] # NOT_CREATED =>
    /\ pid[t] <= next_pid
    /\ step[main] = "release" => pid[t] < next_pid

(***************************************************************************)
(* Where main can be in sync.c, and what it holds, while it starts a       *)
(* thread.                                                                 *)
(***************************************************************************)
CallerInv ==
  /\ step[main] = "acquire" =>
       \/ /\ pc[main] \in {"down", "waiting", "setholder"}
          /\ arg[main] = pid_lock /\ Held(main) = {}
       \/ /\ pc[main] = "setrepeat"
          /\ arg[main] = pid_lock /\ Held(main) = {pid_lock}
       \/ /\ pc[main] = "run"
          /\ Held(main) = {pid_lock} /\ repeat[pid_lock] = 1
  /\ step[main] = "release" => pc[main] \in {"clrrepeat", "up", "run"} /\ Held(main) = {}
  /\ \/ step[main] \in {"walking", "queued"}
     \/ step[main] = "made" /\ Head(todo[main]) \notin Procs
     => pc[main] = "run" /\ Held(main) = {}

\* The node at which main's elem_find stands is another thread that exists.
WalkInv ==
  step[main] = "walking" =>
    /\ Head(todo[main]) \notin Procs
    /\ ptr[main] = TAIL \/ (ptr[main] \in Threads \ {main} /\ SyncStatus[ptr[main]] # NOT_CREATED)

(***************************************************************************)
(* The inductive invariant.                                                *)
(***************************************************************************)
SInv ==
  /\ S!IInv
  /\ STypeOK
  /\ TodoInv
  /\ ExistInv
  /\ PidInv
  /\ UniquePids
  /\ CallerInv
  /\ WalkInv

-----------------------------------------------------------------------------
LEMMA FiniteThreads == S!IsFiniteSet(Threads) /\ Threads # {}
BY ThreadsAssumption DEF S!IsFiniteSet, IsFiniteSet

LEMMA MakingIs ==
  TodoInv =>
    /\ todo[main] # <<>> /\ step[main] \in {"made", "walking"} => Making = {Head(todo[main])}
    /\ ~(todo[main] # <<>> /\ step[main] \in {"made", "walking"}) => Making = {}
<1> SUFFICES ASSUME TodoInv
             PROVE  /\ todo[main] # <<>> /\ step[main] \in {"made", "walking"}
                         => Making = {Head(todo[main])}
                    /\ ~(todo[main] # <<>> /\ step[main] \in {"made", "walking"}) => Making = {}
  OBVIOUS
<1>1. {t \in Threads : todo[t] # <<>> /\ step[t] \in {"made", "walking"}} \subseteq {main}
  BY DEF TodoInv
<1> QED  BY <1>1, SchedulerAssumption DEF Making

LEMMA MakingIsNext == MakingIs'
BY MakingIs, PTL

(***************************************************************************)
(* What the invariant says of the threads and their lists.                 *)
(***************************************************************************)
LEMMA ListFacts ==
  ASSUME SInv
  PROVE  /\ cur \in Threads /\ ready \in Seq(Threads) /\ panic = {}
         /\ IsInjective(ready) /\ Range(ready) \subseteq Threads
         /\ SyncStatus \in [Threads -> Status \cup {NOT_CREATED}]
         /\ \A t \in Threads : SyncStatus[t] = TASK_RUNNING <=> t = cur
         /\ \A t \in Threads : SyncStatus[t] = TASK_READY <=> t \in Range(ready)
         /\ Making \subseteq Threads
         /\ cur \notin Making /\ Making \cap Range(ready) = {}
<1> USE DEF TASK_RUNNING, TASK_READY, TASK_BLOCKED, NOT_CREATED
<1>1. /\ cur \in Threads /\ ready \in Seq(Threads) /\ panic = {}
      /\ SyncStatus \in [Threads -> Status \cup {NOT_CREATED}]
  BY DEF SInv, S!IInv, S!TypeOK, S!KThreadTypeOK, S!NoPanic, S!Status, Status,
         S!TASK_RUNNING, S!TASK_READY, S!TASK_BLOCKED, S!NOT_CREATED
<1>2. /\ IsInjective(ready)
      /\ \A t \in Threads : SyncStatus[t] = TASK_RUNNING <=> t = cur
      /\ \A t \in Threads : SyncStatus[t] = TASK_READY <=> t \in Range(ready)
  BY DEF SInv, S!IInv, S!ReadyListInv, S!TASK_RUNNING, S!TASK_READY, S!Range, Range,
         S!IsInjective, IsInjective
<1>3. Range(ready) \subseteq Threads
  BY <1>1 DEF Range
<1>4. Making \subseteq Threads
  <2>1. todo[main] \in Seq(Threads)
    BY SchedulerAssumption DEF SInv, STypeOK
  <2>2. todo[main] # <<>> => Head(todo[main]) \in Threads
    BY <2>1
  <2> QED  BY <2>2, MakingIs DEF SInv
<1>5. \A t \in Making : SyncStatus[t] = NOT_CREATED
  BY <1>4 DEF SyncStatus
<1> QED  BY <1>1, <1>2, <1>3, <1>4, <1>5

\* schedule and the threads it concerns, seen from sync.c.
LEMMA ScheduleMaps ==
  ASSUME SInv, NEW stat \in {TASK_RUNNING, TASK_BLOCKED}, schedule(stat),
         UNCHANGED <<todo, step>>
  PROVE  /\ S!schedule(stat)
         /\ \A t \in Making : status'[t] = status[t]
         /\ status' \in [Threads -> Status \cup {NOT_CREATED}]
<1> USE DEF TASK_RUNNING, TASK_READY, TASK_BLOCKED, NOT_CREATED
<1> DEFINE q == IF stat = TASK_RUNNING THEN Append(ready, cur) ELSE ready
           parked == IF stat = TASK_RUNNING THEN TASK_READY ELSE stat
<1>1. /\ cur \in Threads /\ ready \in Seq(Threads) /\ cur \notin Range(ready)
      /\ IsInjective(ready) /\ Making \subseteq Threads
      /\ cur \notin Making /\ \A t \in Range(ready) : t \notin Making
  BY ListFacts
<1>2. status \in [Threads -> Status \cup {NOT_CREATED}]
  BY DEF SInv, STypeOK
<1>3. q # <<>> => Head(q) \in Threads /\ Head(q) \notin Making
  BY <1>1, AppendFacts, PopFacts
<1>4. Making' = Making
  BY DEF Making
<1>5. /\ cur' = IF q = <<>> THEN cur ELSE Head(q)
      /\ ready' = IF q = <<>> THEN <<>> ELSE Tail(q)
      /\ status' = IF q = <<>> THEN [status EXCEPT ![cur] = parked]
                   ELSE [[status EXCEPT ![cur] = parked] EXCEPT ![Head(q)] = TASK_RUNNING]
  BY DEF schedule
<1> HIDE DEF q, parked
<1>6. SyncStatus' = IF q = <<>> THEN [SyncStatus EXCEPT ![cur] = parked]
                    ELSE [[SyncStatus EXCEPT ![cur] = parked] EXCEPT ![Head(q)] = TASK_RUNNING]
  BY <1>1, <1>2, <1>3, <1>4, <1>5 DEF SyncStatus
<1>7. S!schedule(stat)
  BY <1>5, <1>6 DEF S!schedule, q, parked, S!TASK_RUNNING, S!TASK_READY
<1>8. \A t \in Making : status'[t] = status[t]
  BY <1>1, <1>2, <1>3, <1>5
<1>9. status' \in [Threads -> Status \cup {NOT_CREATED}]
  <2>1. parked \in Status
    BY DEF parked, Status
  <2>2. TASK_RUNNING \in Status
    BY DEF Status
  <2> QED  BY <1>1, <1>2, <1>3, <1>5, <2>1, <2>2
<1> QED  BY <1>7, <1>8, <1>9

\* The timer only interrupts threads that init_thread has made.
LEMMA TimerAsserts ==
  ASSUME SInv
  PROVE  timer_asserts = {} /\ panic = {}
<1>1. cur \in Threads /\ SyncStatus[cur] = TASK_RUNNING /\ cur \notin Making /\ panic = {}
  BY ListFacts
<1>2. status[cur] # NOT_CREATED
  BY <1>1 DEF SyncStatus, TASK_RUNNING, NOT_CREATED
<1> QED  BY <1>1, <1>2 DEF timer_asserts, stack_magic, Failing

(***************************************************************************)
(* The steps that sync.c sees: the end of a time slice, and the calls.     *)
(***************************************************************************)
LEMMA TimerMaps ==
  ASSUME SInv, InterruptsOn, timer_schedule, UNCHANGED <<sync, todo, step>>
  PROVE  /\ S!Next
         /\ \A t \in Making : status'[t] = status[t]
         /\ status' \in [Threads -> Status \cup {NOT_CREATED}]
<1>1. /\ S!schedule(TASK_RUNNING)
      /\ \A t \in Making : status'[t] = status[t]
      /\ status' \in [Threads -> Status \cup {NOT_CREATED}]
  BY ScheduleMaps DEF timer_schedule
<1>2. panic' = S!schedule_asserts(S!TASK_RUNNING)
  <2>1. panic' = schedule_asserts(TASK_RUNNING)
    BY TimerAsserts DEF timer_schedule
  <2> QED  BY <2>1 DEF schedule_asserts, S!schedule_asserts, TASK_RUNNING, S!TASK_RUNNING,
                       Failing, S!Failing, elem_find, S!elem_find, Range, S!Range
<1>3. S!Preempt
  BY <1>1, <1>2 DEF S!Preempt, InterruptsOn, TASK_RUNNING, S!TASK_RUNNING, sync, S!sync
<1> QED  BY <1>1, <1>3, ListFacts DEF S!Next

LEMMA BlockMaps ==
  ASSUME SInv, sema_down_block, UNCHANGED <<todo, step>>
  PROVE  /\ S!sema_down_block
         /\ \A t \in Making : status'[t] = status[t]
         /\ status' \in [Threads -> Status \cup {NOT_CREATED}]
<1>1. /\ S!schedule(TASK_BLOCKED)
      /\ \A t \in Making : status'[t] = status[t]
      /\ status' \in [Threads -> Status \cup {NOT_CREATED}]
  BY ScheduleMaps DEF sema_down_block, thread_block
<1>2. S!thread_block /\ S!thread_block_asserts = thread_block_asserts
  BY <1>1 DEF S!thread_block, TASK_BLOCKED, S!TASK_BLOCKED, thread_block_asserts,
              S!thread_block_asserts, schedule_asserts, S!schedule_asserts, TASK_RUNNING,
              S!TASK_RUNNING, Failing, S!Failing
<1>3. S!sema_down_block
  BY <1>2 DEF S!sema_down_block, sema_down_block, goto, S!goto, Failing, S!Failing,
              elem_find, S!elem_find, Range, S!Range
<1> QED  BY <1>1, <1>3

LEMMA UpMaps ==
  ASSUME SInv, sema_up, UNCHANGED <<todo, step>>
  PROVE  /\ S!sema_up
         /\ \A t \in Making : status'[t] = status[t]
         /\ status' \in [Threads -> Status \cup {NOT_CREATED}]
<1> USE DEF TASK_RUNNING, TASK_READY, TASK_BLOCKED, NOT_CREATED, S!TASK_READY, S!TASK_BLOCKED
<1> DEFINE l == arg[cur]
           w == Head(waiters[l])
<1>1. /\ Making \subseteq Threads /\ cur \in Threads
      /\ status \in [Threads -> Status \cup {NOT_CREATED}]
  BY ListFacts DEF SInv, STypeOK
<1>2. Making' = Making
  BY DEF Making
<1>3. /\ l \in Locks /\ waiters[l] \in Seq(Threads) /\ IsInjective(waiters[l])
      /\ \A t \in Threads : t \in Range(waiters[l]) => SyncStatus[t] = TASK_BLOCKED
  <2>1. l \in Locks
    BY <1>1 DEF SInv, S!IInv, S!CallInv, sema_up
  <2>2. waiters[l] \in Seq(Threads)
    BY <2>1 DEF SInv, S!IInv, S!TypeOK
  <2> HIDE DEF l
  <2>3. /\ IsInjective(waiters[l])
        /\ \A t \in Threads : t \in Range(waiters[l]) => SyncStatus[t] = TASK_BLOCKED
    BY <2>1 DEF SInv, S!IInv, S!WaitersInv, Range, S!Range, IsInjective, S!IsInjective
  <2> QED  BY <2>1, <2>2, <2>3
<1>4. CASE waiters[l] = <<>>
  <2>1. UNCHANGED <<cur, ready, status, waiters>>
    BY <1>4 DEF sema_up
  <2>2. SyncStatus' = SyncStatus
    BY <1>2, <2>1 DEF SyncStatus
  <2>3. S!sema_up
    BY <1>4, <2>1, <2>2 DEF S!sema_up, sema_up, goto, S!goto, Failing, S!Failing
  <2> QED  BY <1>1, <2>1, <2>3
<1>5. CASE waiters[l] # <<>>
  <2>1. w \in Threads /\ w \in Range(waiters[l])
    BY <1>3, <1>5, PopFacts
  <2>2. SyncStatus[w] = TASK_BLOCKED
    BY <1>3, <2>1
  <2>3. w \notin Making /\ status[w] = TASK_BLOCKED
    BY <2>1, <2>2 DEF SyncStatus
  <2>4. ready' = list_push(ready, w) /\ status' = [status EXCEPT ![w] = TASK_READY] /\ cur' = cur
    BY <1>5 DEF sema_up, thread_unblock
  <2>5. SyncStatus' = [SyncStatus EXCEPT ![w] = TASK_READY]
    <3> HIDE DEF w
    <3> QED  BY <1>1, <1>2, <2>1, <2>3, <2>4 DEF SyncStatus
  <2>6. S!thread_unblock(w)
    BY <2>4, <2>5 DEF S!thread_unblock, list_push, S!list_push
  <2>7. S!thread_unblock_asserts(w) = thread_unblock_asserts(w)
    BY <2>2, <2>3 DEF S!thread_unblock_asserts, thread_unblock_asserts, Failing, S!Failing,
                      elem_find, S!elem_find, Range, S!Range
  <2>8. /\ value' = [value EXCEPT ![l] = @ + 1]
        /\ pc[cur] = "up" /\ pc' = [pc EXCEPT ![cur] = "run"]
        /\ waiters' = [waiters EXCEPT ![l] = Tail(@)]
        /\ panic' = Failing(value[l] = 0, "sema_up: value not 0") \cup thread_unblock_asserts(w)
        /\ UNCHANGED <<holder, repeat, arg>>
    BY <1>5 DEF sema_up, goto
  <2>9. S!sema_up
    BY <1>5, <2>6, <2>7, <2>8 DEF S!sema_up, S!goto, Failing, S!Failing
  <2>10. \A t \in Making : status'[t] = status[t]
    BY <1>1, <2>3, <2>4
  <2>11. status' \in [Threads -> Status \cup {NOT_CREATED}]
    BY <1>1, <2>4 DEF Status
  <2> QED  BY <2>9, <2>10, <2>11
<1> QED  BY <1>4, <1>5

\* A step of sync.c that moves no thread.
LEMMA StillMaps ==
  ASSUME SInv, UNCHANGED <<cur, ready, SyncStatus>>,
         \/ sema_down_take \/ set_holder \/ set_repeat \/ clear_repeat
         \/ \E l \in Locks : Acquire(l) \/ Release(l)
  PROVE  S!Next
<1>1. SyncStatus' = SyncStatus
  OBVIOUS
<1>2. CASE sema_down_take
  BY <1>1, <1>2, ListFacts
     DEF S!Next, S!InSync, S!sema_down_take, sema_down_take, goto, S!goto, Failing, S!Failing
<1>3. CASE set_holder
  BY <1>1, <1>3, ListFacts
     DEF S!Next, S!InSync, S!set_holder, set_holder, goto, S!goto, S!kthread, kthread
<1>4. CASE set_repeat
  BY <1>1, <1>4, ListFacts
     DEF S!Next, S!InSync, S!set_repeat, set_repeat, goto, S!goto, Failing, S!Failing
<1>5. CASE clear_repeat
  BY <1>1, <1>5, ListFacts
     DEF S!Next, S!InSync, S!clear_repeat, clear_repeat, goto, S!goto, S!kthread, kthread
<1>6. ASSUME NEW l \in Locks, Acquire(l) PROVE S!Next
  <2>1. S!Acquire(l)
    BY <1>1, <1>6 DEF S!Acquire, Acquire, S!lock_acquire, lock_acquire, Held, S!Held,
                      goto, S!goto, S!kthread, kthread
  <2> QED  BY <2>1, ListFacts DEF S!Next
<1>7. ASSUME NEW l \in Locks, Release(l) PROVE S!Next
  <2>1. S!Release(l)
    BY <1>1, <1>7 DEF S!Release, Release, S!lock_release, lock_release, Held, S!Held,
                      goto, S!goto, Failing, S!Failing
  <2> QED  BY <2>1, ListFacts DEF S!Next
<1> QED  BY <1>2, <1>3, <1>4, <1>5, <1>6, <1>7
-----------------------------------------------------------------------------
(***************************************************************************)
(* A step of sync.c, or a step that sync.c does not see, keeps everything  *)
(* that is about the start of threads.                                     *)
(***************************************************************************)
LEMMA SyncStep ==
  ASSUME SInv, S!Next, UNCHANGED creation,
         \A t \in Making : status'[t] = status[t],
         STypeOK', CallerInv'
  PROVE  SInv'
<1> USE DEF NOT_CREATED, S!NOT_CREATED
<1>1. S!IInv'
  BY S!NextInv, FiniteThreads, SyncAssumption DEF SInv
<1>2. Making' = Making /\ UNCHANGED <<all, pid, next_pid, todo, step, ptr>>
  BY DEF Making, creation
<1>3. \A t \in Threads : SyncStatus'[t] = NOT_CREATED <=> SyncStatus[t] = NOT_CREATED
  BY S!NextEffect, FiniteThreads, SyncAssumption DEF SInv
<1>4. \A t \in Threads : status'[t] = NOT_CREATED <=> status[t] = NOT_CREATED
  BY <1>2, <1>3 DEF SyncStatus
<1>5. TodoInv'
  BY <1>2 DEF SInv, TodoInv
<1>6. ExistInv'
  BY <1>2, <1>3 DEF SInv, ExistInv, Exists, Started
<1>7. PidInv' /\ UniquePids'
  BY <1>2, <1>4 DEF SInv, PidInv, UniquePids
<1>8. WalkInv'
  BY <1>2, <1>3 DEF SInv, WalkInv
<1> QED  BY <1>1, <1>5, <1>6, <1>7, <1>8 DEF SInv

\* Other threads do not interfere with what main holds.
LEMMA OtherCaller ==
  ASSUME SInv, S!Next, cur # main, UNCHANGED <<todo, step>>
  PROVE  CallerInv'
<1>1. /\ pc'[main] = pc[main] /\ arg'[main] = arg[main]
      /\ \A l \in Locks : /\ holder'[l] = main <=> holder[l] = main
                          /\ holder[l] = main => repeat'[l] = repeat[l]
  BY S!NextEffect, FiniteThreads, SyncAssumption, SchedulerAssumption DEF SInv
<1>2. Held(main)' = Held(main)
  BY <1>1 DEF Held
<1>3. Held(main) = {pid_lock} => repeat'[pid_lock] = repeat[pid_lock]
  BY <1>1 DEF Held
<1> QED  BY <1>1, <1>2, <1>3 DEF SInv, CallerInv

LEMMA StillInv ==
  ASSUME SInv, UNCHANGED <<vars, creation>>, STypeOK'
  PROVE  SInv'
<1>1. UNCHANGED <<cur, ready, status, panic, value, waiters, holder, repeat, pc, arg,
                  all, pid, next_pid, todo, step, ptr>>
  BY DEF vars, kthread, sync, creation
<1>2. Making' = Making
  BY <1>1 DEF Making
<1>3. SyncStatus' = SyncStatus
  BY <1>1, <1>2 DEF SyncStatus
<1>4. S!IInv'
  <2>1. UNCHANGED S!vars
    BY <1>1, <1>3 DEF S!vars, S!kthread, S!sync
  <2> QED  BY <2>1, S!NextInv, FiniteThreads, SyncAssumption DEF SInv
<1>5. TodoInv' /\ ExistInv' /\ PidInv' /\ UniquePids'
  BY <1>1, <1>2, <1>3 DEF SInv, TodoInv, ExistInv, Exists, Started, PidInv, UniquePids
<1>6. CallerInv' /\ WalkInv'
  BY <1>1, <1>3 DEF SInv, CallerInv, Held, WalkInv
<1> QED  BY <1>4, <1>5, <1>6 DEF SInv

\* process_activate loads a process's page directory or the kernel's.
LEMMA ActivateType ==
  ASSUME SInv, process_activate(cur')
  PROVE  cr3' \in Procs \cup {NULL} /\ esp0' \in Procs \cup {NULL}
BY DEF SInv, STypeOK, process_activate, page_dir_activate, update_tss_esp

LEMMA SyncTypes ==
  ASSUME SInv, S!Next
  PROVE  cur' \in Threads /\ ready' \in Seq(Threads)
<1>1. S!IInv'
  BY S!NextInv, FiniteThreads, SyncAssumption DEF SInv
<1> QED  BY <1>1 DEF S!IInv, S!TypeOK, S!KThreadTypeOK

LEMMA TimerInv ==
  ASSUME SInv, intr_timer_handler
  PROVE  SInv'
<1> USE SchedulerAssumption
<1>1. /\ STypeOK /\ UNCHANGED <<sync, fresh, creation>>
      /\ UNCHANGED <<all, pid, next_pid, todo, step, ptr>>
  BY DEF SInv, intr_timer_handler, creation
<1>2. CASE timer_decrement
  <2>1. UNCHANGED <<vars, cur, ready, status, cr3, esp0>>
    BY <1>1, <1>2, TimerAsserts DEF timer_decrement, vars, kthread, space
  <2>2. ticks[cur] - 1 \in Nat /\ ticks[cur] - 1 <= Prio[cur]
    <3>1. cur \in Threads /\ ticks[cur] \in Nat /\ Prio[cur] \in Nat /\ ticks[cur] <= Prio[cur]
      BY <1>1 DEF STypeOK
    <3>2. ticks[cur] # 0
      BY <1>2 DEF timer_decrement
    <3> QED  BY <3>1, <3>2
  <2>3. ticks' = [ticks EXCEPT ![cur] = ticks[cur] - 1]
    BY <1>2 DEF timer_decrement
  <2>4. ticks' \in [Threads -> Nat] /\ \A t \in Threads : ticks'[t] <= Prio[t]
    BY <1>1, <2>2, <2>3 DEF STypeOK
  <2>5. STypeOK'
    BY <1>1, <2>1, <2>4 DEF STypeOK
  <2> QED  BY <1>1, <2>1, <2>5, StillInv
<1>3. CASE timer_schedule
  <2>1. /\ S!Next
        /\ \A t \in Making : status'[t] = status[t]
        /\ status' \in [Threads -> Status \cup {NOT_CREATED}]
    BY <1>1, <1>3, TimerMaps DEF intr_timer_handler
  <2>2. cr3' \in Procs \cup {NULL} /\ esp0' \in Procs \cup {NULL}
    BY <1>3, ActivateType DEF timer_schedule
  <2>3. ticks' \in [Threads -> Nat] /\ \A t \in Threads : ticks'[t] <= Prio[t]
    <3>1. /\ cur \in Threads /\ Prio[cur] \in Nat
          /\ ticks \in [Threads -> Nat] /\ \A t \in Threads : ticks[t] <= Prio[t]
      BY <1>1 DEF STypeOK
    <3>2. ticks' = [ticks EXCEPT ![cur] = Prio[cur]]
      BY <1>3 DEF timer_schedule
    <3> QED  BY <3>1, <3>2
  <2>4. STypeOK'
    BY <1>1, <2>1, <2>2, <2>3, SyncTypes DEF STypeOK
  <2>5. CallerInv'
    BY <1>1 DEF SInv, CallerInv, sync, Held
  <2> QED  BY <1>1, <2>1, <2>4, <2>5, SyncStep
<1> QED  BY <1>2, <1>3 DEF intr_timer_handler

LEMMA KernelThreadInv ==
  ASSUME SInv, kernel_thread
  PROVE  SInv'
<1>1. /\ UNCHANGED <<vars, creation, cur, ready, status, ticks, cr3, esp0>>
      /\ UNCHANGED <<all, pid, next_pid, todo, step, ptr>>
      /\ fresh' = fresh \ {cur}
  BY DEF kernel_thread, vars, kthread, creation, space
<1>2. STypeOK'
  BY <1>1 DEF SInv, STypeOK
<1> QED  BY <1>1, <1>2, StillInv

LEMMA InCallInv ==
  ASSUME SInv, InCall
  PROVE  SInv'
<1> USE SchedulerAssumption
<1>1. /\ UNCHANGED <<ticks, fresh, creation>>
      /\ UNCHANGED <<all, pid, next_pid, todo, step, ptr>>
      /\ cr3' \in Procs \cup {NULL} /\ esp0' \in Procs \cup {NULL}
  BY ActivateType DEF InCall, creation, space, SInv, STypeOK
<1>2. /\ S!Next
      /\ \A t \in Making : status'[t] = status[t]
      /\ status' \in [Threads -> Status \cup {NOT_CREATED}]
  <2>1. CASE sema_down_block
    BY <1>1, <2>1, BlockMaps, ListFacts DEF S!Next, S!InSync
  <2>2. CASE sema_up
    BY <1>1, <2>2, UpMaps, ListFacts DEF S!Next, S!InSync
  <2>3. CASE sema_down_take \/ set_holder \/ set_repeat \/ clear_repeat
    <3>1. UNCHANGED <<cur, ready, status>>
      BY <2>3 DEF sema_down_take, set_holder, set_repeat, clear_repeat, kthread
    <3>2. SyncStatus' = SyncStatus
      BY <1>1, <3>1 DEF SyncStatus, Making
    <3> QED  BY <2>3, <3>1, <3>2, StillMaps DEF SInv, STypeOK
  <2> QED  BY <2>1, <2>2, <2>3 DEF InCall
<1>3. STypeOK'
  BY <1>1, <1>2, SyncTypes DEF SInv, STypeOK
<1>4. CallerInv'
  <2>1. CASE cur # main
    BY <1>1, <1>2, <2>1, OtherCaller
  <2>2. CASE cur = main
    <3>1. /\ pc \in [Threads -> S!PC] /\ holder \in [Locks -> Threads \cup {NULL}]
          /\ repeat \in [Locks -> Nat]
          /\ pc[main] # "run" => arg[main] \in Locks
      BY DEF SInv, S!IInv, S!TypeOK, S!CallInv
    <3>2. UNCHANGED arg
      BY DEF InCall, sema_down_block, sema_down_take, set_holder, set_repeat, clear_repeat, sema_up
    <3>3. CASE sema_down_block \/ sema_down_take
      <4>1. /\ UNCHANGED <<holder, repeat>>
            /\ pc[main] \in {"down", "waiting"} /\ pc'[main] \in {"waiting", "setholder"}
        BY <2>2, <3>1, <3>3 DEF sema_down_block, sema_down_take, goto
      <4> QED  BY <1>1, <3>2, <4>1 DEF SInv, CallerInv, Held
    <3>4. CASE set_holder
      <4>1. /\ UNCHANGED repeat
            /\ pc[main] = "setholder" /\ pc'[main] = "setrepeat"
            /\ holder' = [holder EXCEPT ![arg[main]] = main]
        BY <2>2, <3>1, <3>4 DEF set_holder, goto
      <4>2. Held(main)' = Held(main) \cup {arg[main]}
        BY <3>1, <4>1 DEF Held
      <4> QED  BY <1>1, <3>2, <4>1, <4>2 DEF SInv, CallerInv
    <3>5. CASE set_repeat
      <4>1. /\ UNCHANGED holder
            /\ pc[main] = "setrepeat" /\ pc'[main] = "run"
            /\ repeat' = [repeat EXCEPT ![arg[main]] = 1]
        BY <2>2, <3>1, <3>5 DEF set_repeat, goto
      <4>2. Held(main)' = Held(main)
        BY <4>1 DEF Held
      <4> QED  BY <1>1, <3>1, <3>2, <4>1, <4>2 DEF SInv, CallerInv
    <3>6. CASE clear_repeat \/ sema_up
      <4>1. /\ UNCHANGED holder
            /\ pc[main] \in {"clrrepeat", "up"} /\ pc'[main] \in {"up", "run"}
        BY <2>2, <3>1, <3>6 DEF clear_repeat, sema_up, goto
      <4> QED  BY <1>1, <3>2, <4>1 DEF SInv, CallerInv, Held
    <3> QED  BY <3>3, <3>4, <3>5, <3>6 DEF InCall
  <2> QED  BY <2>1, <2>2
<1> QED  BY <1>1, <1>2, <1>3, <1>4, SyncStep

LEMMA CallStepInv ==
  ASSUME SInv, Call
  PROVE  SInv'
<1> USE SchedulerAssumption
<1>1. /\ UNCHANGED <<ticks, fresh, creation, space>>
      /\ UNCHANGED <<all, pid, next_pid, todo, step, ptr, cr3, esp0>>
      /\ UNCHANGED <<cur, ready, status>>
  BY DEF Call, creation, space, Acquire, Release, lock_acquire, lock_release, kthread
<1>2. SyncStatus' = SyncStatus
  BY <1>1 DEF SyncStatus, Making
<1>3. S!Next
  BY <1>1, <1>2, StillMaps DEF Call
<1>4. STypeOK'
  BY <1>1 DEF SInv, STypeOK
<1>5. CallerInv'
  <2>1. CASE cur # main
    BY <1>1, <1>3, <2>1, OtherCaller
  <2>2. CASE cur = main
    BY <1>1, <2>2 DEF Call, CallerInv
  <2> QED  BY <2>1, <2>2
<1> QED  BY <1>1, <1>3, <1>4, <1>5, SyncStep

-----------------------------------------------------------------------------
(***************************************************************************)
(* thread_start and process_execute.  Only main is there, and the thread   *)
(* it starts is not yet one that sync.c knows.                             *)
(***************************************************************************)
LEMMA CreateFacts ==
  ASSUME SInv, NEW s \in Step, At(s)
  PROVE  /\ cur = main /\ step[main] = s /\ pc[main] = "run"
         /\ todo[main] \in Seq(Threads) /\ todo[main] # <<>>
         /\ IsInjective(todo[main])
         /\ New = Head(todo[main]) /\ New \in Threads \ {main}
         /\ New \notin Started
         /\ s # "queued" => ~Exists(New) /\ SyncStatus[New] = NOT_CREATED
<1>1. cur = main /\ cur \in Threads
  BY ListFacts DEF At, SInv, TodoInv
<1>2. /\ step[main] = s /\ pc[main] = "run" /\ todo[main] \in Seq(Threads)
      /\ todo[main] # <<>> /\ IsInjective(todo[main]) /\ New = Head(todo[main])
  BY <1>1 DEF At, SInv, TodoInv, STypeOK, New
<1>3. /\ New \in Threads /\ New \in Range(todo[main]) /\ New = todo[main][1]
      /\ Len(todo[main]) \in Nat \ {0}
  BY <1>2, PopFacts, EmptySeq, LenProperties
<1>4. New # main
  <2> DEFINE n == Len(Starts[main])
             m == Len(todo[main])
             i == n - m + 1
  <2>1. /\ Starts[main] \in Seq(Threads \ {main}) /\ n \in Nat
        /\ DOMAIN Starts[main] = 1 .. n
    BY SchedulerAssumption, LenProperties
  <2>2. m <= n /\ \A j \in 1 .. m : todo[main][j] = Starts[main][n - m + j]
    BY DEF SInv, TodoInv
  <2>3. m \in Nat \ {0}
    BY <1>3
  <2> HIDE DEF m, n
  <2>4. 1 \in 1 .. m /\ i \in 1 .. n
    BY <2>1, <2>2, <2>3
  <2>5. New = Starts[main][i]
    BY <1>3, <2>2, <2>4
  <2> HIDE DEF i
  <2> QED  BY <2>1, <2>4, <2>5
<1>5. New \notin Started
  BY <1>3 DEF Started
<1>6. s # "queued" => ~Exists(New)
  BY <1>2, <1>4, <1>5 DEF Exists
<1>7. ~Exists(New) => SyncStatus[New] = NOT_CREATED
  BY <1>3 DEF SInv, ExistInv
<1> QED  BY <1>1, <1>2, <1>3, <1>4, <1>5, <1>6, <1>7

(***************************************************************************)
(* The two steps of allocate_pid that are calls of sync.c.                 *)
(***************************************************************************)
LEMMA AllocateStep ==
  ASSUME SInv, S!Next, NEW s \in {"acquire", "release"}, todo[main] # <<>>,
         step[main] \in {"idle", "acquire"}, step' = [step EXCEPT ![main] = s],
         UNCHANGED <<status, ticks, fresh, space, all, pid, todo, ptr>>,
         next_pid' \in Nat, PidInv', CallerInv'
  PROVE  SInv'
<1> USE SchedulerAssumption DEF NOT_CREATED, S!NOT_CREATED
<1>1. S!IInv'
  BY S!NextInv, FiniteThreads, SyncAssumption DEF SInv
<1>2. TodoInv /\ ExistInv /\ STypeOK /\ UniquePids
  BY DEF SInv
<1>3. step'[main] = s /\ \A t \in Threads \ {main} : step'[t] = step[t]
  BY <1>2 DEF STypeOK
<1>4. TodoInv'
  BY <1>2, <1>3 DEF TodoInv
<1>5. Making = {} /\ Making' = {}
  BY <1>2, <1>3, <1>4, MakingIs, MakingIsNext
<1>6. SyncStatus' = SyncStatus
  BY <1>5 DEF SyncStatus
<1>7. \A t \in Threads : Exists(t)' <=> Exists(t)
  BY <1>3 DEF Exists, Started
<1>8. Started' = Started
  BY DEF Started
<1>9. ExistInv'
  BY <1>2, <1>5, <1>6, <1>7, <1>8 DEF ExistInv
<1>10. UniquePids'
  BY <1>2 DEF UniquePids
<1>11. step' \in [Threads -> Step]
  BY <1>2 DEF STypeOK, Step
<1>12. STypeOK'
  BY <1>2, <1>11, SyncTypes DEF STypeOK, space
<1>13. WalkInv'
  BY <1>3 DEF WalkInv
<1> QED  BY <1>1, <1>4, <1>9, <1>10, <1>12, <1>13 DEF SInv

LEMMA AllocatePidAcquireInv ==
  ASSUME SInv, allocate_pid_acquire
  PROVE  SInv'
<1> USE SchedulerAssumption
<1>1. At("idle") /\ "idle" \in Step
  BY DEF allocate_pid_acquire, Step
<1>2. cur = main /\ step[main] = "idle" /\ todo[main] # <<>> /\ TodoInv
  BY <1>1, CreateFacts DEF SInv
<1>3. /\ UNCHANGED <<cur, ready, status, ticks, fresh, space, all, pid, next_pid, todo, ptr>>
      /\ step' = [step EXCEPT ![main] = "acquire"]
  BY <1>2 DEF allocate_pid_acquire, lock_acquire, kthread, goto_step
<1>4. Held(main) = {} /\ holder[pid_lock] # main
  BY <1>2 DEF allocate_pid_acquire, Held
<1>5. /\ UNCHANGED <<holder, repeat>>
      /\ pc' = [pc EXCEPT ![main] = "down"] /\ arg' = [arg EXCEPT ![main] = pid_lock]
  BY <1>2, <1>4 DEF allocate_pid_acquire, lock_acquire, goto
<1>6. step \in [Threads -> Step] /\ pc \in [Threads -> S!PC] /\ arg \in [Threads -> Locks \cup {NULL}]
  BY DEF SInv, STypeOK, S!IInv, S!TypeOK
<1>7. step'[main] = "acquire" /\ \A t \in Threads \ {main} : step'[t] = step[t]
  BY <1>3, <1>6
<1>8. TodoInv'
  BY <1>2, <1>3, <1>7 DEF TodoInv
<1>9. Making = {} /\ Making' = {}
  BY <1>2, <1>3, <1>7, <1>8, MakingIs, MakingIsNext
<1>10. SyncStatus' = SyncStatus
  BY <1>3, <1>9 DEF SyncStatus
<1>11. S!Next
  <2>1. Acquire(pid_lock)
    BY <1>2, <1>4 DEF allocate_pid_acquire, Acquire
  <2> QED  BY <1>3, <1>10, <2>1, StillMaps
<1>12. CallerInv'
  <2>1. pc'[main] = "down" /\ arg'[main] = pid_lock
    BY <1>5, <1>6
  <2>2. Held(main)' = {}
    BY <1>4, <1>5 DEF Held
  <2> QED  BY <1>7, <2>1, <2>2 DEF CallerInv
<1>13. PidInv'
  BY <1>3, <1>7 DEF SInv, PidInv
<1>14. next_pid' \in Nat
  BY <1>3 DEF SInv, STypeOK
<1> QED  BY <1>2, <1>3, <1>11, <1>12, <1>13, <1>14, AllocateStep

LEMMA AllocatePidReleaseInv ==
  ASSUME SInv, allocate_pid_release
  PROVE  SInv'
<1> USE SchedulerAssumption
<1>1. At("acquire") /\ "acquire" \in Step
  BY DEF allocate_pid_release, Step
<1>2. cur = main /\ step[main] = "acquire" /\ todo[main] # <<>> /\ TodoInv /\ pc[main] = "run"
  BY <1>1, CreateFacts DEF SInv
<1>3. /\ UNCHANGED <<cur, ready, status, ticks, fresh, space, all, pid, todo, ptr>>
      /\ step' = [step EXCEPT ![main] = "release"] /\ next_pid' = next_pid + 1
  BY <1>2 DEF allocate_pid_release, lock_release, goto_step
<1>4. Held(main) = {pid_lock} /\ repeat[pid_lock] = 1
  BY <1>2 DEF SInv, CallerInv
<1>5. /\ holder' = [holder EXCEPT ![pid_lock] = NULL]
      /\ pc' = [pc EXCEPT ![main] = "clrrepeat"]
  <2>1. ~(repeat[pid_lock] > 1)
    BY <1>4
  <2> QED  BY <1>2, <2>1 DEF allocate_pid_release, lock_release, goto
<1>6. /\ step \in [Threads -> Step] /\ pc \in [Threads -> S!PC]
      /\ holder \in [Locks -> Threads \cup {NULL}]
  BY DEF SInv, STypeOK, S!IInv, S!TypeOK
<1>7. step'[main] = "release" /\ \A t \in Threads \ {main} : step'[t] = step[t]
  BY <1>3, <1>6
<1>8. TodoInv'
  BY <1>2, <1>3, <1>7 DEF TodoInv
<1>9. Making = {} /\ Making' = {}
  BY <1>2, <1>3, <1>7, <1>8, MakingIs, MakingIsNext
<1>10. SyncStatus' = SyncStatus
  BY <1>3, <1>9 DEF SyncStatus
<1>11. S!Next
  <2>1. Release(pid_lock)
    BY <1>2, <1>4 DEF allocate_pid_release, Release
  <2> QED  BY <1>3, <1>10, <2>1, StillMaps
<1>12. CallerInv'
  <2>1. pc'[main] = "clrrepeat"
    BY <1>5, <1>6
  <2>2. Held(main)' = {}
    BY <1>4, <1>5, <1>6, SyncAssumption DEF Held
  <2> QED  BY <1>7, <2>1, <2>2 DEF CallerInv
<1>13. next_pid \in Nat /\ pid \in [Threads -> Nat] /\ PidInv
  BY DEF SInv, STypeOK
<1>14. PidInv'
  BY <1>3, <1>7, <1>13 DEF PidInv
<1> QED  BY <1>2, <1>3, <1>11, <1>12, <1>13, <1>14, AllocateStep

\* Where the entries of Starts[main] are that are still to do, and the others.
LEMMA TodoFacts ==
  ASSUME SInv
  PROVE  /\ Len(Starts[main]) \in Nat /\ Len(todo[main]) \in 0 .. Len(Starts[main])
         /\ DOMAIN Starts[main] = 1 .. Len(Starts[main])
         /\ todo[main] \in Seq(Threads) /\ DOMAIN todo[main] = 1 .. Len(todo[main])
         /\ \A i \in 1 .. Len(todo[main]) :
              todo[main][i] = Starts[main][Len(Starts[main]) - Len(todo[main]) + i]
         /\ Range(todo[main]) \subseteq Range(Starts[main])
         /\ \A t \in Started : \E i \in 1 .. Len(Starts[main]) - Len(todo[main]) :
              t = Starts[main][i]
<1> DEFINE n == Len(Starts[main])
           m == Len(todo[main])
<1>1. /\ Starts[main] \in Seq(Threads \ {main}) /\ n \in Nat /\ DOMAIN Starts[main] = 1 .. n
      /\ todo[main] \in Seq(Threads) /\ m \in Nat /\ DOMAIN todo[main] = 1 .. m
  BY SchedulerAssumption, LenProperties DEF SInv, STypeOK
<1>2. m <= n /\ \A j \in 1 .. m : todo[main][j] = Starts[main][n - m + j]
  BY DEF SInv, TodoInv
<1> HIDE DEF m, n
<1>3. \A j \in 1 .. m : n - m + j \in 1 .. n
  BY <1>1, <1>2
<1>4. Range(todo[main]) \subseteq Range(Starts[main])
  BY <1>1, <1>2, <1>3 DEF Range
<1>5. ASSUME NEW t \in Started
      PROVE  \E i \in 1 .. n - m : t = Starts[main][i]
  <2>1. PICK i \in 1 .. n : t = Starts[main][i]
    BY <1>1, <1>5 DEF Started, Range
  <2>2. \A j \in 1 .. m : t # todo[main][j]
    BY <1>1, <1>5 DEF Started, Range
  <2>3. ASSUME i > n - m PROVE FALSE
    <3> DEFINE j == i - (n - m)
    <3>1. j \in 1 .. m /\ n - m + j = i
      BY <1>1, <1>2, <2>3
    <3> HIDE DEF j
    <3> QED  BY <1>2, <2>1, <2>2, <3>1
  <2>4. i \in 1 .. n - m
    BY <1>1, <1>2, <2>3
  <2> QED  BY <2>1, <2>4
<1>6. m \in 0 .. n
  BY <1>1, <1>2
<1> QED  BY <1>1, <1>2, <1>4, <1>5, <1>6, Zenon DEF m, n

(***************************************************************************)
(* While main is on its way through the ready list, the list holds no      *)
(* other node than the one it stands on: the thread it has started before, *)
(* if any, is not running and cannot be blocked, because main holds no     *)
(* lock that it could be waiting for.                                      *)
(***************************************************************************)
LEMMA WalkFacts ==
  ASSUME SInv, cur = main, step[main] = "walking", ptr[main] # TAIL
  PROVE  /\ ready \in Seq(Threads) /\ Len(ready) = 1 /\ ready[1] = ptr[main]
         /\ ptr[main] \in Range(ready)
         /\ ptr[main] # Head(todo[main])
<1> USE DEF TASK_RUNNING, TASK_READY, TASK_BLOCKED, NOT_CREATED,
            S!TASK_RUNNING, S!TASK_READY, S!TASK_BLOCKED, S!NOT_CREATED
<1> DEFINE p == ptr[main]
           n == Len(Starts[main])
           m == Len(todo[main])
<1>1. /\ p \in Threads \ {main} /\ SyncStatus[p] # NOT_CREATED
      /\ Head(todo[main]) \notin Procs
      /\ pc[main] = "run" /\ Held(main) = {}
      /\ todo[main] # <<>>
  BY DEF SInv, WalkInv, CallerInv, TodoInv
<1>2. \A t \in Threads : SyncStatus[t] # NOT_CREATED => t = main \/ t \in Started
  BY DEF SInv, ExistInv, Exists
<1>3. n - m <= 1 /\ n \in Nat /\ m \in 1 .. n
  <2>1. n \in Nat /\ m \in 0 .. n /\ todo[main] \in Seq(Threads)
    BY TodoFacts
  <2>2. m # 0 /\ Head(todo[main]) = todo[main][1]
    BY <1>1, <2>1, EmptySeq, LenProperties
  <2>3. \A i \in 1 .. m : todo[main][i] = Starts[main][n - m + i]
    BY TodoFacts
  <2>4. DOMAIN Starts[main] = 1 .. n
    BY TodoFacts
  <2> HIDE DEF n, m
  <2>5. 1 \in 1 .. m /\ n - m + 1 \in 1 .. n
    BY <2>1, <2>2
  <2>6. Starts[main][n - m + 1] \notin Procs
    BY <1>1, <2>2, <2>3, <2>5
  <2>7. ~(n - m + 1 > 2)
    BY <2>4, <2>5, <2>6, MainAssumption
  <2> QED  BY <2>1, <2>2, <2>7
<1>4. \A t, u \in Started : t = u
  <2>1. \A t \in Started : \E i \in 1 .. n - m : t = Starts[main][i]
    BY TodoFacts
  <2> HIDE DEF n, m
  <2>2. \A i \in 1 .. n - m : i = 1
    BY <1>3
  <2>3. \A t \in Started : t = Starts[main][1]
    BY <2>1, <2>2
  <2> QED  BY <2>3
<1>5. p \in Started
  BY <1>1, <1>2
<1>6. \A t \in Threads : SyncStatus[t] # NOT_CREATED => t \in {main, p}
  BY <1>2, <1>4, <1>5
<1> HIDE DEF p, n, m
<1>7. SyncStatus[p] # TASK_BLOCKED
  <2> SUFFICES ASSUME SyncStatus[p] = TASK_BLOCKED PROVE FALSE
    OBVIOUS
  <2> DEFINE l == arg[p]
  <2>1. pc[p] = "waiting" /\ l \in Locks /\ holder[l] # p
    BY <1>1 DEF SInv, S!IInv, S!CallInv
  <2> HIDE DEF l
  <2>2. p \in S!Range(waiters[l])
    BY <1>1, <2>1 DEF SInv, S!IInv, S!WaitersInv, l
  <2>3. waiters[l] # <<>>
    BY <2>2 DEF S!Range
  <2>4. \A t \in Threads \ {main, p} : pc[t] = "run" /\ ~S!Owns(t, l)
    BY <1>6, <2>1 DEF SInv, S!IInv, S!CreatedInv
  <2>5. ~S!Owns(main, l) /\ ~S!Owns(p, l)
    BY <1>1, <2>1 DEF S!Owns, Held, l
  <2>6. \A t \in Threads : ~S!Owns(t, l) /\ (pc[t] = "waiting" => t = p)
    BY <1>1, <2>4, <2>5
  <2> QED  BY <2>1, <2>3, <2>6 DEF SInv, S!IInv, S!NoLostWakeup
<1>8. p \in Range(ready) /\ \A t \in Range(ready) : t = p
  <2>1. SyncStatus[p] = TASK_READY
    BY <1>1, <1>7, ListFacts DEF Status
  <2> QED  BY <1>1, <1>6, <2>1, ListFacts
<1>9. /\ ready \in Seq(Threads) /\ IsInjective(ready) /\ Len(ready) \in Nat
      /\ DOMAIN ready = 1 .. Len(ready)
  BY ListFacts, LenProperties
<1>10. \A i \in 1 .. Len(ready) : ready[i] = p
  BY <1>8, <1>9 DEF Range
<1>11. \A i, j \in 1 .. Len(ready) : i = j
  BY <1>9, <1>10 DEF IsInjective
<1>12. \E i \in 1 .. Len(ready) : TRUE
  BY <1>8, <1>9 DEF Range
<1>13. Len(ready) = 1
  BY <1>9, <1>11, <1>12
<1>14. p # Head(todo[main])
  <2>1. Head(todo[main]) \in Range(todo[main])
    BY <1>1, TodoFacts, PopFacts DEF SInv, TodoInv
  <2> QED  BY <1>5, <2>1 DEF Started
<1> QED  BY <1>8, <1>9, <1>10, <1>13, <1>14 DEF p

(***************************************************************************)
(* Steps of thread_start that sync.c does not see.                         *)
(***************************************************************************)
LEMMA UnseenStep ==
  ASSUME SInv, SyncStatus' = SyncStatus, panic' = {}, UNCHANGED <<cur, ready, sync>>
  PROVE  S!IInv'
<1>1. panic = {}
  BY ListFacts
<1>2. UNCHANGED S!vars
  BY <1>1 DEF S!vars, S!kthread, S!sync, sync
<1> QED  BY <1>2, S!NextInv, FiniteThreads, SyncAssumption DEF SInv

\* The step main takes next, and which thread it is making then.
LEMMA StepTo ==
  ASSUME SInv, NEW s \in Step, NEW r \in Step, At(s), goto_step(r), UNCHANGED todo
  PROVE  /\ step' \in [Threads -> Step] /\ step'[main] = r
         /\ \A t \in Threads \ {main} : step'[t] = step[t]
         /\ r # "idle" => TodoInv'
         /\ Making = IF s \in {"made", "walking"} THEN {New} ELSE {}
         /\ r # "idle" => Making' = IF r \in {"made", "walking"} THEN {New} ELSE {}
         /\ Started' = Started
<1> USE SchedulerAssumption
<1>1. /\ cur = main /\ step[main] = s /\ todo[main] # <<>> /\ New = Head(todo[main])
      /\ step \in [Threads -> Step] /\ TodoInv
  BY CreateFacts DEF SInv, STypeOK
<1>2. step' \in [Threads -> Step] /\ step'[main] = r /\ \A t \in Threads \ {main} : step'[t] = step[t]
  BY <1>1 DEF goto_step
<1>3. r # "idle" => TodoInv'
  BY <1>1, <1>2 DEF TodoInv
<1>4. Making = IF s \in {"made", "walking"} THEN {New} ELSE {}
  BY <1>1, MakingIs
<1>5. r # "idle" => Making' = IF r \in {"made", "walking"} THEN {New} ELSE {}
  BY <1>1, <1>2, <1>3, MakingIsNext
<1> QED  BY <1>2, <1>3, <1>4, <1>5 DEF Started

LEMMA InitThreadInv ==
  ASSUME SInv, init_thread
  PROVE  SInv'
<1> USE SchedulerAssumption DEF TASK_RUNNING, TASK_READY, TASK_BLOCKED, NOT_CREATED
<1>1. At("release") /\ "release" \in Step /\ "made" \in Step /\ goto_step("made")
  BY DEF init_thread, Step
<1>2. /\ UNCHANGED <<cur, ready, panic, sync, fresh, space, all, next_pid, todo, ptr>>
      /\ pid' = [pid EXCEPT ![New] = next_pid]
      /\ status' = [status EXCEPT ![New] = TASK_READY]
      /\ ticks' = [ticks EXCEPT ![New] = Prio[New]]
  BY DEF init_thread
<1>3. /\ cur = main /\ step[main] = "release" /\ pc[main] = "run" /\ todo[main] # <<>>
      /\ New \in Threads \ {main} /\ ~Exists(New) /\ SyncStatus[New] = NOT_CREATED
      /\ New = Head(todo[main])
  BY <1>1, CreateFacts
<1>4. /\ step' \in [Threads -> Step] /\ step'[main] = "made" /\ TodoInv'
      /\ Making = {} /\ Making' = {New} /\ Started' = Started
  BY <1>1, <1>2, StepTo
<1>5. STypeOK /\ ExistInv /\ PidInv /\ UniquePids /\ CallerInv
  BY DEF SInv
<1>6. status \in [Threads -> Status \cup {NOT_CREATED}] /\ status[New] = NOT_CREATED
  BY <1>3, <1>4, <1>5 DEF STypeOK, SyncStatus
<1>7. SyncStatus' = SyncStatus
  BY <1>2, <1>3, <1>4, <1>6 DEF SyncStatus
<1>8. S!IInv'
  BY <1>2, <1>7, UnseenStep, ListFacts
<1>9. STypeOK'
  <2>1. status' \in [Threads -> Status \cup {NOT_CREATED}]
    BY <1>2, <1>3, <1>6 DEF Status
  <2>2. ticks \in [Threads -> Nat] /\ (\A t \in Threads : ticks[t] <= Prio[t]) /\ Prio[New] \in Nat
    BY <1>3, <1>5 DEF STypeOK
  <2>3. ticks' \in [Threads -> Nat] /\ \A t \in Threads : ticks'[t] <= Prio[t]
    BY <1>2, <1>3, <2>2
  <2>4. pid' \in [Threads -> Nat]
    BY <1>2, <1>3, <1>5 DEF STypeOK
  <2> QED  BY <1>2, <1>4, <1>5, <2>1, <2>3, <2>4 DEF STypeOK, space
<1>10. ExistInv'
  <2>1. \A t \in Threads : Exists(t)' <=> Exists(t)
    BY <1>2, <1>3, <1>4 DEF Exists
  <2>2. \A t \in Making' : status'[t] = TASK_READY
    BY <1>2, <1>3, <1>4, <1>6
  <2> QED  BY <1>2, <1>4, <1>5, <1>7, <2>1, <2>2 DEF ExistInv
<1>11. \A t \in Threads : status'[t] # NOT_CREATED /\ t # New =>
         pid'[t] = pid[t] /\ status[t] # NOT_CREATED /\ pid[t] < next_pid
  BY <1>2, <1>3, <1>5, <1>6 DEF PidInv, STypeOK
<1>12. /\ pid'[New] = next_pid /\ next_pid' = next_pid /\ next_pid \in Nat
       /\ \A t \in Threads : pid[t] \in Nat
  BY <1>2, <1>3, <1>5 DEF STypeOK
<1>13. PidInv'
  <2> SUFFICES ASSUME NEW t \in Threads, status'[t] # NOT_CREATED
               PROVE  pid'[t] <= next_pid'
    BY <1>4 DEF PidInv
  <2>1. CASE t = New
    BY <1>12, <2>1
  <2>2. CASE t # New
    <3>1. pid'[t] = pid[t] /\ pid[t] \in Nat /\ pid[t] < next_pid
      BY <1>11, <1>12, <2>2
    <3> QED  BY <1>12, <3>1
  <2> QED  BY <2>1, <2>2
<1>14. UniquePids'
  <2> SUFFICES ASSUME NEW t \in Threads, NEW u \in Threads, t # u,
                      status'[t] # NOT_CREATED, status'[u] # NOT_CREATED
               PROVE  pid'[t] # pid'[u]
    BY DEF UniquePids
  <2>1. CASE t # New /\ u # New
    BY <1>5, <1>11, <2>1 DEF UniquePids
  <2>2. CASE t = New
    <3>1. pid'[u] = pid[u] /\ pid[u] \in Nat /\ pid[u] < next_pid
      BY <1>11, <1>12, <2>2
    <3> QED  BY <1>12, <2>2, <3>1
  <2>3. CASE u = New
    <3>1. pid'[t] = pid[t] /\ pid[t] \in Nat /\ pid[t] < next_pid
      BY <1>11, <1>12, <2>3
    <3> QED  BY <1>12, <2>3, <3>1
  <2> QED  BY <2>1, <2>2, <2>3
<1>15. CallerInv'
  BY <1>2, <1>3, <1>4, <1>5 DEF CallerInv, Held, sync
<1>16. WalkInv'
  BY <1>4 DEF WalkInv
<1> QED  BY <1>4, <1>8, <1>9, <1>10, <1>13, <1>14, <1>15, <1>16 DEF SInv

\* The steps of elem_find: what they leave alone.
LEMMA WalkStep ==
  ASSUME SInv, NEW s \in {"made", "walking"}, At(s), goto_step("walking"),
         UNCHANGED <<cur, ready, status, sync, ticks, fresh, space, all, pid, next_pid, todo>>,
         panic' = {}, New \notin Procs,
         NEW q, ptr' = [ptr EXCEPT ![main] = q],
         q = TAIL \/ (q \in Threads \ {main} /\ SyncStatus[q] # NOT_CREATED)
  PROVE  SInv'
<1> USE SchedulerAssumption
<1>1. s \in Step /\ "walking" \in Step
  BY DEF Step
<1>2. /\ cur = main /\ step[main] = s /\ pc[main] = "run" /\ todo[main] # <<>>
      /\ New = Head(todo[main])
  BY <1>1, CreateFacts
<1>3. /\ step' \in [Threads -> Step] /\ step'[main] = "walking" /\ TodoInv'
      /\ Making = {New} /\ Making' = {New} /\ Started' = Started
  BY <1>1, StepTo
<1>4. STypeOK /\ ExistInv /\ PidInv /\ UniquePids /\ CallerInv
  BY DEF SInv
<1>5. SyncStatus' = SyncStatus
  BY <1>3 DEF SyncStatus
<1>6. S!IInv'
  BY <1>5, UnseenStep
<1>7. ptr' \in [Threads -> Threads \cup {TAIL}] /\ ptr'[main] = q
  BY <1>4 DEF STypeOK
<1>8. STypeOK'
  BY <1>3, <1>4, <1>7 DEF STypeOK, space
<1>9. ExistInv'
  <2>1. \A t \in Threads : Exists(t)' <=> Exists(t)
    BY <1>2, <1>3 DEF Exists
  <2> QED  BY <1>3, <1>4, <1>5, <2>1 DEF ExistInv
<1>10. PidInv' /\ UniquePids'
  BY <1>3, <1>4 DEF PidInv, UniquePids
<1>11. CallerInv'
  BY <1>2, <1>3, <1>4 DEF CallerInv, Held, sync
<1>12. WalkInv'
  BY <1>2, <1>3, <1>5, <1>7 DEF WalkInv
<1> QED  BY <1>3, <1>6, <1>8, <1>9, <1>10, <1>11, <1>12 DEF SInv

LEMMA ElemFindBeginInv ==
  ASSUME SInv, elem_find_begin
  PROVE  SInv'
<1> USE DEF TASK_RUNNING, TASK_READY, TASK_BLOCKED, NOT_CREATED
<1>1. /\ At("made") /\ goto_step("walking") /\ New \notin Procs /\ "made" \in Step
      /\ UNCHANGED <<cur, ready, status, sync, ticks, fresh, space, all, pid, next_pid, todo>>
      /\ panic' = {}
  BY ListFacts DEF elem_find_begin, kthread, Step
<1>2. cur = main
  BY <1>1, CreateFacts
<1>3. ptr' = [ptr EXCEPT ![main] = FirstReady]
  BY <1>2 DEF elem_find_begin
<1>4. FirstReady = TAIL \/ (FirstReady \in Threads \ {main} /\ SyncStatus[FirstReady] # NOT_CREATED)
  <2>1. ready # <<>> => Head(ready) \in Range(ready)
    BY ListFacts, PopFacts
  <2>2. \A t \in Range(ready) : t \in Threads \ {main} /\ SyncStatus[t] # NOT_CREATED
    BY <1>2, ListFacts
  <2> QED  BY <2>1, <2>2 DEF FirstReady
<1> QED  BY <1>1, <1>3, <1>4, WalkStep

LEMMA ElemFindNextInv ==
  ASSUME SInv, elem_find_next
  PROVE  SInv'
<1>1. /\ At("walking") /\ ptr[cur] # TAIL /\ "walking" \in Step
      /\ UNCHANGED <<cur, ready, status, sync, ticks, fresh, space, all, pid, next_pid, todo, step>>
  BY DEF elem_find_next, Step
<1>2. cur = main /\ step[main] = "walking" /\ New = Head(todo[main])
  BY <1>1, CreateFacts
<1>3. /\ ready \in Seq(Threads) /\ Len(ready) = 1 /\ ready[1] = ptr[main]
      /\ ptr[main] \in Range(ready) /\ ptr[main] # New
  BY <1>1, <1>2, WalkFacts
<1>4. next(ptr[main]) = TAIL
  <2>1. DOMAIN ready = {1}
    BY <1>3, LenProperties
  <2>2. (CHOOSE j \in DOMAIN ready : ready[j] = ptr[main]) = 1
    BY <1>3, <2>1
  <2> QED  BY <1>3, <2>2 DEF next, elem_find, SuccessorIn
<1>5. ptr' = [ptr EXCEPT ![main] = TAIL] /\ ptr'[main] = TAIL
  BY <1>2, <1>4, SchedulerAssumption DEF elem_find_next, SInv, STypeOK
<1>6. panic' = {}
  BY <1>2, <1>3, <1>5 DEF elem_find_next, Failing, TAIL, LOST
<1>7. goto_step("walking")
  <2>1. step \in [Threads -> Step]
    BY DEF SInv, STypeOK
  <2> QED  BY <1>1, <1>2, <2>1, SchedulerAssumption DEF goto_step
<1>8. New \notin Procs
  BY <1>2 DEF SInv, WalkInv
<1> QED  BY <1>1, <1>5, <1>6, <1>7, <1>8, WalkStep

(***************************************************************************)
(* The step after which sync.c knows the new thread.                       *)
(***************************************************************************)
LEMMA QueueStep ==
  ASSUME SInv, NEW s \in {"made", "walking"}, At(s), Making' = {},
         ready' = Append(ready, New), panic' = {}, UNCHANGED <<cur, status, sync>>
  PROVE  /\ S!IInv' /\ ready' \in Seq(Threads)
         /\ SyncStatus' = [SyncStatus EXCEPT ![New] = TASK_READY]
<1> USE DEF TASK_RUNNING, TASK_READY, TASK_BLOCKED, NOT_CREATED, S!TASK_READY, S!NOT_CREATED
<1>1. s \in Step
  BY DEF Step
<1>2. /\ New \in Threads /\ SyncStatus[New] = NOT_CREATED /\ New = Head(todo[main])
      /\ step[main] = s /\ todo[main] # <<>>
  BY <1>1, CreateFacts
<1>3. Making = {New} /\ status[New] = TASK_READY
  BY <1>2, MakingIs DEF SInv, ExistInv
<1>4. SyncStatus' = [SyncStatus EXCEPT ![New] = TASK_READY]
  BY <1>2, <1>3 DEF SyncStatus
<1> DEFINE n == New
<1> HIDE DEF n
<1>5. /\ n \in Threads /\ SyncStatus[n] = S!NOT_CREATED /\ ready' = Append(ready, n)
      /\ SyncStatus' = [SyncStatus EXCEPT ![n] = S!TASK_READY]
  BY <1>2, <1>4 DEF n
<1>6. UNCHANGED <<cur, S!sync>> /\ S!IInv
  BY DEF S!sync, sync, SInv
<1>7. PICK k \in Threads : k = n
  BY <1>5
<1>8. S!IInv'
  BY <1>5, <1>6, <1>7, S!StartInv, FiniteThreads, SyncAssumption
<1> QED  BY <1>4, <1>8 DEF S!IInv, S!TypeOK, S!KThreadTypeOK

LEMMA ThreadStartReadyInv ==
  ASSUME SInv, thread_start_ready
  PROVE  SInv'
<1> USE SchedulerAssumption DEF TASK_RUNNING, TASK_READY, TASK_BLOCKED, NOT_CREATED
<1>1. /\ At("walking") /\ goto_step("queued") /\ "walking" \in Step /\ "queued" \in Step
      /\ ready' = Append(ready, New) /\ panic' = {}
      /\ UNCHANGED <<cur, status, sync, ticks, fresh, space, all, pid, next_pid, todo, ptr>>
  BY ListFacts DEF thread_start_ready, Step
<1>2. /\ cur = main /\ step[main] = "walking" /\ pc[main] = "run" /\ New \in Threads
      /\ New = Head(todo[main])
  BY <1>1, CreateFacts
<1>3. /\ step' \in [Threads -> Step] /\ step'[main] = "queued" /\ TodoInv'
      /\ Making' = {} /\ Started' = Started
  BY <1>1, StepTo
<1>4. /\ S!IInv' /\ ready' \in Seq(Threads)
      /\ SyncStatus' = [SyncStatus EXCEPT ![New] = TASK_READY]
  BY <1>1, <1>3, QueueStep
<1>5. STypeOK /\ ExistInv /\ PidInv /\ UniquePids /\ CallerInv
  BY DEF SInv
<1>6. STypeOK'
  BY <1>1, <1>3, <1>4, <1>5 DEF STypeOK, space
<1>7. ExistInv'
  <2>1. \A t \in Threads : Exists(t)' <=> Exists(t) \/ t = New
    BY <1>1, <1>2, <1>3 DEF Exists
  <2>2. SyncStatus \in [Threads -> Status \cup {NOT_CREATED}]
    BY ListFacts
  <2>3. \A t \in Threads : SyncStatus'[t] # NOT_CREATED <=> Exists(t)'
    BY <1>2, <1>4, <1>5, <2>1, <2>2 DEF ExistInv
  <2> QED  BY <1>1, <1>3, <1>5, <2>3 DEF ExistInv
<1>8. PidInv' /\ UniquePids'
  BY <1>1, <1>3, <1>5 DEF PidInv, UniquePids
<1>9. CallerInv'
  BY <1>1, <1>2, <1>3, <1>5 DEF CallerInv, Held, sync
<1>10. WalkInv'
  BY <1>3 DEF WalkInv
<1> QED  BY <1>3, <1>4, <1>6, <1>7, <1>8, <1>9, <1>10 DEF SInv

\* The new thread is on both lists: main turns to the next one.
LEMMA TodoTail ==
  ASSUME SInv, NEW s \in Step, At(s), goto_step("idle"),
         todo' = [todo EXCEPT ![cur] = Tail(@)]
  PROVE  /\ step' \in [Threads -> Step] /\ todo' \in [Threads -> Seq(Threads)]
         /\ step'[main] = "idle" /\ TodoInv' /\ Making' = {}
         /\ Started' = Started \cup {New}
<1> USE SchedulerAssumption
<1> DEFINE n == Len(Starts[main])
           m == Len(todo[main])
<1>1. /\ cur = main /\ todo[main] \in Seq(Threads) /\ todo[main] # <<>>
      /\ IsInjective(todo[main]) /\ New = Head(todo[main]) /\ New \in Threads
  BY CreateFacts
<1>2. /\ step \in [Threads -> Step] /\ todo \in [Threads -> Seq(Threads)] /\ TodoInv
  BY DEF SInv, STypeOK
<1>3. /\ step' \in [Threads -> Step] /\ step'[main] = "idle"
      /\ \A t \in Threads \ {main} : step'[t] = step[t]
  BY <1>1, <1>2 DEF goto_step, Step
<1>4. /\ Tail(todo[main]) \in Seq(Threads) /\ IsInjective(Tail(todo[main]))
      /\ Range(Tail(todo[main])) = Range(todo[main]) \ {New} /\ New \in Range(todo[main])
  BY <1>1, PopFacts
<1>5. /\ todo' \in [Threads -> Seq(Threads)] /\ todo'[main] = Tail(todo[main])
      /\ \A t \in Threads \ {main} : todo'[t] = todo[t]
  BY <1>1, <1>2, <1>4
<1>6. TodoInv'
  <2>1. /\ n \in Nat /\ m \in 0 .. n /\ m # 0
        /\ \A i \in 1 .. m : todo[main][i] = Starts[main][n - m + i]
    BY <1>1, TodoFacts, EmptySeq
  <2>2. Len(todo'[main]) = m - 1 /\ \A i \in 1 .. m - 1 : todo'[main][i] = todo[main][i + 1]
    BY <1>1, <1>5, HeadTailProperties
  <2> HIDE DEF m, n
  <2>3. m - 1 <= n
    BY <2>1
  <2>4. ASSUME NEW i \in 1 .. m - 1
        PROVE  todo'[main][i] = Starts[main][n - (m - 1) + i]
    <3>1. i + 1 \in 1 .. m /\ n - m + (i + 1) = n - (m - 1) + i
      BY <2>1
    <3> QED  BY <2>1, <2>2, <3>1
  <2>5. /\ Len(todo'[main]) <= Len(Starts[main])
        /\ \A i \in 1 .. Len(todo'[main]) :
             todo'[main][i] = Starts[main][Len(Starts[main]) - Len(todo'[main]) + i]
    BY <2>2, <2>3, <2>4 DEF n
  <2>6. \A t \in Threads \ {main} : todo'[t] = <<>> /\ step'[t] = "idle"
    BY <1>2, <1>3, <1>5 DEF TodoInv
  <2> QED  BY <1>3, <1>4, <1>5, <2>5, <2>6, Zenon DEF TodoInv
<1>7. Making' = {}
  BY <1>3, <1>6, MakingIsNext
<1>8. Started' = Started \cup {New}
  <2>1. New \in Range(Starts[main])
    BY <1>4, TodoFacts
  <2>2. Started' = Range(Starts[main]) \ (Range(todo[main]) \ {New})
    BY <1>4, <1>5 DEF Started
  <2> QED  BY <1>4, <2>1, <2>2 DEF Started
<1> QED  BY <1>3, <1>5, <1>6, <1>7, <1>8

LEMMA ThreadStartAllInv ==
  ASSUME SInv, thread_start_all
  PROVE  SInv'
<1> USE SchedulerAssumption
<1>1. /\ At("queued") /\ goto_step("idle") /\ "queued" \in Step
      /\ all' = Append(all, New) /\ panic' = all_append_asserts
      /\ todo' = [todo EXCEPT ![cur] = Tail(@)]
      /\ UNCHANGED <<cur, ready, status, sync, ticks, fresh, space, pid, next_pid, ptr>>
  BY DEF thread_start_all, Step
<1>2. /\ cur = main /\ step[main] = "queued" /\ New \in Threads \ {main}
      /\ New = Head(todo[main]) /\ New \notin Started /\ todo[main] # <<>>
  BY <1>1, CreateFacts
<1>3. /\ step' \in [Threads -> Step] /\ todo' \in [Threads -> Seq(Threads)]
      /\ step'[main] = "idle" /\ TodoInv' /\ Making' = {}
      /\ Started' = Started \cup {New}
  BY <1>1, TodoTail
<1>4. STypeOK /\ TodoInv /\ ExistInv /\ PidInv /\ UniquePids
  BY DEF SInv
<1>5. Making = {} /\ SyncStatus' = SyncStatus
  <2>1. Making = {}
    BY <1>2, <1>4, MakingIs
  <2> QED  BY <1>1, <1>3, <2>1 DEF SyncStatus
<1>6. /\ all' \in Seq(Threads) /\ IsInjective(all') /\ Range(all') = Range(all) \cup {New}
      /\ panic' = {}
  <2>1. all \in Seq(Threads) /\ IsInjective(all) /\ New \notin Range(all)
    BY <1>2, <1>4 DEF STypeOK, ExistInv
  <2> QED  BY <1>1, <1>2, <2>1, AppendFacts DEF all_append_asserts, Failing, elem_find
<1>7. S!IInv'
  BY <1>1, <1>5, <1>6, UnseenStep
<1>8. STypeOK'
  BY <1>1, <1>3, <1>4, <1>6 DEF STypeOK, space
<1>9. ExistInv'
  <2>1. \A t \in Threads : Exists(t)' <=> Exists(t)
    BY <1>2, <1>3 DEF Exists
  <2>2. Range(all') = {main} \cup Started'
    BY <1>3, <1>4, <1>6 DEF ExistInv
  <2> QED  BY <1>3, <1>4, <1>5, <1>6, <2>1, <2>2 DEF ExistInv
<1>10. PidInv' /\ UniquePids'
  BY <1>1, <1>3, <1>4 DEF PidInv, UniquePids
<1>11. CallerInv' /\ WalkInv'
  BY <1>3 DEF CallerInv, WalkInv
<1> QED  BY <1>3, <1>7, <1>8, <1>9, <1>10, <1>11 DEF SInv

LEMMA ProcessExecuteInv ==
  ASSUME SInv, process_execute
  PROVE  SInv'
<1> USE SchedulerAssumption DEF TASK_RUNNING, TASK_READY, TASK_BLOCKED, NOT_CREATED
<1>1. /\ At("made") /\ goto_step("idle") /\ "made" \in Step
      /\ ready' = Append(ready, New) /\ all' = Append(all, New)
      /\ panic' = ready_append_asserts \cup all_append_asserts
      /\ todo' = [todo EXCEPT ![cur] = Tail(@)]
      /\ UNCHANGED <<cur, status, sync, ticks, fresh, space, pid, next_pid, ptr>>
  BY DEF process_execute, Step
<1>2. /\ cur = main /\ step[main] = "made" /\ New \in Threads \ {main}
      /\ New = Head(todo[main]) /\ New \notin Started
      /\ SyncStatus[New] = NOT_CREATED
  BY <1>1, CreateFacts
<1>3. /\ step' \in [Threads -> Step] /\ todo' \in [Threads -> Seq(Threads)]
      /\ step'[main] = "idle" /\ TodoInv' /\ Making' = {}
      /\ Started' = Started \cup {New}
  BY <1>1, TodoTail
<1>4. STypeOK /\ ExistInv /\ PidInv /\ UniquePids
  BY DEF SInv
<1>5. /\ all' \in Seq(Threads) /\ IsInjective(all') /\ Range(all') = Range(all) \cup {New}
      /\ New \notin Range(all)
  <2>1. all \in Seq(Threads) /\ IsInjective(all) /\ New \notin Range(all)
    BY <1>2, <1>4 DEF STypeOK, ExistInv
  <2> QED  BY <1>1, <1>2, <2>1, AppendFacts
<1>6. panic' = {}
  <2>1. New \notin Range(ready)
    BY <1>2, ListFacts
  <2> QED  BY <1>1, <1>5, <2>1 DEF ready_append_asserts, all_append_asserts, Failing, elem_find
<1>7. /\ S!IInv' /\ ready' \in Seq(Threads)
      /\ SyncStatus' = [SyncStatus EXCEPT ![New] = TASK_READY]
  BY <1>1, <1>3, <1>6, QueueStep
<1>8. STypeOK'
  BY <1>1, <1>3, <1>4, <1>5, <1>7 DEF STypeOK, space
<1>9. ExistInv'
  <2>1. \A t \in Threads : Exists(t)' <=> Exists(t) \/ t = New
    BY <1>2, <1>3 DEF Exists
  <2>2. SyncStatus \in [Threads -> Status \cup {NOT_CREATED}]
    BY ListFacts
  <2>3. \A t \in Threads : SyncStatus'[t] # NOT_CREATED <=> Exists(t)'
    BY <1>2, <1>4, <1>7, <2>1, <2>2 DEF ExistInv
  <2>4. Range(all') = {main} \cup Started'
    BY <1>3, <1>4, <1>5 DEF ExistInv
  <2> QED  BY <1>3, <1>5, <2>3, <2>4 DEF ExistInv
<1>10. PidInv' /\ UniquePids'
  BY <1>1, <1>3, <1>4 DEF PidInv, UniquePids
<1>11. CallerInv' /\ WalkInv'
  BY <1>3 DEF CallerInv, WalkInv
<1> QED  BY <1>3, <1>7, <1>8, <1>9, <1>10, <1>11 DEF SInv

-----------------------------------------------------------------------------
LEMMA SInitInv == SInit => SInv
<1> SUFFICES ASSUME SInit PROVE SInv
  OBVIOUS
<1> USE SchedulerAssumption, SyncAssumption
    DEF TASK_RUNNING, TASK_READY, TASK_BLOCKED, NOT_CREATED,
        S!TASK_RUNNING, S!TASK_READY, S!TASK_BLOCKED, S!NOT_CREATED
<1>1. /\ cur = main /\ ready = <<>> /\ panic = {}
      /\ status = [t \in Threads |-> IF t = main THEN TASK_RUNNING ELSE NOT_CREATED]
      /\ todo = Starts /\ step = [t \in Threads |-> "idle"]
      /\ all = <<main>>
      /\ pid = [t \in Threads |-> IF t = main THEN 1 ELSE 0] /\ next_pid = 1
  BY DEF SInit
<1>2. /\ holder = [l \in Locks |-> NULL] /\ repeat = [l \in Locks |-> 0]
      /\ value = [l \in Locks |-> 1] /\ waiters = [l \in Locks |-> <<>>]
      /\ pc = [t \in Threads |-> "run"] /\ arg = [t \in Threads |-> NULL]
  BY DEF SInit, lock_init
<1>3. TodoInv
  <2>1. /\ todo[main] \in Seq(Threads \ {main}) /\ Len(todo[main]) \in Nat
        /\ Len(Starts[main]) = Len(todo[main])
    BY <1>1, LenProperties
  <2>2. \A i \in 1 .. Len(todo[main]) :
          todo[main][i] = Starts[main][Len(Starts[main]) - Len(todo[main]) + i]
    BY <1>1, <2>1
  <2> QED  BY <1>1, <2>1, <2>2, MainAssumption DEF TodoInv
<1>4. Making = {}
  BY <1>1, <1>3, MakingIs
<1>5. SyncStatus = status
  BY <1>1, <1>4 DEF SyncStatus
<1>6. Range(ready) = {} /\ IsInjective(ready) /\ S!Range(<<>>) = {} /\ S!IsInjective(<<>>)
  BY <1>1, EmptyRange DEF Range, IsInjective, S!Range, S!IsInjective
<1>7. STypeOK
  <2>1. Starts \in [Threads -> Seq(Threads)]
    <3>1. \A t \in Threads : Starts[t] \in Seq(Threads)
      OBVIOUS
    <3> QED  BY <3>1
  <2>2. /\ ticks \in [Threads -> Nat] /\ \A t \in Threads : ticks[t] <= Prio[t]
    BY DEF SInit
  <2>3. step \in [Threads -> Step] /\ all \in Seq(Threads)
    BY <1>1 DEF Step
  <2>4. fresh \subseteq Threads /\ cr3 = NULL /\ esp0 = NULL /\ ptr \in [Threads -> Threads \cup {TAIL}]
    BY DEF SInit
  <2> QED  BY <1>1, <2>1, <2>2, <2>3, <2>4 DEF STypeOK, Status
<1>8. S!IInv
  <2>1. S!TypeOK
    BY <1>1, <1>2, <1>5 DEF S!TypeOK, S!KThreadTypeOK, S!Status, S!PC
  <2>2. S!NoPanic /\ S!ReadyListInv
    BY <1>1, <1>5, <1>6 DEF S!NoPanic, S!ReadyListInv
  <2>3. S!WaitersInv /\ S!NoLostWakeup
    BY <1>1, <1>2, <1>5, <1>6 DEF S!WaitersInv, S!NoLostWakeup
  <2>4. S!CallInv
    BY <1>1, <1>2, <1>5 DEF S!CallInv
  <2>5. \A t \in Threads, l \in Locks : ~S!Owns(t, l)
    BY <1>2 DEF S!Owns
  <2>6. S!CreatedInv /\ S!RepeatInv /\ S!OrderInv /\ S!MutualExclusion
    BY <1>1, <1>2, <1>5, <2>5 DEF S!CreatedInv, S!RepeatInv, S!OrderInv, S!MutualExclusion, S!Owns
  <2> QED  BY <2>1, <2>2, <2>3, <2>4, <2>6 DEF S!IInv
<1>9. ExistInv
  <2>1. Started = {}
    BY <1>1 DEF Started
  <2>2. IsInjective(all) /\ Range(all) = {main}
    BY <1>1 DEF IsInjective, Range
  <2> QED  BY <1>1, <1>4, <1>5, <2>1, <2>2 DEF ExistInv, Exists
<1>10. PidInv /\ UniquePids
  BY <1>1 DEF PidInv, UniquePids
<1>11. CallerInv /\ WalkInv
  BY <1>1 DEF CallerInv, WalkInv
<1> QED  BY <1>3, <1>7, <1>8, <1>9, <1>10, <1>11 DEF SInv

LEMMA SNextInv == SInv /\ [SNext]_svars => SInv'
<1> SUFFICES ASSUME SInv, [SNext]_svars PROVE SInv'
  OBVIOUS
<1>1. CASE intr_timer_handler
  BY <1>1, TimerInv
<1>2. CASE kernel_thread
  BY <1>2, KernelThreadInv
<1>3. CASE InCall
  BY <1>3, InCallInv
<1>4. CASE Call
  BY <1>4, CallStepInv
<1>5. CASE Create
  BY <1>5, AllocatePidAcquireInv, AllocatePidReleaseInv, InitThreadInv, ElemFindBeginInv,
     ElemFindNextInv, ThreadStartReadyInv, ThreadStartAllInv, ProcessExecuteInv DEF Create
<1>6. CASE UNCHANGED svars
  <2>1. /\ UNCHANGED <<vars, creation, cur, ready, status, ticks, fresh, cr3, esp0>>
        /\ UNCHANGED <<all, pid, next_pid, todo, step, ptr>>
    BY <1>6 DEF svars, vars, kthread, space, creation
  <2>2. STypeOK'
    BY <2>1 DEF SInv, STypeOK
  <2> QED  BY <2>1, <2>2, StillInv
<1> QED  BY <1>1, <1>2, <1>3, <1>4, <1>5, <1>6 DEF SNext

(***************************************************************************)
(* The inductive invariant holds in every state the scheduler reaches.     *)
(***************************************************************************)
THEOREM SInvariance == SSpec => []SInv
BY SInitInv, SNextInv, PTL DEF SSpec

(***************************************************************************)
(* Every variable of the scheduler keeps its type, and no thread ever has  *)
(* more ticks than its priority: the timer handler decrements ticks only   *)
(* while it is not 0.                                                      *)
(***************************************************************************)
THEOREM STypeCorrect == SSpec => []STypeOK
<1>1. SInv => STypeOK
  BY DEF SInv
<1> QED  BY <1>1, SInvariance, PTL

(***************************************************************************)
(* No two threads get the same pid, although allocate_pid reads next_pid   *)
(* again after it has released pid_lock.                                   *)
(***************************************************************************)
THEOREM UniquePidsThm == SSpec => []UniquePids
<1>1. SInv => UniquePids
  BY DEF SInv
<1> QED  BY <1>1, SInvariance, PTL

(***************************************************************************)
(* thread_start's walk through the ready list, which the timer may         *)
(* interrupt between two nodes, never goes on from a node that has left    *)
(* the list.                                                               *)
(***************************************************************************)
THEOREM WalkInReadyListThm == SSpec => []WalkInReadyList
<1>1. SInv => WalkInReadyList
  <2> SUFFICES ASSUME SInv, step[cur] = "walking", ptr[cur] # TAIL
               PROVE  elem_find(ready, ptr[cur])
    BY DEF WalkInReadyList
  <2>1. cur = main
    BY ListFacts DEF SInv, TodoInv
  <2> QED  BY <2>1, WalkFacts DEF elem_find
<1> QED  BY <1>1, SInvariance, PTL

(***************************************************************************)
(* No assertion of thread.c, sync.c or process.c fails, however the timer  *)
(* interrupts the threads and main starting them.                          *)
(***************************************************************************)
THEOREM SNoPanic == SSpec => []NoPanic
<1>1. SInv => NoPanic
  BY ListFacts DEF NoPanic
<1> QED  BY <1>1, SInvariance, PTL

(***************************************************************************)
(* The status fields, the ready list, the waiters of the locks and         *)
(* thread_all_list describe the same threads, in every state in which the  *)
(* timer can interrupt schedule's callers or the start of a thread.        *)
(***************************************************************************)
THEOREM ThreadListsThm == SSpec => []ThreadListsInv
<1> USE DEF TASK_RUNNING, TASK_READY, TASK_BLOCKED, NOT_CREATED,
            S!TASK_RUNNING, S!TASK_READY, S!TASK_BLOCKED, S!NOT_CREATED
<1>1. ASSUME SInv PROVE ThreadListsInv
  <2> DEFINE Known == {t \in Threads : status[t] # NOT_CREATED} \ Making
             Queued == {Head(todo[c]) : c \in {t \in Threads : todo[t] # <<>> /\ step[t] = "queued"}}
  <2>1. /\ SyncStatus \in [Threads -> Status \cup {NOT_CREATED}]
        /\ \A t \in Threads : SyncStatus[t] = TASK_RUNNING <=> t = cur
        /\ \A t \in Threads : SyncStatus[t] = TASK_READY <=> t \in Range(ready)
        /\ IsInjective(ready) /\ Range(ready) \subseteq Threads
        /\ Making \subseteq Threads
    BY <1>1, ListFacts
  <2>2. TodoInv /\ ExistInv
    BY <1>1 DEF SInv
  <2>3. \A t \in Making : status[t] = TASK_READY /\ SyncStatus[t] = NOT_CREATED
    BY <2>1, <2>2 DEF ExistInv, SyncStatus
  <2>4. \A t \in Threads \ Making : SyncStatus[t] = status[t]
    BY DEF SyncStatus
  <2>5. Known = {t \in Threads : Exists(t)}
    BY <2>2, <2>3, <2>4 DEF ExistInv
  <2>6. Queued = IF step[main] = "queued" THEN {Head(todo[main])} ELSE {}
    <3>1. {t \in Threads : todo[t] # <<>> /\ step[t] = "queued"}
            = IF step[main] = "queued" THEN {main} ELSE {}
      BY <2>2, SchedulerAssumption DEF TodoInv
    <3> QED  BY <3>1
  <2>7. Range(all) = Known \ Queued
    <3>1. step[main] = "queued" =>
            Head(todo[main]) \in Threads \ {main} /\ Head(todo[main]) \notin Started
      <4> SUFFICES ASSUME step[main] = "queued"
                   PROVE  Head(todo[main]) \in Threads \ {main} /\ Head(todo[main]) \notin Started
        OBVIOUS
      <4>1. todo[main] \in Seq(Threads) /\ todo[main] # <<>> /\ IsInjective(todo[main])
        BY <1>1, <2>2, TodoFacts DEF TodoInv
      <4>2. /\ Head(todo[main]) \in Threads /\ Head(todo[main]) \in Range(todo[main])
            /\ Range(todo[main]) \subseteq Range(Starts[main])
        BY <1>1, <4>1, PopFacts, TodoFacts
      <4>3. main \notin Range(Starts[main])
        BY SchedulerAssumption DEF Range
      <4> QED  BY <4>2, <4>3 DEF Started
    <3>2. Started \subseteq Threads
      <4>1. Range(Starts[main]) \subseteq Threads
        BY SchedulerAssumption DEF Range
      <4> QED  BY <4>1 DEF Started
    <3>3. Range(all) = {main} \cup Started
      BY <2>2 DEF ExistInv
    <3> HIDE DEF Known, Queued
    <3> QED  BY <2>5, <2>6, <3>1, <3>2, <3>3, SchedulerAssumption DEF Exists
  <2>8. \A t \in Threads : status[t] = TASK_BLOCKED <=> \E l \in Locks : t \in Range(waiters[l])
    <3>1. ASSUME NEW t \in Threads
          PROVE  SyncStatus[t] = TASK_BLOCKED <=> \E l \in Locks : t \in Range(waiters[l])
      <4>1. SyncStatus[t] = TASK_BLOCKED => pc[t] = "waiting" /\ arg[t] \in Locks
        BY <1>1 DEF SInv, S!IInv, S!CallInv
      <4>2. \A l \in Locks : t \in Range(waiters[l]) <=>
              SyncStatus[t] = TASK_BLOCKED /\ pc[t] = "waiting" /\ arg[t] = l
        BY <1>1 DEF SInv, S!IInv, S!WaitersInv, Range, S!Range
      <4> QED  BY <4>1, <4>2
    <3> QED  BY <2>3, <2>4, <3>1
  <2>9. \A t \in Threads : status[t] = TASK_RUNNING <=> t = cur
    BY <2>1, <2>3, <2>4
  <2>10. \A t \in Known : status[t] = TASK_READY <=> t \in Range(ready)
    BY <2>1, <2>4
  <2>11. Range(ready) \subseteq Known
    BY <2>1, <2>3, <2>4
  <2>12. IsInjective(all)
    BY <2>2 DEF ExistInv
  <2> HIDE DEF Known, Queued
  <2> QED  BY <2>1, <2>7, <2>8, <2>9, <2>10, <2>11, <2>12, Zenon DEF ThreadListsInv, Known, Queued
<1> QED  BY <1>1, SInvariance, PTL

(***************************************************************************)
(* The running thread always runs on its own page directory and, if it is  *)
(* a process, with its own kernel stack in the TSS: whichever way          *)
(* schedule() is entered, process_activate follows the choice of the next  *)
(* thread.  This needs no other invariant.                                 *)
(***************************************************************************)
THEOREM OwnAddressSpaceThm == SSpec => []OwnAddressSpace
<1>1. SInit => OwnAddressSpace
  BY SchedulerAssumption DEF SInit, OwnAddressSpace
<1>2. ASSUME OwnAddressSpace, [SNext]_svars PROVE OwnAddressSpace'
  <2>1. ASSUME process_activate(cur') PROVE OwnAddressSpace'
    BY <2>1 DEF OwnAddressSpace, process_activate, page_dir_activate, update_tss_esp
  <2>2. ASSUME UNCHANGED <<cur, space>> PROVE OwnAddressSpace'
    BY <1>2, <2>2 DEF OwnAddressSpace, space
  <2>3. CASE intr_timer_handler
    BY <2>1, <2>2, <2>3 DEF intr_timer_handler, timer_decrement, timer_schedule
  <2>4. CASE kernel_thread
    BY <2>2, <2>4 DEF kernel_thread, vars, kthread
  <2>5. CASE InCall
    <3>1. CASE sema_down_block /\ process_activate(cur')
      BY <2>1, <3>1
    <3>2. CASE (sema_down_take \/ set_holder \/ set_repeat \/ clear_repeat) /\ UNCHANGED space
      BY <2>2, <3>2 DEF sema_down_take, set_holder, set_repeat, clear_repeat, kthread
    <3>3. CASE sema_up /\ UNCHANGED space
      <4>1. cur' = cur
        BY <3>3 DEF sema_up, thread_unblock
      <4> QED  BY <2>2, <3>3, <4>1
    <3> QED  BY <2>5, <3>1, <3>2, <3>3 DEF InCall
  <2>6. CASE Call
    BY <2>2, <2>6 DEF Call, Acquire, Release, lock_acquire, lock_release, kthread
  <2>7. CASE Create
    <3>1. UNCHANGED <<cur, space>>
      BY <2>7 DEF Create, allocate_pid_acquire, allocate_pid_release, lock_acquire, lock_release,
                  init_thread, elem_find_begin, elem_find_next, thread_start_ready,
                  thread_start_all, process_execute, kthread
    <3> QED  BY <2>2, <3>1
  <2>8. CASE UNCHANGED svars
    BY <2>2, <2>8 DEF svars, vars, kthread
  <2> QED  BY <1>2, <2>3, <2>4, <2>5, <2>6, <2>7, <2>8 DEF SNext
<1> QED  BY <1>1, <1>2, PTL DEF SSpec

(***************************************************************************)
(* The locks of sync.c stay mutually exclusive, and no wake-up is lost,    *)
(* while threads are being started and time slices run out.                *)
(***************************************************************************)
THEOREM SLocks == SSpec => [](MutualExclusion /\ NoLostWakeup)
<1> USE DEF TASK_READY, TASK_BLOCKED, NOT_CREATED, S!TASK_BLOCKED
<1>1. ASSUME SInv PROVE MutualExclusion
  BY <1>1 DEF SInv, S!IInv, S!MutualExclusion, MutualExclusion, Owns, S!Owns
<1>2. ASSUME SInv PROVE NoLostWakeup
  <2>1. \A t \in Threads : SyncStatus[t] # TASK_BLOCKED => status[t] # TASK_BLOCKED
    BY <1>2 DEF SInv, ExistInv, SyncStatus
  <2>2. S!NoLostWakeup
    BY <1>2 DEF SInv, S!IInv
  <2> QED  BY <2>1, <2>2 DEF S!NoLostWakeup, NoLostWakeup, Owns, S!Owns
<1> QED  BY <1>1, <1>2, SInvariance, PTL
=============================================================================
