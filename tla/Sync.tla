-------------------------------- MODULE Sync --------------------------------
(***************************************************************************)
(* thread/sync.c: binary semaphores and recursive locks, for threads that  *)
(* the timer may preempt between any two of their steps.                   *)
(*                                                                         *)
(* One lock contains one semaphore, so the semaphores are indexed by lock. *)
(* sema_down and sema_up run with interrupts disabled and are atomic up to *)
(* the point where sema_down blocks; lock_acquire and lock_release are     *)
(* not, and are split at each of their writes to shared memory.  The       *)
(* program counter of a thread says where it is:                           *)
(*                                                                         *)
(*   "run"        not in sync.c                                            *)
(*   "down"       about to call sema_down               (sync.c line 51)   *)
(*   "waiting"    in sema_down's loop, interrupts off   (line 21)          *)
(*   "setholder"  sema_down has returned                (line 52)          *)
(*   "setrepeat"  holder has been written               (line 53)          *)
(*   "clrrepeat"  holder has been cleared               (line 72)          *)
(*   "up"         about to call sema_up                 (line 73)          *)
(***************************************************************************)
EXTENDS KThread

CONSTANTS
  Locks,       \* the locks of the kernel
  LockOrder,   \* <<h, l>>: some caller acquires l while it holds h
  MaxRepeat,   \* bound on holder_repeat_nr
  NULL

ASSUME SyncAssumption ==
  /\ NULL \notin Threads
  /\ LockOrder \subseteq Locks \X Locks
  /\ \A S \in SUBSET Locks :                     \* LockOrder has no cycle
       S # {} => \E m \in S : \A l \in S : <<m, l>> \notin LockOrder
  /\ MaxRepeat \in Nat \ {0}

VARIABLES
  value,     \* semaphore.value of each lock
  waiters,   \* semaphore.waiters of each lock
  holder,    \* lock.holder
  repeat,    \* lock.holder_repeat_nr
  pc,        \* where each thread is in sync.c
  arg        \* the lock that call is about

sync == <<value, waiters, holder, repeat, pc, arg>>
vars == <<kthread, sync>>

PC == {"run", "down", "waiting", "setholder", "setrepeat", "clrrepeat", "up"}

goto(label) == pc' = [pc EXCEPT ![cur] = label]

-----------------------------------------------------------------------------
(***************************************************************************)
(* lock_init and sema_init.                                                *)
(***************************************************************************)
lock_init ==
  /\ holder = [l \in Locks |-> NULL]
  /\ repeat = [l \in Locks |-> 0]
  /\ value = [l \in Locks |-> 1]
  /\ waiters = [l \in Locks |-> <<>>]

Init ==
  /\ KThreadInit
  /\ lock_init
  /\ pc = [t \in Threads |-> "run"]
  /\ arg \in [Threads -> {NULL}]

-----------------------------------------------------------------------------
(***************************************************************************)
(* lock_acquire(l): the test of holder, and the increment that is all      *)
(* there is to do when the caller holds the lock already.                  *)
(***************************************************************************)
lock_acquire(l) ==
  /\ pc[cur] = "run"
  /\ IF holder[l] # cur
     THEN goto("down") /\ repeat' = repeat
     ELSE goto("run") /\ repeat' = [repeat EXCEPT ![l] = @ + 1]
  /\ arg' = [arg EXCEPT ![cur] = l]
  /\ UNCHANGED <<kthread, value, waiters, holder>>

\* Mutant of sema_down_block: the thread blocks without queueing itself.
sema_down_block_unqueued ==
  LET l == arg[cur] IN
  /\ pc[cur] \in {"down", "waiting"}
  /\ value[l] = 0
  /\ goto("waiting")
  /\ thread_block
  /\ panic' = thread_block_asserts
  /\ UNCHANGED <<value, waiters, holder, repeat, arg>>

(***************************************************************************)
(* sema_down(&plock->semaphore) finds value = 0: the thread queues itself  *)
(* and blocks.  When it runs again it is back at the loop's test.          *)
(***************************************************************************)
sema_down_block ==
  LET l == arg[cur] IN
  /\ pc[cur] \in {"down", "waiting"}
  /\ value[l] = 0
  /\ waiters' = [waiters EXCEPT ![l] = Append(@, cur)]
  /\ goto("waiting")
  /\ thread_block
  /\ panic' = Failing(~elem_find(waiters[l], cur), "sema_down: already waiting")
                \cup thread_block_asserts
  /\ UNCHANGED <<value, holder, repeat, arg>>

\* Mutant of sema_down_take: a woken thread does not look at value again.
sema_down_take_unchecked ==
  LET l == arg[cur] IN
  /\ \/ pc[cur] = "down" /\ value[l] # 0
     \/ pc[cur] = "waiting"
  /\ value' = [value EXCEPT ![l] = @ - 1]
  /\ panic' = Failing(value'[l] = 0, "sema_down: value not 0")
  /\ goto("setholder")
  /\ UNCHANGED <<cur, ready, status, waiters, holder, repeat, arg>>

(***************************************************************************)
(* sema_down finds value # 0 and takes it.                                 *)
(***************************************************************************)
sema_down_take ==
  LET l == arg[cur] IN
  /\ pc[cur] \in {"down", "waiting"}
  /\ value[l] # 0
  /\ value' = [value EXCEPT ![l] = @ - 1]
  /\ panic' = Failing(value'[l] = 0, "sema_down: value not 0")
  /\ goto("setholder")
  /\ UNCHANGED <<cur, ready, status, waiters, holder, repeat, arg>>

\* lock_acquire after sema_down: holder, then holder_repeat_nr.
set_holder ==
  /\ pc[cur] = "setholder"
  /\ holder' = [holder EXCEPT ![arg[cur]] = cur]
  /\ goto("setrepeat")
  /\ UNCHANGED <<kthread, value, waiters, repeat, arg>>

set_repeat ==
  /\ pc[cur] = "setrepeat"
  /\ panic' = Failing(repeat[arg[cur]] = 0, "lock_acquire: holder_repeat_nr not 0")
  /\ repeat' = [repeat EXCEPT ![arg[cur]] = 1]
  /\ goto("run")
  /\ UNCHANGED <<cur, ready, status, value, waiters, holder, arg>>

(***************************************************************************)
(* lock_release(l) when the lock stays held, and up to the write of holder *)
(* when it does not.                                                       *)
(***************************************************************************)
lock_release(l) ==
  /\ pc[cur] = "run"
  /\ IF repeat[l] > 1
     THEN /\ repeat' = [repeat EXCEPT ![l] = @ - 1]
          /\ goto("run")
          /\ holder' = holder
          /\ panic' = Failing(holder[l] = cur, "lock_release: not the holder")
     ELSE /\ holder' = [holder EXCEPT ![l] = NULL]
          /\ goto("clrrepeat")
          /\ repeat' = repeat
          /\ panic' = Failing(holder[l] = cur, "lock_release: not the holder")
                        \cup Failing(repeat[l] = 1, "lock_release: not held once")
  /\ arg' = [arg EXCEPT ![cur] = l]
  /\ UNCHANGED <<cur, ready, status, value, waiters>>

clear_repeat ==
  /\ pc[cur] = "clrrepeat"
  /\ repeat' = [repeat EXCEPT ![arg[cur]] = 0]
  /\ goto("up")
  /\ UNCHANGED <<kthread, value, waiters, holder, arg>>

\* Mutant of sema_up: nobody is woken.
sema_up_no_wakeup ==
  /\ pc[cur] = "up"
  /\ value' = [value EXCEPT ![arg[cur]] = @ + 1]
  /\ goto("run")
  /\ UNCHANGED <<kthread, waiters, holder, repeat, arg>>

(***************************************************************************)
(* sema_up(&plock->semaphore): the first waiter, if any, becomes ready;    *)
(* it is not given the semaphore, only the chance to compete for it.       *)
(***************************************************************************)
sema_up ==
  LET l == arg[cur]
      woken == Head(waiters[l])
  IN
  /\ pc[cur] = "up"
  /\ value' = [value EXCEPT ![l] = @ + 1]
  /\ goto("run")
  /\ IF waiters[l] # <<>>
     THEN /\ waiters' = [waiters EXCEPT ![l] = Tail(@)]
          /\ thread_unblock(woken)
          /\ panic' = Failing(value[l] = 0, "sema_up: value not 0")
                        \cup thread_unblock_asserts(woken)
     ELSE /\ panic' = Failing(value[l] = 0, "sema_up: value not 0")
          /\ UNCHANGED <<cur, ready, status, waiters>>
  /\ UNCHANGED <<holder, repeat, arg>>

(***************************************************************************)
(* The timer interrupt at the end of a time slice.  It can arrive wherever *)
(* interrupts are enabled: anywhere but in sema_down's loop.               *)
(***************************************************************************)
Preempt ==
  /\ pc[cur] # "waiting"
  /\ schedule(TASK_RUNNING)
  /\ panic' = schedule_asserts(TASK_RUNNING)
  /\ UNCHANGED sync

-----------------------------------------------------------------------------
(***************************************************************************)
(* The callers.  A thread acquires a lock while it holds others only as    *)
(* LockOrder allows, and releases only what it holds.  MaxRepeat bounds    *)
(* the nesting of calls for one lock.                                      *)
(***************************************************************************)
Held(t) == {l \in Locks : holder[l] = t}

Acquire(l) ==
  /\ \/ l \in Held(cur) /\ repeat[l] < MaxRepeat
     \/ l \notin Held(cur) /\ \A h \in Held(cur) : <<h, l>> \in LockOrder
  /\ lock_acquire(l)

Release(l) == l \in Held(cur) /\ lock_release(l)

InSync == sema_down_block \/ sema_down_take \/ set_holder \/ set_repeat
            \/ clear_repeat \/ sema_up

Next ==
  /\ panic = {}
  /\ \/ \E l \in Locks : Acquire(l) \/ Release(l)
     \/ InSync
     \/ Preempt

Spec == Init /\ [][Next]_vars

(***************************************************************************)
(* The timer keeps ending time slices, a thread that keeps getting the CPU *)
(* gets through its calls, and a caller leaves its critical sections: it   *)
(* may acquire and release a lock again while it holds it, but not so for  *)
(* ever.                                                                   *)
(***************************************************************************)
StepOf(t, A) == cur = t /\ panic = {} /\ A

Fairness ==
  /\ SF_vars(panic = {} /\ Preempt)
  /\ \A t \in Threads : SF_vars(StepOf(t, InSync))
  /\ \A t \in Threads, l \in Locks :
       /\ SF_vars(StepOf(t, repeat[l] > 1 /\ Release(l)))
       /\ SF_vars(StepOf(t, repeat[l] = 1 /\ Release(l)))

FairSpec == Spec /\ Fairness

-----------------------------------------------------------------------------

TypeOK ==
  /\ KThreadTypeOK
  /\ panic \subseteq STRING
  /\ value \in [Locks -> Nat]
  /\ waiters \in [Locks -> Seq(Threads)]
  /\ holder \in [Locks -> Threads \cup {NULL}]
  /\ repeat \in [Locks -> Nat]
  /\ pc \in [Threads -> PC]
  /\ arg \in [Threads -> Locks \cup {NULL}]

(***************************************************************************)
(* t has taken the semaphore of l and not given it back.                   *)
(***************************************************************************)
Owns(t, l) ==
  \/ holder[l] = t
  \/ arg[t] = l /\ pc[t] \in {"setholder", "clrrepeat", "up"}

(***************************************************************************)
(* Mutual exclusion: whatever the preemptions between the writes of        *)
(* lock_acquire and lock_release, two threads never own one lock, and the  *)
(* semaphore is 0 exactly while somebody does.                             *)
(***************************************************************************)
MutualExclusion ==
  \A l \in Locks :
    /\ \A t, u \in Threads : Owns(t, l) /\ Owns(u, l) => t = u
    /\ value[l] = IF \E t \in Threads : Owns(t, l) THEN 0 ELSE 1

(***************************************************************************)
(* A blocked thread is queued on the semaphore it asked for, once, and on  *)
(* no other: its general_tag is in one list at a time.                     *)
(***************************************************************************)
WaitersInv ==
  \A l \in Locks :
    /\ IsInjective(waiters[l])
    /\ \A t \in Threads :
         t \in Range(waiters[l]) <=>
           status[t] = TASK_BLOCKED /\ pc[t] = "waiting" /\ arg[t] = l

(***************************************************************************)
(* No wake-up is lost: while threads wait for a lock, either somebody owns *)
(* it and will release it, or a thread that was woken is on its way to     *)
(* take it.                                                                *)
(***************************************************************************)
NoLostWakeup ==
  \A l \in Locks :
    waiters[l] # <<>> =>
      \/ \E t \in Threads : Owns(t, l)
      \/ \E t \in Threads : /\ pc[t] = "waiting" /\ arg[t] = l
                            /\ status[t] # TASK_BLOCKED

(***************************************************************************)
(* None of the assertions of sync.c and thread.c ever fails; in particular *)
(* schedule never finds the ready list empty.                              *)
(***************************************************************************)
NoPanic == panic = {}

(***************************************************************************)
(* What the writes of lock_acquire and lock_release have done to a lock at *)
(* each point where a thread may be preempted.                             *)
(***************************************************************************)
CallInv ==
  \A t \in Threads :
    LET l == arg[t] IN
    /\ pc[t] # "run" => l \in Locks
    /\ pc[t] \in {"down", "waiting"} => holder[l] # t
    /\ pc[t] = "setholder" => holder[l] = NULL /\ repeat[l] = 0
    /\ pc[t] = "setrepeat" => holder[l] = t /\ repeat[l] = 0
    /\ pc[t] = "clrrepeat" => holder[l] = NULL /\ repeat[l] = 1
    /\ pc[t] = "up" => holder[l] = NULL /\ repeat[l] = 0
    /\ status[t] = TASK_BLOCKED => pc[t] = "waiting"

\* A thread that has not been started is in no call and owns nothing.
CreatedInv ==
  \A t \in Threads :
    status[t] = NOT_CREATED => pc[t] = "run" /\ \A l \in Locks : ~Owns(t, l)

\* A held lock is counted, and a free one is not.
RepeatInv ==
  \A l \in Locks :
    /\ (\A t \in Threads : ~Owns(t, l)) => repeat[l] = 0
    /\ \A t \in Threads :
         holder[l] = t => repeat[l] > 0 \/ (pc[t] = "setrepeat" /\ arg[t] = l)

\* Callers keep to LockOrder while they wait.
OrderInv ==
  \A t \in Threads :
    pc[t] \in {"down", "waiting", "setholder"} =>
      \A h \in Held(t) : <<h, arg[t]>> \in LockOrder

(***************************************************************************)
(* The inductive invariant.                                                *)
(***************************************************************************)
IInv ==
  /\ TypeOK
  /\ NoPanic
  /\ ReadyListInv
  /\ WaitersInv
  /\ CallInv
  /\ CreatedInv
  /\ RepeatInv
  /\ OrderInv
  /\ MutualExclusion
  /\ NoLostWakeup

(***************************************************************************)
(* Every waiter is woken: a thread in a waiters list does not stay there.  *)
(***************************************************************************)
EventuallyWoken ==
  \A t \in Threads, l \in Locks :
    t \in Range(waiters[l]) ~> t \notin Range(waiters[l])

(***************************************************************************)
(* sync.c implements recursive locks.                                      *)
(***************************************************************************)
OwnerOf(l) ==
  IF \E t \in Threads : Owns(t, l) THEN CHOOSE t \in Threads : Owns(t, l) ELSE NULL

DepthOf(l) ==
  IF \E t \in Threads : Owns(t, l)
  THEN IF repeat[l] = 0 THEN 1 ELSE repeat[l]
  ELSE 0

Lock == INSTANCE Mutex WITH owner <- [l \in Locks |-> OwnerOf(l)],
                            depth <- [l \in Locks |-> DepthOf(l)]

\* Every behaviour of sync.c is a behaviour of the abstract locks.
ImplementsMutex == Lock!Spec
=============================================================================
