----------------------------- MODULE SyncProofs -----------------------------
(***************************************************************************)
(* thread/sync.c is correct for every number of threads and locks, as long *)
(* as the callers nest locks in no cycle (SyncAssumption).                 *)
(***************************************************************************)
EXTENDS Sync, KThreadProofs

LEMMA PCLabels ==
  /\ "run" \in PC /\ "down" \in PC /\ "waiting" \in PC /\ "setholder" \in PC
  /\ "setrepeat" \in PC /\ "clrrepeat" \in PC /\ "up" \in PC
BY DEF PC

LEMMA InitInv == Init => IInv
<1> SUFFICES ASSUME Init PROVE IInv
  OBVIOUS
<1> USE SyncAssumption DEF TASK_RUNNING, TASK_READY, TASK_BLOCKED, NOT_CREATED
<1>1. /\ KThreadTypeOK /\ ReadyListInv /\ panic = {}
      /\ \A t \in Threads : status[t] # TASK_BLOCKED /\ status[t] # NOT_CREATED
  BY KThreadInitFacts DEF Init
<1>2. TypeOK
  BY <1>1 DEF Init, lock_init, TypeOK, PC
<1>3. WaitersInv
  BY <1>1, EmptyRange DEF Init, lock_init, WaitersInv
<1>4. \A t \in Threads, l \in Locks : ~Owns(t, l)
  BY DEF Init, lock_init, Owns
<1>5. MutualExclusion /\ NoLostWakeup
  BY <1>4 DEF Init, lock_init, MutualExclusion, NoLostWakeup
<1>6. CallInv
  BY <1>1 DEF Init, lock_init, CallInv
<1>7. RepeatInv
  BY DEF Init, lock_init, RepeatInv
<1>8. OrderInv
  BY DEF Init, OrderInv
<1>9. CreatedInv
  BY <1>1 DEF CreatedInv
<1> QED  BY <1>1, <1>2, <1>3, <1>5, <1>6, <1>7, <1>8, <1>9 DEF IInv, NoPanic

(***************************************************************************)
(* schedule is never called with no thread ready.  If it were, every lock  *)
(* somebody waits for would be owned by a thread that waits for a lock     *)
(* after it in LockOrder, and LockOrder has no cycle.                      *)
(***************************************************************************)
LEMMA SomeThreadReady ==
  ASSUME IInv, pc[cur] \in {"down", "waiting"}, value[arg[cur]] = 0
  PROVE  ready # <<>>
<1> SUFFICES ASSUME ready = <<>> PROVE FALSE
  OBVIOUS
<1> USE DEF TASK_RUNNING, TASK_READY, TASK_BLOCKED, NOT_CREATED
<1> DEFINE Waiting == {t \in Threads : pc[t] \in {"down", "waiting"} /\ (t = cur \/ status[t] = TASK_BLOCKED)}
           W == {arg[t] : t \in Waiting}
<1>1. cur \in Threads /\ status \in [Threads -> Status \cup {NOT_CREATED}]
  BY DEF IInv, TypeOK, KThreadTypeOK
<1>2. \A t \in Threads : t = cur \/ status[t] = TASK_BLOCKED \/ status[t] = NOT_CREATED
  BY <1>1, EmptyRange DEF IInv, ReadyListInv, Status
<1>3. W \subseteq Locks /\ arg[cur] \in W
  BY <1>1 DEF IInv, CallInv
<1>4. PICK m \in W : \A l \in W : <<m, l>> \notin LockOrder
  BY <1>3, SyncAssumption
<1>5. PICK w \in Waiting : arg[w] = m
  BY <1>4
<1>6. \E o \in Threads : Owns(o, m)
  <2>1. CASE w = cur
    BY <1>3, <1>5, <2>1 DEF IInv, MutualExclusion
  <2>2. CASE w # cur
    <3>1. m \in Locks /\ w \in Range(waiters[m])
      BY <1>3, <1>5, <2>2 DEF IInv, WaitersInv, CallInv
    <3>2. waiters[m] # <<>>
      BY <3>1, EmptyRange
    <3>3. \/ \E t \in Threads : Owns(t, m)
          \/ \E t \in Threads : pc[t] = "waiting" /\ arg[t] = m /\ status[t] # TASK_BLOCKED
      BY <3>1, <3>2 DEF IInv, NoLostWakeup
    <3>4. CASE \E t \in Threads : pc[t] = "waiting" /\ arg[t] = m /\ status[t] # TASK_BLOCKED
      <4>1. arg[cur] = m
        BY <1>2, <3>4 DEF IInv, CreatedInv
      <4> QED  BY <1>3, <4>1 DEF IInv, MutualExclusion
    <3> QED  BY <3>3, <3>4
  <2> QED  BY <2>1, <2>2
<1>7. PICK o \in Threads : Owns(o, m)
  BY <1>6
<1>8. pc[o] \in {"down", "waiting"} /\ (o = cur \/ status[o] = TASK_BLOCKED)
  <2>1. status[o] # NOT_CREATED
    BY <1>3, <1>4, <1>7 DEF IInv, CreatedInv
  <2> QED  BY <1>2, <2>1 DEF IInv, CallInv
<1>9. holder[m] = o
  BY <1>7, <1>8 DEF Owns
<1>10. <<m, arg[o]>> \in LockOrder
  BY <1>3, <1>4, <1>8, <1>9 DEF IInv, OrderInv, Held
<1>11. arg[o] \in W
  BY <1>8
<1> QED  BY <1>4, <1>10, <1>11
-----------------------------------------------------------------------------
(***************************************************************************)
(* Each step preserves the invariant.  The lemmas say which threads own    *)
(* which locks after the step, and the other parts follow from that.       *)
(***************************************************************************)
LEMMA AcquireInv ==
  ASSUME IInv, NEW l \in Locks, Acquire(l)
  PROVE  IInv'
<1> USE SyncAssumption DEF TASK_RUNNING, TASK_READY, TASK_BLOCKED, NOT_CREATED
<1>1. /\ TypeOK /\ cur \in Threads /\ pc[cur] = "run" /\ cur # NULL
      /\ UNCHANGED <<kthread, value, waiters, holder>>
      /\ arg' = [arg EXCEPT ![cur] = l]
      /\ status[cur] = TASK_RUNNING
  BY DEF IInv, TypeOK, KThreadTypeOK, ReadyListInv, Acquire, lock_acquire
<1>2. \/ /\ holder[l] = cur
         /\ pc' = [pc EXCEPT ![cur] = "run"]
         /\ repeat' = [repeat EXCEPT ![l] = @ + 1]
      \/ /\ holder[l] # cur
         /\ pc' = [pc EXCEPT ![cur] = "down"]
         /\ repeat' = repeat
         /\ \A h \in Held(cur) : <<h, l>> \in LockOrder
  BY <1>1 DEF Acquire, lock_acquire, goto, Held, TypeOK
<1>3. \A t \in Threads, k \in Locks : Owns(t, k)' <=> Owns(t, k)
  BY <1>1, <1>2 DEF Owns, TypeOK
<1>4. TypeOK'
  <2>1. pc' \in [Threads -> PC]
    BY <1>1, <1>2, PCLabels DEF TypeOK
  <2>3. repeat' \in [Locks -> Nat]
    BY <1>1, <1>2 DEF TypeOK
  <2>2. KThreadTypeOK'
    BY <1>1 DEF TypeOK, KThreadTypeOK, kthread
  <2> QED  BY <1>1, <2>1, <2>2, <2>3 DEF TypeOK, kthread
<1>5. ReadyListInv' /\ NoPanic'
  BY <1>1 DEF IInv, ReadyListInv, NoPanic, kthread
<1>6. WaitersInv'
  BY <1>1, <1>2 DEF IInv, WaitersInv, kthread, TypeOK
<1>7. MutualExclusion'
  BY <1>1, <1>3 DEF IInv, MutualExclusion
<1>8. NoLostWakeup'
  <2> SUFFICES ASSUME NEW k \in Locks, waiters[k] # <<>>,
                      \A t \in Threads : ~Owns(t, k)
               PROVE  \E t \in Threads : /\ pc'[t] = "waiting" /\ arg'[t] = k
                                         /\ status'[t] # TASK_BLOCKED
    BY <1>1, <1>3 DEF NoLostWakeup
  <2>1. PICK t \in Threads : pc[t] = "waiting" /\ arg[t] = k /\ status[t] # TASK_BLOCKED
    BY DEF IInv, NoLostWakeup
  <2> QED  BY <1>1, <1>2, <2>1 DEF TypeOK, kthread
<1>9. CallInv'
  <2> SUFFICES ASSUME NEW t \in Threads
               PROVE  CallInv!(t)'
    BY DEF CallInv
  <2> QED  BY <1>1, <1>2 DEF IInv, CallInv, kthread, TypeOK
<1>10. RepeatInv'
  BY <1>1, <1>2, <1>3 DEF IInv, RepeatInv, TypeOK
<1>11. OrderInv'
  BY <1>1, <1>2 DEF IInv, OrderInv, Held, TypeOK
<1>12. CreatedInv'
  BY <1>1, <1>2, <1>3 DEF IInv, CreatedInv, kthread, TypeOK
<1> QED  BY <1>4, <1>5, <1>6, <1>7, <1>8, <1>9, <1>10, <1>11, <1>12 DEF IInv

LEMMA ReleaseInv ==
  ASSUME IInv, NEW l \in Locks, Release(l)
  PROVE  IInv'
<1> USE SyncAssumption DEF TASK_RUNNING, TASK_READY, TASK_BLOCKED, NOT_CREATED
<1>1. /\ TypeOK /\ cur \in Threads /\ cur # NULL /\ status[cur] = TASK_RUNNING
      /\ pc[cur] = "run" /\ holder[l] = cur /\ repeat[l] > 0
      /\ Owns(cur, l) /\ repeat[l] \in Nat
  BY DEF IInv, TypeOK, KThreadTypeOK, ReadyListInv, RepeatInv, Owns,
         Release, Held, lock_release
<1>2. /\ UNCHANGED <<cur, ready, status, value, waiters>>
      /\ arg' = [arg EXCEPT ![cur] = l]
      /\ panic' = {}
      /\ \/ /\ repeat[l] > 1
            /\ repeat' = [repeat EXCEPT ![l] = @ - 1]
            /\ pc' = [pc EXCEPT ![cur] = "run"]
            /\ holder' = holder
         \/ /\ repeat[l] = 1
            /\ holder' = [holder EXCEPT ![l] = NULL]
            /\ pc' = [pc EXCEPT ![cur] = "clrrepeat"]
            /\ repeat' = repeat
  <2>1. CASE repeat[l] > 1
    BY <1>1, <2>1 DEF Release, lock_release, goto, Failing
  <2>2. CASE repeat[l] = 1
    <3>1. ~(repeat[l] > 1)
      BY <2>2
    <3> QED  BY <1>1, <2>2, <3>1 DEF Release, lock_release, goto, Failing
  <2> QED  BY <1>1, <2>1, <2>2
<1>3. \A t \in Threads, k \in Locks : Owns(t, k)' <=> Owns(t, k)
  <2>1. \A t \in Threads : Owns(t, l) => t = cur
    BY <1>1 DEF IInv, MutualExclusion
  <2> QED  BY <1>1, <1>2, <2>1 DEF Owns, TypeOK
<1>4. TypeOK'
  <2>1. pc' \in [Threads -> PC]
    BY <1>1, <1>2, PCLabels DEF TypeOK
  <2>2. repeat' \in [Locks -> Nat]
    <3>1. repeat[l] > 1 => repeat[l] - 1 \in Nat
      BY <1>1
    <3> QED  BY <1>1, <1>2, <3>1 DEF TypeOK
  <2>4. holder' \in [Locks -> Threads \cup {NULL}]
    BY <1>1, <1>2 DEF TypeOK
  <2>3. KThreadTypeOK'
    BY <1>1, <1>2 DEF TypeOK, KThreadTypeOK
  <2> QED  BY <1>1, <1>2, <2>1, <2>2, <2>3, <2>4 DEF TypeOK
<1>5. ReadyListInv' /\ NoPanic'
  BY <1>2 DEF IInv, ReadyListInv, NoPanic
<1>6. WaitersInv'
  BY <1>1, <1>2 DEF IInv, WaitersInv, TypeOK
<1>7. MutualExclusion'
  BY <1>2, <1>3 DEF IInv, MutualExclusion
<1>8. NoLostWakeup'
  <2> SUFFICES ASSUME NEW k \in Locks, waiters[k] # <<>>,
                      \A t \in Threads : ~Owns(t, k)
               PROVE  \E t \in Threads : /\ pc'[t] = "waiting" /\ arg'[t] = k
                                         /\ status'[t] # TASK_BLOCKED
    BY <1>2, <1>3 DEF NoLostWakeup
  <2>1. PICK t \in Threads : pc[t] = "waiting" /\ arg[t] = k /\ status[t] # TASK_BLOCKED
    BY DEF IInv, NoLostWakeup
  <2> QED  BY <1>1, <1>2, <2>1 DEF TypeOK
<1>9. CallInv'
  <2> SUFFICES ASSUME NEW t \in Threads
               PROVE  CallInv!(t)'
    BY DEF CallInv
  <2>1. CASE t = cur
    BY <1>1, <1>2, <2>1 DEF IInv, CallInv, TypeOK
  <2>2. CASE t # cur
    <3>1. ~Owns(t, l)
      BY <1>1, <2>2 DEF IInv, MutualExclusion
    <3> QED  BY <1>1, <1>2, <2>2, <3>1 DEF IInv, CallInv, TypeOK, Owns
  <2> QED  BY <2>1, <2>2
<1>10. RepeatInv'
  <2> SUFFICES ASSUME NEW k \in Locks
               PROVE  RepeatInv!(k)'
    BY DEF RepeatInv
  <2>1. CASE k = l
    <3>1. \E t \in Threads : Owns(t, l)'
      BY <1>1, <1>3
    <3>2. holder'[l] = cur => repeat'[l] > 0
      BY <1>1, <1>2 DEF TypeOK
    <3>3. holder'[l] = cur \/ holder'[l] = NULL
      BY <1>1, <1>2 DEF TypeOK
    <3> QED  BY <2>1, <3>1, <3>2, <3>3
  <2>2. CASE k # l
    <3>1. repeat'[k] = repeat[k] /\ holder'[k] = holder[k]
      BY <1>1, <1>2, <2>2 DEF TypeOK
    <3> QED  BY <1>1, <1>2, <1>3, <3>1 DEF IInv, RepeatInv, TypeOK
  <2> QED  BY <2>1, <2>2
<1>11. OrderInv'
  BY <1>1, <1>2 DEF IInv, OrderInv, Held, TypeOK
<1>12. CreatedInv'
  BY <1>1, <1>2, <1>3 DEF IInv, CreatedInv, TypeOK
<1> QED  BY <1>4, <1>5, <1>6, <1>7, <1>8, <1>9, <1>10, <1>11, <1>12 DEF IInv

LEMMA SemaDownBlockInv ==
  ASSUME IInv, sema_down_block
  PROVE  IInv'
<1> USE SyncAssumption DEF TASK_RUNNING, TASK_READY, TASK_BLOCKED, NOT_CREATED
<1> DEFINE l == arg[cur]
<1>1. /\ TypeOK /\ KThreadTypeOK /\ ReadyListInv
      /\ cur \in Threads /\ cur # NULL /\ status[cur] = TASK_RUNNING
      /\ pc[cur] \in {"down", "waiting"} /\ value[l] = 0
      /\ l \in Locks
  BY DEF IInv, TypeOK, KThreadTypeOK, ReadyListInv, CallInv, sema_down_block
<1>2. ready # <<>>
  BY <1>1, SomeThreadReady
<1>3. /\ KThreadTypeOK' /\ ReadyListInv'
      /\ thread_block_asserts = {}
      /\ \A t \in Threads :
           /\ status'[t] = TASK_BLOCKED <=> status[t] = TASK_BLOCKED \/ t = cur
           /\ status'[t] = NOT_CREATED <=> status[t] = NOT_CREATED
  BY <1>1, <1>2, ThreadBlockFacts DEF sema_down_block
<1>4. cur \notin Range(waiters[l]) /\ IsInjective(waiters[l]) /\ waiters[l] \in Seq(Threads)
  BY <1>1 DEF IInv, WaitersInv, TypeOK
<1>5. /\ UNCHANGED <<value, holder, repeat, arg>>
      /\ waiters' = [waiters EXCEPT ![l] = Append(@, cur)]
      /\ pc' = [pc EXCEPT ![cur] = "waiting"]
      /\ panic' = {}
  BY <1>1, <1>3, <1>4 DEF sema_down_block, goto, Failing, elem_find
<1>6. /\ Append(waiters[l], cur) \in Seq(Threads)
      /\ IsInjective(Append(waiters[l], cur))
      /\ Range(Append(waiters[l], cur)) = Range(waiters[l]) \cup {cur}
  BY <1>1, <1>4, AppendFacts
<1> HIDE DEF l
<1>7. \A t \in Threads, k \in Locks : Owns(t, k)' <=> Owns(t, k)
  BY <1>1, <1>5 DEF Owns, TypeOK
<1>8. TypeOK'
  <2>1. pc' \in [Threads -> PC]
    BY <1>1, <1>5, PCLabels DEF TypeOK
  <2>2. waiters' \in [Locks -> Seq(Threads)]
    BY <1>1, <1>5, <1>6 DEF TypeOK
  <2> QED  BY <1>1, <1>3, <1>5, <2>1, <2>2 DEF TypeOK
<1>9. WaitersInv'
  <2> SUFFICES ASSUME NEW k \in Locks
               PROVE  WaitersInv!(k)'
    BY DEF WaitersInv
  <2>1. CASE k = l
    <3>1. waiters'[k] = Append(waiters[l], cur)
      BY <1>1, <1>5, <2>1 DEF TypeOK
    <3>2. \A t \in Threads :
            t \in Range(waiters[l]) <=>
              status[t] = TASK_BLOCKED /\ pc[t] = "waiting" /\ arg[t] = l
      BY <1>1 DEF IInv, WaitersInv
    <3> QED  BY <1>1, <1>3, <1>5, <1>6, <2>1, <3>1, <3>2 DEF l, TypeOK
  <2>2. CASE k # l
    <3>1. waiters'[k] = waiters[k]
      BY <1>1, <1>5, <2>2 DEF TypeOK
    <3>2. IsInjective(waiters[k]) /\
          \A t \in Threads :
            t \in Range(waiters[k]) <=>
              status[t] = TASK_BLOCKED /\ pc[t] = "waiting" /\ arg[t] = k
      BY DEF IInv, WaitersInv
    <3> QED  BY <1>1, <1>3, <1>5, <2>2, <3>1, <3>2 DEF l, TypeOK
  <2> QED  BY <2>1, <2>2
<1>10. MutualExclusion'
  BY <1>5, <1>7 DEF IInv, MutualExclusion
<1>11. NoLostWakeup'
  <2> SUFFICES ASSUME NEW k \in Locks, waiters'[k] # <<>>,
                      \A t \in Threads : ~Owns(t, k)
               PROVE  \E t \in Threads : /\ pc'[t] = "waiting" /\ arg'[t] = k
                                         /\ status'[t] # TASK_BLOCKED
    BY <1>7 DEF NoLostWakeup
  <2>1. k # l
    BY <1>1 DEF IInv, MutualExclusion
  <2>2. PICK t \in Threads : pc[t] = "waiting" /\ arg[t] = k /\ status[t] # TASK_BLOCKED
    BY <1>1, <1>5, <2>1 DEF IInv, NoLostWakeup, TypeOK
  <2>3. t # cur
    BY <2>1, <2>2 DEF l
  <2> QED  BY <1>1, <1>3, <1>5, <2>2, <2>3 DEF TypeOK
<1>12. CallInv'
  <2> SUFFICES ASSUME NEW t \in Threads
               PROVE  CallInv!(t)'
    BY DEF CallInv
  <2> QED  BY <1>1, <1>3, <1>5 DEF IInv, CallInv, TypeOK
<1>13. RepeatInv'
  BY <1>1, <1>5, <1>7 DEF IInv, RepeatInv, TypeOK
<1>14. OrderInv'
  BY <1>1, <1>5 DEF IInv, OrderInv, Held, TypeOK
<1>15. CreatedInv'
  BY <1>1, <1>3, <1>5, <1>7 DEF IInv, CreatedInv, TypeOK
<1> QED  BY <1>3, <1>5, <1>8, <1>9, <1>10, <1>11, <1>12, <1>13, <1>14, <1>15 DEF IInv, NoPanic

LEMMA SemaDownTakeInv ==
  ASSUME IInv, sema_down_take
  PROVE  IInv'
<1> USE SyncAssumption DEF TASK_RUNNING, TASK_READY, TASK_BLOCKED, NOT_CREATED
<1> DEFINE l == arg[cur]
<1>1. /\ TypeOK /\ cur \in Threads /\ cur # NULL /\ status[cur] = TASK_RUNNING
      /\ pc[cur] \in {"down", "waiting"} /\ value[l] # 0
      /\ l \in Locks
  BY DEF IInv, TypeOK, KThreadTypeOK, ReadyListInv, CallInv, sema_down_take
<1>2. value[l] = 1 /\ \A t \in Threads : ~Owns(t, l)
  BY <1>1 DEF IInv, MutualExclusion
<1>3. /\ UNCHANGED <<cur, ready, status, waiters, holder, repeat, arg>>
      /\ value' = [value EXCEPT ![l] = 0]
      /\ pc' = [pc EXCEPT ![cur] = "setholder"]
      /\ panic' = {}
  BY <1>1, <1>2 DEF sema_down_take, goto, Failing, TypeOK
<1>4. holder[l] = NULL /\ repeat[l] = 0
  BY <1>1, <1>2 DEF IInv, RepeatInv, Owns, TypeOK
<1>5. \A t \in Threads, k \in Locks :
        Owns(t, k)' <=> Owns(t, k) \/ (t = cur /\ k = l)
  BY <1>1, <1>3 DEF Owns, TypeOK
<1>6. TypeOK'
  <2>1. pc' \in [Threads -> PC]
    BY <1>1, <1>3, PCLabels DEF TypeOK
  <2>2. KThreadTypeOK'
    BY <1>1, <1>3 DEF TypeOK, KThreadTypeOK
  <2> QED  BY <1>1, <1>3, <2>1, <2>2 DEF TypeOK
<1>7. ReadyListInv' /\ NoPanic'
  BY <1>3 DEF IInv, ReadyListInv, NoPanic
<1>8. WaitersInv'
  BY <1>1, <1>3 DEF IInv, WaitersInv, TypeOK
<1>9. MutualExclusion'
  <2> SUFFICES ASSUME NEW k \in Locks
               PROVE  MutualExclusion!(k)'
    BY DEF MutualExclusion
  <2>1. CASE k = l
    BY <1>1, <1>2, <1>3, <1>5, <2>1 DEF TypeOK
  <2>2. CASE k # l
    <3>1. value'[k] = value[k] /\ \A t \in Threads : Owns(t, k)' <=> Owns(t, k)
      BY <1>1, <1>3, <1>5, <2>2 DEF TypeOK
    <3> QED  BY <3>1 DEF IInv, MutualExclusion
  <2> QED  BY <2>1, <2>2
<1>10. NoLostWakeup'
  <2> SUFFICES ASSUME NEW k \in Locks, waiters[k] # <<>>,
                      \A t \in Threads : ~Owns(t, k)'
               PROVE  \E t \in Threads : /\ pc'[t] = "waiting" /\ arg'[t] = k
                                         /\ status'[t] # TASK_BLOCKED
    BY <1>3 DEF NoLostWakeup
  <2>1. k # l /\ \A t \in Threads : ~Owns(t, k)
    BY <1>1, <1>5
  <2>2. PICK t \in Threads : pc[t] = "waiting" /\ arg[t] = k /\ status[t] # TASK_BLOCKED
    BY <2>1 DEF IInv, NoLostWakeup
  <2>3. t # cur
    BY <2>1, <2>2
  <2> QED  BY <1>1, <1>3, <2>2, <2>3 DEF TypeOK
<1>11. CallInv'
  <2> SUFFICES ASSUME NEW t \in Threads
               PROVE  CallInv!(t)'
    BY DEF CallInv
  <2> QED  BY <1>1, <1>3, <1>4 DEF IInv, CallInv, TypeOK
<1>12. RepeatInv'
  BY <1>1, <1>3, <1>5 DEF IInv, RepeatInv, TypeOK
<1>13. OrderInv'
  BY <1>1, <1>3 DEF IInv, OrderInv, Held, TypeOK
<1>14. CreatedInv'
  BY <1>1, <1>3, <1>5 DEF IInv, CreatedInv, TypeOK
<1> QED  BY <1>6, <1>7, <1>8, <1>9, <1>10, <1>11, <1>12, <1>13, <1>14 DEF IInv

LEMMA SetHolderInv ==
  ASSUME IInv, set_holder
  PROVE  IInv'
<1> USE SyncAssumption DEF TASK_RUNNING, TASK_READY, TASK_BLOCKED, NOT_CREATED
<1> DEFINE l == arg[cur]
<1>1. /\ TypeOK /\ cur \in Threads /\ cur # NULL /\ status[cur] = TASK_RUNNING
      /\ pc[cur] = "setholder" /\ l \in Locks
      /\ holder[l] = NULL /\ repeat[l] = 0 /\ Owns(cur, l)
  BY DEF IInv, TypeOK, KThreadTypeOK, ReadyListInv, CallInv, Owns, set_holder
<1>2. /\ UNCHANGED <<cur, ready, status, panic, value, waiters, repeat, arg>>
      /\ holder' = [holder EXCEPT ![l] = cur]
      /\ pc' = [pc EXCEPT ![cur] = "setrepeat"]
  BY DEF set_holder, goto, kthread
<1>3. \A t \in Threads : Owns(t, l) => t = cur
  BY <1>1 DEF IInv, MutualExclusion
<1>4. \A t \in Threads, k \in Locks : Owns(t, k)' <=> Owns(t, k)
  BY <1>1, <1>2, <1>3 DEF Owns, TypeOK
<1>5. TypeOK'
  <2>1. pc' \in [Threads -> PC]
    BY <1>1, <1>2, PCLabels DEF TypeOK
  <2>2. holder' \in [Locks -> Threads \cup {NULL}]
    BY <1>1, <1>2 DEF TypeOK
  <2>3. KThreadTypeOK'
    BY <1>1, <1>2 DEF TypeOK, KThreadTypeOK
  <2> QED  BY <1>1, <1>2, <2>1, <2>2, <2>3 DEF TypeOK
<1>6. ReadyListInv' /\ NoPanic'
  BY <1>2 DEF IInv, ReadyListInv, NoPanic
<1>7. WaitersInv'
  BY <1>1, <1>2 DEF IInv, WaitersInv, TypeOK
<1>8. MutualExclusion'
  BY <1>2, <1>4 DEF IInv, MutualExclusion
<1>9. NoLostWakeup'
  <2> SUFFICES ASSUME NEW k \in Locks, waiters[k] # <<>>,
                      \A t \in Threads : ~Owns(t, k)
               PROVE  \E t \in Threads : /\ pc'[t] = "waiting" /\ arg'[t] = k
                                         /\ status'[t] # TASK_BLOCKED
    BY <1>2, <1>4 DEF NoLostWakeup
  <2>1. PICK t \in Threads : pc[t] = "waiting" /\ arg[t] = k /\ status[t] # TASK_BLOCKED
    BY DEF IInv, NoLostWakeup
  <2> QED  BY <1>1, <1>2, <2>1 DEF TypeOK
<1>10. CallInv'
  <2> SUFFICES ASSUME NEW t \in Threads
               PROVE  CallInv!(t)'
    BY DEF CallInv
  <2>1. CASE t = cur
    BY <1>1, <1>2, <2>1 DEF IInv, CallInv, TypeOK
  <2>2. CASE t # cur
    <3>1. ~Owns(t, l)
      BY <1>1, <1>3, <2>2
    <3> QED  BY <1>1, <1>2, <2>2, <3>1 DEF IInv, CallInv, TypeOK, Owns
  <2> QED  BY <2>1, <2>2
<1>11. RepeatInv'
  BY <1>1, <1>2, <1>4 DEF IInv, RepeatInv, TypeOK
<1>12. OrderInv'
  BY <1>1, <1>2 DEF IInv, OrderInv, Held, TypeOK
<1>13. CreatedInv'
  BY <1>1, <1>2, <1>4 DEF IInv, CreatedInv, TypeOK
<1> QED  BY <1>5, <1>6, <1>7, <1>8, <1>9, <1>10, <1>11, <1>12, <1>13 DEF IInv

LEMMA SetRepeatInv ==
  ASSUME IInv, set_repeat
  PROVE  IInv'
<1> USE SyncAssumption DEF TASK_RUNNING, TASK_READY, TASK_BLOCKED, NOT_CREATED
<1> DEFINE l == arg[cur]
<1>1. /\ TypeOK /\ cur \in Threads /\ cur # NULL /\ status[cur] = TASK_RUNNING
      /\ pc[cur] = "setrepeat" /\ l \in Locks
      /\ holder[l] = cur /\ repeat[l] = 0 /\ Owns(cur, l)
  BY DEF IInv, TypeOK, KThreadTypeOK, ReadyListInv, CallInv, Owns, set_repeat
<1>2. /\ UNCHANGED <<cur, ready, status, value, waiters, holder, arg>>
      /\ repeat' = [repeat EXCEPT ![l] = 1]
      /\ pc' = [pc EXCEPT ![cur] = "run"]
      /\ panic' = {}
  BY <1>1 DEF set_repeat, goto, Failing
<1>3. \A t \in Threads : Owns(t, l) => t = cur
  BY <1>1 DEF IInv, MutualExclusion
<1>4. \A t \in Threads, k \in Locks : Owns(t, k)' <=> Owns(t, k)
  BY <1>1, <1>2 DEF Owns, TypeOK
<1>5. TypeOK'
  <2>1. pc' \in [Threads -> PC]
    BY <1>1, <1>2, PCLabels DEF TypeOK
  <2>2. repeat' \in [Locks -> Nat]
    BY <1>1, <1>2 DEF TypeOK
  <2>3. KThreadTypeOK'
    BY <1>1, <1>2 DEF TypeOK, KThreadTypeOK
  <2> QED  BY <1>1, <1>2, <2>1, <2>2, <2>3 DEF TypeOK
<1>6. ReadyListInv' /\ NoPanic'
  BY <1>2 DEF IInv, ReadyListInv, NoPanic
<1>7. WaitersInv'
  BY <1>1, <1>2 DEF IInv, WaitersInv, TypeOK
<1>8. MutualExclusion'
  BY <1>2, <1>4 DEF IInv, MutualExclusion
<1>9. NoLostWakeup'
  <2> SUFFICES ASSUME NEW k \in Locks, waiters[k] # <<>>,
                      \A t \in Threads : ~Owns(t, k)
               PROVE  \E t \in Threads : /\ pc'[t] = "waiting" /\ arg'[t] = k
                                         /\ status'[t] # TASK_BLOCKED
    BY <1>2, <1>4 DEF NoLostWakeup
  <2>1. PICK t \in Threads : pc[t] = "waiting" /\ arg[t] = k /\ status[t] # TASK_BLOCKED
    BY DEF IInv, NoLostWakeup
  <2> QED  BY <1>1, <1>2, <2>1 DEF TypeOK
<1>10. CallInv'
  <2> SUFFICES ASSUME NEW t \in Threads
               PROVE  CallInv!(t)'
    BY DEF CallInv
  <2>1. CASE t = cur
    BY <1>1, <1>2, <2>1 DEF IInv, CallInv, TypeOK
  <2>2. CASE t # cur
    <3>1. ~Owns(t, l)
      BY <1>1, <1>3, <2>2
    <3> QED  BY <1>1, <1>2, <2>2, <3>1 DEF IInv, CallInv, TypeOK, Owns
  <2> QED  BY <2>1, <2>2
<1>11. RepeatInv'
  BY <1>1, <1>2, <1>4 DEF IInv, RepeatInv, TypeOK
<1>12. OrderInv'
  BY <1>1, <1>2 DEF IInv, OrderInv, Held, TypeOK
<1>13. CreatedInv'
  BY <1>1, <1>2, <1>4 DEF IInv, CreatedInv, TypeOK
<1> QED  BY <1>5, <1>6, <1>7, <1>8, <1>9, <1>10, <1>11, <1>12, <1>13 DEF IInv

LEMMA ClearRepeatInv ==
  ASSUME IInv, clear_repeat
  PROVE  IInv'
<1> USE SyncAssumption DEF TASK_RUNNING, TASK_READY, TASK_BLOCKED, NOT_CREATED
<1> DEFINE l == arg[cur]
<1>1. /\ TypeOK /\ cur \in Threads /\ cur # NULL /\ status[cur] = TASK_RUNNING
      /\ pc[cur] = "clrrepeat" /\ l \in Locks
      /\ holder[l] = NULL /\ repeat[l] = 1 /\ Owns(cur, l)
  BY DEF IInv, TypeOK, KThreadTypeOK, ReadyListInv, CallInv, Owns, clear_repeat
<1>2. /\ UNCHANGED <<cur, ready, status, panic, value, waiters, holder, arg>>
      /\ repeat' = [repeat EXCEPT ![l] = 0]
      /\ pc' = [pc EXCEPT ![cur] = "up"]
  BY DEF clear_repeat, goto, kthread
<1>3. \A t \in Threads : Owns(t, l) => t = cur
  BY <1>1 DEF IInv, MutualExclusion
<1>4. \A t \in Threads, k \in Locks : Owns(t, k)' <=> Owns(t, k)
  BY <1>1, <1>2 DEF Owns, TypeOK
<1>5. TypeOK'
  <2>1. pc' \in [Threads -> PC]
    BY <1>1, <1>2, PCLabels DEF TypeOK
  <2>2. repeat' \in [Locks -> Nat]
    BY <1>1, <1>2 DEF TypeOK
  <2>3. KThreadTypeOK'
    BY <1>1, <1>2 DEF TypeOK, KThreadTypeOK
  <2> QED  BY <1>1, <1>2, <2>1, <2>2, <2>3 DEF TypeOK
<1>6. ReadyListInv' /\ NoPanic'
  BY <1>2 DEF IInv, ReadyListInv, NoPanic
<1>7. WaitersInv'
  BY <1>1, <1>2 DEF IInv, WaitersInv, TypeOK
<1>8. MutualExclusion'
  BY <1>2, <1>4 DEF IInv, MutualExclusion
<1>9. NoLostWakeup'
  <2> SUFFICES ASSUME NEW k \in Locks, waiters[k] # <<>>,
                      \A t \in Threads : ~Owns(t, k)
               PROVE  \E t \in Threads : /\ pc'[t] = "waiting" /\ arg'[t] = k
                                         /\ status'[t] # TASK_BLOCKED
    BY <1>2, <1>4 DEF NoLostWakeup
  <2>1. PICK t \in Threads : pc[t] = "waiting" /\ arg[t] = k /\ status[t] # TASK_BLOCKED
    BY DEF IInv, NoLostWakeup
  <2> QED  BY <1>1, <1>2, <2>1 DEF TypeOK
<1>10. CallInv'
  <2> SUFFICES ASSUME NEW t \in Threads
               PROVE  CallInv!(t)'
    BY DEF CallInv
  <2>1. CASE t = cur
    BY <1>1, <1>2, <2>1 DEF IInv, CallInv, TypeOK
  <2>2. CASE t # cur
    <3>1. ~Owns(t, l)
      BY <1>1, <1>3, <2>2
    <3> QED  BY <1>1, <1>2, <2>2, <3>1 DEF IInv, CallInv, TypeOK, Owns
  <2> QED  BY <2>1, <2>2
<1>11. RepeatInv'
  BY <1>1, <1>2, <1>4 DEF IInv, RepeatInv, TypeOK
<1>12. OrderInv'
  BY <1>1, <1>2 DEF IInv, OrderInv, Held, TypeOK
<1>13. CreatedInv'
  BY <1>1, <1>2, <1>4 DEF IInv, CreatedInv, TypeOK
<1> QED  BY <1>5, <1>6, <1>7, <1>8, <1>9, <1>10, <1>11, <1>12, <1>13 DEF IInv

LEMMA SemaUpInv ==
  ASSUME IInv, sema_up
  PROVE  IInv'
<1> USE SyncAssumption DEF TASK_RUNNING, TASK_READY, TASK_BLOCKED, NOT_CREATED
<1> DEFINE l == arg[cur]
           q == waiters[l]
           woken == Head(q)
<1>1. /\ TypeOK /\ KThreadTypeOK /\ ReadyListInv
      /\ cur \in Threads /\ cur # NULL /\ status[cur] = TASK_RUNNING
      /\ pc[cur] = "up" /\ l \in Locks
      /\ holder[l] = NULL /\ repeat[l] = 0 /\ Owns(cur, l)
  BY DEF IInv, TypeOK, KThreadTypeOK, ReadyListInv, CallInv, Owns, sema_up
<1>2. value[l] = 0 /\ \A t \in Threads : Owns(t, l) => t = cur
  BY <1>1 DEF IInv, MutualExclusion
<1>3. /\ q \in Seq(Threads) /\ IsInjective(q)
      /\ \A t \in Threads :
           t \in Range(q) <=> status[t] = TASK_BLOCKED /\ pc[t] = "waiting" /\ arg[t] = l
  BY <1>1 DEF IInv, WaitersInv, TypeOK
<1>4. /\ UNCHANGED <<holder, repeat, arg>>
      /\ value' = [value EXCEPT ![l] = 1]
      /\ pc' = [pc EXCEPT ![cur] = "run"]
  <2>1. value[l] + 1 = 1
    BY <1>2
  <2> QED  BY <2>1 DEF sema_up, goto
<1>5. \A t \in Threads, k \in Locks :
        Owns(t, k)' <=> Owns(t, k) /\ k # l
  BY <1>1, <1>2, <1>4 DEF Owns, TypeOK
<1>6. \/ /\ q = <<>>
         /\ waiters' = waiters
         /\ UNCHANGED <<cur, ready, status>>
         /\ panic' = {}
      \/ /\ q # <<>>
         /\ waiters' = [waiters EXCEPT ![l] = Tail(q)]
         /\ thread_unblock(woken)
         /\ panic' = thread_unblock_asserts(woken)
  BY <1>2 DEF sema_up, Failing
<1>7. q # <<>> => /\ woken \in Threads
                  /\ woken \in Range(q)
                  /\ Tail(q) \in Seq(Threads)
                  /\ IsInjective(Tail(q))
                  /\ Range(Tail(q)) = Range(q) \ {woken}
  BY <1>3, PopFacts
<1>8. /\ KThreadTypeOK' /\ ReadyListInv' /\ panic' = {}
      /\ \A t \in Threads :
           /\ status'[t] = TASK_BLOCKED <=> status[t] = TASK_BLOCKED /\ (q # <<>> => t # woken)
           /\ status'[t] = NOT_CREATED <=> status[t] = NOT_CREATED
  <2>1. CASE q = <<>>
    BY <1>1, <1>6, <2>1 DEF KThreadTypeOK, ReadyListInv
  <2>2. CASE q # <<>>
    <3>1. woken \in Threads /\ status[woken] = TASK_BLOCKED
      BY <1>3, <1>7, <2>2
    <3>2. thread_unblock(woken) /\ panic' = thread_unblock_asserts(woken)
      BY <1>6, <2>2
    <3> HIDE DEF woken
    <3> QED  BY <1>1, <2>2, <3>1, <3>2, ThreadUnblockFacts
  <2> QED  BY <2>1, <2>2
<1>9. \A k \in Locks : k # l => waiters'[k] = waiters[k]
  BY <1>1, <1>6 DEF TypeOK
<1>10. waiters'[l] = IF q = <<>> THEN q ELSE Tail(q)
  BY <1>1, <1>6 DEF TypeOK
<1>11. TypeOK'
  <2>1. pc' \in [Threads -> PC]
    BY <1>1, <1>4, PCLabels DEF TypeOK
  <2>2. waiters' \in [Locks -> Seq(Threads)]
    BY <1>1, <1>6, <1>7 DEF TypeOK
  <2>3. value' \in [Locks -> Nat]
    BY <1>1, <1>4 DEF TypeOK
  <2> QED  BY <1>1, <1>4, <1>8, <2>1, <2>2, <2>3 DEF TypeOK
<1> HIDE DEF woken, q, l
<1>12. WaitersInv'
  <2> SUFFICES ASSUME NEW k \in Locks
               PROVE  WaitersInv!(k)'
    BY DEF WaitersInv
  <2>1. CASE k = l
    <3>1. IsInjective(waiters'[k])
      BY <1>3, <1>7, <1>10, <2>1
    <3>2. \A t \in Threads :
            t \in Range(waiters'[k]) <=> t \in Range(q) /\ (q # <<>> => t # woken)
      BY <1>7, <1>10, <2>1, EmptyRange
    <3> QED  BY <1>1, <1>3, <1>4, <1>8, <2>1, <3>1, <3>2 DEF TypeOK
  <2>2. CASE k # l
    <3>1. IsInjective(waiters[k]) /\
          \A t \in Threads :
            t \in Range(waiters[k]) <=>
              status[t] = TASK_BLOCKED /\ pc[t] = "waiting" /\ arg[t] = k
      BY DEF IInv, WaitersInv
    <3>2. q # <<>> => arg[woken] = l
      BY <1>3, <1>7
    <3> QED  BY <1>1, <1>4, <1>8, <1>9, <2>2, <3>1, <3>2 DEF TypeOK
  <2> QED  BY <2>1, <2>2
<1>13. MutualExclusion'
  <2> SUFFICES ASSUME NEW k \in Locks
               PROVE  MutualExclusion!(k)'
    BY DEF MutualExclusion
  <2>1. CASE k = l
    BY <1>1, <1>4, <1>5, <2>1 DEF TypeOK
  <2>2. CASE k # l
    <3>1. value'[k] = value[k] /\ \A t \in Threads : Owns(t, k)' <=> Owns(t, k)
      BY <1>1, <1>4, <1>5, <2>2 DEF TypeOK
    <3> QED  BY <3>1 DEF IInv, MutualExclusion
  <2> QED  BY <2>1, <2>2
<1>14. NoLostWakeup'
  <2> SUFFICES ASSUME NEW k \in Locks, waiters'[k] # <<>>,
                      \A t \in Threads : ~Owns(t, k)'
               PROVE  \E t \in Threads : /\ pc'[t] = "waiting" /\ arg'[t] = k
                                         /\ status'[t] # TASK_BLOCKED
    BY DEF NoLostWakeup
  <2>1. CASE k = l
    <3>1. q # <<>>
      BY <1>10, <2>1
    <3>2. woken \in Threads /\ pc[woken] = "waiting" /\ arg[woken] = l
      BY <1>3, <1>7, <3>1
    <3>3. status'[woken] # TASK_BLOCKED
      BY <1>8, <3>1, <3>2
    <3> QED  BY <1>1, <1>4, <2>1, <3>2, <3>3 DEF TypeOK
  <2>2. CASE k # l
    <3>1. waiters[k] # <<>> /\ \A t \in Threads : ~Owns(t, k)
      BY <1>5, <1>9, <2>2
    <3>2. PICK t \in Threads : pc[t] = "waiting" /\ arg[t] = k /\ status[t] # TASK_BLOCKED
      BY <3>1 DEF IInv, NoLostWakeup
    <3> QED  BY <1>1, <1>4, <1>8, <3>2 DEF TypeOK
  <2> QED  BY <2>1, <2>2
<1>15. CallInv'
  <2> SUFFICES ASSUME NEW t \in Threads
               PROVE  CallInv!(t)'
    BY DEF CallInv
  <2> QED  BY <1>1, <1>4, <1>8 DEF IInv, CallInv, TypeOK
<1>16. RepeatInv'
  BY <1>1, <1>4, <1>5 DEF IInv, RepeatInv, TypeOK
<1>17. OrderInv'
  BY <1>1, <1>4 DEF IInv, OrderInv, Held, TypeOK
<1>18. CreatedInv'
  BY <1>1, <1>4, <1>5, <1>8 DEF IInv, CreatedInv, TypeOK
<1> QED  BY <1>8, <1>11, <1>12, <1>13, <1>14, <1>15, <1>16, <1>17, <1>18 DEF IInv, NoPanic

LEMMA PreemptInv ==
  ASSUME IInv, Preempt
  PROVE  IInv'
<1> USE DEF TASK_RUNNING, TASK_READY, TASK_BLOCKED, NOT_CREATED
<1>1. TypeOK /\ KThreadTypeOK /\ ReadyListInv
  BY DEF IInv, TypeOK
<1>2. /\ KThreadTypeOK' /\ ReadyListInv' /\ panic' = {}
      /\ \A t \in Threads : status'[t] = TASK_BLOCKED <=> status[t] = TASK_BLOCKED
      /\ \A t \in Threads : status'[t] = NOT_CREATED <=> status[t] = NOT_CREATED
  BY <1>1, ScheduleFacts DEF Preempt
<1>3. UNCHANGED <<value, waiters, holder, repeat, pc, arg>>
  BY DEF Preempt, sync
<1>4. \A t \in Threads, k \in Locks : Owns(t, k)' <=> Owns(t, k)
  BY <1>3 DEF Owns
<1>5. TypeOK'
  BY <1>1, <1>2, <1>3 DEF TypeOK
<1>6. WaitersInv'
  BY <1>2, <1>3 DEF IInv, WaitersInv
<1>7. MutualExclusion'
  BY <1>3, <1>4 DEF IInv, MutualExclusion
<1>8. NoLostWakeup'
  BY <1>2, <1>3, <1>4 DEF IInv, NoLostWakeup
<1>9. CallInv'
  BY <1>2, <1>3 DEF IInv, CallInv
<1>10. RepeatInv'
  BY <1>3, <1>4 DEF IInv, RepeatInv
<1>11. OrderInv'
  BY <1>3 DEF IInv, OrderInv, Held
<1>12. CreatedInv'
  BY <1>2, <1>3, <1>4 DEF IInv, CreatedInv
<1> QED  BY <1>2, <1>5, <1>6, <1>7, <1>8, <1>9, <1>10, <1>11, <1>12 DEF IInv, NoPanic

(***************************************************************************)
(* The step that starts a thread, which the callers of this module take:   *)
(* the new thread joins the ready list.                                    *)
(***************************************************************************)
LEMMA StartInv ==
  ASSUME IInv, NEW n \in Threads, status[n] = NOT_CREATED,
         ready' = Append(ready, n),
         status' = [status EXCEPT ![n] = TASK_READY],
         panic' = {},
         UNCHANGED <<cur, sync>>
  PROVE  IInv'
<1> USE DEF TASK_RUNNING, TASK_READY, TASK_BLOCKED, NOT_CREATED
<1>1. /\ TypeOK /\ cur \in Threads /\ ready \in Seq(Threads)
      /\ status \in [Threads -> Status \cup {NOT_CREATED}]
      /\ n \notin Range(ready) /\ n # cur /\ IsInjective(ready)
  BY DEF IInv, TypeOK, KThreadTypeOK, ReadyListInv
<1>2. /\ ready' \in Seq(Threads)
      /\ IsInjective(ready')
      /\ Range(ready') = Range(ready) \cup {n}
  BY <1>1, AppendFacts
<1>3. UNCHANGED <<cur, value, waiters, holder, repeat, pc, arg>>
  BY DEF sync
<1>4. /\ \A t \in Threads : status'[t] = TASK_BLOCKED <=> status[t] = TASK_BLOCKED
      /\ \A t \in Threads : status'[t] = NOT_CREATED => status[t] = NOT_CREATED
  BY <1>1
<1>5. \A t \in Threads, k \in Locks : Owns(t, k)' <=> Owns(t, k)
  BY <1>3 DEF Owns
<1>6. TypeOK'
  <2>1. KThreadTypeOK'
    BY <1>1, <1>2, <1>3 DEF KThreadTypeOK, Status
  <2> QED  BY <1>1, <1>3, <2>1 DEF TypeOK
<1>7. ReadyListInv'
  <2>1. \A t \in Threads : status'[t] = TASK_RUNNING <=> t = cur'
    BY <1>1, <1>3 DEF IInv, ReadyListInv
  <2>2. \A t \in Threads : status'[t] = TASK_READY <=> t \in Range(ready')
    BY <1>1, <1>2 DEF IInv, ReadyListInv
  <2> QED  BY <1>2, <2>1, <2>2 DEF ReadyListInv
<1>8. WaitersInv'
  BY <1>3, <1>4 DEF IInv, WaitersInv
<1>9. MutualExclusion'
  BY <1>3, <1>5 DEF IInv, MutualExclusion
<1>10. NoLostWakeup'
  BY <1>3, <1>4, <1>5 DEF IInv, NoLostWakeup
<1>11. CallInv'
  BY <1>3, <1>4 DEF IInv, CallInv
<1>12. CreatedInv'
  BY <1>3, <1>4, <1>5 DEF IInv, CreatedInv
<1>13. RepeatInv'
  BY <1>3, <1>5 DEF IInv, RepeatInv
<1>14. OrderInv'
  BY <1>3 DEF IInv, OrderInv, Held
<1> QED  BY <1>6, <1>7, <1>8, <1>9, <1>10, <1>11, <1>12, <1>13, <1>14 DEF IInv, NoPanic

LEMMA NextInv == IInv /\ [Next]_vars => IInv'
<1> SUFFICES ASSUME IInv, [Next]_vars PROVE IInv'
  OBVIOUS
<1>1. CASE UNCHANGED vars
  BY <1>1 DEF vars, kthread, sync, IInv, TypeOK, KThreadTypeOK, NoPanic, ReadyListInv,
              WaitersInv, CallInv, CreatedInv, RepeatInv, OrderInv, Held, MutualExclusion,
              NoLostWakeup, Owns
<1>2. ASSUME NEW l \in Locks, Acquire(l) PROVE IInv'
  BY <1>2, AcquireInv
<1>3. ASSUME NEW l \in Locks, Release(l) PROVE IInv'
  BY <1>3, ReleaseInv
<1>4. CASE InSync
  BY <1>4, SemaDownBlockInv, SemaDownTakeInv, SetHolderInv, SetRepeatInv,
     ClearRepeatInv, SemaUpInv DEF InSync
<1>5. CASE Preempt
  BY <1>5, PreemptInv
<1> QED  BY <1>1, <1>2, <1>3, <1>4, <1>5 DEF Next

(***************************************************************************)
(* A step starts no thread, and leaves alone the calls and the locks of    *)
(* every thread but the running one.                                       *)
(***************************************************************************)
LEMMA NextEffect ==
  ASSUME IInv, Next
  PROVE  /\ \A t \in Threads : status'[t] = NOT_CREATED <=> status[t] = NOT_CREATED
         /\ \A t \in Threads \ {cur} :
              /\ pc'[t] = pc[t] /\ arg'[t] = arg[t]
              /\ \A l \in Locks : /\ holder'[l] = t <=> holder[l] = t
                                  /\ holder[l] = t => repeat'[l] = repeat[l]
<1> USE SyncAssumption DEF TASK_RUNNING, TASK_READY, TASK_BLOCKED, NOT_CREATED
<1> DEFINE Keep == \A t \in Threads \ {cur} :
                     /\ pc'[t] = pc[t] /\ arg'[t] = arg[t]
                     /\ \A l \in Locks : /\ holder'[l] = t <=> holder[l] = t
                                         /\ holder[l] = t => repeat'[l] = repeat[l]
<1>1. TypeOK /\ KThreadTypeOK /\ ReadyListInv /\ cur \in Threads /\ cur # NULL
  BY DEF IInv, TypeOK, KThreadTypeOK
<1>2. ASSUME NEW l \in Locks, Acquire(l) PROVE UNCHANGED status /\ Keep
  <2>1. /\ UNCHANGED <<status, holder>> /\ arg' = [arg EXCEPT ![cur] = l]
        /\ \E label : pc' = [pc EXCEPT ![cur] = label]
        /\ repeat' = repeat \/ (holder[l] = cur /\ repeat' = [repeat EXCEPT ![l] = @ + 1])
    BY <1>2 DEF Acquire, lock_acquire, goto, kthread
  <2> QED  BY <1>1, <2>1 DEF TypeOK
<1>3. ASSUME NEW l \in Locks, Release(l) PROVE UNCHANGED status /\ Keep
  <2>1. /\ UNCHANGED status /\ arg' = [arg EXCEPT ![cur] = l]
        /\ \E label : pc' = [pc EXCEPT ![cur] = label]
        /\ repeat' = repeat \/ repeat' = [repeat EXCEPT ![l] = @ - 1]
        /\ holder' = holder \/ holder' = [holder EXCEPT ![l] = NULL]
        /\ holder[l] = cur
    BY <1>3 DEF Release, lock_release, goto, Held
  <2> QED  BY <1>1, <2>1 DEF TypeOK
<1>4. CASE sema_down_take
  <2>1. /\ UNCHANGED <<status, holder, repeat, arg>>
        /\ pc' = [pc EXCEPT ![cur] = "setholder"]
    BY <1>4 DEF sema_down_take, goto
  <2> QED  BY <1>1, <2>1 DEF TypeOK
<1>5. CASE sema_down_block
  <2>1. /\ UNCHANGED <<holder, repeat, arg>>
        /\ pc' = [pc EXCEPT ![cur] = "waiting"]
    BY <1>5 DEF sema_down_block, goto
  <2>2. \A t \in Threads : status'[t] = NOT_CREATED <=> status[t] = NOT_CREATED
    BY <1>1, <1>5, SomeThreadReady, ThreadBlockFacts DEF sema_down_block
  <2> QED  BY <1>1, <2>1, <2>2 DEF TypeOK
<1>6. CASE set_holder
  <2>1. /\ UNCHANGED <<status, repeat, arg>>
        /\ pc' = [pc EXCEPT ![cur] = "setrepeat"]
        /\ holder' = [holder EXCEPT ![arg[cur]] = cur]
        /\ holder[arg[cur]] = NULL
    BY <1>1, <1>6 DEF IInv, CallInv, set_holder, goto, kthread
  <2> QED  BY <1>1, <2>1 DEF TypeOK
<1>7. CASE set_repeat \/ clear_repeat
  <2>1. /\ UNCHANGED <<status, holder, arg>>
        /\ \E label : pc' = [pc EXCEPT ![cur] = label]
        /\ \E n : repeat' = [repeat EXCEPT ![arg[cur]] = n]
        /\ holder[arg[cur]] \in {cur, NULL}
    BY <1>1, <1>7 DEF IInv, CallInv, set_repeat, clear_repeat, goto, kthread
  <2> QED  BY <1>1, <2>1 DEF TypeOK
<1>8. CASE sema_up
  <2>1. /\ UNCHANGED <<holder, repeat, arg>>
        /\ pc' = [pc EXCEPT ![cur] = "run"]
    BY <1>8 DEF sema_up, goto
  <2>2. \A t \in Threads : status'[t] = NOT_CREATED <=> status[t] = NOT_CREATED
    <3>1. CASE waiters[arg[cur]] = <<>>
      BY <1>8, <3>1 DEF sema_up
    <3>2. CASE waiters[arg[cur]] # <<>>
      <4> DEFINE w == Head(waiters[arg[cur]])
      <4>1. /\ arg[cur] \in Locks /\ waiters[arg[cur]] \in Seq(Threads)
            /\ IsInjective(waiters[arg[cur]])
        BY <1>1, <1>8 DEF IInv, CallInv, TypeOK, WaitersInv, sema_up
      <4>2. w \in Threads /\ w \in Range(waiters[arg[cur]])
        BY <3>2, <4>1, PopFacts
      <4>3. status[w] = TASK_BLOCKED
        BY <4>1, <4>2 DEF IInv, WaitersInv
      <4>4. thread_unblock(w)
        BY <1>8, <3>2 DEF sema_up
      <4> HIDE DEF w
      <4> QED  BY <1>1, <4>2, <4>3, <4>4, ThreadUnblockFacts
    <3> QED  BY <3>1, <3>2
  <2> QED  BY <1>1, <2>1, <2>2 DEF TypeOK
<1>9. CASE Preempt
  <2>1. UNCHANGED <<holder, repeat, arg, pc>>
    BY <1>9 DEF Preempt, sync
  <2>2. \A t \in Threads : status'[t] = NOT_CREATED <=> status[t] = NOT_CREATED
    BY <1>1, <1>9, ScheduleFacts DEF Preempt
  <2> QED  BY <2>1, <2>2
<1> QED  BY <1>2, <1>3, <1>4, <1>5, <1>6, <1>7, <1>8, <1>9 DEF Next, InSync

(***************************************************************************)
(* Every reachable state of sync.c satisfies the inductive invariant.      *)
(***************************************************************************)
THEOREM Invariance == Spec => []IInv
BY InitInv, NextInv, PTL DEF Spec

(***************************************************************************)
(* Type correctness.                                                       *)
(***************************************************************************)
THEOREM TypeCorrect == Spec => []TypeOK
<1>1. IInv => TypeOK
  BY DEF IInv
<1> QED  BY Invariance, <1>1, PTL

(***************************************************************************)
(* lock_acquire and lock_release give mutual exclusion, wherever the timer *)
(* interrupts them.                                                        *)
(***************************************************************************)
THEOREM MutualExclusionThm == Spec => []MutualExclusion
<1>1. IInv => MutualExclusion
  BY DEF IInv
<1> QED  BY Invariance, <1>1, PTL

(***************************************************************************)
(* The ready list, the waiters lists and the status fields always agree.   *)
(***************************************************************************)
THEOREM ListsAgree == Spec => [](ReadyListInv /\ WaitersInv)
<1>1. IInv => ReadyListInv /\ WaitersInv
  BY DEF IInv
<1> QED  BY Invariance, <1>1, PTL

(***************************************************************************)
(* sema_up never loses the wake-up of a waiting thread.                    *)
(***************************************************************************)
THEOREM NoLostWakeupThm == Spec => []NoLostWakeup
<1>1. IInv => NoLostWakeup
  BY DEF IInv
<1> QED  BY Invariance, <1>1, PTL

(***************************************************************************)
(* No assertion of sync.c or thread.c fails; in particular the ready list  *)
(* is never empty when a thread blocks.                                    *)
(***************************************************************************)
THEOREM NoPanicThm == Spec => []NoPanic
<1>1. IInv => NoPanic
  BY DEF IInv
<1> QED  BY Invariance, <1>1, PTL

(***************************************************************************)
(* The ready list holds the TASK_READY threads, each once, and the one     *)
(* TASK_RUNNING thread is on the CPU.                                      *)
(***************************************************************************)
THEOREM ReadyListThm == Spec => []ReadyListInv
<1>1. IInv => ReadyListInv
  BY DEF IInv
<1> QED  BY Invariance, <1>1, PTL
-----------------------------------------------------------------------------
(***************************************************************************)
(* The locks of sync.c implement the abstract locks of Mutex.  A lock is   *)
(* taken when sema_down takes its semaphore and becomes free when sema_up  *)
(* gives it back; in between its depth is holder_repeat_nr, or 1 at the    *)
(* points where lock_acquire has not yet set that field and lock_release   *)
(* has already cleared it.                                                 *)
(***************************************************************************)
Depth(l) == IF repeat[l] = 0 THEN 1 ELSE repeat[l]

LEMMA OwnerFacts ==
  MutualExclusion =>
    \A l \in Locks :
      /\ \A t \in Threads : Owns(t, l) => OwnerOf(l) = t /\ DepthOf(l) = Depth(l)
      /\ (\A t \in Threads : ~Owns(t, l)) => OwnerOf(l) = NULL /\ DepthOf(l) = 0
<1> SUFFICES ASSUME MutualExclusion, NEW l \in Locks
             PROVE  OwnerFacts!2!(l)
  OBVIOUS
<1>1. ASSUME NEW t \in Threads, Owns(t, l)
      PROVE  OwnerOf(l) = t /\ DepthOf(l) = Depth(l)
  <2>1. \A u \in Threads : Owns(u, l) => u = t
    BY <1>1 DEF MutualExclusion
  <2>2. (CHOOSE u \in Threads : Owns(u, l)) = t
    BY <1>1, <2>1
  <2> QED  BY <1>1, <2>2 DEF OwnerOf, DepthOf, Depth
<1>2. ASSUME \A t \in Threads : ~Owns(t, l)
      PROVE  OwnerOf(l) = NULL /\ DepthOf(l) = 0
  BY <1>2 DEF OwnerOf, DepthOf
<1> QED  BY <1>1, <1>2

LEMMA OwnerFactsNext == OwnerFacts'
BY OwnerFacts, PTL

(***************************************************************************)
(* Steps that change no owner and no depth are not visible to Mutex.       *)
(***************************************************************************)
LEMMA HiddenStep ==
  ASSUME IInv, IInv',
         \A t \in Threads, l \in Locks : Owns(t, l)' <=> Owns(t, l),
         \A t \in Threads, l \in Locks : Owns(t, l) => Depth(l)' = Depth(l)
  PROVE  UNCHANGED Lock!vars
<1> SUFFICES ASSUME NEW l \in Locks
             PROVE  OwnerOf(l)' = OwnerOf(l) /\ DepthOf(l)' = DepthOf(l)
  BY DEF Lock!vars
<1>1. MutualExclusion /\ MutualExclusion'
  BY DEF IInv
<1>2. CASE \E t \in Threads : Owns(t, l)
  <2>1. PICK t \in Threads : Owns(t, l)
    BY <1>2
  <2>2. Owns(t, l)' /\ Depth(l)' = Depth(l)
    BY <2>1
  <2> QED  BY <1>1, <2>1, <2>2, OwnerFacts, OwnerFactsNext
<1>3. CASE \A t \in Threads : ~Owns(t, l)
  <2>1. \A t \in Threads : ~Owns(t, l)'
    BY <1>3
  <2> QED  BY <1>1, <1>3, <2>1, OwnerFacts, OwnerFactsNext
<1> QED  BY <1>2, <1>3

(***************************************************************************)
(* Steps that change the owner and the depth of one lock.                  *)
(***************************************************************************)
LEMMA VisibleStep ==
  ASSUME IInv, IInv', NEW l \in Locks,
         \A t \in Threads, k \in Locks : k # l => (Owns(t, k)' <=> Owns(t, k)),
         \A k \in Locks : k # l => repeat'[k] = repeat[k]
  PROVE  /\ [k \in Locks |-> OwnerOf(k)]' = [[k \in Locks |-> OwnerOf(k)] EXCEPT ![l] = OwnerOf(l)']
         /\ [k \in Locks |-> DepthOf(k)]' = [[k \in Locks |-> DepthOf(k)] EXCEPT ![l] = DepthOf(l)']
<1>1. MutualExclusion /\ MutualExclusion'
  BY DEF IInv
<1>2. ASSUME NEW k \in Locks, k # l
      PROVE  OwnerOf(k)' = OwnerOf(k) /\ DepthOf(k)' = DepthOf(k)
  <2>1. CASE \E t \in Threads : Owns(t, k)
    <3>1. PICK t \in Threads : Owns(t, k)
      BY <2>1
    <3>2. Owns(t, k)' /\ Depth(k)' = Depth(k)
      BY <1>2, <3>1 DEF Depth
    <3> QED  BY <1>1, <3>1, <3>2, OwnerFacts, OwnerFactsNext
  <2>2. CASE \A t \in Threads : ~Owns(t, k)
    <3>1. \A t \in Threads : ~Owns(t, k)'
      BY <1>2, <2>2
    <3> QED  BY <1>1, <2>2, <3>1, OwnerFacts, OwnerFactsNext
  <2> QED  BY <2>1, <2>2
<1> QED  BY <1>2

\* lock_acquire of a lock the caller holds is Reacquire; otherwise it only tests holder.
LEMMA AcquireRefines ==
  ASSUME IInv, IInv', NEW l \in Locks, Acquire(l)
  PROVE  [Lock!Next]_Lock!vars
<1> USE SyncAssumption
<1>0. PICK c \in Threads : c = cur
  BY DEF IInv, TypeOK, KThreadTypeOK
<1>1. /\ TypeOK /\ pc[c] = "run" /\ c # NULL
      /\ UNCHANGED holder /\ arg' = [arg EXCEPT ![c] = l]
      /\ MutualExclusion /\ MutualExclusion'
  BY <1>0 DEF IInv, TypeOK, KThreadTypeOK, Acquire, lock_acquire
<1>2. CASE holder[l] # c
  <2>1. pc' = [pc EXCEPT ![c] = "down"] /\ repeat' = repeat
    BY <1>0, <1>2 DEF Acquire, lock_acquire, goto
  <2>2. \A t \in Threads, k \in Locks : Owns(t, k)' <=> Owns(t, k)
    BY <1>1, <2>1 DEF Owns, TypeOK
  <2>3. \A t \in Threads, k \in Locks : Owns(t, k) => Depth(k)' = Depth(k)
    BY <2>1 DEF Depth
  <2> QED  BY <2>2, <2>3, HiddenStep
<1>3. CASE holder[l] = c
  <2>1. /\ pc' = [pc EXCEPT ![c] = "run"]
        /\ repeat' = [repeat EXCEPT ![l] = @ + 1]
    BY <1>0, <1>3 DEF Acquire, lock_acquire, goto
  <2>2. \A t \in Threads, k \in Locks : Owns(t, k)' <=> Owns(t, k)
    BY <1>1, <2>1 DEF Owns, TypeOK
  <2>3. Owns(c, l) /\ Owns(c, l)'
    BY <1>1, <1>3, <2>2 DEF Owns
  <2>4. repeat[l] \in Nat /\ repeat[l] > 0
    BY <1>1, <1>3 DEF IInv, TypeOK, RepeatInv
  <2>5. Depth(l) = repeat[l] /\ Depth(l)' = repeat[l] + 1
    BY <1>1, <2>1, <2>4 DEF Depth, TypeOK
  <2>6. /\ OwnerOf(l) = c /\ OwnerOf(l)' = c
        /\ DepthOf(l) = repeat[l] /\ DepthOf(l)' = repeat[l] + 1
    BY <1>1, <2>3, <2>5, OwnerFacts, OwnerFactsNext
  <2>7. \A k \in Locks : k # l => repeat'[k] = repeat[k]
    BY <2>1
  <2>8. Lock!Reacquire(c, l)
    BY <2>2, <2>6, <2>7, VisibleStep DEF Lock!Reacquire
  <2> QED  BY <1>1, <2>8 DEF Lock!Next
<1> QED  BY <1>2, <1>3

\* lock_release gives up one of several acquisitions, or starts to give up the last.
LEMMA ReleaseRefines ==
  ASSUME IInv, IInv', NEW l \in Locks, Release(l)
  PROVE  [Lock!Next]_Lock!vars
<1> USE SyncAssumption
<1>0. PICK c \in Threads : c = cur
  BY DEF IInv, TypeOK, KThreadTypeOK
<1>1. /\ TypeOK /\ pc[c] = "run" /\ c # NULL
      /\ holder[l] = c /\ arg' = [arg EXCEPT ![c] = l]
      /\ MutualExclusion /\ MutualExclusion'
  BY <1>0 DEF IInv, Release, lock_release, Held
<1>2. repeat[l] \in Nat /\ repeat[l] > 0
  BY <1>1 DEF IInv, TypeOK, RepeatInv
<1>3. Owns(c, l) /\ \A t \in Threads : Owns(t, l) => t = c
  <2>1. Owns(c, l)
    BY <1>1 DEF Owns
  <2> QED  BY <1>1, <2>1 DEF MutualExclusion
<1>4. CASE repeat[l] > 1
  <2>1. /\ pc' = [pc EXCEPT ![c] = "run"]
        /\ repeat' = [repeat EXCEPT ![l] = @ - 1]
        /\ holder' = holder
    BY <1>0, <1>4 DEF Release, lock_release, goto
  <2>2. \A t \in Threads, k \in Locks : Owns(t, k)' <=> Owns(t, k)
    BY <1>1, <2>1 DEF Owns, TypeOK
  <2>3. Depth(l) = repeat[l] /\ Depth(l)' = repeat[l] - 1
    BY <1>1, <1>2, <1>4, <2>1 DEF Depth, TypeOK
  <2>4. /\ OwnerOf(l) = c /\ OwnerOf(l)' = c
        /\ DepthOf(l) = repeat[l] /\ DepthOf(l)' = repeat[l] - 1
    BY <1>1, <1>3, <2>2, <2>3, OwnerFacts, OwnerFactsNext
  <2>5. \A k \in Locks : k # l => repeat'[k] = repeat[k]
    BY <2>1
  <2>6. Lock!Release(c, l)
    BY <1>4, <2>2, <2>4, <2>5, VisibleStep DEF Lock!Release
  <2> QED  BY <1>1, <2>6 DEF Lock!Next
<1>5. CASE repeat[l] = 1
  <2>1. ~(repeat[l] > 1)
    BY <1>5
  <2>2. /\ holder' = [holder EXCEPT ![l] = NULL]
        /\ pc' = [pc EXCEPT ![c] = "clrrepeat"]
        /\ repeat' = repeat
    BY <1>0, <2>1 DEF Release, lock_release, goto
  <2>3. \A t \in Threads, k \in Locks : Owns(t, k)' <=> Owns(t, k)
    BY <1>1, <1>3, <2>2 DEF Owns, TypeOK
  <2>4. \A t \in Threads, k \in Locks : Owns(t, k) => Depth(k)' = Depth(k)
    BY <2>2 DEF Depth
  <2> QED  BY <2>3, <2>4, HiddenStep
<1> QED  BY <1>2, <1>4, <1>5

\* sema_down takes the semaphore: the abstract acquisition.
LEMMA SemaDownTakeRefines ==
  ASSUME IInv, IInv', sema_down_take
  PROVE  Lock!Next
<1> USE SyncAssumption
<1>0. PICK c \in Threads, l \in Locks : c = cur /\ l = arg[cur]
  BY DEF IInv, TypeOK, KThreadTypeOK, CallInv, sema_down_take
<1>1. /\ TypeOK /\ c # NULL
      /\ pc[c] \in {"down", "waiting"} /\ arg[c] = l /\ value[l] # 0
      /\ MutualExclusion /\ MutualExclusion'
      /\ UNCHANGED <<holder, repeat, arg>>
      /\ pc' = [pc EXCEPT ![c] = "setholder"]
  BY <1>0 DEF IInv, TypeOK, KThreadTypeOK, CallInv, sema_down_take, goto
<1>2. \A t \in Threads : ~Owns(t, l)
  BY <1>1 DEF MutualExclusion
<1>3. Owns(c, l)'
  BY <1>1 DEF Owns, TypeOK
<1>4. repeat'[l] = 0
  BY <1>1, <1>2 DEF IInv, RepeatInv
<1>5. \A t \in Threads, k \in Locks : k # l => (Owns(t, k)' <=> Owns(t, k))
  BY <1>1 DEF Owns, TypeOK
<1>6. OwnerOf(l) = NULL /\ OwnerOf(l)' = c
  BY <1>1, <1>2, <1>3, OwnerFacts, OwnerFactsNext
<1>7. DepthOf(l)' = 1
  BY <1>1, <1>3, <1>4, OwnerFactsNext DEF Depth
<1>8. Lock!Acquire(c, l)
  BY <1>1, <1>5, <1>6, <1>7, VisibleStep DEF Lock!Acquire
<1> QED  BY <1>1, <1>8 DEF Lock!Next

\* sema_up gives the semaphore back: the abstract last release.
LEMMA SemaUpRefines ==
  ASSUME IInv, IInv', sema_up
  PROVE  Lock!Next
<1> USE SyncAssumption
<1>0. PICK c \in Threads, l \in Locks : c = cur /\ l = arg[cur]
  BY DEF IInv, TypeOK, KThreadTypeOK, CallInv, sema_up
<1>1. /\ TypeOK /\ c # NULL
      /\ pc[c] = "up"
      /\ holder[l] = NULL /\ repeat[l] = 0 /\ Owns(c, l)
      /\ MutualExclusion /\ MutualExclusion'
      /\ UNCHANGED <<holder, repeat, arg>>
      /\ pc' = [pc EXCEPT ![c] = "run"]
  BY <1>0 DEF IInv, TypeOK, KThreadTypeOK, CallInv, Owns, sema_up, goto
<1>2. \A t \in Threads : Owns(t, l) => t = c
  BY <1>1 DEF MutualExclusion
<1>3. \A t \in Threads : ~Owns(t, l)'
  BY <1>1, <1>2 DEF Owns, TypeOK
<1>4. \A t \in Threads, k \in Locks : k # l => (Owns(t, k)' <=> Owns(t, k))
  BY <1>1 DEF Owns, TypeOK
<1>5. OwnerOf(l) = c /\ DepthOf(l) = 1
  BY <1>1, OwnerFacts DEF Depth
<1>6. OwnerOf(l)' = NULL /\ DepthOf(l)' = 0
  BY <1>1, <1>3, OwnerFactsNext
<1>7. Lock!ReleaseLast(c, l)
  BY <1>1, <1>4, <1>5, <1>6, VisibleStep DEF Lock!ReleaseLast
<1> QED  BY <1>1, <1>7 DEF Lock!Next

LEMMA InitRefines == Init => Lock!Init
<1> SUFFICES ASSUME Init PROVE Lock!Init
  OBVIOUS
<1>1. \A t \in Threads, l \in Locks : ~Owns(t, l)
  BY SyncAssumption DEF Init, lock_init, Owns
<1> QED  BY <1>1 DEF Lock!Init, OwnerOf, DepthOf

LEMMA NextRefines == IInv /\ IInv' /\ [Next]_vars => [Lock!Next]_Lock!vars
<1> SUFFICES ASSUME IInv, IInv', [Next]_vars PROVE [Lock!Next]_Lock!vars
  OBVIOUS
<1> USE SyncAssumption
<1>1. CASE UNCHANGED vars
  <2>1. \A t \in Threads, l \in Locks : Owns(t, l)' <=> Owns(t, l)
    BY <1>1 DEF vars, sync, Owns
  <2>2. \A t \in Threads, l \in Locks : Owns(t, l) => Depth(l)' = Depth(l)
    BY <1>1 DEF vars, sync, Depth
  <2> QED  BY <2>1, <2>2, HiddenStep
<1>2. ASSUME NEW l \in Locks, Acquire(l) PROVE [Lock!Next]_Lock!vars
  BY <1>2, AcquireRefines
<1>3. ASSUME NEW l \in Locks, Release(l) PROVE [Lock!Next]_Lock!vars
  BY <1>3, ReleaseRefines
<1>4. CASE sema_down_take
  BY <1>4, SemaDownTakeRefines
<1>5. CASE sema_up
  BY <1>5, SemaUpRefines
<1>6. CASE sema_down_block \/ Preempt
  <2>1. TypeOK /\ cur \in Threads
    BY DEF IInv, TypeOK, KThreadTypeOK
  <2>2. /\ UNCHANGED <<holder, repeat, arg>>
        /\ \/ pc' = pc
           \/ pc[cur] \in {"down", "waiting"} /\ pc' = [pc EXCEPT ![cur] = "waiting"]
    BY <1>6 DEF sema_down_block, goto, Preempt, sync
  <2>3. \A t \in Threads, l \in Locks : Owns(t, l)' <=> Owns(t, l)
    BY <2>1, <2>2 DEF Owns, TypeOK
  <2>4. \A t \in Threads, l \in Locks : Owns(t, l) => Depth(l)' = Depth(l)
    BY <2>2 DEF Depth
  <2> QED  BY <2>3, <2>4, HiddenStep
<1>7. CASE set_holder
  <2>1. /\ TypeOK /\ cur \in Threads /\ cur # NULL /\ arg[cur] \in Locks
        /\ pc[cur] = "setholder" /\ holder[arg[cur]] = NULL
    BY <1>7 DEF IInv, TypeOK, KThreadTypeOK, CallInv, set_holder
  <2>2. /\ holder' = [holder EXCEPT ![arg[cur]] = cur]
        /\ pc' = [pc EXCEPT ![cur] = "setrepeat"]
        /\ UNCHANGED <<repeat, arg>>
    BY <1>7 DEF set_holder, goto
  <2>3. Owns(cur, arg[cur])
    BY <2>1 DEF Owns
  <2>4. \A t \in Threads : Owns(t, arg[cur]) => t = cur
    BY <2>1, <2>3 DEF IInv, MutualExclusion
  <2>5. \A t \in Threads, l \in Locks : Owns(t, l)' <=> Owns(t, l)
    BY <2>1, <2>2, <2>4 DEF Owns, TypeOK
  <2>6. \A t \in Threads, l \in Locks : Owns(t, l) => Depth(l)' = Depth(l)
    BY <2>2 DEF Depth
  <2> QED  BY <2>5, <2>6, HiddenStep
<1>8. CASE set_repeat \/ clear_repeat
  <2>1. /\ TypeOK /\ cur \in Threads /\ arg[cur] \in Locks
    BY <1>8 DEF IInv, TypeOK, KThreadTypeOK, CallInv, set_repeat, clear_repeat
  <2>2. \/ /\ pc[cur] = "setrepeat" /\ pc' = [pc EXCEPT ![cur] = "run"]
           /\ holder[arg[cur]] = cur /\ repeat[arg[cur]] = 0
           /\ repeat' = [repeat EXCEPT ![arg[cur]] = 1]
        \/ /\ pc[cur] = "clrrepeat" /\ pc' = [pc EXCEPT ![cur] = "up"]
           /\ repeat[arg[cur]] = 1
           /\ repeat' = [repeat EXCEPT ![arg[cur]] = 0]
    BY <1>8, <2>1 DEF IInv, CallInv, set_repeat, clear_repeat, goto
  <2>3. UNCHANGED <<holder, arg>>
    BY <1>8 DEF set_repeat, clear_repeat
  <2>4. \A t \in Threads, l \in Locks : Owns(t, l)' <=> Owns(t, l)
    BY <2>1, <2>2, <2>3 DEF Owns, TypeOK
  <2>5. \A t \in Threads, l \in Locks : Owns(t, l) => Depth(l)' = Depth(l)
    BY <2>1, <2>2 DEF Depth, TypeOK
  <2> QED  BY <2>4, <2>5, HiddenStep
<1> QED  BY <1>1, <1>2, <1>3, <1>4, <1>5, <1>6, <1>7, <1>8 DEF Next, InSync

(***************************************************************************)
(* sync.c implements recursive locks, for every number of threads and      *)
(* locks: however its steps interleave, a lock goes from free to owned,    *)
(* up and down in depth at its owner's calls only, and back to free.       *)
(***************************************************************************)
THEOREM Refinement == Spec => ImplementsMutex
BY Invariance, InitRefines, NextRefines, PTL DEF Spec, ImplementsMutex, Lock!Spec
=============================================================================
