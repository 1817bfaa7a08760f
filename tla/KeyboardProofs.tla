-------------------------- MODULE KeyboardProofs ---------------------------
(***************************************************************************)
(* The I/O queue and the keyboard's handler, for every number of threads,  *)
(* every size of the buffer and every set of keys, as long as no thread    *)
(* both puts and gets and some thread does not put (CallersAssumption).    *)
(***************************************************************************)
EXTENDS Keyboard, KThreadProofs

(***************************************************************************)
(* A thread that is not running: it is in no call; or it is asleep on the  *)
(* queue's lock, or was woken from there; or it is asleep in ioq_wait, or  *)
(* was woken from there.  Whoever was woken is the first to run.           *)
(***************************************************************************)
Parked(t) ==
  \/ io[t] = "idle" /\ pc[t] = "run" /\ status[t] = TASK_READY
  \/ io[t] = "putwait" /\ pc[t] = "waiting" /\ status[t] = TASK_BLOCKED
  \/ io[t] = "putwait" /\ pc[t] = "waiting" /\ status[t] = TASK_READY
  \/ io[t] = "putwoken" /\ pc[t] = "run" /\ status[t] = TASK_BLOCKED /\ producer = t
       /\ ~ioq_empty
  \/ io[t] = "putwoken" /\ pc[t] = "run" /\ status[t] = TASK_READY

Running(t) ==
  /\ status[t] = TASK_RUNNING
  /\ \/ io[t] \in {"idle", "get", "putwoken"} /\ pc[t] = "run"
     \/ io[t] = "put" /\ pc[t] \in {"run", "clrrepeat", "up"}
     \/ io[t] = "putwait" /\ pc[t] \in {"down", "waiting", "setholder", "setrepeat", "run"}

\* Who calls what, with which argument.
Caller(t) ==
  /\ io[t] = "get" => t \in Consumers /\ ~ioq_empty
  /\ io[t] \in {"putwait", "putwoken"} => t \in Producers
  /\ io[t] = "put" => irq = t \/ t \in Producers
  /\ io[t] \in {"put", "putwait", "putwoken"} => chr[t] \in Chars
  /\ pc[t] # "run" => arg[t] = ioq
  /\ irq = t => t = cur /\ io[t] = "put" /\ pc[t] = "run" /\ ~ioq_full

\* The thread that has written holder and will sleep, or has slept, with the lock.
Keeps(t) == io[t] = "putwoken" \/ (io[t] = "putwait" /\ pc[t] = "run")

(***************************************************************************)
(* The queue's lock, by what the running thread is doing to it.            *)
(***************************************************************************)
LockInv ==
  /\ \A t \in Threads : Keeps(t) => holder[ioq] = t
  /\ pc[cur] = "setholder" => value[ioq] = 0 /\ holder[ioq] = NULL /\ repeat[ioq] = 0
  /\ pc[cur] = "setrepeat" => value[ioq] = 0 /\ holder[ioq] = cur /\ repeat[ioq] = 0
  /\ pc[cur] = "clrrepeat" => value[ioq] = 0 /\ holder[ioq] = NULL /\ repeat[ioq] = 1
  /\ pc[cur] = "up" => value[ioq] = 0 /\ holder[ioq] = NULL /\ repeat[ioq] = 0
  /\ pc[cur] \in {"run", "down", "waiting"} =>
       \/ value[ioq] = 1 /\ holder[ioq] = NULL /\ repeat[ioq] = 0
       \/ value[ioq] = 0 /\ repeat[ioq] = 1 /\ holder[ioq] \in Threads /\ Keeps(holder[ioq])

QueueWaiters ==
  /\ IsInjective(waiters[ioq])
  /\ \A t \in Threads : t \in Range(waiters[ioq]) <=> status[t] = TASK_BLOCKED /\ pc[t] = "waiting"

\* The threads in front of which a woken thread has gone.
AllIdle == \A t \in Range(ready) : io[t] = "idle"

(***************************************************************************)
(* At most one thread that was woken has not run, and it is the next.  If  *)
(* it was woken from the lock, the running thread is the producer that     *)
(* released it, which cannot empty the queue.                              *)
(***************************************************************************)
FrontInv ==
  /\ \A t \in Range(ready) : t # Head(ready) => io[t] = "idle"
  /\ io[cur] = "putwoken" \/ pc[cur] \in {"clrrepeat", "up"} => AllIdle
  /\ \A t \in Range(ready) : pc[t] = "waiting" =>
       cur \in Producers /\ (~ioq_empty \/ (io[cur] = "put" /\ irq = NULL))
  /\ io[cur] = "putwait" /\ (pc[cur] = "waiting" => value[ioq] = 1) => ~ioq_empty

QueueTypes ==
  /\ value \in [Locks -> Nat]
  /\ waiters \in [Locks -> Seq(Threads)]
  /\ holder \in [Locks -> Threads \cup {NULL}]
  /\ repeat \in [Locks -> Nat]
  /\ pc \in [Threads -> PC]
  /\ arg \in [Threads -> Locks \cup {NULL}]
  /\ chr \in [Threads -> Chars \cup {NULL}]
  /\ out \in Chars \cup {NULL}
  /\ consumer = NULL
  /\ irq \in Threads \cup {NULL}
  /\ producer # NULL => io[producer] = "putwoken" /\ status[producer] = TASK_BLOCKED

QInv ==
  /\ IoTypeOK /\ ReadyListInv /\ panic = {}
  /\ QueueTypes
  /\ \A t \in Threads : t # cur => Parked(t)
  /\ Running(cur)
  /\ \A t \in Threads : Caller(t)
  /\ LockInv
  /\ QueueWaiters
  /\ FrontInv

(***************************************************************************)
(* The bytes on the wire are those of one key, or what is left of them,    *)
(* and end with its code.  A modifier that the handler takes to be down is *)
(* down, or the code on the wire says that it has come up; a code on the   *)
(* wire that says it has gone down is true.                                *)
(***************************************************************************)
Last == IF wire = <<>> THEN 0 ELSE wire[Len(wire)]

Pending(modifier, codes, keys) ==
  /\ modifier = TRUE => held \cap keys # {} \/ \E m \in codes : Last = m + BreakBit
  /\ Last \in codes => held \cap keys # {}

WireInv ==
  \/ wire = <<>>
  \/ \E k \in Keys, b \in {0, BreakBit} : wire = <<Code(k) + b>> \/ wire = <<Prefix, Code(k) + b>>

ModInv ==
  /\ WireInv
  /\ ctrl_status \in BOOLEAN /\ shift_status \in BOOLEAN /\ alt_status \in BOOLEAN
  /\ Pending(ctrl_status, {ctrl_make}, {"ctrl_l", "ctrl_r"})
  /\ Pending(shift_status, {shift_l_make, shift_r_make}, {"shift_l", "shift_r"})
  /\ Pending(alt_status, {alt_make}, {"alt_l", "alt_r"})

-----------------------------------------------------------------------------
(***************************************************************************)
(* The ring buffer: positions stay below bufsize, a full queue is not      *)
(* empty, and neither is one that a character was stored in.               *)
(***************************************************************************)
LEMMA ModFacts ==
  ASSUME NEW b \in Nat \ {0}, NEW x \in Nat, x < b + b
  PROVE  x % b = IF x < b THEN x ELSE x - b
OBVIOUS

LEMMA NextPos ==
  ASSUME NEW pos \in 0 .. bufsize - 1
  PROVE  /\ next_pos(pos) = IF pos = bufsize - 1 THEN 0 ELSE pos + 1
         /\ next_pos(pos) \in 0 .. bufsize - 1
         /\ next_pos(pos) # pos
<1> DEFINE x == pos + 1
<1>1. bufsize \in Nat \ {0} /\ bufsize > 1 /\ x \in Nat /\ x < bufsize + bufsize
  BY IoQueueAssumption
<1>2. x = pos + 1 /\ next_pos(pos) = x % bufsize
  BY DEF next_pos
<1> HIDE DEF x
<1>3. x % bufsize = IF x < bufsize THEN x ELSE x - bufsize
  BY <1>1, ModFacts
<1> QED  BY <1>1, <1>2, <1>3

LEMMA QueueFacts ==
  ASSUME IoTypeOK
  PROVE  /\ ioq_full => ~ioq_empty
         /\ ~ioq_full /\ head' = next_pos(head) /\ tail' = tail => ~ioq_empty'
         /\ UNCHANGED <<head, tail>> =>
              (ioq_empty' <=> ioq_empty) /\ (ioq_full' <=> ioq_full)
<1>1. head \in 0 .. bufsize - 1 /\ next_pos(head) # head
  BY NextPos DEF IoTypeOK
<1>2. UNCHANGED <<head, tail>> => (ioq_full' <=> ioq_full)
  BY DEF ioq_full, next_pos
<1> QED  BY <1>1, <1>2 DEF ioq_full, ioq_empty

(***************************************************************************)
(* Who runs is in no list; the handler can only be storing.                *)
(***************************************************************************)
LEMMA RunsFacts ==
  ASSUME QInv
  PROVE  /\ cur \in Threads /\ cur # NULL /\ status[cur] = TASK_RUNNING
         /\ cur \notin Range(ready) /\ ready \in Seq(Threads) /\ Range(ready) \subseteq Threads
         /\ irq # NULL => irq = cur /\ io[cur] = "put" /\ pc[cur] = "run" /\ ~ioq_full
         /\ Locks = {ioq}
<1>1. cur \in Threads /\ ready \in Seq(Threads) /\ irq \in Threads \cup {NULL}
  BY DEF QInv, IoTypeOK, KThreadTypeOK, QueueTypes
<1>2. status[cur] = TASK_RUNNING /\ cur \notin Range(ready)
  BY <1>1 DEF QInv, ReadyListInv, TASK_RUNNING, TASK_READY
<1>3. Range(ready) \subseteq Threads
  BY <1>1 DEF Range
<1>4. irq # NULL => irq = cur /\ io[cur] = "put" /\ pc[cur] = "run" /\ ~ioq_full
  BY <1>1 DEF QInv, Caller
<1> QED  BY <1>1, <1>2, <1>3, <1>4, SyncAssumption, IoQueueAssumption

(***************************************************************************)
(* A step in which the running thread goes on without touching the lists   *)
(* leaves the other threads where they are.                                *)
(***************************************************************************)
OthersStay ==
  /\ UNCHANGED <<cur, ready, status, waiters, producer>>
  /\ \A t \in Threads : t # cur =>
       io'[t] = io[t] /\ pc'[t] = pc[t] /\ arg'[t] = arg[t] /\ chr'[t] = chr[t]
  /\ ~ioq_empty => ~ioq_empty'
  /\ irq' \in {NULL, cur}

LEMMA OthersFacts ==
  ASSUME QInv, OthersStay
  PROVE  /\ ReadyListInv'
         /\ \A t \in Threads : t # cur' => Parked(t)'
         /\ \A t \in Threads : t # cur => Caller(t)'
         /\ QueueWaiters'
         /\ status'[cur] = TASK_RUNNING
         /\ \A t \in Range(ready') : t # Head(ready') => io'[t] = "idle"
         /\ AllIdle => AllIdle'
         /\ producer' # NULL => io'[producer'] = "putwoken" /\ status'[producer'] = TASK_BLOCKED
<1> USE DEF TASK_RUNNING, TASK_READY, TASK_BLOCKED, OthersStay
<1>1. /\ cur \in Threads /\ cur # NULL /\ status[cur] = TASK_RUNNING /\ cur \notin Range(ready)
      /\ Range(ready) \subseteq Threads
  BY RunsFacts
<1>2. ReadyListInv'
  BY DEF QInv, ReadyListInv
<1>3. \A t \in Threads : t # cur' => Parked(t)'
  BY DEF QInv, Parked
<1>4. QueueWaiters'
  BY <1>1 DEF QInv, QueueWaiters
<1>5. \A t \in Range(ready') : t # Head(ready') => io'[t] = "idle"
  BY <1>1 DEF QInv, FrontInv
<1>6. AllIdle => AllIdle'
  BY <1>1 DEF AllIdle
<1>7. producer' # NULL => io'[producer'] = "putwoken" /\ status'[producer'] = TASK_BLOCKED
  <2>1. producer # NULL => producer \in Threads /\ producer # cur
    BY <1>1, IoQueueAssumption DEF QInv, QueueTypes, IoTypeOK
  <2> QED  BY <2>1 DEF QInv, QueueTypes
<1>8. \A t \in Threads : t # cur => Caller(t)'
  <2> SUFFICES ASSUME NEW t \in Threads, t # cur PROVE Caller(t)'
    OBVIOUS
  <2>1. io[t] \in {"idle", "putwait", "putwoken"} /\ t # NULL
    BY SyncAssumption DEF QInv, Parked
  <2> QED  BY <2>1 DEF QInv, Caller
<1> QED  BY <1>1, <1>2, <1>3, <1>4, <1>5, <1>6, <1>7, <1>8

LEMMA Labels ==
  /\ "idle" \in IO /\ "put" \in IO /\ "putwait" \in IO /\ "putwoken" \in IO /\ "get" \in IO
  /\ "run" \in PC /\ "down" \in PC /\ "waiting" \in PC /\ "setholder" \in PC
  /\ "setrepeat" \in PC /\ "clrrepeat" \in PC /\ "up" \in PC
BY DEF IO, PC

(***************************************************************************)
(* A thread, or the handler on its stack, calls ioq_putchar.               *)
(***************************************************************************)
LEMMA PutcharInv ==
  ASSUME QInv, Interruptible, NEW c \in Chars, ioq_putchar(c),
         \/ irq' = NULL /\ cur \in Producers
         \/ irq' = cur /\ ~ioq_full
  PROVE  QInv'
<1> USE DEF TASK_RUNNING, TASK_READY, TASK_BLOCKED
<1>1. /\ cur \in Threads /\ cur # NULL /\ status[cur] = TASK_RUNNING /\ cur \notin Range(ready)
      /\ Range(ready) \subseteq Threads
  BY RunsFacts
<1>2. /\ io' = [io EXCEPT ![cur] = "put"] /\ chr' = [chr EXCEPT ![cur] = c]
      /\ UNCHANGED <<vars, queue>> /\ io[cur] = "idle"
      /\ UNCHANGED <<cur, ready, status, panic, value, waiters, holder, repeat, pc, arg>>
      /\ UNCHANGED <<buf, head, tail, producer, consumer, out>>
  BY DEF ioq_putchar, goto_io, Interruptible, vars, kthread, sync, queue
<1>3. /\ io \in [Threads -> IO] /\ chr \in [Threads -> Chars \cup {NULL}]
      /\ pc[cur] = "run" /\ io'[cur] = "put" /\ chr'[cur] = c
      /\ \A t \in Threads : t # cur => io'[t] = io[t] /\ chr'[t] = chr[t]
  BY <1>1, <1>2 DEF QInv, IoTypeOK, QueueTypes, Running
<1>4. (ioq_empty' <=> ioq_empty) /\ (ioq_full' <=> ioq_full)
  BY <1>2, QueueFacts DEF QInv
<1>5. OthersStay
  BY <1>2, <1>3, <1>4 DEF OthersStay
<1>6. IoTypeOK'
  BY <1>1, <1>2, <1>3, Labels DEF QInv, IoTypeOK, KThreadTypeOK
<1>7. QueueTypes'
  BY <1>1, <1>2, <1>3, <1>5, OthersFacts DEF QInv, QueueTypes
<1>8. Running(cur)' /\ Caller(cur)'
  BY <1>1, <1>2, <1>3, <1>4 DEF Running, Caller, QInv
<1>9. LockInv'
  BY <1>1, <1>2, <1>3 DEF QInv, LockInv, Keeps
<1>10. FrontInv'
  <2>1. AllIdle => AllIdle'
    BY <1>5, OthersFacts
  <2>2. \A t \in Range(ready) : pc[t] = "waiting" =>
          cur \in Producers /\ (~ioq_empty' \/ (io'[cur] = "put" /\ irq' = NULL))
    BY <1>2, <1>3, <1>4 DEF QInv, FrontInv
  <2> QED  BY <1>2, <1>3, <1>5, <2>1, <2>2, OthersFacts DEF QInv, FrontInv
<1> QED  BY <1>2, <1>5, <1>6, <1>7, <1>8, <1>9, <1>10, OthersFacts DEF QInv

(***************************************************************************)
(* A consumer that has seen a character calls ioq_getchar.                 *)
(***************************************************************************)
LEMMA GetcharInv ==
  ASSUME QInv, irq = NULL, irq' = NULL, Interruptible, cur \in Consumers, ~ioq_empty, ioq_getchar
  PROVE  QInv'
<1> USE DEF TASK_RUNNING, TASK_READY, TASK_BLOCKED
<1>1. /\ cur \in Threads /\ cur # NULL /\ status[cur] = TASK_RUNNING /\ cur \notin Range(ready)
      /\ Range(ready) \subseteq Threads /\ Locks = {ioq}
  BY RunsFacts
<1>2. /\ io[cur] = "idle" /\ pc[cur] = "run"
  BY <1>1, SyncAssumption DEF Interruptible, ioq_getchar, QInv, Running, Caller, LockInv, Keeps
<1>3. io' = [io EXCEPT ![cur] = "get"]
      /\ panic' = {} /\ UNCHANGED <<cur, ready, status, value, waiters, holder, repeat, pc, arg, chr>>
      /\ UNCHANGED <<buf, head, tail, producer, consumer, out>>
  BY <1>1, <1>2 DEF ioq_getchar, goto_io, vars, kthread, sync, queue, QInv
<1>4. /\ io'[cur] = "get" /\ pc'[cur] = "run"
      /\ \A t \in Threads : t # cur =>
           io'[t] = io[t] /\ pc'[t] = pc[t] /\ arg'[t] = arg[t] /\ chr'[t] = chr[t]
      /\ pc' \in [Threads -> PC] /\ io' \in [Threads -> IO]
  BY <1>1, <1>2, <1>3, Labels DEF QInv, QueueTypes, IoTypeOK
<1>5. (ioq_empty' <=> ioq_empty) /\ (ioq_full' <=> ioq_full)
  BY <1>3, QueueFacts DEF QInv
<1>6. OthersStay
  BY <1>3, <1>4, <1>5 DEF OthersStay
<1>7. IoTypeOK'
  BY <1>1, <1>3, <1>4 DEF QInv, IoTypeOK, KThreadTypeOK
<1>8. QueueTypes'
  BY <1>1, <1>3, <1>4, <1>6, OthersFacts DEF QInv, QueueTypes
<1>9. Running(cur)' /\ Caller(cur)'
  BY <1>1, <1>2, <1>3, <1>4, <1>5, QueueFacts DEF Running, Caller, QInv, QueueTypes
<1>10. LockInv'
  BY <1>1, <1>2, <1>3, <1>4, SyncAssumption DEF QInv, LockInv, Keeps, QueueTypes
<1>11. FrontInv'
  <2>1. AllIdle => AllIdle'
    BY <1>6, OthersFacts
  <2>2. \A t \in Range(ready) : pc'[t] = pc[t]
    BY <1>1, <1>4
  <2>3. ~ioq_empty
    BY <1>2, <1>3, QueueFacts DEF QInv, FrontInv, Interruptible, ioq_getchar
  <2> QED  BY <1>2, <1>3, <1>4, <1>5, <1>6, <2>1, <2>2, <2>3, OthersFacts DEF QInv, FrontInv
<1> QED  BY <1>3, <1>6, <1>7, <1>8, <1>9, <1>10, <1>11, OthersFacts DEF QInv

(***************************************************************************)
(* A producer finds the queue full and calls lock_acquire.                 *)
(***************************************************************************)
LEMMA PutFullInv ==
  ASSUME QInv, irq = NULL, irq' = NULL, put_full
  PROVE  QInv'
<1> USE DEF TASK_RUNNING, TASK_READY, TASK_BLOCKED
<1>1. /\ cur \in Threads /\ cur # NULL /\ status[cur] = TASK_RUNNING /\ cur \notin Range(ready)
      /\ Range(ready) \subseteq Threads /\ Locks = {ioq}
  BY RunsFacts
<1>2. /\ io[cur] = "put" /\ pc[cur] = "run" /\ holder[ioq] # cur
  BY <1>1, SyncAssumption DEF put_full, lock_acquire, QInv, Running, Caller, LockInv, Keeps
<1>3. /\ io' = [io EXCEPT ![cur] = "putwait"]
      /\ pc' = [pc EXCEPT ![cur] = "down"] /\ arg' = [arg EXCEPT ![cur] = ioq]
      /\ panic' = {} /\ UNCHANGED <<cur, ready, status, value, waiters, holder, repeat, chr>>
      /\ UNCHANGED <<buf, head, tail, producer, consumer, out>>
  BY <1>1, <1>2 DEF put_full, lock_acquire, goto, goto_io, kthread, queue, QInv
<1>4. /\ io'[cur] = "putwait" /\ pc'[cur] = "down"
      /\ \A t \in Threads : t # cur =>
           io'[t] = io[t] /\ pc'[t] = pc[t] /\ arg'[t] = arg[t] /\ chr'[t] = chr[t]
      /\ pc' \in [Threads -> PC] /\ io' \in [Threads -> IO]
  BY <1>1, <1>2, <1>3, Labels DEF QInv, QueueTypes, IoTypeOK
<1>5. (ioq_empty' <=> ioq_empty) /\ (ioq_full' <=> ioq_full)
  BY <1>3, QueueFacts DEF QInv
<1>6. OthersStay
  BY <1>3, <1>4, <1>5 DEF OthersStay
<1>7. IoTypeOK'
  BY <1>1, <1>3, <1>4 DEF QInv, IoTypeOK, KThreadTypeOK
<1>8. QueueTypes'
  BY <1>1, <1>3, <1>4, <1>6, OthersFacts DEF QInv, QueueTypes
<1>9. Running(cur)' /\ Caller(cur)'
  BY <1>1, <1>2, <1>3, <1>4, <1>5, QueueFacts DEF Running, Caller, QInv, QueueTypes
<1>10. LockInv'
  BY <1>1, <1>2, <1>3, <1>4, SyncAssumption DEF QInv, LockInv, Keeps, QueueTypes
<1>11. FrontInv'
  <2>1. AllIdle => AllIdle'
    BY <1>6, OthersFacts
  <2>2. \A t \in Range(ready) : pc'[t] = pc[t]
    BY <1>1, <1>4
  <2>3. ~ioq_empty
    BY <1>2, <1>3, QueueFacts DEF QInv, FrontInv, put_full, lock_acquire
  <2> QED  BY <1>2, <1>3, <1>4, <1>5, <1>6, <2>1, <2>2, <2>3, OthersFacts DEF QInv, FrontInv
<1> QED  BY <1>3, <1>6, <1>7, <1>8, <1>9, <1>10, <1>11, OthersFacts DEF QInv

(***************************************************************************)
(* A producer is back from ioq_wait and begins to release the lock, which  *)
(* it has kept all the time.                                               *)
(***************************************************************************)
LEMMA PutWokenInv ==
  ASSUME QInv, irq = NULL, irq' = NULL, put_woken
  PROVE  QInv'
<1> USE DEF TASK_RUNNING, TASK_READY, TASK_BLOCKED
<1>1. /\ cur \in Threads /\ cur # NULL /\ status[cur] = TASK_RUNNING /\ cur \notin Range(ready)
      /\ Range(ready) \subseteq Threads /\ Locks = {ioq}
  BY RunsFacts
<1>2. /\ io[cur] = "putwoken" /\ pc[cur] = "run"
      /\ holder[ioq] = cur /\ repeat[ioq] = 1 /\ value[ioq] = 0
  BY <1>1, SyncAssumption DEF put_woken, lock_release, QInv, Running, Caller, LockInv, Keeps
<1>3. /\ io' = [io EXCEPT ![cur] = "put"] /\ pc' = [pc EXCEPT ![cur] = "clrrepeat"]
      /\ arg' = [arg EXCEPT ![cur] = ioq] /\ holder' = [holder EXCEPT ![ioq] = NULL]
      /\ panic' = {} /\ UNCHANGED <<cur, ready, status, value, waiters, repeat, chr>>
      /\ UNCHANGED <<buf, head, tail, producer, consumer, out>>
  BY <1>1, <1>2 DEF put_woken, lock_release, goto, goto_io, queue, Failing
<1>4. /\ io'[cur] = "put" /\ pc'[cur] = "clrrepeat"
      /\ \A t \in Threads : t # cur =>
           io'[t] = io[t] /\ pc'[t] = pc[t] /\ arg'[t] = arg[t] /\ chr'[t] = chr[t]
      /\ pc' \in [Threads -> PC] /\ io' \in [Threads -> IO]
  BY <1>1, <1>2, <1>3, Labels DEF QInv, QueueTypes, IoTypeOK
<1>5. (ioq_empty' <=> ioq_empty) /\ (ioq_full' <=> ioq_full)
  BY <1>3, QueueFacts DEF QInv
<1>6. OthersStay
  BY <1>3, <1>4, <1>5 DEF OthersStay
<1>7. IoTypeOK'
  BY <1>1, <1>3, <1>4 DEF QInv, IoTypeOK, KThreadTypeOK
<1>8. QueueTypes'
  BY <1>1, <1>3, <1>4, <1>6, OthersFacts DEF QInv, QueueTypes
<1>9. Running(cur)' /\ Caller(cur)'
  BY <1>1, <1>2, <1>3, <1>4, <1>5, QueueFacts DEF Running, Caller, QInv, QueueTypes
<1>10. LockInv'
  BY <1>1, <1>2, <1>3, <1>4, SyncAssumption DEF QInv, LockInv, Keeps, QueueTypes
<1>11. FrontInv'
  <2>1. AllIdle => AllIdle'
    BY <1>6, OthersFacts
  <2>2. \A t \in Range(ready) : pc'[t] = pc[t]
    BY <1>1, <1>4
  <2>3. AllIdle
    BY <1>2, <1>3, QueueFacts DEF QInv, FrontInv, put_woken, lock_release
  <2> QED  BY <1>2, <1>3, <1>4, <1>5, <1>6, <2>1, <2>2, <2>3, OthersFacts DEF QInv, FrontInv
<1> QED  BY <1>3, <1>6, <1>7, <1>8, <1>9, <1>10, <1>11, OthersFacts DEF QInv

(***************************************************************************)
(* sema_down takes the semaphore.                                          *)
(***************************************************************************)
LEMMA TakeInv ==
  ASSUME QInv, irq = NULL, irq' = NULL, sema_down_take, UNCHANGED <<queue, io, chr>>
  PROVE  QInv'
<1> USE DEF TASK_RUNNING, TASK_READY, TASK_BLOCKED
<1>1. /\ cur \in Threads /\ cur # NULL /\ status[cur] = TASK_RUNNING /\ cur \notin Range(ready)
      /\ Range(ready) \subseteq Threads /\ Locks = {ioq}
  BY RunsFacts
<1>2. /\ io[cur] = "putwait" /\ pc[cur] \in {"down", "waiting"} /\ arg[cur] = ioq /\ value[ioq] = 1
  BY <1>1, SyncAssumption DEF sema_down_take, QInv, Running, Caller, LockInv, Keeps
<1>3. value' = [value EXCEPT ![ioq] = 0] /\ pc' = [pc EXCEPT ![cur] = "setholder"]
      /\ panic' = {} /\ UNCHANGED <<cur, ready, status, waiters, holder, repeat, arg, io, chr>>
      /\ UNCHANGED <<buf, head, tail, producer, consumer, out>>
  BY <1>1, <1>2 DEF sema_down_take, goto, queue, Failing, QInv, QueueTypes
<1>4. /\ io'[cur] = "putwait" /\ pc'[cur] = "setholder"
      /\ \A t \in Threads : t # cur =>
           io'[t] = io[t] /\ pc'[t] = pc[t] /\ arg'[t] = arg[t] /\ chr'[t] = chr[t]
      /\ pc' \in [Threads -> PC] /\ io' \in [Threads -> IO]
  BY <1>1, <1>2, <1>3, Labels DEF QInv, QueueTypes, IoTypeOK
<1>5. (ioq_empty' <=> ioq_empty) /\ (ioq_full' <=> ioq_full)
  BY <1>3, QueueFacts DEF QInv
<1>6. OthersStay
  BY <1>3, <1>4, <1>5 DEF OthersStay
<1>7. IoTypeOK'
  BY <1>1, <1>3, <1>4 DEF QInv, IoTypeOK, KThreadTypeOK
<1>8. QueueTypes'
  BY <1>1, <1>3, <1>4, <1>6, OthersFacts DEF QInv, QueueTypes
<1>9. Running(cur)' /\ Caller(cur)'
  BY <1>1, <1>2, <1>3, <1>4, <1>5, QueueFacts DEF Running, Caller, QInv, QueueTypes
<1>10. LockInv'
  BY <1>1, <1>2, <1>3, <1>4, SyncAssumption DEF QInv, LockInv, Keeps, QueueTypes
<1>11. FrontInv'
  <2>1. AllIdle => AllIdle'
    BY <1>6, OthersFacts
  <2>2. \A t \in Range(ready) : pc'[t] = pc[t]
    BY <1>1, <1>4
  <2>3. ~ioq_empty
    BY <1>2, <1>3, QueueFacts DEF QInv, FrontInv, sema_down_take
  <2> QED  BY <1>2, <1>3, <1>4, <1>5, <1>6, <2>1, <2>2, <2>3, OthersFacts DEF QInv, FrontInv
<1> QED  BY <1>3, <1>6, <1>7, <1>8, <1>9, <1>10, <1>11, OthersFacts DEF QInv

(***************************************************************************)
(* lock_acquire writes the holder.                                         *)
(***************************************************************************)
LEMMA SetHolderInv ==
  ASSUME QInv, irq = NULL, irq' = NULL, set_holder, UNCHANGED <<queue, io, chr>>
  PROVE  QInv'
<1> USE DEF TASK_RUNNING, TASK_READY, TASK_BLOCKED
<1>1. /\ cur \in Threads /\ cur # NULL /\ status[cur] = TASK_RUNNING /\ cur \notin Range(ready)
      /\ Range(ready) \subseteq Threads /\ Locks = {ioq}
  BY RunsFacts
<1>2. /\ io[cur] = "putwait" /\ pc[cur] = "setholder" /\ arg[cur] = ioq
  BY <1>1, SyncAssumption DEF set_holder, QInv, Running, Caller, LockInv, Keeps
<1>3. holder' = [holder EXCEPT ![ioq] = cur] /\ pc' = [pc EXCEPT ![cur] = "setrepeat"]
      /\ panic' = {} /\ UNCHANGED <<cur, ready, status, value, waiters, repeat, arg, io, chr>>
      /\ UNCHANGED <<buf, head, tail, producer, consumer, out>>
  BY <1>1, <1>2 DEF set_holder, goto, kthread, queue, QInv
<1>4. /\ io'[cur] = "putwait" /\ pc'[cur] = "setrepeat"
      /\ \A t \in Threads : t # cur =>
           io'[t] = io[t] /\ pc'[t] = pc[t] /\ arg'[t] = arg[t] /\ chr'[t] = chr[t]
      /\ pc' \in [Threads -> PC] /\ io' \in [Threads -> IO]
  BY <1>1, <1>2, <1>3, Labels DEF QInv, QueueTypes, IoTypeOK
<1>5. (ioq_empty' <=> ioq_empty) /\ (ioq_full' <=> ioq_full)
  BY <1>3, QueueFacts DEF QInv
<1>6. OthersStay
  BY <1>3, <1>4, <1>5 DEF OthersStay
<1>7. IoTypeOK'
  BY <1>1, <1>3, <1>4 DEF QInv, IoTypeOK, KThreadTypeOK
<1>8. QueueTypes'
  BY <1>1, <1>3, <1>4, <1>6, OthersFacts DEF QInv, QueueTypes
<1>9. Running(cur)' /\ Caller(cur)'
  BY <1>1, <1>2, <1>3, <1>4, <1>5, QueueFacts DEF Running, Caller, QInv, QueueTypes
<1>10. LockInv'
  BY <1>1, <1>2, <1>3, <1>4, SyncAssumption DEF QInv, LockInv, Keeps, QueueTypes
<1>11. FrontInv'
  <2>1. AllIdle => AllIdle'
    BY <1>6, OthersFacts
  <2>2. \A t \in Range(ready) : pc'[t] = pc[t]
    BY <1>1, <1>4
  <2>3. ~ioq_empty
    BY <1>2, <1>3, QueueFacts DEF QInv, FrontInv, set_holder
  <2> QED  BY <1>2, <1>3, <1>4, <1>5, <1>6, <2>1, <2>2, <2>3, OthersFacts DEF QInv, FrontInv
<1> QED  BY <1>3, <1>6, <1>7, <1>8, <1>9, <1>10, <1>11, OthersFacts DEF QInv

(***************************************************************************)
(* lock_acquire writes the count.                                          *)
(***************************************************************************)
LEMMA SetRepeatInv ==
  ASSUME QInv, irq = NULL, irq' = NULL, set_repeat, UNCHANGED <<queue, io, chr>>
  PROVE  QInv'
<1> USE DEF TASK_RUNNING, TASK_READY, TASK_BLOCKED
<1>1. /\ cur \in Threads /\ cur # NULL /\ status[cur] = TASK_RUNNING /\ cur \notin Range(ready)
      /\ Range(ready) \subseteq Threads /\ Locks = {ioq}
  BY RunsFacts
<1>2. /\ io[cur] = "putwait" /\ pc[cur] = "setrepeat" /\ arg[cur] = ioq
  BY <1>1, SyncAssumption DEF set_repeat, QInv, Running, Caller, LockInv, Keeps
<1>3. repeat' = [repeat EXCEPT ![ioq] = 1] /\ pc' = [pc EXCEPT ![cur] = "run"]
      /\ panic' = {} /\ UNCHANGED <<cur, ready, status, value, waiters, holder, arg, io, chr>>
      /\ UNCHANGED <<buf, head, tail, producer, consumer, out>>
  BY <1>1, <1>2 DEF set_repeat, goto, queue, Failing, QInv, LockInv
<1>4. /\ io'[cur] = "putwait" /\ pc'[cur] = "run"
      /\ \A t \in Threads : t # cur =>
           io'[t] = io[t] /\ pc'[t] = pc[t] /\ arg'[t] = arg[t] /\ chr'[t] = chr[t]
      /\ pc' \in [Threads -> PC] /\ io' \in [Threads -> IO]
  BY <1>1, <1>2, <1>3, Labels DEF QInv, QueueTypes, IoTypeOK
<1>5. (ioq_empty' <=> ioq_empty) /\ (ioq_full' <=> ioq_full)
  BY <1>3, QueueFacts DEF QInv
<1>6. OthersStay
  BY <1>3, <1>4, <1>5 DEF OthersStay
<1>7. IoTypeOK'
  BY <1>1, <1>3, <1>4 DEF QInv, IoTypeOK, KThreadTypeOK
<1>8. QueueTypes'
  BY <1>1, <1>3, <1>4, <1>6, OthersFacts DEF QInv, QueueTypes
<1>9. Running(cur)' /\ Caller(cur)'
  BY <1>1, <1>2, <1>3, <1>4, <1>5, QueueFacts DEF Running, Caller, QInv, QueueTypes
<1>10. LockInv'
  BY <1>1, <1>2, <1>3, <1>4, SyncAssumption DEF QInv, LockInv, Keeps, QueueTypes
<1>11. FrontInv'
  <2>1. AllIdle => AllIdle'
    BY <1>6, OthersFacts
  <2>2. \A t \in Range(ready) : pc'[t] = pc[t]
    BY <1>1, <1>4
  <2>3. ~ioq_empty
    BY <1>2, <1>3, QueueFacts DEF QInv, FrontInv, set_repeat
  <2> QED  BY <1>2, <1>3, <1>4, <1>5, <1>6, <2>1, <2>2, <2>3, OthersFacts DEF QInv, FrontInv
<1> QED  BY <1>3, <1>6, <1>7, <1>8, <1>9, <1>10, <1>11, OthersFacts DEF QInv

(***************************************************************************)
(* lock_release clears the count.                                          *)
(***************************************************************************)
LEMMA ClearRepeatInv ==
  ASSUME QInv, irq = NULL, irq' = NULL, clear_repeat, UNCHANGED <<queue, io, chr>>
  PROVE  QInv'
<1> USE DEF TASK_RUNNING, TASK_READY, TASK_BLOCKED
<1>1. /\ cur \in Threads /\ cur # NULL /\ status[cur] = TASK_RUNNING /\ cur \notin Range(ready)
      /\ Range(ready) \subseteq Threads /\ Locks = {ioq}
  BY RunsFacts
<1>2. /\ io[cur] = "put" /\ pc[cur] = "clrrepeat" /\ arg[cur] = ioq
  BY <1>1, SyncAssumption DEF clear_repeat, QInv, Running, Caller, LockInv, Keeps
<1>3. repeat' = [repeat EXCEPT ![ioq] = 0] /\ pc' = [pc EXCEPT ![cur] = "up"]
      /\ panic' = {} /\ UNCHANGED <<cur, ready, status, value, waiters, holder, arg, io, chr>>
      /\ UNCHANGED <<buf, head, tail, producer, consumer, out>>
  BY <1>1, <1>2 DEF clear_repeat, goto, kthread, queue, QInv
<1>4. /\ io'[cur] = "put" /\ pc'[cur] = "up"
      /\ \A t \in Threads : t # cur =>
           io'[t] = io[t] /\ pc'[t] = pc[t] /\ arg'[t] = arg[t] /\ chr'[t] = chr[t]
      /\ pc' \in [Threads -> PC] /\ io' \in [Threads -> IO]
  BY <1>1, <1>2, <1>3, Labels DEF QInv, QueueTypes, IoTypeOK
<1>5. (ioq_empty' <=> ioq_empty) /\ (ioq_full' <=> ioq_full)
  BY <1>3, QueueFacts DEF QInv
<1>6. OthersStay
  BY <1>3, <1>4, <1>5 DEF OthersStay
<1>7. IoTypeOK'
  BY <1>1, <1>3, <1>4 DEF QInv, IoTypeOK, KThreadTypeOK
<1>8. QueueTypes'
  BY <1>1, <1>3, <1>4, <1>6, OthersFacts DEF QInv, QueueTypes
<1>9. Running(cur)' /\ Caller(cur)'
  BY <1>1, <1>2, <1>3, <1>4, <1>5, QueueFacts DEF Running, Caller, QInv, QueueTypes
<1>10. LockInv'
  BY <1>1, <1>2, <1>3, <1>4, SyncAssumption DEF QInv, LockInv, Keeps, QueueTypes
<1>11. FrontInv'
  <2>1. AllIdle => AllIdle'
    BY <1>6, OthersFacts
  <2>2. \A t \in Range(ready) : pc'[t] = pc[t]
    BY <1>1, <1>4
  <2>3. AllIdle
    BY <1>2, <1>3, QueueFacts DEF QInv, FrontInv, clear_repeat
  <2> QED  BY <1>2, <1>3, <1>4, <1>5, <1>6, <2>1, <2>2, <2>3, OthersFacts DEF QInv, FrontInv
<1> QED  BY <1>3, <1>6, <1>7, <1>8, <1>9, <1>10, <1>11, OthersFacts DEF QInv

(***************************************************************************)
(* A character is stored, by a producer or by the handler.  Nobody sleeps  *)
(* in ioq_getchar, and the queue is not empty afterwards.                  *)
(***************************************************************************)
LEMMA PutStoreInv ==
  ASSUME QInv, put_store, irq' = NULL
  PROVE  QInv'
<1> USE DEF TASK_RUNNING, TASK_READY, TASK_BLOCKED
<1>1. /\ cur \in Threads /\ cur # NULL /\ status[cur] = TASK_RUNNING /\ cur \notin Range(ready)
      /\ Range(ready) \subseteq Threads
  BY RunsFacts
<1>2. /\ io[cur] = "put" /\ pc[cur] = "run" /\ ~ioq_full /\ chr[cur] \in Chars
      /\ head \in 0 .. bufsize - 1 /\ next_pos(head) \in 0 .. bufsize - 1
      /\ buf' = [buf EXCEPT ![head] = chr[cur]] /\ head' = next_pos(head)
      /\ io' = [io EXCEPT ![cur] = "idle"] /\ chr' = [chr EXCEPT ![cur] = NULL]
      /\ UNCHANGED <<sync, tail, producer, out>> /\ consumer' = NULL
  BY <1>1, NextPos DEF put_store, goto_io, QInv, Caller, IoTypeOK
<1>3. UNCHANGED <<cur, ready, status, panic, value, waiters, holder, repeat, pc, arg>>
  BY <1>2 DEF put_store, wakeup_if, kthread, sync, QInv, QueueTypes
<1>4. /\ io'[cur] = "idle" /\ chr'[cur] = NULL
      /\ \A t \in Threads : t # cur => io'[t] = io[t] /\ chr'[t] = chr[t]
      /\ io' \in [Threads -> IO] /\ chr' \in [Threads -> Chars \cup {NULL}]
  BY <1>1, <1>2, Labels DEF QInv, QueueTypes, IoTypeOK
<1>5. ~ioq_empty'
  BY <1>2, QueueFacts DEF QInv
<1>6. OthersStay
  BY <1>2, <1>3, <1>4, <1>5 DEF OthersStay
<1>7. IoTypeOK'
  <2>1. buf' \in [0 .. bufsize - 1 -> Chars \cup {NULL}]
    BY <1>2 DEF QInv, IoTypeOK
  <2> QED  BY <1>1, <1>2, <1>3, <1>4, <2>1 DEF QInv, IoTypeOK, KThreadTypeOK
<1>8. QueueTypes'
  BY <1>1, <1>2, <1>3, <1>4, <1>6, OthersFacts DEF QInv, QueueTypes
<1>9. Running(cur)' /\ Caller(cur)'
  BY <1>1, <1>2, <1>3, <1>4 DEF Running, Caller, QInv
<1>10. LockInv'
  BY <1>1, <1>2, <1>3, <1>4, SyncAssumption DEF QInv, LockInv, Keeps, QueueTypes
<1>11. FrontInv'
  <2>1. AllIdle => AllIdle'
    BY <1>6, OthersFacts
  <2> QED  BY <1>2, <1>3, <1>4, <1>5, <1>6, <2>1, OthersFacts DEF QInv, FrontInv
<1> QED  BY <1>3, <1>6, <1>7, <1>8, <1>9, <1>10, <1>11, OthersFacts DEF QInv

(***************************************************************************)
(* A character is taken.  If a producer sleeps, it is woken; it goes in    *)
(* front of threads that are in no call, because the consumer has run      *)
(* since the last time that somebody was woken from the lock.              *)
(***************************************************************************)
LEMMA GetTakeInv ==
  ASSUME QInv, get_take, irq = NULL, irq' = NULL
  PROVE  QInv'
<1> USE DEF TASK_RUNNING, TASK_READY, TASK_BLOCKED
<1>1. /\ cur \in Threads /\ cur # NULL /\ status[cur] = TASK_RUNNING /\ cur \notin Range(ready)
      /\ ready \in Seq(Threads) /\ Range(ready) \subseteq Threads
      /\ Locks = {ioq}
  BY RunsFacts
<1>2. /\ io[cur] = "get" /\ pc[cur] = "run" /\ cur \in Consumers
      /\ tail' = next_pos(tail) /\ out' = buf[tail] /\ producer' = NULL
      /\ io' = [io EXCEPT ![cur] = "idle"] /\ wakeup_if(producer)
      /\ UNCHANGED <<sync, buf, head, consumer, chr>>
      /\ UNCHANGED <<value, waiters, holder, repeat, pc, arg>>
  BY <1>1 DEF get_take, goto_io, QInv, Caller, sync
<1>3. /\ io'[cur] = "idle" /\ io' \in [Threads -> IO]
      /\ \A t \in Threads : t # cur => io'[t] = io[t]
  BY <1>1, <1>2, Labels DEF QInv, IoTypeOK
<1>4. tail \in 0 .. bufsize - 1 /\ tail' \in 0 .. bufsize - 1 /\ out' \in Chars \cup {NULL}
  BY <1>2, NextPos DEF QInv, IoTypeOK
<1>5. \A t \in Range(ready) : pc[t] # "waiting"
  BY <1>2, CallersAssumption DEF QInv, FrontInv
<1>6. /\ KThreadTypeOK' /\ ReadyListInv' /\ panic' = {} /\ cur' = cur
      /\ \A t \in Threads : status'[t] = IF t = producer THEN TASK_READY ELSE status[t]
      /\ \A t \in Range(ready') : t # Head(ready') => io'[t] = "idle"
  <2>1. CASE producer = NULL
    <3>1. UNCHANGED <<cur, ready, status, panic>>
      BY <1>2, <2>1 DEF wakeup_if, kthread
    <3>2. \A t \in Threads : t # producer
      BY <2>1, SyncAssumption
    <3>3. KThreadTypeOK' /\ ReadyListInv'
      BY <3>1 DEF QInv, IoTypeOK, KThreadTypeOK, ReadyListInv
    <3>4. \A t \in Range(ready') : t # Head(ready') => io'[t] = "idle"
      BY <1>1, <1>3, <3>1 DEF QInv, FrontInv
    <3> QED  BY <3>1, <3>2, <3>3, <3>4 DEF QInv
  <2>2. CASE producer # NULL
    <3>1. /\ producer \in Threads /\ io[producer] = "putwoken" /\ status[producer] = TASK_BLOCKED
          /\ producer # cur /\ holder[ioq] = producer
      BY <1>1, <2>2, IoQueueAssumption DEF QInv, QueueTypes, IoTypeOK, LockInv, Keeps
    <3>2. thread_unblock(producer) /\ panic' = thread_unblock_asserts(producer)
      BY <1>2, <2>2 DEF wakeup_if, wakeup
    <3>3. /\ KThreadTypeOK' /\ ReadyListInv' /\ thread_unblock_asserts(producer) = {}
      BY <3>1, <3>2, ThreadUnblockFacts DEF QInv, IoTypeOK
    <3>4. AllIdle
      <4> SUFFICES ASSUME NEW t \in Range(ready) PROVE io[t] = "idle"
        BY DEF AllIdle
      <4>1. t \in Threads /\ t # cur /\ status[t] = TASK_READY
        BY <1>1 DEF QInv, ReadyListInv
      <4>2. io[t] # "putwoken"
        BY <3>1, <4>1 DEF QInv, LockInv, Keeps
      <4> QED  BY <1>5, <4>1, <4>2 DEF QInv, Parked
    <3>5. Range(ready') = Range(ready) \cup {producer} /\ Head(ready') = producer
      <4>1. producer \notin Range(ready) /\ IsInjective(ready)
        BY <3>1 DEF QInv, ReadyListInv
      <4>2. Range(list_push(ready, producer)) = Range(ready) \cup {producer}
        BY <1>1, <3>1, <4>1, PushFacts
      <4>3. Head(<<producer>> \o ready) = producer
        BY <1>1, <3>1
      <4> QED  BY <3>2, <4>2, <4>3 DEF thread_unblock, list_push
    <3>6. \A t \in Range(ready') : t # Head(ready') => io'[t] = "idle"
      BY <1>1, <1>3, <3>4, <3>5 DEF AllIdle
    <3>7. cur' = cur /\ \A t \in Threads : status'[t] = IF t = producer THEN TASK_READY ELSE status[t]
      BY <3>1, <3>2 DEF thread_unblock, QInv, IoTypeOK, KThreadTypeOK
    <3> QED  BY <3>2, <3>3, <3>6, <3>7
  <2> QED  BY <2>1, <2>2
<1>7. \A t \in Threads : t # cur => Parked(t)'
  <2> SUFFICES ASSUME NEW t \in Threads, t # cur PROVE Parked(t)'
    OBVIOUS
  <2>1. Parked(t) /\ io'[t] = io[t] /\ pc'[t] = pc[t]
    BY <1>2, <1>3 DEF QInv
  <2>2. t = producer => io[t] = "putwoken" /\ pc[t] = "run" /\ status'[t] = TASK_READY
    BY <1>6, <2>1, SyncAssumption DEF QInv, QueueTypes, Parked
  <2>3. t # producer => status'[t] = status[t]
    BY <1>6
  <2> QED  BY <2>1, <2>2, <2>3 DEF Parked
<1>8. Running(cur)'
  <2>1. cur # producer
    BY <1>1 DEF QInv, QueueTypes
  <2> QED  BY <1>1, <1>2, <1>3, <1>6, <2>1 DEF Running
<1>9. \A t \in Threads : Caller(t)'
  <2> SUFFICES ASSUME NEW t \in Threads PROVE Caller(t)'
    OBVIOUS
  <2>1. io'[t] # "get" /\ t # NULL
    BY <1>3, <1>2, SyncAssumption DEF QInv, Parked
  <2> QED  BY <1>2, <1>3, <1>6, <2>1 DEF QInv, Caller
<1>10. LockInv'
  BY <1>1, <1>2, <1>3, <1>6, SyncAssumption DEF QInv, LockInv, Keeps, QueueTypes
<1>11. QueueWaiters'
  <2>1. producer \in Threads => pc[producer] = "run"
    BY <1>1, SyncAssumption DEF QInv, QueueTypes, Parked
  <2> QED  BY <1>1, <1>2, <1>6, <2>1 DEF QInv, QueueWaiters
<1>12. FrontInv'
  <2>1. \A t \in Range(ready') : pc'[t] # "waiting"
    <3>1. \A t \in Range(ready') : t \in Threads /\ status'[t] = TASK_READY
      BY <1>6 DEF KThreadTypeOK, ReadyListInv, Range
    <3>2. \A t \in Threads : status'[t] = TASK_READY /\ t # producer => t \in Range(ready)
      BY <1>6 DEF QInv, ReadyListInv
    <3>3. producer \in Threads => pc[producer] = "run"
      BY <1>1, SyncAssumption DEF QInv, QueueTypes, Parked
    <3> QED  BY <1>2, <1>5, <3>1, <3>2, <3>3
  <2> QED  BY <1>2, <1>3, <1>6, <2>1 DEF FrontInv
<1>13. IoTypeOK'
  BY <1>2, <1>3, <1>4, <1>6 DEF QInv, IoTypeOK
<1>14. QueueTypes'
  BY <1>2, <1>4 DEF QInv, QueueTypes
<1> QED  BY <1>6, <1>7, <1>8, <1>9, <1>10, <1>11, <1>12, <1>13, <1>14 DEF QInv

(***************************************************************************)
(* lock_release gives the semaphore back and wakes the first waiter.       *)
(***************************************************************************)
LEMMA UpInv ==
  ASSUME QInv, sema_up, UNCHANGED <<queue, io, chr>>, irq = NULL, irq' = NULL
  PROVE  QInv'
<1> USE DEF TASK_RUNNING, TASK_READY, TASK_BLOCKED
<1> DEFINE w == Head(waiters[ioq])
           wakes == waiters[ioq] # <<>>
<1>1. /\ cur \in Threads /\ cur # NULL /\ status[cur] = TASK_RUNNING /\ cur \notin Range(ready)
      /\ ready \in Seq(Threads) /\ Range(ready) \subseteq Threads
      /\ Locks = {ioq}
  BY RunsFacts
<1>2. /\ pc[cur] = "up" /\ io[cur] = "put" /\ arg[cur] = ioq /\ cur \in Producers
      /\ value[ioq] = 0 /\ holder[ioq] = NULL /\ repeat[ioq] = 0
      /\ value' = [value EXCEPT ![ioq] = 1] /\ pc' = [pc EXCEPT ![cur] = "run"]
      /\ UNCHANGED <<holder, repeat, arg, io, chr>>
      /\ UNCHANGED <<buf, head, tail, producer, consumer, out>>
  <2>1. /\ pc[cur] = "up" /\ io[cur] = "put" /\ arg[cur] = ioq /\ cur \in Producers
        /\ value[ioq] = 0 /\ holder[ioq] = NULL /\ repeat[ioq] = 0
    BY <1>1 DEF sema_up, QInv, Caller, Running, LockInv
  <2>2. value' = [value EXCEPT ![ioq] = 1]
    <3>1. value' = [value EXCEPT ![arg[cur]] = value[arg[cur]] + 1]
      BY DEF sema_up
    <3>2. value[arg[cur]] + 1 = 1
      BY <2>1
    <3> QED  BY <2>1, <3>1, <3>2
  <2>3. pc' = [pc EXCEPT ![cur] = "run"] /\ UNCHANGED <<holder, repeat, arg>>
    BY DEF sema_up, goto
  <2> QED  BY <2>1, <2>2, <2>3 DEF queue
<1>3. /\ pc'[cur] = "run" /\ pc' \in [Threads -> PC] /\ value'[ioq] = 1
      /\ \A t \in Threads : t # cur => pc'[t] = pc[t]
      /\ value' \in [Locks -> Nat]
  BY <1>1, <1>2, Labels DEF QInv, QueueTypes
<1>4. (ioq_empty' <=> ioq_empty) /\ (ioq_full' <=> ioq_full)
  BY <1>2, QueueFacts DEF QInv
<1>5. AllIdle /\ waiters[ioq] \in Seq(Threads) /\ IsInjective(waiters[ioq])
  BY <1>1, <1>2 DEF QInv, FrontInv, QueueTypes, QueueWaiters
<1>6. wakes => /\ w \in Threads /\ w \in Range(waiters[ioq]) /\ w # cur
               /\ status[w] = TASK_BLOCKED /\ pc[w] = "waiting" /\ io[w] = "putwait"
  <2>1. wakes => w \in Threads /\ w \in Range(waiters[ioq])
    BY <1>5, PopFacts
  <2>2. wakes => status[w] = TASK_BLOCKED /\ pc[w] = "waiting" /\ w # cur
    BY <1>1, <2>1 DEF QInv, QueueWaiters
  <2> QED  BY <2>1, <2>2 DEF QInv, Parked
<1>7. /\ KThreadTypeOK' /\ ReadyListInv' /\ panic' = {} /\ cur' = cur
      /\ \A t \in Threads : status'[t] = IF wakes /\ t = w THEN TASK_READY ELSE status[t]
      /\ waiters' \in [Locks -> Seq(Threads)]
      /\ waiters'[ioq] = IF wakes THEN Tail(waiters[ioq]) ELSE waiters[ioq]
      /\ \A t \in Range(ready') : t # Head(ready') => io'[t] = "idle"
  <2>1. CASE ~wakes
    <3>1. UNCHANGED <<cur, ready, status, waiters>> /\ panic' = {}
      BY <1>2, <2>1 DEF sema_up, Failing
    <3>2. KThreadTypeOK' /\ ReadyListInv'
      BY <3>1 DEF QInv, IoTypeOK, KThreadTypeOK, ReadyListInv
    <3> QED  BY <1>2, <1>5, <2>1, <3>1, <3>2 DEF QInv, QueueTypes, AllIdle
  <2>2. CASE wakes
    <3>1. /\ thread_unblock(w) /\ panic' = thread_unblock_asserts(w)
          /\ waiters' = [waiters EXCEPT ![ioq] = Tail(waiters[ioq])]
      BY <1>2, <2>2 DEF sema_up, Failing
    <3> HIDE DEF w
    <3>2. KThreadTypeOK' /\ ReadyListInv' /\ thread_unblock_asserts(w) = {}
      BY <1>6, <2>2, <3>1, ThreadUnblockFacts DEF QInv, IoTypeOK
    <3>3. Range(ready') = Range(ready) \cup {w} /\ Head(ready') = w
      <4>1. w \notin Range(ready) /\ IsInjective(ready)
        BY <1>6, <2>2 DEF QInv, ReadyListInv
      <4>2. Range(list_push(ready, w)) = Range(ready) \cup {w}
        BY <1>1, <1>6, <2>2, <4>1, PushFacts
      <4>3. Head(<<w>> \o ready) = w
        BY <1>1, <1>6, <2>2
      <4> QED  BY <3>1, <4>2, <4>3 DEF thread_unblock, list_push
    <3>4. \A t \in Range(ready') : t # Head(ready') => io'[t] = "idle"
      BY <1>2, <1>5, <3>3 DEF AllIdle
    <3>5. cur' = cur /\ \A t \in Threads : status'[t] = IF t = w THEN TASK_READY ELSE status[t]
      BY <1>6, <2>2, <3>1 DEF thread_unblock, QInv, IoTypeOK, KThreadTypeOK
    <3>6. Tail(waiters[ioq]) \in Seq(Threads)
      BY <1>5, <2>2, PopFacts
    <3>7. waiters' \in [Locks -> Seq(Threads)] /\ waiters'[ioq] = Tail(waiters[ioq])
      BY <1>1, <3>1, <3>6 DEF QInv, QueueTypes
    <3> QED  BY <2>2, <3>1, <3>2, <3>4, <3>5, <3>7
  <2> QED  BY <2>1, <2>2
<1>8. QueueWaiters'
  <2>1. CASE ~wakes
    BY <1>1, <1>3, <1>7, <2>1 DEF QInv, QueueWaiters
  <2>2. CASE wakes
    <3>1. /\ IsInjective(Tail(waiters[ioq]))
          /\ Range(Tail(waiters[ioq])) = Range(waiters[ioq]) \ {w}
      BY <1>5, <2>2, PopFacts
    <3> HIDE DEF w
    <3> QED  BY <1>1, <1>3, <1>6, <1>7, <2>2, <3>1 DEF QInv, QueueWaiters
  <2> QED  BY <2>1, <2>2
<1> HIDE DEF w, wakes
<1>9. \A t \in Threads : t # cur => Parked(t)'
  BY <1>2, <1>3, <1>4, <1>6, <1>7 DEF QInv, Parked
<1>10. Running(cur)'
  BY <1>1, <1>2, <1>3, <1>6, <1>7 DEF Running
<1>11. \A t \in Threads : Caller(t)'
  BY <1>2, <1>3, <1>4, <1>7, SyncAssumption DEF QInv, Caller
<1>12. LockInv'
  BY <1>1, <1>2, <1>3, <1>7, SyncAssumption DEF QInv, LockInv, Keeps
<1>13. FrontInv'
  BY <1>2, <1>3, <1>7 DEF FrontInv
<1>14. IoTypeOK'
  BY <1>2, <1>7 DEF QInv, IoTypeOK
<1>15. QueueTypes'
  <2>1. producer # NULL => status'[producer] = TASK_BLOCKED
    <3>1. producer # NULL => /\ producer \in Threads /\ io[producer] = "putwoken"
                             /\ status[producer] = TASK_BLOCKED
      BY IoQueueAssumption DEF QInv, QueueTypes, IoTypeOK
    <3> QED  BY <1>6, <1>7, <3>1
  <2> QED  BY <1>2, <1>3, <1>7, <2>1 DEF QInv, QueueTypes
<1> QED  BY <1>7, <1>8, <1>9, <1>10, <1>11, <1>12, <1>13, <1>14, <1>15 DEF QInv

-----------------------------------------------------------------------------
(***************************************************************************)
(* A thread that puts nothing never sleeps: somebody is always ready when  *)
(* a producer does.                                                        *)
(***************************************************************************)
LEMMA SomeoneReady ==
  ASSUME QInv, cur \in Producers
  PROVE  ready # <<>>
<1>1. PICK u \in Threads : u \notin Producers
  BY CallersAssumption, IoQueueAssumption
<1>2. status[u] = TASK_READY
  BY <1>1 DEF QInv, Parked, Caller
<1>3. u \in Range(ready)
  BY <1>2 DEF QInv, ReadyListInv
<1> QED  BY <1>3, EmptyRange

(***************************************************************************)
(* schedule: the next thread is the one that was woken, if there is one,   *)
(* and all that stay in the ready list are in no call.                     *)
(***************************************************************************)
LEMMA SwitchFacts ==
  ASSUME QInv, NEW stat \in {TASK_RUNNING, TASK_BLOCKED}, schedule(stat),
         stat = TASK_RUNNING => io[cur] = "idle",
         stat = TASK_BLOCKED => ready # <<>>
  PROVE  /\ KThreadTypeOK' /\ ReadyListInv' /\ schedule_asserts(stat) = {}
         /\ \A t \in Range(ready') : t \in Threads /\ io[t] = "idle"
         /\ stat = TASK_BLOCKED => cur' \in Range(ready)
         /\ stat = TASK_RUNNING => cur' \in Range(ready) \cup {cur}
         /\ cur' \in Range(ready) => Parked(cur') /\ status[cur'] = TASK_READY /\ cur' # cur
         /\ \A t \in Threads : t # cur /\ t # cur' => status'[t] = status[t]
         /\ status'[cur'] = TASK_RUNNING
         /\ cur # cur' => status'[cur] = IF stat = TASK_RUNNING THEN TASK_READY ELSE TASK_BLOCKED
<1> USE DEF TASK_RUNNING, TASK_READY, TASK_BLOCKED
<1> DEFINE q == IF stat = TASK_RUNNING THEN Append(ready, cur) ELSE ready
           parked == IF stat = TASK_RUNNING THEN TASK_READY ELSE TASK_BLOCKED
<1>1. /\ cur \in Threads /\ status[cur] = TASK_RUNNING /\ cur \notin Range(ready)
      /\ ready \in Seq(Threads) /\ Range(ready) \subseteq Threads /\ IsInjective(ready)
      /\ status \in [Threads -> Status \cup {NOT_CREATED}]
  BY RunsFacts DEF QInv, ReadyListInv, IoTypeOK, KThreadTypeOK
<1>2. /\ q \in Seq(Threads) /\ q # <<>> /\ IsInjective(q)
      /\ Range(q) = IF stat = TASK_RUNNING THEN Range(ready) \cup {cur} ELSE Range(ready)
      /\ Head(q) = IF ready = <<>> THEN cur ELSE Head(ready)
  <2>1. CASE stat = TASK_RUNNING
    <3>1. Head(Append(ready, cur)) = IF ready = <<>> THEN cur ELSE Head(ready)
      BY <1>1
    <3> QED  BY <1>1, <2>1, <3>1, AppendFacts
  <2>2. CASE stat = TASK_BLOCKED
    BY <1>1, <2>2
  <2> QED  BY <2>1, <2>2
<1>3. /\ cur' = Head(q) /\ ready' = Tail(q)
      /\ status' = [[status EXCEPT ![cur] = parked] EXCEPT ![Head(q)] = TASK_RUNNING]
  BY <1>2 DEF schedule
<1>4. /\ KThreadTypeOK' /\ ReadyListInv' /\ schedule_asserts(stat) = {}
  <2>1. CASE stat = TASK_RUNNING
    BY <2>1, ScheduleFacts DEF QInv, IoTypeOK
  <2>2. CASE stat = TASK_BLOCKED
    BY <2>2, ThreadBlockFacts DEF QInv, IoTypeOK, thread_block, thread_block_asserts
  <2> QED  BY <2>1, <2>2
<1> HIDE DEF q, parked
<1>5. Range(ready') = Range(q) \ {cur'} /\ cur' \in Range(q)
  BY <1>2, <1>3, PopFacts
<1>6. ready # <<>> => Head(ready) \in Range(ready)
  BY <1>1, PopFacts
<1>7. \A t \in Range(ready') : t \in Threads /\ io[t] = "idle"
  <2> SUFFICES ASSUME NEW t \in Range(ready') PROVE t \in Threads /\ io[t] = "idle"
    OBVIOUS
  <2>1. CASE t = cur
    BY <1>1, <1>2, <1>5, <2>1
  <2>2. CASE t # cur
    <3>1. t \in Range(ready) /\ t # cur'
      BY <1>2, <1>5, <2>2
    <3>2. ready # <<>>
      BY <3>1, EmptyRange
    <3>3. t # Head(ready)
      BY <1>2, <1>3, <3>1, <3>2
    <3> QED  BY <1>1, <3>1, <3>3 DEF QInv, FrontInv
  <2> QED  BY <2>1, <2>2
<1>8. cur' \in Range(ready) => Parked(cur') /\ status[cur'] = TASK_READY /\ cur' # cur
  BY <1>1 DEF QInv, ReadyListInv
<1>9. /\ \A t \in Threads : t # cur /\ t # cur' => status'[t] = status[t]
      /\ status'[cur'] = TASK_RUNNING
      /\ cur # cur' => status'[cur] = parked
  <2>1. cur' \in Threads
    BY <1>4 DEF KThreadTypeOK
  <2> QED  BY <1>1, <1>3, <2>1
<1>10. /\ stat = TASK_BLOCKED => cur' \in Range(ready)
       /\ stat = TASK_RUNNING => cur' \in Range(ready) \cup {cur}
  BY <1>2, <1>5
<1> QED  BY <1>4, <1>7, <1>8, <1>9, <1>10 DEF parked

(***************************************************************************)
(* The timer ends a time slice.                                            *)
(***************************************************************************)
LEMMA PreemptInv ==
  ASSUME QInv, Interruptible, Preempt, UNCHANGED <<queue, io, chr>>, irq = NULL, irq' = NULL
  PROVE  QInv'
<1> USE DEF TASK_RUNNING, TASK_READY, TASK_BLOCKED
<1>1. /\ cur \in Threads /\ cur # NULL /\ status[cur] = TASK_RUNNING /\ cur \notin Range(ready)
      /\ Range(ready) \subseteq Threads /\ Locks = {ioq}
  BY RunsFacts
<1>2. /\ io[cur] = "idle" /\ pc[cur] = "run" /\ schedule(TASK_RUNNING)
      /\ panic' = schedule_asserts(TASK_RUNNING)
      /\ UNCHANGED <<value, waiters, holder, repeat, pc, arg, io, chr>>
      /\ UNCHANGED <<buf, head, tail, producer, consumer, out>>
  BY DEF Preempt, Interruptible, queue, sync, QInv, Running
<1>3. (ioq_empty' <=> ioq_empty) /\ (ioq_full' <=> ioq_full)
  BY <1>2, QueueFacts DEF QInv
<1>4. PICK n \in Threads : n = cur'
  BY <1>1, <1>2, SwitchFacts
<1>5. /\ KThreadTypeOK' /\ ReadyListInv' /\ panic' = {}
      /\ \A t \in Range(ready') : t \in Threads /\ io[t] = "idle"
      /\ n \in Range(ready) \cup {cur}
      /\ n \in Range(ready) => Parked(n) /\ status[n] = TASK_READY /\ n # cur
      /\ \A t \in Threads : t # cur /\ t # n => status'[t] = status[t]
      /\ status'[n] = TASK_RUNNING
      /\ cur # n => status'[cur] = TASK_READY
  BY <1>2, <1>4, SwitchFacts
<1>6. pc[n] \in {"run", "waiting"} /\ io[n] \in {"idle", "putwait", "putwoken"}
      /\ (pc[n] = "waiting" <=> io[n] = "putwait")
  BY <1>2, <1>5 DEF Parked
<1>7. \A t \in Threads : t # n => Parked(t)'
  BY <1>2, <1>3, <1>5 DEF QInv, Parked
<1>8. Running(n)'
  BY <1>2, <1>5, <1>6 DEF Running
<1>9. \A t \in Threads : Caller(t)'
  BY <1>2, <1>3, SyncAssumption DEF QInv, Caller
<1>10. LockInv'
  BY <1>2, <1>4, <1>6 DEF QInv, LockInv, Keeps
<1>11. QueueWaiters'
  BY <1>1, <1>2, <1>5 DEF QInv, QueueWaiters
<1>12. FrontInv'
  <2>1. \A t \in Range(ready') : io'[t] = "idle" /\ pc'[t] = "run"
    <3>1. \A t \in Threads : io[t] = "idle" => pc[t] = "run"
      BY <1>2 DEF QInv, Parked
    <3> QED  BY <1>2, <1>5, <3>1
  <2>2. io[n] = "putwait" => ~ioq_empty
    BY <1>2, <1>5, <1>6 DEF QInv, FrontInv
  <2> QED  BY <1>2, <1>3, <1>4, <1>6, <2>1, <2>2 DEF FrontInv, AllIdle
<1>13. IoTypeOK'
  BY <1>2, <1>5 DEF QInv, IoTypeOK
<1>14. QueueTypes'
  <2>1. producer # NULL => status'[producer] = TASK_BLOCKED
    <3>1. producer # NULL => producer \in Threads /\ status[producer] = TASK_BLOCKED
      BY IoQueueAssumption DEF QInv, QueueTypes, IoTypeOK
    <3> QED  BY <1>1, <1>5, <3>1
  <2> QED  BY <1>2, <2>1 DEF QInv, QueueTypes
<1> QED  BY <1>4, <1>5, <1>7, <1>8, <1>9, <1>10, <1>11, <1>12, <1>13, <1>14 DEF QInv

(***************************************************************************)
(* sema_down: the lock is taken, so the thread queues itself and sleeps.   *)
(***************************************************************************)
LEMMA DownBlockInv ==
  ASSUME QInv, sema_down_block, UNCHANGED <<queue, io, chr>>, irq = NULL, irq' = NULL
  PROVE  QInv'
<1> USE DEF TASK_RUNNING, TASK_READY, TASK_BLOCKED
<1>1. /\ cur \in Threads /\ cur # NULL /\ status[cur] = TASK_RUNNING /\ cur \notin Range(ready)
      /\ Range(ready) \subseteq Threads /\ Locks = {ioq}
  BY RunsFacts
<1>2. /\ io[cur] = "putwait" /\ pc[cur] \in {"down", "waiting"} /\ arg[cur] = ioq /\ value[ioq] = 0
      /\ cur \in Producers
  <2>1. pc[cur] \in {"down", "waiting"} /\ value[arg[cur]] = 0
    BY DEF sema_down_block
  <2>2. io[cur] = "putwait" /\ arg[cur] = ioq /\ cur \in Producers
    BY <1>1, <2>1 DEF QInv, Running, Caller
  <2> QED  BY <2>1, <2>2
<1>3. /\ schedule(TASK_BLOCKED)
      /\ waiters' = [waiters EXCEPT ![ioq] = Append(waiters[ioq], cur)]
      /\ pc' = [pc EXCEPT ![cur] = "waiting"]
      /\ panic' = Failing(~elem_find(waiters[ioq], cur), "sema_down: already waiting")
                    \cup schedule_asserts(TASK_BLOCKED)
      /\ UNCHANGED <<value, holder, repeat, arg, io, chr>>
      /\ UNCHANGED <<buf, head, tail, producer, consumer, out>>
  BY <1>2 DEF sema_down_block, goto, thread_block, thread_block_asserts, queue
<1>4. ready # <<>>
  BY <1>2, SomeoneReady
<1>5. /\ pc'[cur] = "waiting" /\ pc' \in [Threads -> PC]
      /\ \A t \in Threads : t # cur => pc'[t] = pc[t]
  BY <1>1, <1>3, Labels DEF QInv, QueueTypes
<1>6. (ioq_empty' <=> ioq_empty) /\ (ioq_full' <=> ioq_full)
  BY <1>3, QueueFacts DEF QInv
<1>7. PICK n \in Threads : n = cur'
  BY <1>1, <1>3, <1>4, SwitchFacts
<1>8. /\ KThreadTypeOK' /\ ReadyListInv' /\ schedule_asserts(TASK_BLOCKED) = {}
      /\ \A t \in Range(ready') : t \in Threads /\ io[t] = "idle"
      /\ n \in Range(ready) /\ Parked(n) /\ status[n] = TASK_READY /\ n # cur
      /\ \A t \in Threads : t # cur /\ t # n => status'[t] = status[t]
      /\ status'[n] = TASK_RUNNING
      /\ status'[cur] = TASK_BLOCKED
  BY <1>3, <1>4, <1>7, SwitchFacts
<1>9. /\ waiters[ioq] \in Seq(Threads) /\ IsInjective(waiters[ioq]) /\ cur \notin Range(waiters[ioq])
  BY <1>1 DEF QInv, QueueTypes, QueueWaiters
<1>10. panic' = {}
  BY <1>3, <1>8, <1>9 DEF Failing, elem_find
<1>11. pc[n] \in {"run", "waiting"} /\ io[n] \in {"idle", "putwait", "putwoken"}
       /\ (pc[n] = "waiting" <=> io[n] = "putwait")
  BY <1>8 DEF Parked
<1>12. \A t \in Threads : t # n => Parked(t)'
  BY <1>2, <1>3, <1>5, <1>6, <1>8 DEF QInv, Parked
<1>13. Running(n)'
  BY <1>3, <1>5, <1>8, <1>11 DEF Running
<1>14. \A t \in Threads : Caller(t)'
  BY <1>2, <1>3, <1>5, <1>6, SyncAssumption DEF QInv, Caller
<1>15. LockInv'
  BY <1>2, <1>3, <1>5, <1>7, <1>8, <1>11 DEF QInv, LockInv, Keeps
<1>16. QueueWaiters' /\ waiters' \in [Locks -> Seq(Threads)]
  <2>1. /\ Append(waiters[ioq], cur) \in Seq(Threads) /\ IsInjective(Append(waiters[ioq], cur))
        /\ Range(Append(waiters[ioq], cur)) = Range(waiters[ioq]) \cup {cur}
    BY <1>1, <1>9, AppendFacts
  <2>2. waiters'[ioq] = Append(waiters[ioq], cur) /\ waiters' \in [Locks -> Seq(Threads)]
    BY <1>1, <1>3, <2>1 DEF QInv, QueueTypes
  <2>3. \A t \in Threads : t # cur =>
          (status'[t] = TASK_BLOCKED /\ pc'[t] = "waiting" <=>
             status[t] = TASK_BLOCKED /\ pc[t] = "waiting")
    BY <1>5, <1>8
  <2> QED  BY <1>1, <1>5, <1>8, <2>1, <2>2, <2>3 DEF QInv, QueueWaiters
<1>17. FrontInv'
  <2>1. \A t \in Range(ready') : io'[t] = "idle" /\ pc'[t] = "run"
    <3>1. \A t \in Threads : t # cur /\ io[t] = "idle" => pc[t] = "run"
      BY DEF QInv, Parked
    <3> QED  BY <1>2, <1>3, <1>5, <1>8, <3>1
  <2>2. io'[n] = "putwait" => pc'[n] = "waiting" /\ value'[ioq] = 0
    BY <1>2, <1>3, <1>5, <1>8, <1>11
  <2> QED  BY <1>5, <1>7, <1>8, <1>11, <2>1, <2>2 DEF FrontInv, AllIdle
<1>18. IoTypeOK'
  BY <1>3, <1>8 DEF QInv, IoTypeOK
<1>19. QueueTypes'
  <2>1. producer # NULL => status'[producer] = TASK_BLOCKED
    <3>1. producer # NULL => producer \in Threads /\ status[producer] = TASK_BLOCKED
      BY IoQueueAssumption DEF QInv, QueueTypes, IoTypeOK
    <3> QED  BY <1>1, <1>8, <3>1
  <2> QED  BY <1>3, <1>5, <1>16, <2>1 DEF QInv, QueueTypes
<1> QED  BY <1>7, <1>8, <1>10, <1>12, <1>13, <1>14, <1>15, <1>16, <1>17, <1>18, <1>19 DEF QInv

(***************************************************************************)
(* ioq_wait: the producer sleeps with the lock; nobody else is registered  *)
(* as asleep, and the queue is not empty.                                  *)
(***************************************************************************)
LEMMA PutWaitInv ==
  ASSUME QInv, put_wait, irq = NULL, irq' = NULL
  PROVE  QInv'
<1> USE DEF TASK_RUNNING, TASK_READY, TASK_BLOCKED
<1>1. /\ cur \in Threads /\ cur # NULL /\ status[cur] = TASK_RUNNING /\ cur \notin Range(ready)
      /\ Range(ready) \subseteq Threads /\ Locks = {ioq}
  BY RunsFacts
<1>2. io[cur] = "putwait" /\ pc[cur] = "run"
  BY DEF put_wait
<1>3. /\ cur \in Producers /\ holder[ioq] = cur /\ value[ioq] = 0 /\ repeat[ioq] = 1 /\ ~ioq_empty
  BY <1>1, <1>2, SyncAssumption DEF QInv, Caller, LockInv, Keeps, FrontInv
<1>4. producer = NULL
  <2> SUFFICES ASSUME producer # NULL PROVE FALSE
    OBVIOUS
  <2>1. producer \in Threads /\ io[producer] = "putwoken"
    BY IoQueueAssumption DEF QInv, QueueTypes, IoTypeOK
  <2> QED  BY <1>2, <1>3, <2>1 DEF QInv, LockInv, Keeps
<1>5. /\ schedule(TASK_BLOCKED) /\ producer' = cur
      /\ panic' = schedule_asserts(TASK_BLOCKED)
      /\ io' = [io EXCEPT ![cur] = "putwoken"]
      /\ UNCHANGED <<value, waiters, holder, repeat, pc, arg, chr>>
      /\ UNCHANGED <<buf, head, tail, consumer, out>>
  BY <1>4 DEF put_wait, ioq_wait, goto_io, thread_block, thread_block_asserts, sync, Failing
<1>6. ready # <<>>
  BY <1>3, SomeoneReady
<1>7. /\ io'[cur] = "putwoken" /\ io' \in [Threads -> IO]
      /\ \A t \in Threads : t # cur => io'[t] = io[t]
  BY <1>1, <1>5, Labels DEF QInv, IoTypeOK
<1>8. (ioq_empty' <=> ioq_empty) /\ (ioq_full' <=> ioq_full)
  BY <1>5, QueueFacts DEF QInv
<1>9. PICK n \in Threads : n = cur'
  BY <1>1, <1>5, <1>6, SwitchFacts
<1>10. /\ KThreadTypeOK' /\ ReadyListInv' /\ panic' = {}
       /\ \A t \in Range(ready') : t \in Threads /\ io[t] = "idle"
       /\ n \in Range(ready) /\ Parked(n) /\ status[n] = TASK_READY /\ n # cur
       /\ \A t \in Threads : t # cur /\ t # n => status'[t] = status[t]
       /\ status'[n] = TASK_RUNNING
       /\ status'[cur] = TASK_BLOCKED
  BY <1>5, <1>6, <1>9, SwitchFacts
<1>11. /\ io[n] # "putwoken" /\ pc[n] \in {"run", "waiting"} /\ io[n] \in {"idle", "putwait"}
       /\ (pc[n] = "waiting" <=> io[n] = "putwait")
  BY <1>3, <1>10 DEF QInv, LockInv, Keeps, Parked
<1>12. \A t \in Threads : t # n => Parked(t)'
  <2> SUFFICES ASSUME NEW t \in Threads, t # n PROVE Parked(t)'
    OBVIOUS
  <2>1. CASE t = cur
    BY <1>2, <1>3, <1>5, <1>7, <1>8, <1>10, <2>1 DEF Parked
  <2>2. CASE t # cur
    <3>1. io[t] # "putwoken"
      BY <1>3, <2>2 DEF QInv, LockInv, Keeps
    <3> QED  BY <1>5, <1>7, <1>10, <2>2, <3>1 DEF QInv, Parked
  <2> QED  BY <2>1, <2>2
<1>13. Running(n)'
  BY <1>5, <1>7, <1>10, <1>11 DEF Running
<1>14. \A t \in Threads : Caller(t)'
  BY <1>1, <1>2, <1>3, <1>5, <1>7, <1>8, SyncAssumption DEF QInv, Caller
<1>15. LockInv'
  BY <1>2, <1>3, <1>5, <1>7, <1>9, <1>10, <1>11 DEF QInv, LockInv, Keeps
<1>16. QueueWaiters'
  BY <1>1, <1>2, <1>5, <1>10 DEF QInv, QueueWaiters
<1>17. FrontInv'
  <2>1. \A t \in Range(ready') : io'[t] = "idle" /\ pc'[t] = "run"
    <3>1. \A t \in Threads : t # cur /\ io[t] = "idle" => pc[t] = "run"
      BY DEF QInv, Parked
    <3> QED  BY <1>2, <1>5, <1>7, <1>10, <3>1
  <2> QED  BY <1>3, <1>5, <1>7, <1>9, <1>10, <1>11, <2>1 DEF FrontInv, AllIdle
<1>18. IoTypeOK'
  BY <1>3, <1>5, <1>7, <1>10 DEF QInv, IoTypeOK
<1>19. QueueTypes'
  BY <1>5, <1>7, <1>10 DEF QInv, QueueTypes
<1> QED  BY <1>9, <1>10, <1>12, <1>13, <1>14, <1>15, <1>16, <1>17, <1>18, <1>19 DEF QInv

-----------------------------------------------------------------------------
LEMMA QInit == KbInit => QInv
<1> SUFFICES ASSUME KbInit PROVE QInv
  OBVIOUS
<1> USE DEF TASK_RUNNING, TASK_READY, TASK_BLOCKED
<1>1. /\ KThreadTypeOK /\ ReadyListInv /\ panic = {} /\ cur \in Threads
      /\ status = [t \in Threads |-> IF t = cur THEN TASK_RUNNING ELSE TASK_READY]
  BY KThreadInitFacts DEF KbInit, IoInit, Init, KThreadInit
<1>2. /\ Locks = {ioq} /\ NULL \notin Threads /\ bufsize \in Nat /\ bufsize > 1
      /\ \A l \in Locks : holder[l] = NULL /\ repeat[l] = 0 /\ value[l] = 1 /\ waiters[l] = <<>>
      /\ pc = [t \in Threads |-> "run"] /\ arg \in [Threads -> {NULL}]
      /\ head = 0 /\ tail = 0 /\ producer = NULL /\ consumer = NULL /\ out = NULL /\ irq = NULL
      /\ io = [t \in Threads |-> "idle"] /\ chr = [t \in Threads |-> NULL]
  BY SyncAssumption, IoQueueAssumption
     DEF KbInit, keyboard_init, IoInit, init_ioqueue, Init, lock_init
<1>3. IoTypeOK
  <2>1. buf \in [0 .. bufsize - 1 -> Chars \cup {NULL}]
    BY DEF KbInit, IoInit
  <2>2. 0 \in 0 .. bufsize - 1
    BY <1>2
  <2> QED  BY <1>1, <1>2, <2>1, <2>2, Labels DEF IoTypeOK
<1>4. QueueTypes
  <2>1. /\ value \in [Locks -> Nat] /\ waiters \in [Locks -> Seq(Threads)]
        /\ holder \in [Locks -> Threads \cup {NULL}] /\ repeat \in [Locks -> Nat]
    BY DEF KbInit, IoInit, Init, lock_init
  <2> QED  BY <1>2, <2>1, Labels DEF QueueTypes
<1>5. (\A t \in Threads : t # cur => Parked(t)) /\ Running(cur)
  BY <1>1, <1>2 DEF Parked, Running
<1>6. \A t \in Threads : Caller(t)
  BY <1>2 DEF Caller
<1>7. LockInv
  BY <1>1, <1>2 DEF LockInv, Keeps
<1>8. QueueWaiters
  BY <1>2, EmptyRange DEF QueueWaiters
<1>9. FrontInv
  <2>1. Range(ready) \subseteq Threads
    BY <1>1 DEF KThreadTypeOK, Range
  <2> QED  BY <1>1, <1>2, <2>1 DEF FrontInv, AllIdle
<1> QED  BY <1>1, <1>3, <1>4, <1>5, <1>6, <1>7, <1>8, <1>9 DEF QInv

LEMMA QStutter ==
  ASSUME QInv, UNCHANGED <<iovars, irq>>
  PROVE  QInv'
<1>1. /\ UNCHANGED <<cur, ready, status, panic, value, waiters, holder, repeat, pc, arg>>
      /\ UNCHANGED <<buf, head, tail, producer, consumer, out, io, chr, irq>>
  BY DEF iovars, vars, kthread, sync, queue
<1>2. (ioq_empty' <=> ioq_empty) /\ (ioq_full' <=> ioq_full)
  BY <1>1, QueueFacts DEF QInv
<1>3. IoTypeOK' /\ ReadyListInv' /\ QueueTypes' /\ QueueWaiters'
  BY <1>1 DEF QInv, IoTypeOK, KThreadTypeOK, ReadyListInv, QueueTypes, QueueWaiters
<1>4. /\ \A t \in Threads : t # cur' => Parked(t)'
      /\ Running(cur)' /\ \A t \in Threads : Caller(t)'
  BY <1>1, <1>2 DEF QInv, Parked, Running, Caller
<1>5. LockInv' /\ FrontInv'
  BY <1>1, <1>2 DEF QInv, LockInv, Keeps, FrontInv, AllIdle
<1> QED  BY <1>1, <1>3, <1>4, <1>5 DEF QInv

LEMMA ThreadsStepInv ==
  ASSUME QInv, Threads_step
  PROVE  QInv'
<1>1. CASE irq # NULL
  <2>1. cur \in Threads /\ irq = cur /\ io[cur] = "put" /\ pc[cur] = "run" /\ ~ioq_full
    BY <1>1, RunsFacts
  <2>2. put_store
    <3>1. ~Interruptible /\ ~InSync
      BY <2>1 DEF Interruptible, InSync, sema_down_block, sema_down_take, set_holder, set_repeat,
                  clear_repeat, sema_up
    <3>2. ~put_full /\ ~put_wait /\ ~put_woken /\ ~get_take
      BY <2>1 DEF put_full, put_wait, put_woken, get_take
    <3> QED  BY <3>1, <3>2 DEF Threads_step, IoStep, InQueue
  <2>3. io'[irq] = "idle"
    BY <2>1, <2>2 DEF put_store, goto_io, QInv, IoTypeOK
  <2>4. irq' = NULL
    BY <1>1, <2>3 DEF Threads_step
  <2> QED  BY <2>2, <2>4, PutStoreInv
<1>2. CASE irq = NULL
  <2>1. irq' = NULL /\ IoStep
    BY <1>2 DEF Threads_step
  <2>2. CASE Interruptible /\ cur \in Producers /\ \E c \in ThreadChars : ioq_putchar(c)
    BY <2>1, <2>2, PutcharInv, IoQueueAssumption
  <2>3. CASE Interruptible /\ cur \in Consumers /\ ~ioq_empty /\ ioq_getchar
    BY <1>2, <2>1, <2>3, GetcharInv
  <2>4. CASE put_full \/ put_wait \/ put_woken \/ put_store \/ get_take
    BY <1>2, <2>1, <2>4, PutFullInv, PutWaitInv, PutWokenInv, PutStoreInv, GetTakeInv
  <2>5. CASE InSync /\ UNCHANGED <<queue, io, chr>>
    BY <1>2, <2>1, <2>5, DownBlockInv, TakeInv, SetHolderInv, SetRepeatInv, ClearRepeatInv, UpInv
       DEF InSync
  <2>6. CASE Interruptible /\ Preempt /\ UNCHANGED <<queue, io, chr>>
    BY <1>2, <2>1, <2>6, PreemptInv
  <2> QED  BY <2>1, <2>2, <2>3, <2>4, <2>5, <2>6 DEF IoStep, InQueue
<1> QED  BY <1>1, <1>2

LEMMA HandlerInv ==
  ASSUME QInv, intr_keyboard_handler
  PROVE  QInv'
<1> DEFINE b == Head(wire)
           c == keymap(b, shift(b))
<1>1. CASE prefix_byte(b) \/ break_byte(b) \/ modifier_byte(b)
  BY <1>1, QStutter DEF prefix_byte, break_byte, modifier_byte
<1>2. CASE char_byte(b)
  <2>1. c # NULL /\ IF ioq_full THEN UNCHANGED <<iovars, irq>> ELSE ioq_putchar(c) /\ irq' = cur
    BY <1>2 DEF char_byte
  <2>2. c \in Chars
    BY <2>1, KeyboardAssumption DEF keymap
  <2>3. Interruptible
    BY DEF intr_keyboard_handler
  <2> HIDE DEF c
  <2> QED  BY <2>1, <2>2, <2>3, PutcharInv, QStutter
<1> QED  BY <1>1, <1>2 DEF intr_keyboard_handler

LEMMA QNext ==
  ASSUME QInv, KbNext
  PROVE  QInv'
<1>1. CASE \E key \in Keys : Press(key) \/ Release_key(key)
  BY <1>1, QStutter DEF Press, Release_key
<1> QED  BY <1>1, ThreadsStepInv, HandlerInv DEF KbNext

(***************************************************************************)
(* Where the threads are in ioqueue.c and sync.c, who has the lock, and    *)
(* who runs next: QInv is inductive.                                       *)
(***************************************************************************)
THEOREM QInvariance == KbSpec => []QInv
<1>1. QInv /\ [KbNext]_kbvars => QInv'
  BY QNext, QStutter DEF kbvars
<1> QED  BY <1>1, QInit, PTL DEF KbSpec

(***************************************************************************)
(* The variables of the queue keep their types; in particular the          *)
(* positions stay within a buffer of any size.                             *)
(***************************************************************************)
THEOREM IoTypeCorrect == KbSpec => []IoTypeOK
<1>1. QInv => IoTypeOK
  BY DEF QInv
<1> QED  BY <1>1, QInvariance, PTL

(***************************************************************************)
(* A producer that is asleep in ioq_wait can be woken: the queue knows it, *)
(* and there is a character whose removal wakes it.                        *)
(***************************************************************************)
THEOREM NoStuckProducerThm == KbSpec => []NoStuckProducer
<1>1. QInv => NoStuckProducer
  BY DEF QInv, NoStuckProducer, Parked, Running, TASK_RUNNING, TASK_READY, TASK_BLOCKED
<1> QED  BY <1>1, QInvariance, PTL

(***************************************************************************)
(* No assertion of ioqueue.c, sync.c or thread.c fails.                    *)
(***************************************************************************)
THEOREM IoNoPanicThm == KbSpec => []IoNoPanic
<1>1. QInv => IoNoPanic
  BY DEF QInv, IoNoPanic
<1> QED  BY <1>1, QInvariance, PTL

(***************************************************************************)
(* The handler of the keyboard never loses the CPU before it returns.      *)
(***************************************************************************)
THEOREM HandlerNeverSleepsThm == KbSpec => []HandlerNeverSleeps
<1>1. QInv => HandlerNeverSleeps
  BY RunsFacts DEF HandlerNeverSleeps
<1> QED  BY <1>1, QInvariance, PTL

-----------------------------------------------------------------------------
(***************************************************************************)
(* The modifiers.                                                          *)
(***************************************************************************)
LEMMA CodeFacts ==
  ASSUME NEW key \in Keys
  PROVE  /\ Code(key) \in {2, 29, 30, 42, 54, 56, 58}
         /\ Code(key) = 29 <=> key \in {"ctrl_l", "ctrl_r"}
         /\ Code(key) \in {42, 54} <=> key \in {"shift_l", "shift_r"}
         /\ Code(key) = 56 <=> key \in {"alt_l", "alt_r"}
BY KeyboardAssumption
   DEF Code, ctrl_make, shift_l_make, shift_r_make, alt_make, caps_lock_make

LEMMA LastFacts ==
  ASSUME NEW c, NEW w, w = <<c>> \/ w = <<Prefix, c>>
  PROVE  w # <<>> /\ w[Len(w)] = c
<1>1. CASE w = <<c>>
  BY <1>1
<1>2. CASE w = <<Prefix, c>>
  BY <1>2
<1> QED  BY <1>1, <1>2

\* The bytes of a key end with its code.
LEMMA BytesFacts ==
  ASSUME NEW key \in Keys, NEW b \in {0, BreakBit}, wire' = Bytes(key, Code(key) + b)
  PROVE  Last' = Code(key) + b /\ WireInv'
<1>1. wire' = <<Code(key) + b>> \/ wire' = <<Prefix, Code(key) + b>>
  BY DEF Bytes
<1>2. WireInv'
  BY <1>1 DEF WireInv
<1>3. Last' = Code(key) + b
  <2> DEFINE c == Code(key) + b
  <2>1. wire' # <<>> /\ wire'[Len(wire')] = c
    <3> HIDE DEF c
    <3> QED  BY <1>1, LastFacts DEF c
  <2> QED  BY <2>1 DEF Last
<1> QED  BY <1>2, <1>3

LEMMA PressInv ==
  ASSUME ModInv, NEW key \in Keys, Press(key)
  PROVE  ModInv'
<1> USE DEF ctrl_make, shift_l_make, shift_r_make, alt_make, BreakBit
<1>1. /\ Last = 0 /\ held' = held \cup {key} /\ UNCHANGED <<ctrl_status, shift_status, alt_status>>
      /\ Code(key) + 0 = Code(key) /\ wire' = Bytes(key, Code(key))
  BY CodeFacts DEF Press, Last, modifiers
<1>2. Last' = Code(key) /\ WireInv'
  BY <1>1, BytesFacts
<1>3. Pending(ctrl_status, {ctrl_make}, {"ctrl_l", "ctrl_r"})'
  BY <1>1, <1>2, CodeFacts DEF ModInv, Pending
<1>4. Pending(shift_status, {shift_l_make, shift_r_make}, {"shift_l", "shift_r"})'
  BY <1>1, <1>2, CodeFacts DEF ModInv, Pending
<1>5. Pending(alt_status, {alt_make}, {"alt_l", "alt_r"})'
  BY <1>1, <1>2, CodeFacts DEF ModInv, Pending
<1> QED  BY <1>1, <1>2, <1>3, <1>4, <1>5 DEF ModInv

LEMMA ReleaseInv ==
  ASSUME ModInv, NEW key \in Keys, Release_key(key)
  PROVE  ModInv'
<1> USE DEF ctrl_make, shift_l_make, shift_r_make, alt_make, BreakBit
<1>1. /\ Last = 0 /\ held' = held \ {key} /\ UNCHANGED <<ctrl_status, shift_status, alt_status>>
      /\ wire' = Bytes(key, Code(key) + BreakBit)
  BY DEF Release_key, Last, modifiers
<1>2. Last' = Code(key) + 128 /\ WireInv'
  BY <1>1, BytesFacts
<1>3. Pending(ctrl_status, {ctrl_make}, {"ctrl_l", "ctrl_r"})'
  BY <1>1, <1>2, CodeFacts DEF ModInv, Pending
<1>4. Pending(shift_status, {shift_l_make, shift_r_make}, {"shift_l", "shift_r"})'
  BY <1>1, <1>2, CodeFacts DEF ModInv, Pending
<1>5. Pending(alt_status, {alt_make}, {"alt_l", "alt_r"})'
  BY <1>1, <1>2, CodeFacts DEF ModInv, Pending
<1> QED  BY <1>1, <1>2, <1>3, <1>4, <1>5 DEF ModInv

LEMMA ModStutter ==
  ASSUME ModInv, UNCHANGED <<held, wire, modifiers>>
  PROVE  ModInv'
<1>1. UNCHANGED <<held, wire, ctrl_status, shift_status, alt_status>> /\ Last' = Last
  BY DEF modifiers, Last
<1>2. WireInv'
  BY <1>1 DEF ModInv, WireInv
<1> QED  BY <1>1, <1>2 DEF ModInv, Pending

LEMMA ByteInv ==
  ASSUME ModInv, intr_keyboard_handler
  PROVE  ModInv'
<1> USE DEF ctrl_make, shift_l_make, shift_r_make, alt_make, BreakBit, Prefix
<1>1. PICK k \in Keys, b \in {0, 128} : wire = <<Code(k) + b>> \/ wire = <<Prefix, Code(k) + b>>
  BY DEF ModInv, WireInv, intr_keyboard_handler
<1>2. held' = held /\ Last = Code(k) + b
  <2>1. wire # <<>> /\ wire[Len(wire)] = Code(k) + b
    BY <1>1, LastFacts
  <2> QED  BY <2>1 DEF intr_keyboard_handler, Last
<1>3. CASE wire = <<Prefix, Code(k) + b>>
  <2>1. Head(wire) = 224 /\ wire' = <<Code(k) + b>>
    BY <1>3 DEF intr_keyboard_handler
  <2>2. prefix_byte(Head(wire))
    BY <2>1 DEF intr_keyboard_handler, break_byte, char_byte, modifier_byte
  <2>3. UNCHANGED <<ctrl_status, shift_status, alt_status>>
    BY <2>2 DEF prefix_byte
  <2>4. Last' = Last /\ WireInv'
    BY <1>2, <2>1 DEF Last, WireInv
  <2> QED  BY <1>2, <2>3, <2>4 DEF ModInv, Pending
<1>4. CASE wire = <<Code(k) + b>>
  <2>1. Head(wire) = Last /\ wire' = <<>> /\ Last' = 0 /\ WireInv'
    BY <1>2, <1>4 DEF intr_keyboard_handler, Last, WireInv
  <2>2. Last \in {2, 29, 30, 42, 54, 56, 58} \/ Last - 128 \in {2, 29, 30, 42, 54, 56, 58}
    BY <1>2, CodeFacts
  <2>3. CASE break_byte(Last)
    <3>1. /\ ctrl_status' = (ctrl_status /\ Last - 128 # 29)
          /\ shift_status' = (shift_status /\ Last - 128 \notin {42, 54})
          /\ alt_status' = (alt_status /\ Last - 128 # 56)
      BY <2>3 DEF break_byte
    <3>2. /\ ctrl_status' \in BOOLEAN /\ (ctrl_status' = TRUE => ctrl_status = TRUE /\ Last # 157)
          /\ shift_status' \in BOOLEAN
          /\ (shift_status' = TRUE => shift_status = TRUE /\ Last # 170 /\ Last # 182)
          /\ alt_status' \in BOOLEAN /\ (alt_status' = TRUE => alt_status = TRUE /\ Last # 184)
      <4>1. /\ ctrl_status' \in BOOLEAN /\ (ctrl_status' = TRUE => ctrl_status = TRUE /\ Last - 128 # 29)
            /\ shift_status' \in BOOLEAN
            /\ (shift_status' = TRUE => shift_status = TRUE /\ Last - 128 \notin {42, 54})
            /\ alt_status' \in BOOLEAN /\ (alt_status' = TRUE => alt_status = TRUE /\ Last - 128 # 56)
        BY <3>1, Zenon DEF ModInv
      <4>2. /\ Last = 157 => Last - 128 = 29
            /\ Last = 170 \/ Last = 182 => Last - 128 \in {42, 54}
            /\ Last = 184 => Last - 128 = 56
        OBVIOUS
      <4> QED  BY <4>1, <4>2
    <3> QED  BY <1>2, <2>1, <3>2 DEF ModInv, Pending
  <2>4. CASE char_byte(Last)
    <3>1. UNCHANGED <<ctrl_status, shift_status, alt_status>> /\ Last < 128
      BY <2>4 DEF char_byte, modifiers
    <3> QED  BY <1>2, <2>1, <2>2, <3>1 DEF ModInv, Pending
  <2>5. CASE modifier_byte(Last)
    <3>1. /\ ctrl_status' = (ctrl_status \/ Last = 29)
          /\ shift_status' = (shift_status \/ Last \in {42, 54})
          /\ alt_status' = (alt_status \/ Last = 56)
          /\ Last < 128
      BY <2>5 DEF modifier_byte
    <3> QED  BY <1>2, <2>1, <2>2, <3>1 DEF ModInv, Pending
  <2>6. ~prefix_byte(Last)
    BY <2>2 DEF prefix_byte
  <2> QED  BY <2>1, <2>3, <2>4, <2>5, <2>6 DEF intr_keyboard_handler
<1> QED  BY <1>1, <1>3, <1>4

(***************************************************************************)
(* No modifier sticks, whatever keys are pressed, held and released in     *)
(* whatever order and whatever the threads do meanwhile.                   *)
(***************************************************************************)
THEOREM NoStuckModifierThm == KbSpec => []NoStuckModifier
<1>1. ASSUME KbInit PROVE ModInv
  <2>1. /\ Last = 0 /\ WireInv
        /\ ctrl_status = FALSE /\ shift_status = FALSE /\ alt_status = FALSE
    BY <1>1 DEF KbInit, keyboard_init, WireInv, Last
  <2>2. /\ ctrl_status # TRUE /\ shift_status # TRUE /\ alt_status # TRUE
        /\ ctrl_status \in BOOLEAN /\ shift_status \in BOOLEAN /\ alt_status \in BOOLEAN
    BY <2>1, Zenon
  <2>3. Last \notin {29} /\ Last \notin {42, 54} /\ Last \notin {56}
    BY <2>1
  <2> QED  BY <2>1, <2>2, <2>3, Zenon
           DEF ModInv, Pending, ctrl_make, shift_l_make, shift_r_make, alt_make
<1>2. ModInv /\ [KbNext]_kbvars => ModInv'
  BY PressInv, ReleaseInv, ByteInv, ModStutter DEF KbNext, Threads_step, kbvars
<1>3. ModInv => NoStuckModifier
  BY DEF ModInv, NoStuckModifier, Pending, Last, BreakBit, ctrl_make, shift_l_make,
         shift_r_make, alt_make
<1> QED  BY <1>1, <1>2, <1>3, PTL DEF KbSpec

-----------------------------------------------------------------------------
(***************************************************************************)
(* The ring buffer implements a queue.                                     *)
(***************************************************************************)
Count(h, t) == (h + bufsize - t) % bufsize

Place(t, i) == (t + i - 1) % bufsize

LEMMA CountFacts ==
  ASSUME NEW h \in 0 .. bufsize - 1, NEW t \in 0 .. bufsize - 1
  PROVE  /\ Count(h, t) = IF h < t THEN h + bufsize - t ELSE h - t
         /\ Count(h, t) \in 0 .. bufsize - 1
<1> DEFINE x == h + bufsize - t
<1>1. bufsize \in Nat \ {0} /\ x \in Nat /\ x < bufsize + bufsize
  BY IoQueueAssumption
<1>2. x = h + bufsize - t /\ Count(h, t) = x % bufsize
  BY DEF Count
<1> HIDE DEF x
<1>3. x % bufsize = IF x < bufsize THEN x ELSE x - bufsize
  BY <1>1, ModFacts
<1> QED  BY <1>1, <1>2, <1>3

LEMMA PlaceFacts ==
  ASSUME NEW t \in 0 .. bufsize - 1, NEW i \in 1 .. bufsize
  PROVE  /\ Place(t, i) = IF t + i - 1 < bufsize THEN t + i - 1 ELSE t + i - 1 - bufsize
         /\ Place(t, i) \in 0 .. bufsize - 1
<1> DEFINE x == t + i - 1
<1>1. bufsize \in Nat \ {0} /\ x \in Nat /\ x < bufsize + bufsize
  BY IoQueueAssumption
<1>2. x = t + i - 1 /\ Place(t, i) = x % bufsize
  BY DEF Place
<1> HIDE DEF x
<1>3. x % bufsize = IF x < bufsize THEN x ELSE x - bufsize
  BY <1>1, ModFacts
<1> QED  BY <1>1, <1>2, <1>3

LEMMA ContentsIs ==
  IoTypeOK =>
    /\ Contents \in Seq(Chars \cup {NULL}) /\ Len(Contents) = Count(head, tail)
    /\ \A i \in 1 .. Count(head, tail) : Contents[i] = buf[Place(tail, i)]
<1> SUFFICES ASSUME IoTypeOK
             PROVE  /\ Contents \in Seq(Chars \cup {NULL}) /\ Len(Contents) = Count(head, tail)
                    /\ \A i \in 1 .. Count(head, tail) : Contents[i] = buf[Place(tail, i)]
  OBVIOUS
<1> DEFINE n == Count(head, tail)
<1>1. /\ n \in 0 .. bufsize - 1 /\ head \in 0 .. bufsize - 1 /\ tail \in 0 .. bufsize - 1
      /\ buf \in [0 .. bufsize - 1 -> Chars \cup {NULL}] /\ bufsize \in Nat
  BY CountFacts, IoQueueAssumption DEF IoTypeOK
<1>2. Contents = [i \in 1 .. n |-> buf[Place(tail, i)]]
  BY DEF Contents, Count, Place
<1> HIDE DEF n
<1>3. \A i \in 1 .. n : Place(tail, i) \in 0 .. bufsize - 1
  BY <1>1, PlaceFacts
<1>4. Contents \in [1 .. n -> Chars \cup {NULL}] /\ n \in Nat
  BY <1>1, <1>2, <1>3
<1>5. Contents \in Seq(Chars \cup {NULL}) /\ Len(Contents) = n
  BY <1>4, SeqDef
<1> QED  BY <1>2, <1>5 DEF n

LEMMA ContentsIsNext == ContentsIs'
BY ContentsIs, PTL

LEMMA StorePuts ==
  ASSUME QInv, QInv', put_store
  PROVE  Abstract!Put(chr[cur]) /\ chr[cur] \in Chars
<1> DEFINE n == Count(head, tail)
           n2 == Count(head', tail')
           S == Chars \cup {NULL}
           c == chr[cur]
           q == Contents
           q2 == Contents'
<1>1. /\ head \in 0 .. bufsize - 1 /\ tail \in 0 .. bufsize - 1 /\ bufsize \in Nat /\ bufsize > 1
      /\ buf \in [0 .. bufsize - 1 -> S] /\ c \in Chars
      /\ head' = next_pos(head) /\ tail' = tail /\ buf' = [buf EXCEPT ![head] = c] /\ out' = out
      /\ next_pos(head) # tail
  BY RunsFacts, IoQueueAssumption DEF QInv, IoTypeOK, Caller, put_store, ioq_full
<1>2. /\ q \in Seq(S) /\ Len(q) = n /\ \A i \in 1 .. n : q[i] = buf[Place(tail, i)]
  BY ContentsIs DEF QInv
<1>3. /\ q2 \in Seq(S) /\ Len(q2) = n2 /\ \A i \in 1 .. n2 : q2[i] = buf'[Place(tail', i)]
  BY ContentsIsNext DEF QInv
<1>4. /\ head' = IF head = bufsize - 1 THEN 0 ELSE head + 1
      /\ head' \in 0 .. bufsize - 1 /\ tail' \in 0 .. bufsize - 1
  BY <1>1, NextPos
<1>5. /\ n = IF head < tail THEN head + bufsize - tail ELSE head - tail
      /\ n2 = IF head' < tail THEN head' + bufsize - tail ELSE head' - tail
      /\ n \in 0 .. bufsize - 1 /\ n2 \in 0 .. bufsize - 1
  BY <1>1, <1>4, CountFacts
<1> HIDE DEF n, n2, c, q, q2
<1>6. n2 = n + 1 /\ n < bufsize - 1 /\ n \in Nat
  BY <1>1, <1>4, <1>5
<1>7. \A i \in 1 .. n : Place(tail, i) \in 0 .. bufsize - 1 /\ Place(tail, i) # head
  <2> SUFFICES ASSUME NEW i \in 1 .. n
               PROVE  Place(tail, i) \in 0 .. bufsize - 1 /\ Place(tail, i) # head
    OBVIOUS
  <2>1. i \in 1 .. bufsize
    BY <1>1, <1>6
  <2>2. /\ Place(tail, i) = IF tail + i - 1 < bufsize THEN tail + i - 1 ELSE tail + i - 1 - bufsize
        /\ Place(tail, i) \in 0 .. bufsize - 1
    BY <1>1, <2>1, PlaceFacts
  <2> QED  BY <1>1, <1>5, <2>1, <2>2
<1>8. Place(tail, n + 1) = head
  <2>1. n + 1 \in 1 .. bufsize
    BY <1>1, <1>6
  <2>2. Place(tail, n + 1) = IF tail + (n + 1) - 1 < bufsize THEN tail + (n + 1) - 1
                             ELSE tail + (n + 1) - 1 - bufsize
    BY <1>1, <2>1, PlaceFacts
  <2> QED  BY <1>1, <1>5, <2>2
<1>9. \A i \in 1 .. n : q2[i] = q[i]
  <2> SUFFICES ASSUME NEW i \in 1 .. n PROVE q2[i] = q[i]
    OBVIOUS
  <2>1. i \in 1 .. n2
    BY <1>6
  <2>2. q2[i] = buf'[Place(tail, i)] /\ q[i] = buf[Place(tail, i)]
    BY <1>1, <1>2, <1>3, <2>1
  <2> QED  BY <1>1, <1>7, <2>2
<1>10. q2[n + 1] = c
  <2>1. n + 1 \in 1 .. n2
    BY <1>6
  <2>2. q2[n + 1] = buf'[head]
    BY <1>1, <1>3, <1>8, <2>1
  <2> QED  BY <1>1, <2>2
<1>11. c \in S
  BY <1>1
<1> HIDE DEF S
<1>12. /\ Append(q, c) \in Seq(S) /\ Len(Append(q, c)) = n + 1
       /\ \A i \in 1 .. n : Append(q, c)[i] = q[i]
       /\ Append(q, c)[n + 1] = c
  BY <1>2, <1>11, AppendProperties
<1>13. q2 = Append(q, c)
  <2>1. \A i \in 1 .. Len(q2) : q2[i] = Append(q, c)[i]
    <3>1. \A i \in 1 .. n + 1 : i \in 1 .. n \/ i = n + 1
      BY <1>6
    <3> QED  BY <1>3, <1>6, <1>9, <1>10, <1>12, <3>1
  <2>2. Len(q2) = Len(Append(q, c))
    BY <1>3, <1>6, <1>12
  <2> QED  BY <1>3, <1>12, <2>1, <2>2, SeqEqual
<1>14. Len(q) < bufsize - 1
  BY <1>2, <1>6
<1> QED  BY <1>1, <1>13, <1>14 DEF Abstract!Put, q, q2, c

LEMMA TakeGets ==
  ASSUME QInv, QInv', get_take
  PROVE  Abstract!Get
<1> DEFINE n == Count(head, tail)
           n2 == Count(head', tail')
           S == Chars \cup {NULL}
           q == Contents
           q2 == Contents'
<1>1. /\ head \in 0 .. bufsize - 1 /\ tail \in 0 .. bufsize - 1 /\ bufsize \in Nat /\ bufsize > 1
      /\ tail' = next_pos(tail) /\ head' = head /\ buf' = buf /\ out' = buf[tail]
      /\ head # tail
  BY IoQueueAssumption DEF QInv, IoTypeOK, get_take, ioq_empty
<1>2. /\ q \in Seq(S) /\ Len(q) = n /\ \A i \in 1 .. n : q[i] = buf[Place(tail, i)]
  BY ContentsIs DEF QInv
<1>3. /\ q2 \in Seq(S) /\ Len(q2) = n2 /\ \A i \in 1 .. n2 : q2[i] = buf'[Place(tail', i)]
  BY ContentsIsNext DEF QInv
<1>4. /\ tail' = IF tail = bufsize - 1 THEN 0 ELSE tail + 1
      /\ tail' \in 0 .. bufsize - 1 /\ head' \in 0 .. bufsize - 1
  BY <1>1, NextPos
<1>5. /\ n = IF head < tail THEN head + bufsize - tail ELSE head - tail
      /\ n2 = IF head < tail' THEN head + bufsize - tail' ELSE head - tail'
      /\ n \in 0 .. bufsize - 1 /\ n2 \in 0 .. bufsize - 1
  BY <1>1, <1>4, CountFacts
<1> HIDE DEF n, n2, q, q2, S
<1>6. n2 = n - 1 /\ n > 0 /\ n \in Nat
  BY <1>1, <1>4, <1>5
<1>7. \A i \in 1 .. n2 : Place(tail', i) = Place(tail, i + 1)
  <2> SUFFICES ASSUME NEW i \in 1 .. n2 PROVE Place(tail', i) = Place(tail, i + 1)
    OBVIOUS
  <2>1. i \in 1 .. bufsize /\ i + 1 \in 1 .. bufsize
    BY <1>1, <1>5, <1>6
  <2>2. Place(tail', i) = IF tail' + i - 1 < bufsize THEN tail' + i - 1 ELSE tail' + i - 1 - bufsize
    BY <1>4, <2>1, PlaceFacts
  <2>3. Place(tail, i + 1) = IF tail + (i + 1) - 1 < bufsize THEN tail + (i + 1) - 1
                             ELSE tail + (i + 1) - 1 - bufsize
    BY <1>1, <2>1, PlaceFacts
  <2> QED  BY <1>1, <1>4, <1>5, <1>6, <2>2, <2>3
<1>8. Place(tail, 1) = tail
  <2>1. 1 \in 1 .. bufsize
    BY <1>1
  <2>2. Place(tail, 1) = IF tail + 1 - 1 < bufsize THEN tail + 1 - 1 ELSE tail + 1 - 1 - bufsize
    BY <1>1, <2>1, PlaceFacts
  <2> QED  BY <1>1, <2>2
<1>9. q # <<>> /\ Head(q) = buf[tail]
  <2>1. q # <<>>
    BY <1>2, <1>6, EmptySeq
  <2>2. 1 \in 1 .. n
    BY <1>6
  <2>3. Head(q) = q[1]
    BY <1>2, <2>1
  <2> QED  BY <1>2, <1>8, <2>1, <2>2, <2>3
<1>10. /\ Tail(q) \in Seq(S) /\ Len(Tail(q)) = n2
       /\ \A i \in 1 .. n2 : Tail(q)[i] = q[i + 1]
  BY <1>2, <1>6, <1>9, HeadTailProperties
<1>11. \A i \in 1 .. n2 : q2[i] = Tail(q)[i]
  <2> SUFFICES ASSUME NEW i \in 1 .. n2 PROVE q2[i] = Tail(q)[i]
    OBVIOUS
  <2>1. i + 1 \in 1 .. n
    BY <1>5, <1>6
  <2>2. q2[i] = buf[Place(tail, i + 1)]
    BY <1>1, <1>3, <1>7
  <2>3. q[i + 1] = buf[Place(tail, i + 1)]
    BY <1>2, <2>1
  <2> QED  BY <1>10, <2>2, <2>3
<1>12. q2 = Tail(q)
  BY <1>3, <1>10, <1>11, SeqEqual
<1> QED  BY <1>1, <1>9, <1>12 DEF Abstract!Get, q, q2

(***************************************************************************)
(* For every size of the buffer and every number of threads, the ring      *)
(* buffer of ioqueue.c with its wrap-around is a bounded queue: what comes *)
(* out is what went in, once and in order.                                 *)
(***************************************************************************)
THEOREM FifoRefinement == KbSpec => ImplementsFifo
<1>1. KbInit => Contents = <<>>
  <2> SUFFICES ASSUME KbInit PROVE Contents = <<>>
    OBVIOUS
  <2>1. head = 0 /\ tail = 0 /\ QInv /\ bufsize \in Nat /\ 0 \in 0 .. bufsize - 1
    BY QInit, IoQueueAssumption DEF KbInit, IoInit, init_ioqueue
  <2>2. Count(head, tail) = 0
    BY <2>1, CountFacts
  <2> QED  BY <2>1, <2>2, ContentsIs, EmptySeq DEF QInv
<1>2. QInv /\ QInv' /\ [KbNext]_kbvars =>
        [Abstract!Get \/ \E c \in Chars : Abstract!Put(c)]_<<Contents, out>>
  <2> SUFFICES ASSUME QInv, QInv', [KbNext]_kbvars
               PROVE  \/ Abstract!Get \/ \E c \in Chars : Abstract!Put(c)
                      \/ UNCHANGED <<buf, head, tail, out>>
    BY DEF Contents
  <2>1. CASE UNCHANGED iovars
    BY <2>1 DEF iovars, queue
  <2>2. CASE intr_keyboard_handler
    <3>1. UNCHANGED queue
      BY <2>2 DEF intr_keyboard_handler, prefix_byte, break_byte, char_byte, modifier_byte,
                  ioq_putchar, iovars
    <3> QED  BY <3>1 DEF queue
  <2>3. CASE IoStep
    <3>1. CASE put_store
      BY <3>1, StorePuts
    <3>2. CASE get_take
      BY <3>2, TakeGets
    <3>3. CASE put_wait
      BY <3>3 DEF put_wait
    <3>4. CASE ~put_store /\ ~get_take /\ ~put_wait
      <4>1. UNCHANGED queue
        BY <2>3, <3>4 DEF IoStep, InQueue, ioq_putchar, ioq_getchar, put_full, put_woken
      <4> QED  BY <4>1 DEF queue
    <3> QED  BY <3>1, <3>2, <3>3, <3>4
  <2> QED  BY <2>1, <2>2, <2>3 DEF KbNext, Threads_step, Press, Release_key, kbvars
<1> QED  BY <1>1, <1>2, QInvariance, PTL DEF KbSpec, ImplementsFifo, Abstract!Spec

=============================================================================
