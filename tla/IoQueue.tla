------------------------------ MODULE IoQueue ------------------------------
(***************************************************************************)
(* device/ioqueue.c: the ring buffer through which the keyboard's          *)
(* interrupt handler and threads hand characters to other threads.         *)
(*                                                                         *)
(* Callers disable interrupts, so a call is left only where it blocks: in  *)
(* lock_acquire, which module Sync has, and in ioq_wait.  Where a thread   *)
(* is in ioqueue.c:                                                        *)
(*   "idle"       not in it, interrupts enabled                            *)
(*   "put"        at ioq_putchar's loop                (ioqueue.c line 49) *)
(*   "putwait"    lock_acquire, then ioq_wait          (lines 51, 52)      *)
(*   "putwoken"   back from ioq_wait                   (line 53)           *)
(*   "get"        at ioq_getchar's loop                (line 34)           *)
(*   "getwait"    lock_acquire, then ioq_wait          (lines 35, 36)      *)
(***************************************************************************)
EXTENDS Sync

CONSTANTS
  bufsize,
  Chars,          \* the characters
  ThreadChars,    \* those that threads put
  ioq,            \* the queue's lock
  Producers,      \* threads that call ioq_putchar
  Consumers       \* threads that call ioq_getchar

ASSUME IoQueueAssumption ==
  /\ bufsize \in Nat \ {0, 1}
  /\ ThreadChars \subseteq Chars
  /\ Locks = {ioq}
  /\ Producers \subseteq Threads /\ Consumers \subseteq Threads

(***************************************************************************)
(* A queue is used in one direction: no thread both puts and gets, and not *)
(* every thread puts.  (In the kernel as it is, only the keyboard's        *)
(* handler does.)                                                          *)
(***************************************************************************)
ASSUME CallersAssumption ==
  /\ Producers \cap Consumers = {}
  /\ Producers # Threads

VARIABLES
  buf, head, tail,
  producer,      \* the thread asleep until there is room, or NULL
  consumer,      \* the thread asleep until there is a character, or NULL
  io,            \* where each thread is in ioqueue.c
  chr,           \* the argument of its ioq_putchar
  out            \* what the last ioq_getchar returned

queue  == <<buf, head, tail, producer, consumer, out>>
iovars == <<vars, queue, io, chr>>

IO == {"idle", "put", "putwait", "putwoken", "get", "getwait"}

init_ioqueue ==
  /\ head = 0
  /\ tail = 0
  /\ producer = NULL
  /\ consumer = NULL

IoInit ==
  /\ Init
  /\ init_ioqueue
  /\ buf = [i \in 0 .. bufsize - 1 |-> NULL]
  /\ io = [t \in Threads |-> "idle"]
  /\ chr = [t \in Threads |-> NULL]
  /\ out = NULL

\* Mutant of next_pos: it does not wrap around.
next_pos_straight(pos) == pos + 1

next_pos(pos) == (pos + 1) % bufsize

\* Mutant of ioq_full: the end of the buffer is forgotten.
ioq_full_straight == head + 1 = tail

ioq_full == next_pos(head) = tail

ioq_empty == head = tail

goto_io(label) == io' = [io EXCEPT ![cur] = label]

-----------------------------------------------------------------------------
\* ioq_wait(&ioq->producer), and the wake-up of a sleeping thread.
ioq_wait ==
  /\ producer' = cur
  /\ thread_block
  /\ panic' = Failing(producer = NULL, "ioq_wait: waiter") \cup thread_block_asserts

wakeup(waiter) ==
  /\ thread_unblock(waiter)
  /\ panic' = thread_unblock_asserts(waiter)

\* Wakes a thread if there is one.
wakeup_if(waiter) ==
  IF waiter # NULL THEN wakeup(waiter) ELSE UNCHANGED kthread

(***************************************************************************)
(* ioq_putchar: called, waiting while the queue is full, storing.          *)
(***************************************************************************)
ioq_putchar(c) ==
  /\ goto_io("put")
  /\ chr' = [chr EXCEPT ![cur] = c]
  /\ UNCHANGED <<vars, queue>>

put_full ==
  /\ io[cur] = "put" /\ pc[cur] = "run"
  /\ ioq_full
  /\ lock_acquire(ioq)
  /\ goto_io("putwait")
  /\ UNCHANGED <<queue, chr>>

put_wait ==
  /\ io[cur] = "putwait" /\ pc[cur] = "run"
  /\ ioq_wait
  /\ goto_io("putwoken")
  /\ UNCHANGED <<sync, buf, head, tail, consumer, out, chr>>

put_woken ==
  /\ io[cur] = "putwoken" /\ pc[cur] = "run"
  /\ lock_release(ioq)
  /\ goto_io("put")
  /\ UNCHANGED <<queue, chr>>

put_store ==
  /\ io[cur] = "put" /\ pc[cur] = "run"
  /\ ~ioq_full
  /\ buf' = [buf EXCEPT ![head] = chr[cur]]
  /\ head' = next_pos(head)
  /\ wakeup_if(consumer)
  /\ consumer' = NULL
  /\ goto_io("idle")
  /\ chr' = [chr EXCEPT ![cur] = NULL]
  /\ UNCHANGED <<sync, tail, producer, out>>

(***************************************************************************)
(* ioq_getchar.  On an empty queue it calls ioq_wait(ioq->consumer): the   *)
(* waiter is the null pointer that the field holds, not the field's        *)
(* address.                                                                *)
(***************************************************************************)
ioq_getchar ==
  /\ goto_io("get")
  /\ UNCHANGED <<vars, queue, chr>>

get_empty ==
  /\ io[cur] = "get" /\ pc[cur] = "run"
  /\ ioq_empty
  /\ lock_acquire(ioq)
  /\ goto_io("getwait")
  /\ UNCHANGED <<queue, chr>>

get_wait ==
  /\ io[cur] = "getwait" /\ pc[cur] = "run"
  /\ panic' = {"ioq_wait: waiter"}
  /\ UNCHANGED <<cur, ready, status, sync, queue, io, chr>>

\* Mutant of get_take: the woken producer is not forgotten.
get_take_keeping_producer ==
  /\ io[cur] = "get" /\ pc[cur] = "run"
  /\ ~ioq_empty
  /\ out' = buf[tail]
  /\ tail' = next_pos(tail)
  /\ wakeup_if(producer)
  /\ goto_io("idle")
  /\ UNCHANGED <<sync, buf, head, producer, consumer, chr>>

get_take ==
  /\ io[cur] = "get" /\ pc[cur] = "run"
  /\ ~ioq_empty
  /\ out' = buf[tail]
  /\ tail' = next_pos(tail)
  /\ wakeup_if(producer)
  /\ producer' = NULL
  /\ goto_io("idle")
  /\ UNCHANGED <<sync, buf, head, consumer, chr>>

-----------------------------------------------------------------------------
\* A thread that is in no call has interrupts enabled.
Interruptible == io[cur] = "idle"

InQueue ==
  \/ put_full \/ put_wait \/ put_woken \/ put_store \/ get_take
  \/ InSync /\ UNCHANGED <<queue, io, chr>>

\* Consumers look first, and call ioq_getchar when the queue is not empty.
IoStep ==
  \/ Interruptible /\ cur \in Producers /\ \E c \in ThreadChars : ioq_putchar(c)
  \/ Interruptible /\ cur \in Consumers /\ ~ioq_empty /\ ioq_getchar
  \/ InQueue
  \/ Interruptible /\ Preempt /\ UNCHANGED <<queue, io, chr>>

IoNext == panic = {} /\ IoStep

IoSpec == IoInit /\ [][IoNext]_iovars

\* Consumers leave it to ioq_getchar to wait for a character.
WaitingStep ==
  \/ IoStep
  \/ Interruptible /\ cur \in Consumers /\ ioq_getchar
  \/ get_empty \/ get_wait

WaitingSpec == IoInit /\ [][panic = {} /\ WaitingStep]_iovars

-----------------------------------------------------------------------------

IoTypeOK ==
  /\ KThreadTypeOK
  /\ head \in 0 .. bufsize - 1
  /\ tail \in 0 .. bufsize - 1
  /\ buf \in [0 .. bufsize - 1 -> Chars \cup {NULL}]
  /\ producer \in Producers \cup {NULL}
  /\ consumer \in Consumers \cup {NULL}
  /\ io \in [Threads -> IO]

(***************************************************************************)
(* A thread asleep in ioq_wait can be woken: the queue knows it, and there *)
(* is a character whose removal will wake it.  ioq_putchar does not look   *)
(* at the queue again between getting the lock and going to sleep, and the *)
(* thread that released the lock, or the consumer, has run since.          *)
(***************************************************************************)
NoStuckProducer ==
  \A t \in Threads :
    io[t] = "putwoken" /\ status[t] = TASK_BLOCKED /\ pc[t] = "run" =>
      producer = t /\ ~ioq_empty

\* None of the assertions of ioqueue.c, sync.c and thread.c fails.
IoNoPanic == panic = {}

(***************************************************************************)
(* A consumer sleeps until there is a character ("records which consumer   *)
(* is asleep on this buffer", ioqueue.h): ioq_wait accepts its waiter.     *)
(***************************************************************************)
ConsumerSleeps == "ioq_wait: waiter" \notin panic

(***************************************************************************)
(* The ring buffer is a queue: characters come out once each, in the order *)
(* in which they went in, whichever thread or interrupt put them.          *)
(***************************************************************************)
Contents == [i \in 1 .. (head + bufsize - tail) % bufsize |-> buf[(tail + i - 1) % bufsize]]

Abstract == INSTANCE Fifo WITH q <- Contents, Capacity <- bufsize - 1

ImplementsFifo == Abstract!Spec
=============================================================================
