--------------------------- MODULE KThreadProofs ---------------------------
(***************************************************************************)
(* Facts about the lists of lib/kernel/list.c, and about the scheduler's   *)
(* operations on them, for every number of threads.  Each operation is     *)
(* described by what it does to the set of elements of a list without      *)
(* repetition, which is all that the proofs built on it need.              *)
(***************************************************************************)
EXTENDS KThread, SequenceTheorems, FiniteSetTheorems, TLAPS

(***************************************************************************)
(* list_pop: the first element leaves a list, and only it.                 *)
(***************************************************************************)
LEMMA PopFacts ==
  ASSUME NEW S, NEW q \in Seq(S), q # <<>>, IsInjective(q)
  PROVE  /\ Head(q) \in S
         /\ Head(q) \in Range(q)
         /\ Tail(q) \in Seq(S)
         /\ IsInjective(Tail(q))
         /\ Range(Tail(q)) = Range(q) \ {Head(q)}
<1>1. /\ Len(q) \in Nat \ {0}
      /\ DOMAIN q = 1 .. Len(q)
      /\ Head(q) = q[1]
  BY EmptySeq, LenProperties
<1>2. /\ Head(q) \in S
      /\ Tail(q) \in Seq(S)
      /\ Len(Tail(q)) = Len(q) - 1
      /\ \A i \in 1 .. Len(q) - 1 : Tail(q)[i] = q[i + 1]
  BY HeadTailProperties
<1>3. DOMAIN Tail(q) = 1 .. Len(q) - 1
  BY <1>2, LenProperties
<1>4. Head(q) \in Range(q)
  BY <1>1 DEF Range
<1>5. IsInjective(Tail(q))
  <2> SUFFICES ASSUME NEW a \in 1 .. Len(q) - 1, NEW b \in 1 .. Len(q) - 1,
                      Tail(q)[a] = Tail(q)[b]
               PROVE  a = b
    BY <1>3 DEF IsInjective
  <2>1. a + 1 \in DOMAIN q /\ b + 1 \in DOMAIN q /\ q[a + 1] = q[b + 1]
    BY <1>1, <1>2
  <2>2. a + 1 = b + 1
    BY <2>1 DEF IsInjective
  <2> QED  BY <2>2
<1>6. Range(Tail(q)) = Range(q) \ {Head(q)}
  <2>1. ASSUME NEW x \in Range(Tail(q))
        PROVE  x \in Range(q) \ {Head(q)}
    <3>1. PICK i \in 1 .. Len(q) - 1 : x = q[i + 1]
      BY <1>2, <1>3 DEF Range
    <3>2. i + 1 \in DOMAIN q /\ 1 \in DOMAIN q /\ i + 1 # 1
      BY <1>1
    <3>3. x # q[1]
      BY <3>1, <3>2 DEF IsInjective
    <3> QED  BY <1>1, <3>1, <3>2, <3>3 DEF Range
  <2>2. ASSUME NEW x \in Range(q), x # Head(q)
        PROVE  x \in Range(Tail(q))
    <3>1. PICK i \in 1 .. Len(q) : x = q[i]
      BY <1>1 DEF Range
    <3>2. i - 1 \in 1 .. Len(q) - 1 /\ (i - 1) + 1 = i
      BY <1>1, <2>2, <3>1
    <3>3. Tail(q)[i - 1] = x
      BY <1>2, <3>1, <3>2
    <3> QED  BY <1>3, <3>2, <3>3 DEF Range
  <2> QED  BY <2>1, <2>2
<1> QED  BY <1>2, <1>4, <1>5, <1>6

(***************************************************************************)
(* list_append: a new element joins a list.                                *)
(***************************************************************************)
LEMMA AppendFacts ==
  ASSUME NEW S, NEW q \in Seq(S), NEW x \in S, x \notin Range(q), IsInjective(q)
  PROVE  /\ Append(q, x) \in Seq(S)
         /\ Append(q, x) # <<>>
         /\ IsInjective(Append(q, x))
         /\ Range(Append(q, x)) = Range(q) \cup {x}
<1> DEFINE p == Append(q, x)
<1>1. /\ Len(q) \in Nat
      /\ DOMAIN q = 1 .. Len(q)
  BY LenProperties
<1>2. /\ p \in Seq(S)
      /\ p # <<>>
      /\ Len(p) = Len(q) + 1
      /\ \A i \in 1 .. Len(q) : p[i] = q[i]
      /\ p[Len(q) + 1] = x
  BY AppendProperties
<1>3. DOMAIN p = 1 .. Len(q) + 1
  BY <1>2, LenProperties
<1> HIDE DEF p
<1>4. Range(p) = Range(q) \cup {x}
  <2>1. ASSUME NEW y \in Range(p)
        PROVE  y \in Range(q) \cup {x}
    <3>1. PICK i \in 1 .. Len(q) + 1 : y = p[i]
      BY <1>3 DEF Range
    <3>2. CASE i = Len(q) + 1
      BY <1>2, <3>1, <3>2
    <3>3. CASE i \in 1 .. Len(q)
      BY <1>1, <1>2, <3>1, <3>3 DEF Range
    <3> QED  BY <1>1, <3>2, <3>3
  <2>2. Range(q) \subseteq Range(p)
    <3> SUFFICES ASSUME NEW i \in 1 .. Len(q)
                 PROVE  q[i] \in Range(p)
      BY <1>1 DEF Range
    <3>1. i \in DOMAIN p /\ p[i] = q[i]
      BY <1>1, <1>2, <1>3
    <3> QED  BY <3>1 DEF Range
  <2>3. x \in Range(p)
    BY <1>1, <1>2, <1>3 DEF Range
  <2> QED  BY <2>1, <2>2, <2>3
<1>5. IsInjective(p)
  <2> SUFFICES ASSUME NEW a \in 1 .. Len(q) + 1, NEW b \in 1 .. Len(q) + 1,
                      p[a] = p[b]
               PROVE  a = b
    BY <1>3 DEF IsInjective
  <2>1. \A i \in 1 .. Len(q) : q[i] # x
    BY <1>1 DEF Range
  <2>2. CASE a \in 1 .. Len(q) /\ b \in 1 .. Len(q)
    BY <1>1, <1>2, <2>2 DEF IsInjective
  <2>3. CASE a = Len(q) + 1 \/ b = Len(q) + 1
    BY <1>1, <1>2, <2>1, <2>3
  <2> QED  BY <1>1, <2>2, <2>3
<1> QED  BY <1>2, <1>4, <1>5 DEF p

(***************************************************************************)
(* list_push: a new element is put before the others.                      *)
(***************************************************************************)
LEMMA PushFacts ==
  ASSUME NEW S, NEW q \in Seq(S), NEW x \in S, x \notin Range(q), IsInjective(q)
  PROVE  /\ list_push(q, x) \in Seq(S)
         /\ IsInjective(list_push(q, x))
         /\ Range(list_push(q, x)) = Range(q) \cup {x}
<1> DEFINE p == list_push(q, x)
<1>1. /\ Len(q) \in Nat
      /\ DOMAIN q = 1 .. Len(q)
  BY LenProperties
<1>2. <<x>> \in Seq(S) /\ Len(<<x>>) = 1 /\ <<x>>[1] = x
  OBVIOUS
<1>3. /\ p \in Seq(S)
      /\ Len(p) = 1 + Len(q)
      /\ \A i \in 1 .. 1 + Len(q) : p[i] = IF i <= 1 THEN x ELSE q[i - 1]
  <2>1. /\ <<x>> \o q \in Seq(S)
        /\ Len(<<x>> \o q) = 1 + Len(q)
        /\ \A i \in 1 .. 1 + Len(q) :
             (<<x>> \o q)[i] = IF i <= 1 THEN <<x>>[i] ELSE q[i - 1]
    BY <1>2, ConcatProperties
  <2> QED  BY <1>1, <1>2, <2>1 DEF list_push
<1>4. DOMAIN p = 1 .. 1 + Len(q)
  BY <1>3, LenProperties
<1> HIDE DEF p
<1>5. \A i \in 1 .. Len(q) : i + 1 \in DOMAIN p /\ p[i + 1] = q[i]
  BY <1>1, <1>3, <1>4
<1>6. 1 \in DOMAIN p /\ p[1] = x
  BY <1>1, <1>3, <1>4
<1>7. Range(p) = Range(q) \cup {x}
  <2>1. ASSUME NEW y \in Range(p)
        PROVE  y \in Range(q) \cup {x}
    <3>1. PICK i \in 1 .. 1 + Len(q) : y = p[i]
      BY <1>4 DEF Range
    <3>2. CASE i = 1
      BY <1>6, <3>1, <3>2
    <3>3. CASE i # 1
      <4>1. i - 1 \in DOMAIN q /\ y = q[i - 1]
        BY <1>1, <1>3, <3>1, <3>3
      <4> QED  BY <4>1 DEF Range
    <3> QED  BY <3>2, <3>3
  <2>2. Range(q) \subseteq Range(p)
    BY <1>1, <1>5 DEF Range
  <2>3. x \in Range(p)
    BY <1>6 DEF Range
  <2> QED  BY <2>1, <2>2, <2>3
<1>8. IsInjective(p)
  <2> SUFFICES ASSUME NEW a \in 1 .. 1 + Len(q), NEW b \in 1 .. 1 + Len(q),
                      p[a] = p[b]
               PROVE  a = b
    BY <1>4 DEF IsInjective
  <2>1. \A i \in 1 .. Len(q) : q[i] # x
    BY <1>1 DEF Range
  <2>2. CASE a # 1 /\ b # 1
    <3>1. a - 1 \in DOMAIN q /\ b - 1 \in DOMAIN q /\ q[a - 1] = q[b - 1]
      BY <1>1, <1>3, <2>2
    <3>2. a - 1 = b - 1
      BY <3>1 DEF IsInjective
    <3> QED  BY <3>2
  <2>3. CASE a = 1 \/ b = 1
    BY <1>1, <1>3, <2>1, <2>3
  <2> QED  BY <2>2, <2>3
<1> QED  BY <1>3, <1>7, <1>8 DEF p

LEMMA EmptyRange == Range(<<>>) = {} /\ IsInjective(<<>>)
BY DEF Range, IsInjective

-----------------------------------------------------------------------------
(***************************************************************************)
(* The timer's schedule() keeps the ready list and the status fields in    *)
(* agreement, fails no assertion, and blocks or wakes nobody.              *)
(***************************************************************************)
LEMMA ScheduleFacts ==
  ASSUME KThreadTypeOK, ReadyListInv, schedule(TASK_RUNNING)
  PROVE  /\ KThreadTypeOK' /\ ReadyListInv'
         /\ schedule_asserts(TASK_RUNNING) = {}
         /\ \A t \in Threads : status'[t] = TASK_BLOCKED <=> status[t] = TASK_BLOCKED
         /\ \A t \in Threads : status'[t] = NOT_CREATED <=> status[t] = NOT_CREATED
<1> DEFINE q == Append(ready, cur)
<1> USE DEF TASK_RUNNING, TASK_READY, TASK_BLOCKED, NOT_CREATED
<1>1. cur \in Threads /\ ready \in Seq(Threads) /\ status \in [Threads -> Status \cup {NOT_CREATED}]
  BY DEF KThreadTypeOK
<1>2. cur \notin Range(ready) /\ IsInjective(ready)
  BY <1>1 DEF ReadyListInv
<1>3. /\ q \in Seq(Threads)
      /\ q # <<>>
      /\ IsInjective(q)
      /\ Range(q) = Range(ready) \cup {cur}
  BY <1>1, <1>2, AppendFacts
<1>4. /\ cur' = Head(q)
      /\ ready' = Tail(q)
      /\ status' = [status EXCEPT ![cur] = TASK_READY, ![Head(q)] = TASK_RUNNING]
  BY <1>3 DEF schedule
<1> HIDE DEF q
<1>5. /\ Head(q) \in Threads
      /\ Head(q) \in Range(q)
      /\ Tail(q) \in Seq(Threads)
      /\ IsInjective(Tail(q))
      /\ Range(Tail(q)) = Range(q) \ {Head(q)}
  BY <1>3, PopFacts
<1>6. KThreadTypeOK'
  BY <1>1, <1>4, <1>5 DEF KThreadTypeOK, Status
<1>7. ReadyListInv'
  <2>1. \A t \in Threads : status'[t] = TASK_RUNNING <=> t = cur'
    BY <1>1, <1>4, <1>5 DEF ReadyListInv
  <2>2. \A t \in Threads : status'[t] = TASK_READY <=> t \in Range(ready')
    BY <1>1, <1>3, <1>4, <1>5 DEF ReadyListInv
  <2> QED  BY <1>4, <1>5, <2>1, <2>2 DEF ReadyListInv
<1>8. schedule_asserts(TASK_RUNNING) = {}
  BY <1>2 DEF schedule_asserts, Failing, elem_find
<1>9. \A t \in Threads :
        /\ status'[t] = TASK_BLOCKED <=> status[t] = TASK_BLOCKED
        /\ status'[t] = NOT_CREATED <=> status[t] = NOT_CREATED
  BY <1>1, <1>2, <1>3, <1>4, <1>5 DEF ReadyListInv
<1> QED  BY <1>6, <1>7, <1>8, <1>9

(***************************************************************************)
(* thread_block, when some thread is ready to take over.                   *)
(***************************************************************************)
LEMMA ThreadBlockFacts ==
  ASSUME KThreadTypeOK, ReadyListInv, ready # <<>>, thread_block
  PROVE  /\ KThreadTypeOK' /\ ReadyListInv'
         /\ thread_block_asserts = {}
         /\ \A t \in Threads :
              status'[t] = TASK_BLOCKED <=> status[t] = TASK_BLOCKED \/ t = cur
         /\ \A t \in Threads : status'[t] = NOT_CREATED <=> status[t] = NOT_CREATED
<1> USE DEF TASK_RUNNING, TASK_READY, TASK_BLOCKED, NOT_CREATED
<1>1. cur \in Threads /\ ready \in Seq(Threads) /\ status \in [Threads -> Status \cup {NOT_CREATED}]
  BY DEF KThreadTypeOK
<1>2. cur \notin Range(ready) /\ IsInjective(ready)
  BY <1>1 DEF ReadyListInv
<1>3. /\ cur' = Head(ready)
      /\ ready' = Tail(ready)
      /\ status' = [status EXCEPT ![cur] = TASK_BLOCKED, ![Head(ready)] = TASK_RUNNING]
  BY DEF thread_block, schedule
<1>4. /\ Head(ready) \in Threads
      /\ Head(ready) \in Range(ready)
      /\ Tail(ready) \in Seq(Threads)
      /\ IsInjective(Tail(ready))
      /\ Range(Tail(ready)) = Range(ready) \ {Head(ready)}
  BY <1>1, <1>2, PopFacts
<1>5. KThreadTypeOK'
  BY <1>1, <1>3, <1>4 DEF KThreadTypeOK, Status
<1>6. ReadyListInv'
  <2>1. \A t \in Threads : status'[t] = TASK_RUNNING <=> t = cur'
    BY <1>1, <1>3, <1>4 DEF ReadyListInv
  <2>2. \A t \in Threads : status'[t] = TASK_READY <=> t \in Range(ready')
    BY <1>1, <1>2, <1>3, <1>4 DEF ReadyListInv
  <2> QED  BY <1>3, <1>4, <2>1, <2>2 DEF ReadyListInv
<1>7. thread_block_asserts = {}
  BY DEF thread_block_asserts, schedule_asserts, Failing
<1>8. \A t \in Threads :
        /\ status'[t] = TASK_BLOCKED <=> status[t] = TASK_BLOCKED \/ t = cur
        /\ status'[t] = NOT_CREATED <=> status[t] = NOT_CREATED
  BY <1>1, <1>2, <1>3, <1>4 DEF ReadyListInv
<1> QED  BY <1>5, <1>6, <1>7, <1>8

(***************************************************************************)
(* thread_unblock of a blocked thread.                                     *)
(***************************************************************************)
LEMMA ThreadUnblockFacts ==
  ASSUME KThreadTypeOK, ReadyListInv,
         NEW p \in Threads, status[p] = TASK_BLOCKED, thread_unblock(p)
  PROVE  /\ KThreadTypeOK' /\ ReadyListInv'
         /\ thread_unblock_asserts(p) = {}
         /\ \A t \in Threads :
              status'[t] = TASK_BLOCKED <=> status[t] = TASK_BLOCKED /\ t # p
         /\ \A t \in Threads : status'[t] = NOT_CREATED <=> status[t] = NOT_CREATED
<1> USE DEF TASK_RUNNING, TASK_READY, TASK_BLOCKED, NOT_CREATED
<1>1. cur \in Threads /\ ready \in Seq(Threads) /\ status \in [Threads -> Status \cup {NOT_CREATED}]
  BY DEF KThreadTypeOK
<1>2. p \notin Range(ready) /\ p # cur /\ IsInjective(ready)
  BY <1>1 DEF ReadyListInv
<1>3. /\ list_push(ready, p) \in Seq(Threads)
      /\ IsInjective(list_push(ready, p))
      /\ Range(list_push(ready, p)) = Range(ready) \cup {p}
  BY <1>1, <1>2, PushFacts
<1>4. /\ cur' = cur
      /\ ready' = list_push(ready, p)
      /\ status' = [status EXCEPT ![p] = TASK_READY]
  BY DEF thread_unblock
<1>5. KThreadTypeOK'
  BY <1>1, <1>3, <1>4 DEF KThreadTypeOK, Status
<1>6. ReadyListInv'
  <2>1. \A t \in Threads : status'[t] = TASK_RUNNING <=> t = cur'
    BY <1>1, <1>2, <1>4 DEF ReadyListInv
  <2>2. \A t \in Threads : status'[t] = TASK_READY <=> t \in Range(ready')
    BY <1>1, <1>3, <1>4 DEF ReadyListInv
  <2> QED  BY <1>3, <1>4, <2>1, <2>2 DEF ReadyListInv
<1>7. thread_unblock_asserts(p) = {}
  BY <1>2 DEF thread_unblock_asserts, Failing, elem_find
<1>8. \A t \in Threads :
        /\ status'[t] = TASK_BLOCKED <=> status[t] = TASK_BLOCKED /\ t # p
        /\ status'[t] = NOT_CREATED <=> status[t] = NOT_CREATED
  BY <1>1, <1>4
<1> QED  BY <1>5, <1>6, <1>7, <1>8

(***************************************************************************)
(* The state in which the threads have been started.                       *)
(***************************************************************************)
LEMMA KThreadInitFacts ==
  ASSUME KThreadInit
  PROVE  /\ KThreadTypeOK /\ ReadyListInv
         /\ panic = {}
         /\ \A t \in Threads : status[t] # TASK_BLOCKED /\ status[t] # NOT_CREATED
<1> USE DEF TASK_RUNNING, TASK_READY, TASK_BLOCKED, NOT_CREATED
<1>1. Cardinality(Threads) \in Nat /\ Cardinality(Threads) # 0
  BY ThreadsAssumption, FS_CardinalityType, FS_EmptySet
<1>2. Cardinality(Threads) - 1 \in Nat
  BY <1>1
<1>3. ready \in Seq(Threads)
  BY <1>2, SeqDef DEF KThreadInit
<1>4. KThreadTypeOK
  BY <1>3 DEF KThreadInit, KThreadTypeOK, Status
<1>5. ReadyListInv
  BY DEF KThreadInit, ReadyListInv
<1> QED  BY <1>4, <1>5 DEF KThreadInit
=============================================================================
