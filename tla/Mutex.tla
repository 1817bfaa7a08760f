------------------------------- MODULE Mutex -------------------------------
(***************************************************************************)
(* What thread/sync.c promises of its locks: a recursive mutual-exclusion  *)
(* lock.  A lock has at most one owner; only the owner may acquire it      *)
(* again or release it, and it becomes free after as many releases as      *)
(* acquisitions.                                                           *)
(***************************************************************************)
EXTENDS Naturals

CONSTANTS Threads, Locks, NULL

VARIABLES owner,    \* the thread that owns each lock, or NULL
          depth     \* how many times its owner has acquired it

vars == <<owner, depth>>

Init ==
  /\ owner = [l \in Locks |-> NULL]
  /\ depth = [l \in Locks |-> 0]

Acquire(t, l) ==
  /\ owner[l] = NULL
  /\ owner' = [owner EXCEPT ![l] = t]
  /\ depth' = [depth EXCEPT ![l] = 1]

Reacquire(t, l) ==
  /\ owner[l] = t
  /\ depth' = [depth EXCEPT ![l] = @ + 1]
  /\ owner' = owner

Release(t, l) ==
  /\ owner[l] = t
  /\ depth[l] > 1
  /\ depth' = [depth EXCEPT ![l] = @ - 1]
  /\ owner' = owner

ReleaseLast(t, l) ==
  /\ owner[l] = t
  /\ depth[l] = 1
  /\ owner' = [owner EXCEPT ![l] = NULL]
  /\ depth' = [depth EXCEPT ![l] = 0]

Next ==
  \E t \in Threads, l \in Locks :
    \/ Acquire(t, l)
    \/ Reacquire(t, l)
    \/ Release(t, l)
    \/ ReleaseLast(t, l)

Spec == Init /\ [][Next]_vars
=============================================================================
