---------------------------- MODULE MCPageAlloc ----------------------------
(***************************************************************************)
(* Instances of PageAlloc for TLC.                                         *)
(***************************************************************************)
EXTENDS PageAlloc, TLC

CONSTANTS k1, k2, p1, p2

\* All the threads that allocate at one time use the same pool's lock.
OneLock == {{k1, k2}, {p1, p2}}

\* A kernel thread and a process allocate at the same time.
BothLocks == {{k1, p1}}

\* One kernel thread, whose time slice does not end.
Alone == {{k1}}

Symmetry == Permutations({k1, k2}) \cup Permutations({p1, p2})
=============================================================================
