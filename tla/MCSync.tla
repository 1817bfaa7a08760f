------------------------------- MODULE MCSync -------------------------------
(***************************************************************************)
(* Instance of Sync for TLC: the lock of a memory pool.                    *)
(***************************************************************************)
EXTENDS Sync

CONSTANT pool

\* The shipped kernel: no lock is acquired while another is held.
NoNesting == {}
=============================================================================
