-------------------------------- MODULE Fifo --------------------------------
(***************************************************************************)
(* What device/ioqueue.c promises: a bounded first-in first-out queue of   *)
(* characters.                                                             *)
(***************************************************************************)
EXTENDS Naturals, Sequences

CONSTANTS Chars, Capacity

VARIABLES q,     \* the characters put and not yet taken
          out    \* the last character taken

Put(c) ==
  /\ Len(q) < Capacity
  /\ q' = Append(q, c)
  /\ out' = out

Get ==
  /\ q # <<>>
  /\ out' = Head(q)
  /\ q' = Tail(q)

Spec == q = <<>> /\ [][Get \/ \E c \in Chars : Put(c)]_<<q, out>>
=============================================================================
