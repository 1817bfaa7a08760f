----------------------------- MODULE BitmapOps -----------------------------
(***************************************************************************)
(* lib/kernel/bitmap.c as its callers see it: a bitmap is the set of the   *)
(* indices of its bits that are 1.  Module Bitmap shows that the loops of  *)
(* the code compute bitmap_scan.                                           *)
(***************************************************************************)
EXTENDS Integers

(***************************************************************************)
(* What bitmap_scan returns, without the loops: the first run of free bits *)
(* that ends before bit number btmp_bytes_len - 1, or -1.                  *)
(***************************************************************************)
FreeRun(used, i, n) == \A k \in i .. i + n - 1 : k \notin used

Starts(used, n, bytes) == {i \in 0 .. bytes - n - 1 : FreeRun(used, i, n)}

bitmap_scan(used, n, bytes) ==
  IF Starts(used, n, bytes) = {} THEN -1
  ELSE CHOOSE i \in Starts(used, n, bytes) :
         \A j \in Starts(used, n, bytes) : i <= j

\* bitmap_set of n bits from i.
bitmap_set(used, i, n, v) ==
  IF v = 1 THEN used \cup i .. i + n - 1 ELSE used \ (i .. i + n - 1)
=============================================================================
