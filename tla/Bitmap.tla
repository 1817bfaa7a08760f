------------------------------- MODULE Bitmap -------------------------------
(***************************************************************************)
(* lib/kernel/bitmap.c: bitmap_scan, which finds cnt consecutive free bits *)
(* by sliding a window of cnt bits over the bitmap.  A bitmap is the set   *)
(* of the indices of its bits that are 1.                                  *)
(***************************************************************************)
EXTENDS BitmapOps, FiniteSets

CONSTANTS
  Bits,       \* indices of bits that may be 1
  Lengths,    \* values of btmp_bytes_len
  Counts      \* values of cnt

ASSUME BitmapAssumption ==
  /\ IsFiniteSet(Bits) /\ Bits \subseteq Nat
  /\ Lengths \subseteq Nat
  /\ Counts \subseteq Nat \ {0}

VARIABLES
  bits,              \* the bitmap
  btmp_bytes_len,    \* its length in bytes
  cnt,               \* how many bits are wanted
  l, r,              \* the window is l .. r - 1
  zeronum,           \* how many bits of the window are 0
  pc,
  result

vars == <<bits, btmp_bytes_len, cnt, l, r, zeronum, pc, result>>

\* 1 when a bit is free, as bitmap_scan counts it.
Zero(i) == IF i \in bits THEN 0 ELSE 1

Init ==
  /\ bits \in SUBSET Bits
  /\ btmp_bytes_len \in Lengths
  /\ cnt \in Counts
  /\ l = 0
  /\ r = 0
  /\ zeronum = 0
  /\ pc = "for"
  /\ result = -1

\* The for loop that counts the zeros of the first window.
count_first ==
  /\ pc = "for"
  /\ IF r < cnt
     THEN /\ r' = r + 1
          /\ zeronum' = zeronum + Zero(r)
          /\ pc' = "for"
     ELSE /\ pc' = "while"
          /\ UNCHANGED <<r, zeronum>>
  /\ UNCHANGED <<bits, btmp_bytes_len, cnt, l, result>>

\* The while loop: return l, or move the window by one bit.
found ==
  /\ pc = "while"
  /\ r < btmp_bytes_len
  /\ zeronum = cnt
  /\ result' = l
  /\ pc' = "done"
  /\ UNCHANGED <<bits, btmp_bytes_len, cnt, l, r, zeronum>>

\* Mutant of slide: the bit that leaves the window is still counted.
slide_counting_twice ==
  /\ pc = "while"
  /\ r < btmp_bytes_len
  /\ zeronum # cnt
  /\ zeronum' = zeronum + Zero(r)
  /\ l' = l + 1
  /\ r' = r + 1
  /\ UNCHANGED <<bits, btmp_bytes_len, cnt, pc, result>>

slide ==
  /\ pc = "while"
  /\ r < btmp_bytes_len
  /\ zeronum # cnt
  /\ zeronum' = zeronum - Zero(l) + Zero(r)
  /\ l' = l + 1
  /\ r' = r + 1
  /\ UNCHANGED <<bits, btmp_bytes_len, cnt, pc, result>>

\* Mutant of not_found: the loop's end is missed by one.
not_found_late ==
  /\ pc = "while"
  /\ r > btmp_bytes_len
  /\ result' = -1
  /\ pc' = "done"
  /\ UNCHANGED <<bits, btmp_bytes_len, cnt, l, r, zeronum>>

not_found ==
  /\ pc = "while"
  /\ r >= btmp_bytes_len
  /\ result' = -1
  /\ pc' = "done"
  /\ UNCHANGED <<bits, btmp_bytes_len, cnt, l, r, zeronum>>

Next == count_first \/ found \/ slide \/ not_found

Spec == Init /\ [][Next]_vars /\ WF_vars(Next)

-----------------------------------------------------------------------------

TypeOK ==
  /\ bits \subseteq Bits
  /\ btmp_bytes_len \in Lengths
  /\ cnt \in Counts
  /\ l \in Nat
  /\ r \in Nat
  /\ zeronum \in Int
  /\ pc \in {"for", "while", "done"}
  /\ result \in Int

\* The running count is the number of zeros in the window.
WindowInv ==
  /\ l <= r
  /\ zeronum = Cardinality({i \in l .. r - 1 : i \notin bits})
  /\ pc # "for" => r = l + cnt
  /\ pc = "for" => l = 0 /\ r <= cnt

\* No window that ends within the searched bits has been passed over.
SkippedInv ==
  pc # "for" => \A i \in 0 .. l - 1 : ~FreeRun(bits, i, cnt)

(***************************************************************************)
(* The sliding count computes the first free run: whatever the bitmap, the *)
(* result is the one defined above.                                        *)
(***************************************************************************)
ScanCorrect == pc = "done" => result = bitmap_scan(bits, cnt, btmp_bytes_len)

\* The inductive invariant.
ScanInv == TypeOK /\ WindowInv /\ SkippedInv /\ ScanCorrect

(***************************************************************************)
(* bitmap_scan returns.                                                    *)
(***************************************************************************)
ScanTerminates == <>(pc = "done")

(***************************************************************************)
(* Each bit of the bitmap stands for a page that can be allocated ("one    *)
(* bit stands for one page", kernel/memory.c): a run of free bits anywhere *)
(* in the btmp_bytes_len bytes is found.                                   *)
(***************************************************************************)
EveryBitUsable ==
  pc = "done" /\ result = -1 =>
    \A i \in 0 .. 8 * btmp_bytes_len - cnt : ~FreeRun(bits, i, cnt)
=============================================================================
