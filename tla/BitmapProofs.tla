---------------------------- MODULE BitmapProofs ----------------------------
(***************************************************************************)
(* bitmap_scan's sliding window computes the first free run, for bitmaps   *)
(* and requests of every size.                                             *)
(***************************************************************************)
EXTENDS Bitmap, FiniteSetTheorems, TLAPS

LEMMA InitInv == Init => ScanInv
<1> SUFFICES ASSUME Init PROVE ScanInv
  OBVIOUS
<1>1. TypeOK
  BY DEF Init, TypeOK
<1>2. {i \in 0 .. 0 - 1 : i \notin bits} = {}
  OBVIOUS
<1>3. WindowInv
  BY <1>2, FS_EmptySet, BitmapAssumption DEF Init, WindowInv
<1> QED  BY <1>1, <1>3 DEF Init, ScanInv, SkippedInv, ScanCorrect

(***************************************************************************)
(* The zeros of a window are finitely many; adding the bit after it, or    *)
(* removing its first bit, changes their number by Zero of that bit; and   *)
(* they are as many as the window is long only if every bit is zero.       *)
(***************************************************************************)
LEMMA ZerosGrow ==
  ASSUME NEW a \in Int, NEW b \in Int, a <= b
  PROVE  Cardinality({i \in a .. (b + 1) - 1 : i \notin bits})
           = Cardinality({i \in a .. b - 1 : i \notin bits}) + Zero(b)
<1> DEFINE S == {i \in a .. b - 1 : i \notin bits}
           T == {i \in a .. (b + 1) - 1 : i \notin bits}
<1>1. IsFiniteSet(S) /\ Cardinality(S) \in Nat
  <2>1. IsFiniteSet(a .. b - 1)
    BY FS_Interval
  <2>2. S \in SUBSET (a .. b - 1)
    OBVIOUS
  <2>3. IsFiniteSet(S)
    BY <2>1, <2>2, FS_Subset
  <2> QED  BY <2>3, FS_CardinalityType
<1>2. T = IF b \in bits THEN S ELSE S \cup {b}
  OBVIOUS
<1>3. b \notin S
  OBVIOUS
<1> HIDE DEF S, T
<1>4. Cardinality(S \cup {b}) = Cardinality(S) + 1
  BY <1>1, <1>3, FS_AddElement
<1>5. Cardinality(T) = Cardinality(S) + Zero(b)
  BY <1>1, <1>2, <1>4 DEF Zero
<1> QED  BY <1>5 DEF S, T

LEMMA ZerosShrink ==
  ASSUME NEW a \in Int, NEW b \in Int, a < b
  PROVE  Cardinality({i \in a + 1 .. b - 1 : i \notin bits})
           = Cardinality({i \in a .. b - 1 : i \notin bits}) - Zero(a)
<1> DEFINE S == {i \in a .. b - 1 : i \notin bits}
           T == {i \in a + 1 .. b - 1 : i \notin bits}
<1>1. IsFiniteSet(S) /\ Cardinality(S) \in Nat
  <2>1. IsFiniteSet(a .. b - 1)
    BY FS_Interval
  <2>2. S \in SUBSET (a .. b - 1)
    OBVIOUS
  <2>3. IsFiniteSet(S)
    BY <2>1, <2>2, FS_Subset
  <2> QED  BY <2>3, FS_CardinalityType
<1>2. T = S \ {a}
  OBVIOUS
<1>3. a \in S <=> a \notin bits
  OBVIOUS
<1> HIDE DEF S, T
<1>4. Cardinality(S \ {a}) = IF a \in S THEN Cardinality(S) - 1 ELSE Cardinality(S)
  BY <1>1, FS_RemoveElement
<1>5. Cardinality(T) = Cardinality(S) - Zero(a)
  BY <1>1, <1>2, <1>3, <1>4 DEF Zero
<1> QED  BY <1>5 DEF S, T

LEMMA ZerosFull ==
  ASSUME NEW a \in Int, NEW n \in Nat
  PROVE  Cardinality({i \in a .. (a + n) - 1 : i \notin bits}) = n
           <=> FreeRun(bits, a, n)
<1> DEFINE S == {i \in a .. (a + n) - 1 : i \notin bits}
           W == a .. (a + n) - 1
<1>1. IsFiniteSet(W) /\ Cardinality(W) = n
  <2>1. IsFiniteSet(W) /\ Cardinality(W) = IF a > (a + n) - 1 THEN 0 ELSE (a + n) - 1 - a + 1
    BY FS_Interval
  <2> QED  BY <2>1
<1>2. S \in SUBSET W
  OBVIOUS
<1>3. FreeRun(bits, a, n) <=> S = W
  BY DEF FreeRun
<1> HIDE DEF S, W
<1>4. Cardinality(W) = Cardinality(S) => W = S
  BY <1>1, <1>2, FS_Subset
<1>5. Cardinality(S) = n <=> S = W
  BY <1>1, <1>4
<1> QED  BY <1>3, <1>5 DEF S

(***************************************************************************)
(* The reference definition, by cases.                                     *)
(***************************************************************************)
LEMMA ScanFirst ==
  ASSUME NEW used, NEW n \in Nat \ {0}, NEW bytes \in Nat, NEW i \in Nat,
         i + n < bytes, FreeRun(used, i, n),
         \A j \in 0 .. i - 1 : ~FreeRun(used, j, n)
  PROVE  bitmap_scan(used, n, bytes) = i
<1> DEFINE S == Starts(used, n, bytes)
<1>1. i \in S /\ \A j \in S : i <= j
  BY DEF Starts
<1>2. \A k \in S : (\A j \in S : k <= j) => k = i
  BY <1>1 DEF Starts
<1> HIDE DEF S
<1>3. (CHOOSE k \in S : \A j \in S : k <= j) = i
  BY <1>1, <1>2
<1> QED  BY <1>1, <1>3 DEF S, bitmap_scan

LEMMA ScanNone ==
  ASSUME NEW used, NEW n \in Nat \ {0}, NEW bytes \in Nat,
         \A j \in 0 .. bytes - n - 1 : ~FreeRun(used, j, n)
  PROVE  bitmap_scan(used, n, bytes) = -1
BY DEF bitmap_scan, Starts

LEMMA NextInv == ScanInv /\ [Next]_vars => ScanInv'
<1> SUFFICES ASSUME ScanInv, [Next]_vars PROVE ScanInv'
  OBVIOUS
<1> USE BitmapAssumption
<1>1. /\ TypeOK /\ WindowInv /\ SkippedInv
      /\ l \in Nat /\ r \in Nat /\ cnt \in Nat \ {0} /\ btmp_bytes_len \in Nat
      /\ zeronum \in Int /\ l <= r
  BY DEF ScanInv, TypeOK, WindowInv
<1>2. CASE count_first
  <2>1. /\ UNCHANGED <<bits, btmp_bytes_len, cnt, l, result>> /\ pc = "for"
        /\ l = 0 /\ r <= cnt
    BY <1>1, <1>2 DEF count_first, WindowInv
  <2>2. CASE r < cnt
    <3>1. r' = r + 1 /\ zeronum' = zeronum + Zero(r) /\ pc' = "for"
      BY <1>2, <2>2 DEF count_first
    <3>2. zeronum' = Cardinality({i \in l .. (r + 1) - 1 : i \notin bits})
      BY <1>1, <3>1, ZerosGrow DEF WindowInv
    <3>3. WindowInv'
      BY <1>1, <2>1, <2>2, <3>1, <3>2 DEF WindowInv
    <3>4. TypeOK'
      BY <1>1, <2>1, <3>1 DEF TypeOK, Zero
    <3> QED  BY <3>1, <3>3, <3>4 DEF ScanInv, SkippedInv, ScanCorrect
  <2>3. CASE ~(r < cnt)
    <3>1. UNCHANGED <<r, zeronum>> /\ pc' = "while"
      BY <1>2, <2>3 DEF count_first
    <3>2. TypeOK' /\ WindowInv'
      BY <1>1, <2>1, <2>3, <3>1 DEF TypeOK, WindowInv
    <3>3. SkippedInv' /\ ScanCorrect'
      BY <2>1, <3>1 DEF SkippedInv, ScanCorrect
    <3> QED  BY <3>2, <3>3 DEF ScanInv
  <2> QED  BY <2>2, <2>3
<1>3. CASE found
  <2>1. /\ UNCHANGED <<bits, btmp_bytes_len, cnt, l, r, zeronum>>
        /\ pc = "while" /\ pc' = "done" /\ result' = l
        /\ r < btmp_bytes_len /\ zeronum = cnt /\ r = l + cnt
    BY <1>1, <1>3 DEF found, WindowInv
  <2>2. FreeRun(bits, l, cnt)
    <3>1. Cardinality({i \in l .. (l + cnt) - 1 : i \notin bits}) = cnt
      BY <1>1, <2>1 DEF WindowInv
    <3> QED  BY <1>1, <3>1, ZerosFull
  <2>3. bitmap_scan(bits, cnt, btmp_bytes_len) = l
    <3>1. l + cnt < btmp_bytes_len /\ \A j \in 0 .. l - 1 : ~FreeRun(bits, j, cnt)
      BY <1>1, <2>1 DEF SkippedInv
    <3> QED  BY <1>1, <2>2, <3>1, ScanFirst
  <2>4. TypeOK' /\ WindowInv' /\ SkippedInv'
    BY <1>1, <2>1 DEF TypeOK, WindowInv, SkippedInv
  <2> QED  BY <2>1, <2>3, <2>4 DEF ScanInv, ScanCorrect
<1>4. CASE slide
  <2>1. /\ UNCHANGED <<bits, btmp_bytes_len, cnt, pc, result>>
        /\ pc = "while" /\ zeronum # cnt /\ r = l + cnt
        /\ zeronum' = zeronum - Zero(l) + Zero(r)
        /\ l' = l + 1 /\ r' = r + 1
    BY <1>1, <1>4 DEF slide, WindowInv
  <2>2. zeronum' = Cardinality({i \in l + 1 .. (r + 1) - 1 : i \notin bits})
    <3>1. Cardinality({i \in l + 1 .. r - 1 : i \notin bits}) = zeronum - Zero(l)
      <4>1. l < r /\ zeronum = Cardinality({i \in l .. r - 1 : i \notin bits})
        BY <1>1, <2>1 DEF WindowInv
      <4> QED  BY <1>1, <4>1, ZerosShrink
    <3>2. Cardinality({i \in l + 1 .. (r + 1) - 1 : i \notin bits})
            = Cardinality({i \in l + 1 .. r - 1 : i \notin bits}) + Zero(r)
      BY <1>1, <2>1, ZerosGrow
    <3> QED  BY <2>1, <3>1, <3>2
  <2>3. ~FreeRun(bits, l, cnt)
    BY <1>1, <2>1, ZerosFull DEF WindowInv
  <2>4. WindowInv'
    BY <1>1, <2>1, <2>2 DEF WindowInv
  <2>5. TypeOK'
    BY <1>1, <2>1 DEF TypeOK, Zero
  <2>6. SkippedInv'
    BY <1>1, <2>1, <2>3 DEF SkippedInv
  <2> QED  BY <2>1, <2>4, <2>5, <2>6 DEF ScanInv, ScanCorrect
<1>5. CASE not_found
  <2>1. /\ UNCHANGED <<bits, btmp_bytes_len, cnt, l, r, zeronum>>
        /\ pc = "while" /\ pc' = "done" /\ result' = -1
        /\ r >= btmp_bytes_len /\ r = l + cnt
    BY <1>1, <1>5 DEF not_found, WindowInv
  <2>2. bitmap_scan(bits, cnt, btmp_bytes_len) = -1
    BY <1>1, <2>1, ScanNone DEF SkippedInv
  <2>3. TypeOK' /\ WindowInv' /\ SkippedInv'
    BY <1>1, <2>1 DEF TypeOK, WindowInv, SkippedInv
  <2> QED  BY <2>1, <2>2, <2>3 DEF ScanInv, ScanCorrect
<1>6. CASE UNCHANGED vars
  BY <1>6 DEF vars, ScanInv, TypeOK, WindowInv, SkippedInv, ScanCorrect
<1> QED  BY <1>2, <1>3, <1>4, <1>5, <1>6 DEF Next

(***************************************************************************)
(* The loop of bitmap_scan keeps its window: zeronum counts the free bits  *)
(* of l .. r - 1, and no run of cnt free bits starts before l.             *)
(***************************************************************************)
THEOREM ScanInvariance == Spec => []ScanInv
BY InitInv, NextInv, PTL DEF Spec

(***************************************************************************)
(* Whenever bitmap_scan returns, it returns the first free run that ends   *)
(* before bit btmp_bytes_len - 1, or -1 if there is none.                  *)
(***************************************************************************)
THEOREM ScanCorrectThm == Spec => []ScanCorrect
<1>1. ScanInv => ScanCorrect
  BY DEF ScanInv
<1> QED  BY ScanInvariance, <1>1, PTL
=============================================================================
