----------------------------- MODULE HeapProofs -----------------------------
(***************************************************************************)
(* sys_malloc and sys_free keep every byte of the heap to one owner, for   *)
(* requests of all sizes, in heaps of every size, with any number of       *)
(* allocations.                                                            *)
(*                                                                         *)
(* The properties are not inductive: sys_free finds the arena from the     *)
(* pointer and trusts its header, so the invariant says what a pointer     *)
(* that was handed out can be, that the blocks of an arena are the ones on *)
(* the free list and the ones handed out, and that the count in the header *)
(* is the number of the former.  Then the count reaches blocks_per_arena   *)
(* exactly when the last block comes back, and every block is on the list. *)
(***************************************************************************)
EXTENDS Heap, FiniteSetTheorems, WellFoundedInduction, TLAPS

BlocksOf(a) == Range(Blocks(a, arena[a].desc))
FreeOf(a)   == Range(free[arena[a].desc])
FreeIn(a)   == {b \in FreeOf(a) : block2arena(b) = a}

Arenas == [desc : 0 .. DESC_CNT, cnt : Nat, large : BOOLEAN]

\* The pages in use are those of the arenas, each of one.
ArenaInv ==
  /\ \A a \in DOMAIN arena :
       /\ a \in Nat /\ arena[a] \in Arenas
       /\ arena[a].large => arena[a].desc = 0 /\ arena[a].cnt # 0
       /\ ~arena[a].large => arena[a].desc # 0
  /\ \A a \in DOMAIN arena : Pages(a) \subseteq 0 .. HeapBytes
  /\ vbits = UNION {Pages(a) : a \in DOMAIN arena}
  /\ \A a, b \in DOMAIN arena : a # b => Pages(a) \cap Pages(b) = {}

(***************************************************************************)
(* A pointer handed out is the start of a large allocation, which its      *)
(* pages can hold, or a block of its arena that is not free, which is as   *)
(* large as the request; and each arena has such a pointer.                *)
(***************************************************************************)
LivePtr(p) ==
  LET a == block2arena(p) IN
  /\ p \in Nat /\ a \in DOMAIN arena /\ live[p] \in Sizes
  /\ arena[a].large =>
       p = a * PG_SIZE + ArenaHdr /\ live[p] + ArenaHdr <= arena[a].cnt * PG_SIZE
  /\ ~arena[a].large =>
       p \in BlocksOf(a) \ FreeOf(a) /\ live[p] <= block_size(arena[a].desc)

LiveInv ==
  /\ \A p \in DOMAIN live : LivePtr(p)
  /\ \A a \in DOMAIN arena : \E p \in DOMAIN live : block2arena(p) = a

(***************************************************************************)
(* The lists hold the free blocks of the arenas, each once, and the count  *)
(* of an arena is their number; a block that is not free is handed out.    *)
(***************************************************************************)
FreeBlock(d, b) ==
  LET a == block2arena(b) IN
  a \in DOMAIN arena /\ arena[a].desc = d /\ b \in BlocksOf(a)

Counted(a) ==
  ~arena[a].large =>
    arena[a].cnt = Cardinality(FreeIn(a)) /\ BlocksOf(a) \subseteq FreeOf(a) \cup DOMAIN live

FreeInv ==
  /\ free \in [Descs -> Seq(Nat)]
  /\ \A d \in Descs : IsInjective(free[d]) /\ \A b \in Range(free[d]) : FreeBlock(d, b)
  /\ \A a \in DOMAIN arena : Counted(a)

HeapInv == ArenaInv /\ LiveInv /\ FreeInv

\* The ASSERT of sys_free has not failed.
BlocksListed == "sys_free: block not in free list" \notin panic

-----------------------------------------------------------------------------
\* A set of numbers that is not empty has a smallest one.
LEMMA Smallest ==
  ASSUME NEW S, S \subseteq Nat, S # {}
  PROVE  \E i \in S : \A j \in S : i <= j
<1> DEFINE R == {ss \in Nat \X Nat : ss[1] < ss[2]}
<1>1. OpToRel(<, Nat) = R
  BY DEF OpToRel
<1>2. IsWellFoundedOn(R, Nat)
  BY <1>1, NatLessThanWellFounded
<1>3. PICK i \in S : \A j \in S : ~(<<j, i>> \in R)
  <2> HIDE DEF R
  <2> QED  BY <1>2, WFMin
<1>4. ASSUME NEW j \in S PROVE i <= j
  <2>1. i \in Nat /\ j \in Nat /\ ~(<<j, i>> \in R)
    <3> HIDE DEF R
    <3> QED  BY <1>3
  <2>2. ~(j < i)
    BY <2>1
  <2> QED  BY <2>1, <2>2
<1> QED  BY <1>4

\* Induction: a set that has 0 and the successor of each of its numbers.
LEMMA Induction ==
  ASSUME NEW S, 0 \in S, \A n \in Nat : n \in S => n + 1 \in S
  PROVE  Nat \subseteq S
<1> SUFFICES ASSUME Nat \ S # {} PROVE FALSE
  OBVIOUS
<1>1. PICK m \in Nat \ S : \A j \in Nat \ S : m <= j
  BY Smallest
<1>2. m - 1 \in Nat /\ m - 1 \in S
  BY <1>1
<1> QED  BY <1>1, <1>2

-----------------------------------------------------------------------------
\* list_pop of a list without repetitions, and list_append.
LEMMA SeqTail ==
  ASSUME NEW s \in Seq(Nat), s # <<>>, IsInjective(s)
  PROVE  /\ Tail(s) \in Seq(Nat) /\ IsInjective(Tail(s))
         /\ Head(s) \in Range(s)
         /\ Range(Tail(s)) = Range(s) \ {Head(s)}
<1>1. Len(s) \in Nat \ {0} /\ DOMAIN s = 1 .. Len(s)
  OBVIOUS
<1>2. /\ Tail(s) \in Seq(Nat) /\ DOMAIN Tail(s) = 1 .. Len(s) - 1
      /\ \A i \in 1 .. Len(s) - 1 : Tail(s)[i] = s[i + 1]
  BY <1>1
<1>3. Head(s) = s[1]
  BY <1>1
<1>4. IsInjective(Tail(s))
  BY <1>1, <1>2 DEF IsInjective
<1>5. Range(Tail(s)) \subseteq Range(s) \ {Head(s)}
  BY <1>1, <1>2, <1>3 DEF IsInjective, Range
<1>6. Range(s) \ {Head(s)} \subseteq Range(Tail(s))
  <2> SUFFICES ASSUME NEW i \in 1 .. Len(s), s[i] # s[1] PROVE s[i] \in Range(Tail(s))
    BY <1>1, <1>3 DEF Range
  <2>1. i - 1 \in 1 .. Len(s) - 1 /\ Tail(s)[i - 1] = s[i]
    BY <1>1, <1>2
  <2> QED  BY <2>1, <1>2 DEF Range
<1>7. Head(s) \in Range(s)
  BY <1>1, <1>3 DEF Range
<1> QED  BY <1>2, <1>4, <1>5, <1>6, <1>7

LEMMA SeqAppend ==
  ASSUME NEW s \in Seq(Nat), NEW x \in Nat
  PROVE  /\ Append(s, x) \in Seq(Nat)
         /\ Range(Append(s, x)) = Range(s) \cup {x}
         /\ IsInjective(s) /\ x \notin Range(s) => IsInjective(Append(s, x))
<1> DEFINE t == Append(s, x)
<1>1. /\ Len(s) \in Nat /\ DOMAIN s = 1 .. Len(s)
      /\ t \in Seq(Nat) /\ DOMAIN t = 1 .. Len(s) + 1
      /\ \A i \in 1 .. Len(s) : t[i] = s[i]
      /\ t[Len(s) + 1] = x
  OBVIOUS
<1> HIDE DEF t
<1>2. Range(t) \subseteq Range(s) \cup {x}
  <2> SUFFICES ASSUME NEW i \in 1 .. Len(s) + 1 PROVE t[i] \in Range(s) \cup {x}
    BY <1>1 DEF Range
  <2>1. i \in 1 .. Len(s) \/ i = Len(s) + 1
    BY <1>1
  <2> QED  BY <1>1, <2>1 DEF Range
<1>3. Range(s) \cup {x} \subseteq Range(t)
  BY <1>1 DEF Range
<1>4. IsInjective(s) /\ x \notin Range(s) => IsInjective(t)
  <2> SUFFICES ASSUME IsInjective(s), x \notin Range(s),
                      NEW i \in 1 .. Len(s) + 1, NEW j \in 1 .. Len(s) + 1, t[i] = t[j]
               PROVE  i = j
    BY <1>1 DEF IsInjective
  <2>1. \A k \in 1 .. Len(s) + 1 : k \in 1 .. Len(s) \/ k = Len(s) + 1
    BY <1>1
  <2>2. \A k \in 1 .. Len(s) : t[k] # x
    BY <1>1 DEF Range
  <2> QED  BY <1>1, <2>1, <2>2 DEF IsInjective
<1> QED  BY <1>1, <1>2, <1>3, <1>4 DEF t

\* The blocks that list_remove_all has kept of the first i satisfy its equation.
Kept(s, X, g, n) ==
  g = [i \in 0 .. n |-> IF i = 0 THEN <<>>
                        ELSE IF s[i] \in X THEN g[i - 1] ELSE Append(g[i - 1], s[i])]

LEMMA KeptExists ==
  ASSUME NEW s, NEW X, NEW n \in Nat
  PROVE  \E g : Kept(s, X, g, n)
<1> DEFINE S == {m \in Nat : \E g : Kept(s, X, g, m)}
<1>1. 0 \in S
  <2> DEFINE h == [i \in 0 .. 0 |-> <<>>]
  <2>1. Kept(s, X, h, 0)
    BY DEF Kept
  <2> QED  BY <2>1
<1>2. ASSUME NEW m \in Nat, m \in S PROVE m + 1 \in S
  <2>1. PICK g : Kept(s, X, g, m)
    BY <1>2
  <2> DEFINE h == [i \in 0 .. m + 1 |->
                     IF i = m + 1
                     THEN IF s[m + 1] \in X THEN g[m] ELSE Append(g[m], s[m + 1])
                     ELSE g[i]]
  <2>2. \A i \in 0 .. m : h[i] = g[i]
    OBVIOUS
  <2>3. ASSUME NEW i \in 0 .. m + 1
        PROVE  h[i] = IF i = 0 THEN <<>>
                      ELSE IF s[i] \in X THEN h[i - 1] ELSE Append(h[i - 1], s[i])
    <3>1. CASE i = m + 1
      <4>1. h[i - 1] = g[m] /\ i # 0
        BY <3>1, <2>2
      <4> QED  BY <3>1, <4>1
    <3>2. CASE i \in 0 .. m
      <4>1. h[i] = IF i = 0 THEN <<>>
                   ELSE IF s[i] \in X THEN g[i - 1] ELSE Append(g[i - 1], s[i])
        BY <3>2, <2>1, <2>2 DEF Kept
      <4>2. i # 0 => h[i - 1] = g[i - 1]
        BY <3>2, <2>2
      <4> HIDE DEF h
      <4> QED  BY <4>1, <4>2
    <3> QED  BY <3>1, <3>2
  <2>4. Kept(s, X, h, m + 1)
    <3>1. h = [i \in 0 .. m + 1 |-> h[i]]
      OBVIOUS
    <3> HIDE DEF h
    <3> QED  BY <2>3, <3>1 DEF Kept
  <2> HIDE DEF h
  <2> QED  BY <2>4
<1> HIDE DEF S
<1>3. n \in S
  BY <1>1, <1>2, Induction
<1> QED  BY <1>3 DEF S

\* list_remove_all keeps the elements that are not in X, each once.
LEMMA RemoveAll ==
  ASSUME NEW s \in Seq(Nat), IsInjective(s), NEW X
  PROVE  /\ list_remove_all(s, X) \in Seq(Nat)
         /\ IsInjective(list_remove_all(s, X))
         /\ Range(list_remove_all(s, X)) = Range(s) \ X
<1> DEFINE n == Len(s)
           f == CHOOSE g : Kept(s, X, g, n)
<1>1. n \in Nat /\ DOMAIN s = 1 .. n /\ \A i \in 1 .. n : s[i] \in Nat
  OBVIOUS
<1>2. list_remove_all(s, X) = f[n]
  BY DEF list_remove_all, Kept
<1>3. Kept(s, X, f, n)
  BY <1>1, KeptExists
<1> HIDE DEF n, f
<1> DEFINE Good(m) == /\ f[m] \in Seq(Nat) /\ IsInjective(f[m])
                      /\ Range(f[m]) = {s[i] : i \in 1 .. m} \ X
           S == {m \in Nat : m <= n => Good(m)}
<1>4. 0 \in S
  <2>1. f[0] = <<>>
    BY <1>1, <1>3 DEF Kept
  <2>2. <<>> \in Seq(Nat) /\ IsInjective(<<>>) /\ Range(<<>>) = {}
    BY DEF IsInjective, Range
  <2>3. {s[i] : i \in 1 .. 0} = {}
    OBVIOUS
  <2> QED  BY <2>1, <2>2, <2>3
<1>5. ASSUME NEW m \in Nat, m \in S PROVE m + 1 \in S
  <2> SUFFICES ASSUME m + 1 <= n PROVE Good(m + 1)
    OBVIOUS
  <2>1. Good(m)
    BY <1>1, <1>5
  <2>2. m + 1 \in 1 .. n /\ s[m + 1] \in Nat
    BY <1>1
  <2>3. f[m + 1] = IF s[m + 1] \in X THEN f[m] ELSE Append(f[m], s[m + 1])
    <3>1. \A k \in 1 .. n : f[k] = IF s[k] \in X THEN f[k - 1] ELSE Append(f[k - 1], s[k])
      <4> TAKE k \in 1 .. n
      <4>1. k \in 0 .. n /\ k # 0
        BY <1>1
      <4> QED  BY <4>1, <1>3, Zenon DEF Kept
    <3>2. (m + 1) - 1 = m
      OBVIOUS
    <3> QED  BY <2>2, <3>1, <3>2
  <2>4. {s[i] : i \in 1 .. m + 1} = {s[i] : i \in 1 .. m} \cup {s[m + 1]}
    <3>1. 1 .. m + 1 = (1 .. m) \cup {m + 1}
      OBVIOUS
    <3> QED  BY <3>1
  <2>5. s[m + 1] \notin Range(f[m])
    <3>1. \A i \in 1 .. m : s[i] # s[m + 1]
      BY <1>1, <2>2 DEF IsInjective
    <3> QED  BY <3>1, <2>1
  <2>6. CASE s[m + 1] \in X
    BY <2>1, <2>3, <2>4, <2>6
  <2>7. CASE s[m + 1] \notin X
    <3>1. /\ Append(f[m], s[m + 1]) \in Seq(Nat)
          /\ Range(Append(f[m], s[m + 1])) = Range(f[m]) \cup {s[m + 1]}
          /\ IsInjective(Append(f[m], s[m + 1]))
      BY <2>1, <2>2, <2>5, SeqAppend
    <3> QED  BY <2>1, <2>3, <2>4, <2>7, <3>1
  <2> QED  BY <2>6, <2>7
<1> HIDE DEF S
<1>6. n \in S
  BY <1>1, <1>4, <1>5, Induction
<1>7. Good(n)
  BY <1>6, <1>1 DEF S
<1>8. {s[i] : i \in 1 .. n} = Range(s)
  BY <1>1 DEF Range
<1> QED  BY <1>2, <1>7, <1>8
-----------------------------------------------------------------------------
\* block_desc_init: the sizes of the blocks, and how many an arena has.
LEMMA Descriptors ==
  ASSUME NEW d \in Descs
  PROVE  <<block_size(d), blocks_per_arena(d)>> \in
           {<<16, 255>>, <<32, 127>>, <<64, 63>>, <<128, 31>>, <<256, 15>>, <<512, 7>>, <<1024, 3>>}
<1>1. /\ 2 ^ 0 = 1 /\ 2 ^ 1 = 2 /\ 2 ^ 2 = 4 /\ 2 ^ 3 = 8 /\ 2 ^ 4 = 16 /\ 2 ^ 5 = 32 /\ 2 ^ 6 = 64
  OBVIOUS
<1>2. CASE d = 1  BY <1>1, <1>2 DEF block_size, blocks_per_arena, PG_SIZE, ArenaHdr
<1>3. CASE d = 2  BY <1>1, <1>3 DEF block_size, blocks_per_arena, PG_SIZE, ArenaHdr
<1>4. CASE d = 3  BY <1>1, <1>4 DEF block_size, blocks_per_arena, PG_SIZE, ArenaHdr
<1>5. CASE d = 4  BY <1>1, <1>5 DEF block_size, blocks_per_arena, PG_SIZE, ArenaHdr
<1>6. CASE d = 5  BY <1>1, <1>6 DEF block_size, blocks_per_arena, PG_SIZE, ArenaHdr
<1>7. CASE d = 6  BY <1>1, <1>7 DEF block_size, blocks_per_arena, PG_SIZE, ArenaHdr
<1>8. CASE d = 7  BY <1>1, <1>8 DEF block_size, blocks_per_arena, PG_SIZE, ArenaHdr
<1> QED  BY <1>2, <1>3, <1>4, <1>5, <1>6, <1>7, <1>8 DEF Descs, DESC_CNT

\* So the blocks of an arena fit behind its header.
LEMMA DescFacts ==
  ASSUME NEW d \in Descs
  PROVE  /\ block_size(d) \in Nat \ {0} /\ blocks_per_arena(d) \in Nat \ {0, 1}
         /\ ArenaHdr + blocks_per_arena(d) * block_size(d) <= PG_SIZE
  BY Descriptors DEF ArenaHdr, PG_SIZE

\* block2arena finds the page that a pointer points into.
LEMMA PageOf ==
  ASSUME NEW a \in Nat, NEW p \in Nat, a * PG_SIZE <= p, p < (a + 1) * PG_SIZE
  PROVE  block2arena(p) = a
BY DEF block2arena, PG_SIZE

\* desc_idx finds a descriptor whose blocks are large enough.
LEMMA DescIdx ==
  ASSUME NEW size \in Nat, size <= 1024
  PROVE  desc_idx(size) \in Descs /\ size <= block_size(desc_idx(size))
<1> DEFINE S == {d \in Descs : size <= block_size(d)}
<1>1. block_size(7) = 1024
  <2>1. 2 ^ 6 = 64
    OBVIOUS
  <2> QED  BY <2>1 DEF block_size
<1>2. S \subseteq Nat /\ S # {}
  BY <1>1 DEF Descs, DESC_CNT
<1>3. PICK d \in S : \A e \in S : d <= e
  BY <1>2, Smallest
<1>4. \A e \in 1 .. d - 1 : size > block_size(e)
  <2> TAKE e \in 1 .. d - 1
  <2>1. e \in Descs /\ e \notin S
    BY <1>3 DEF Descs, DESC_CNT
  <2> QED  BY <2>1, DescFacts
<1>5. d \in Descs /\ size <= block_size(d)
  BY <1>3
<1> HIDE DEF S
<1> QED  BY <1>4, <1>5 DEF desc_idx

\* The blocks of an arena lie behind its header, in its page, and apart.
LEMMA BlockFacts ==
  ASSUME NEW a \in Nat, NEW d \in Descs
  PROVE  /\ Blocks(a, d) \in Seq(Nat) /\ Len(Blocks(a, d)) = blocks_per_arena(d)
         /\ IsInjective(Blocks(a, d))
         /\ \A b \in Range(Blocks(a, d)) :
              /\ b \in Nat /\ block2arena(b) = a
              /\ a * PG_SIZE + ArenaHdr <= b /\ b + block_size(d) <= (a + 1) * PG_SIZE
         /\ \A b, c \in Range(Blocks(a, d)) :
              b # c => b + block_size(d) <= c \/ c + block_size(d) <= b
<1> DEFINE n == blocks_per_arena(d)
           s == block_size(d)
           base == a * PG_SIZE + ArenaHdr
<1>1. n \in Nat \ {0} /\ s \in Nat \ {0} /\ ArenaHdr + n * s <= PG_SIZE
  BY DescFacts
<1>2. base \in Nat /\ a * PG_SIZE \in Nat /\ (a + 1) * PG_SIZE = a * PG_SIZE + PG_SIZE
  BY DEF PG_SIZE, ArenaHdr
<1>3. \A i \in 1 .. n : Blocks(a, d)[i] = base + (i - 1) * s
  BY <1>1 DEF Blocks, arena2block
<1>4. Blocks(a, d) = [i \in 1 .. n |-> base + (i - 1) * s]
  BY DEF Blocks, arena2block
<1>5. \A i \in 1 .. n : (i - 1) * s \in Nat /\ i * s \in Nat /\ i * s = (i - 1) * s + s
  BY <1>1
<1>6. \A i, j \in 1 .. n : i < j => i * s <= (j - 1) * s
  BY <1>1
<1>7. \A i \in 1 .. n : i * s <= n * s
  BY <1>1
<1> HIDE DEF n, s, base
<1>8. \A i, j \in 1 .. n : i # j => \/ base + (i - 1) * s + s <= base + (j - 1) * s
                                  \/ base + (j - 1) * s + s <= base + (i - 1) * s
  <2> TAKE i, j \in 1 .. n
  <2> HAVE i # j
  <2>1. i < j \/ j < i
    BY <1>1
  <2> PICK x : x = (i - 1) * s
    OBVIOUS
  <2> PICK y : y = (j - 1) * s
    OBVIOUS
  <2>2. x \in Nat /\ y \in Nat /\ s \in Nat /\ (x + s <= y \/ y + s <= x)
    BY <2>1, <1>1, <1>5, <1>6
  <2>3. base + x + s <= base + y \/ base + y + s <= base + x
    BY <2>2, <1>2
  <2> QED  BY <2>3
<1>9. Blocks(a, d) \in Seq(Nat) /\ Len(Blocks(a, d)) = n /\ DOMAIN Blocks(a, d) = 1 .. n
  BY <1>1, <1>2, <1>4, <1>5
<1>10. IsInjective(Blocks(a, d))
  <2> SUFFICES ASSUME NEW i \in 1 .. n, NEW j \in 1 .. n, i # j
               PROVE  Blocks(a, d)[i] # Blocks(a, d)[j]
    BY <1>9 DEF IsInjective
  <2>1. (i - 1) * s \in Nat /\ (j - 1) * s \in Nat
    BY <1>5
  <2>2. \/ base + (i - 1) * s + s <= base + (j - 1) * s
        \/ base + (j - 1) * s + s <= base + (i - 1) * s
    BY <1>8
  <2>3. base + (i - 1) * s # base + (j - 1) * s
    BY <2>1, <2>2, <1>1, <1>2
  <2> QED  BY <2>3, <1>3
<1>11. Range(Blocks(a, d)) = {base + (i - 1) * s : i \in 1 .. n}
  BY <1>4, <1>9, <1>3 DEF Range
<1>12. ASSUME NEW i \in 1 .. n
       PROVE  /\ base + (i - 1) * s \in Nat /\ block2arena(base + (i - 1) * s) = a
              /\ base <= base + (i - 1) * s /\ base + (i - 1) * s + s <= (a + 1) * PG_SIZE
  <2> PICK x : x = (i - 1) * s
    OBVIOUS
  <2> PICK y : y = n * s
    OBVIOUS
  <2>1. x \in Nat /\ y \in Nat /\ x + s <= y /\ ArenaHdr + y <= PG_SIZE
    BY <1>1, <1>5, <1>7
  <2>2. /\ base + x \in Nat /\ base <= base + x /\ base + x + s <= (a + 1) * PG_SIZE
        /\ a * PG_SIZE <= base + x /\ base + x < (a + 1) * PG_SIZE
    BY <2>1, <1>1, <1>2 DEF base, PG_SIZE, ArenaHdr
  <2>3. block2arena(base + x) = a
    BY <2>2, PageOf
  <2> QED  BY <2>2, <2>3
<1>13. /\ \A b \in Range(Blocks(a, d)) :
              /\ b \in Nat /\ block2arena(b) = a /\ base <= b /\ b + s <= (a + 1) * PG_SIZE
       /\ \A b, c \in Range(Blocks(a, d)) : b # c => b + s <= c \/ c + s <= b
  BY <1>8, <1>11, <1>12
<1> QED  BY <1>9, <1>10, <1>13 DEF n, s, base
-----------------------------------------------------------------------------
\* What an arena is, and how many pages it has.
LEMMA ArenaFacts ==
  ASSUME ArenaInv, NEW a \in DOMAIN arena
  PROVE  /\ a \in Nat /\ a \in vbits /\ a \in Pages(a)
         /\ arena[a].cnt \in Nat
         /\ arena[a].large \in BOOLEAN
         /\ arena[a].large => arena[a].desc = 0 /\ arena[a].cnt # 0
         /\ ~arena[a].large => arena[a].desc \in Descs
         /\ Cardinality(Pages(a)) = IF arena[a].large THEN arena[a].cnt ELSE 1
         /\ Pages(a) = a .. a + Cardinality(Pages(a)) - 1
         /\ Cardinality(Pages(a)) \in Nat \ {0}
<1>1. /\ arena[a] \in Arenas
      /\ arena[a].large => arena[a].desc = 0 /\ arena[a].cnt # 0
      /\ ~arena[a].large => arena[a].desc # 0
  BY DEF ArenaInv
<1>2. /\ arena[a].cnt \in Nat
      /\ arena[a].large \in BOOLEAN
      /\ arena[a].large => arena[a].desc = 0 /\ arena[a].cnt # 0
      /\ ~arena[a].large => arena[a].desc \in Descs
  BY <1>1 DEF Arenas, Descs, DESC_CNT
<1>3. a \in Nat
  BY DEF ArenaInv
<1>4. PICK n : n = IF arena[a].large THEN arena[a].cnt ELSE 1
  OBVIOUS
<1>5. n \in Nat \ {0}
  BY <1>2, <1>4
<1>6. Pages(a) = a .. a + n - 1
  <2>1. CASE arena[a].large
    BY <1>4, <2>1 DEF Pages
  <2>2. CASE ~arena[a].large
    <3>1. a .. a + 1 - 1 = {a}
      BY <1>3
    <3> QED  BY <1>4, <2>2, <3>1 DEF Pages
  <2> QED  BY <2>1, <2>2
<1>7. Cardinality(Pages(a)) = n
  BY <1>3, <1>5, <1>6, FS_Interval
<1>8. a \in Pages(a)
  BY <1>3, <1>5, <1>6
<1>9. a \in vbits
  BY <1>8 DEF ArenaInv
<1> QED  BY <1>2, <1>3, <1>4, <1>5, <1>6, <1>7, <1>8, <1>9

\* Two arenas: the pages of the first end before the second.
LEMMA Apart ==
  ASSUME ArenaInv, NEW a \in DOMAIN arena, NEW b \in DOMAIN arena, a < b
  PROVE  a + Cardinality(Pages(a)) <= b
<1>1. b \notin Pages(a)
  <2>1. b \in Pages(b) /\ a \in Nat /\ b \in Nat
    BY ArenaFacts
  <2> QED  BY <2>1 DEF ArenaInv
<1>2. /\ a \in Nat /\ b \in Nat /\ Cardinality(Pages(a)) \in Nat
      /\ Pages(a) = a .. a + Cardinality(Pages(a)) - 1
  BY ArenaFacts
<1> QED  BY <1>1, <1>2

\* What a pointer that was handed out points to lies in its arena.
LEMMA LiveFacts ==
  ASSUME ArenaInv, LiveInv, NEW p \in DOMAIN live, NEW a, a = block2arena(p)
  PROVE  /\ p \in Nat /\ live[p] \in Nat /\ a \in DOMAIN arena
         /\ a * PG_SIZE + ArenaHdr <= p
         /\ p + live[p] <= (a + Cardinality(Pages(a))) * PG_SIZE
<1>1. p \in Nat /\ live[p] \in Nat /\ a \in DOMAIN arena
  BY HeapAssumption DEF LiveInv, LivePtr
<1>2. PICK n \in Nat \ {0} :
        n = Cardinality(Pages(a)) /\ n = IF arena[a].large THEN arena[a].cnt ELSE 1
  BY <1>1, ArenaFacts
<1>3. a \in Nat
  BY <1>1, ArenaFacts
<1>4. CASE arena[a].large
  <2>1. p = a * PG_SIZE + ArenaHdr /\ live[p] + ArenaHdr <= n * PG_SIZE
    BY <1>2, <1>4 DEF LiveInv, LivePtr
  <2>2. p + live[p] <= (a + n) * PG_SIZE
    BY <1>1, <1>2, <1>3, <2>1 DEF PG_SIZE, ArenaHdr
  <2> QED  BY <1>1, <1>2, <1>3, <2>1, <2>2 DEF PG_SIZE, ArenaHdr
<1>5. CASE ~arena[a].large
  <2>1. PICK d \in Descs : d = arena[a].desc
    BY <1>1, <1>5, ArenaFacts
  <2>2. p \in Range(Blocks(a, d)) /\ live[p] <= block_size(d)
    BY <1>5, <2>1 DEF LiveInv, LivePtr, BlocksOf
  <2>3. a * PG_SIZE + ArenaHdr <= p /\ p + block_size(d) <= (a + 1) * PG_SIZE
    BY <2>2, <1>3, BlockFacts
  <2>4. p + live[p] <= (a + 1) * PG_SIZE
    BY <1>1, <1>3, <2>2, <2>3, DescFacts DEF PG_SIZE
  <2>5. n = 1
    BY <1>2, <1>5
  <2> QED  BY <1>1, <1>2, <2>3, <2>4, <2>5
<1> QED  BY <1>4, <1>5, <1>1, ArenaFacts

\* Two stretches of memory in different arenas do not overlap.
LEMMA ApartBytes ==
  ASSUME ArenaInv, NEW a \in DOMAIN arena, NEW b \in DOMAIN arena, a # b,
         NEW p \in Nat, NEW m \in Nat, NEW q \in Nat, NEW n \in Nat,
         a * PG_SIZE <= p, p + m <= (a + Cardinality(Pages(a))) * PG_SIZE,
         b * PG_SIZE <= q, q + n <= (b + Cardinality(Pages(b))) * PG_SIZE
  PROVE  ~Overlap(p, m, q, n)
<1>1. PICK i \in Nat : i = Cardinality(Pages(a))
  BY ArenaFacts
<1>2. PICK j \in Nat : j = Cardinality(Pages(b))
  BY ArenaFacts
<1>3. a \in Nat /\ b \in Nat
  BY ArenaFacts
<1>4. a + i <= b \/ b + j <= a
  BY <1>1, <1>2, <1>3, Apart
<1> QED  BY <1>1, <1>2, <1>3, <1>4 DEF Overlap, PG_SIZE

\* A free block lies in its arena, which has blocks.
LEMMA FreeFacts ==
  ASSUME ArenaInv, FreeInv, NEW d \in Descs, NEW b \in Range(free[d]), NEW a, a = block2arena(b)
  PROVE  /\ b \in Nat /\ a \in DOMAIN arena /\ arena[a].desc = d /\ ~arena[a].large
         /\ b \in Range(Blocks(a, d)) /\ b \in FreeIn(a)
         /\ a * PG_SIZE + ArenaHdr <= b
         /\ b + block_size(d) <= (a + Cardinality(Pages(a))) * PG_SIZE
<1>1. a \in DOMAIN arena /\ arena[a].desc = d /\ b \in Range(Blocks(a, d))
  BY DEF FreeInv, FreeBlock, BlocksOf
<1>2. ~arena[a].large /\ Cardinality(Pages(a)) = 1 /\ a \in Nat
  <2>1. d # 0
    BY DEF Descs
  <2> QED  BY <1>1, <2>1, ArenaFacts
<1>3. b \in FreeIn(a)
  BY <1>1 DEF FreeIn, FreeOf
<1>4. b \in Nat /\ a * PG_SIZE + ArenaHdr <= b /\ b + block_size(d) <= (a + 1) * PG_SIZE
  BY <1>1, <1>2, BlockFacts
<1> QED  BY <1>1, <1>2, <1>3, <1>4

-----------------------------------------------------------------------------
\* The invariant implies the properties that the run checks.
LEMMA InvTypeOK == HeapInv => HeapTypeOK
<1> SUFFICES ASSUME HeapInv PROVE HeapTypeOK
  OBVIOUS
<1>1. vbits \subseteq 0 .. HeapBytes
  BY DEF HeapInv, ArenaInv
<1>2. DOMAIN arena \subseteq vbits
  BY ArenaFacts DEF HeapInv
<1>3. \A p \in DOMAIN arena : arena[p] \in [desc : 0 .. DESC_CNT, cnt : Nat, large : BOOLEAN]
  BY DEF HeapInv, ArenaInv, Arenas
<1>4. free \in [Descs -> Seq(Nat)]
  BY DEF HeapInv, FreeInv
<1>5. DOMAIN live \subseteq Nat /\ \A p \in DOMAIN live : live[p] \in Sizes
  BY DEF HeapInv, LiveInv, LivePtr
<1> QED  BY <1>1, <1>2, <1>3, <1>4, <1>5 DEF HeapTypeOK

\* What is handed out lies in its arena, and blocks and arenas lie apart.
LEMMA InvNoOverlap == HeapInv => NoOverlap
<1> SUFFICES ASSUME ArenaInv, LiveInv, FreeInv PROVE NoOverlap
  BY DEF HeapInv
<1>1. ASSUME NEW p \in DOMAIN live, NEW q \in DOMAIN live, p # q
      PROVE  ~Overlap(p, live[p], q, live[q])
  <2>1. PICK a : a = block2arena(p)
    OBVIOUS
  <2>2. PICK b : b = block2arena(q)
    OBVIOUS
  <2>3. /\ p \in Nat /\ live[p] \in Nat /\ a \in DOMAIN arena /\ a \in Nat
        /\ a * PG_SIZE <= p /\ p + live[p] <= (a + Cardinality(Pages(a))) * PG_SIZE
    BY <2>1, LiveFacts, ArenaFacts DEF ArenaHdr, PG_SIZE
  <2>4. /\ q \in Nat /\ live[q] \in Nat /\ b \in DOMAIN arena /\ b \in Nat
        /\ b * PG_SIZE <= q /\ q + live[q] <= (b + Cardinality(Pages(b))) * PG_SIZE
    BY <2>2, LiveFacts, ArenaFacts DEF ArenaHdr, PG_SIZE
  <2>5. CASE a # b
    BY <2>3, <2>4, <2>5, ApartBytes
  <2>6. CASE a = b
    <3>1. ~arena[a].large
      BY <2>1, <2>2, <2>6, <1>1 DEF LiveInv, LivePtr
    <3>2. PICK d \in Descs : d = arena[a].desc
      BY <2>3, <3>1, ArenaFacts
    <3>3. /\ p \in Range(Blocks(a, d)) /\ live[p] <= block_size(d)
          /\ q \in Range(Blocks(a, d)) /\ live[q] <= block_size(d)
      BY <2>1, <2>2, <2>6, <3>1, <3>2 DEF LiveInv, LivePtr, BlocksOf
    <3>4. p + block_size(d) <= q \/ q + block_size(d) <= p
      BY <1>1, <2>3, <3>3, BlockFacts
    <3> QED  BY <2>3, <2>4, <3>3, <3>4, DescFacts DEF Overlap
  <2> QED  BY <2>5, <2>6
<1>2. ASSUME NEW p \in DOMAIN live, NEW d \in Descs, NEW b \in Range(free[d])
      PROVE  ~Overlap(p, live[p], b, block_size(d))
  <2>1. PICK a : a = block2arena(p)
    OBVIOUS
  <2>2. PICK c : c = block2arena(b)
    OBVIOUS
  <2>3. /\ p \in Nat /\ live[p] \in Nat /\ a \in DOMAIN arena /\ a \in Nat
        /\ a * PG_SIZE <= p /\ p + live[p] <= (a + Cardinality(Pages(a))) * PG_SIZE
    BY <2>1, LiveFacts, ArenaFacts DEF ArenaHdr, PG_SIZE
  <2>4. /\ b \in Nat /\ c \in DOMAIN arena /\ arena[c].desc = d /\ ~arena[c].large
        /\ b \in Range(Blocks(c, d)) /\ c \in Nat
        /\ c * PG_SIZE <= b
        /\ b + block_size(d) <= (c + Cardinality(Pages(c))) * PG_SIZE
    <3>1. /\ b \in Nat /\ c \in DOMAIN arena /\ arena[c].desc = d /\ ~arena[c].large
          /\ b \in Range(Blocks(c, d))
          /\ c * PG_SIZE + ArenaHdr <= b
          /\ b + block_size(d) <= (c + Cardinality(Pages(c))) * PG_SIZE
      BY <2>2, FreeFacts
    <3>2. c \in Nat
      BY <3>1, ArenaFacts
    <3>3. c * PG_SIZE <= b
      BY <3>1, <3>2 DEF ArenaHdr, PG_SIZE
    <3> QED  BY <3>1, <3>2, <3>3
  <2>5. CASE a # c
    BY <2>3, <2>4, <2>5, ApartBytes, DescFacts
  <2>6. CASE a = c
    <3>1. p \in Range(Blocks(a, d)) /\ p # b /\ live[p] <= block_size(d)
      BY <2>1, <2>4, <2>6 DEF LiveInv, LivePtr, BlocksOf, FreeOf
    <3>2. p + block_size(d) <= b \/ b + block_size(d) <= p
      BY <2>3, <2>4, <2>6, <3>1, BlockFacts
    <3> QED  BY <2>3, <2>4, <3>1, <3>2, DescFacts DEF Overlap
  <2> QED  BY <2>5, <2>6
<1>3. ASSUME NEW p \in DOMAIN live, NEW b \in DOMAIN arena
      PROVE  ~Overlap(p, live[p], b * PG_SIZE, ArenaHdr)
  <2>1. PICK a : a = block2arena(p)
    OBVIOUS
  <2>2. /\ p \in Nat /\ live[p] \in Nat /\ a \in DOMAIN arena /\ a \in Nat
        /\ a * PG_SIZE + ArenaHdr <= p /\ p + live[p] <= (a + Cardinality(Pages(a))) * PG_SIZE
    BY <2>1, LiveFacts, ArenaFacts
  <2>3. CASE a # b
    <3>1. PICK n \in Nat \ {0} : n = Cardinality(Pages(b))
      BY ArenaFacts
    <3>2. b \in Nat
      BY ArenaFacts
    <3>3. b * PG_SIZE \in Nat /\ b * PG_SIZE + ArenaHdr <= (b + n) * PG_SIZE /\ ArenaHdr \in Nat
      BY <3>1, <3>2 DEF ArenaHdr, PG_SIZE
    <3>4. a * PG_SIZE <= p
      BY <2>2 DEF ArenaHdr, PG_SIZE
    <3>5. b * PG_SIZE <= b * PG_SIZE
      BY <3>3
    <3> QED  BY <2>2, <2>3, <3>1, <3>3, <3>4, <3>5, ApartBytes
  <2>4. CASE a = b
    BY <2>2, <2>4 DEF Overlap, ArenaHdr, PG_SIZE
  <2> QED  BY <2>3, <2>4
<1>4. ASSUME NEW p \in DOMAIN live
      PROVE  LET a == block2arena(p) IN
               /\ a \in DOMAIN arena
               /\ p + live[p] <= (a + Cardinality(Pages(a))) * PG_SIZE
  BY LiveFacts
<1> QED  BY <1>1, <1>2, <1>3, <1>4 DEF NoOverlap

\* The lists are the invariant's own words.
LEMMA InvFreeLists == HeapInv => FreeListsInv
<1> SUFFICES ASSUME ArenaInv, FreeInv PROVE FreeListsInv
  BY DEF HeapInv
<1>1. \A d \in Descs : IsInjective(free[d])
  BY DEF FreeInv
<1>2. ASSUME NEW d \in Descs, NEW b \in Range(free[d])
      PROVE  LET a == block2arena(b) IN
             a \in DOMAIN arena /\ arena[a].desc = d /\ b \in Range(Blocks(a, d))
  BY FreeFacts
<1>3. \A a \in DOMAIN arena : ~arena[a].large =>
         arena[a].cnt = Cardinality({b \in Range(free[arena[a].desc]) : block2arena(b) = a})
  BY DEF FreeInv, Counted, FreeIn, FreeOf
<1> QED  BY <1>1, <1>2, <1>3 DEF FreeListsInv

\* So are the pages.
LEMMA InvNoPageLeaked == HeapInv => NoPageLeaked
<1> SUFFICES ASSUME ArenaInv, LiveInv PROVE NoPageLeaked
  BY DEF HeapInv
<1>1. DOMAIN arena = {block2arena(p) : p \in DOMAIN live}
  BY DEF LiveInv, LivePtr
<1> QED  BY <1>1 DEF NoPageLeaked, ArenaInv

\* A heap from which nothing was taken.
LEMMA InitHeap == Init => HeapInv
<1> SUFFICES ASSUME Init PROVE HeapInv
  OBVIOUS
<1>1. DOMAIN arena = {} /\ DOMAIN live = {}
  BY DEF Init
<1>2. ArenaInv
  BY <1>1 DEF Init, ArenaInv
<1>3. LiveInv
  BY <1>1 DEF LiveInv
<1>4. Range(<<>>) = {} /\ IsInjective(<<>>) /\ <<>> \in Seq(Nat)
  BY DEF Range, IsInjective
<1>5. FreeInv
  BY <1>1, <1>4 DEF Init, FreeInv
<1> QED  BY <1>2, <1>3, <1>5 DEF HeapInv
-----------------------------------------------------------------------------
\* bitmap_scan returns -1, or the start of a free run within the bitmap.
LEMMA ScanFree ==
  ASSUME NEW used, NEW n \in Nat \ {0}, NEW bytes \in Nat,
         NEW k, k = bitmap_scan(used, n, bytes), k # -1
  PROVE  k \in Nat /\ k + n < bytes /\ \A x \in k .. k + n - 1 : x \notin used
<1> DEFINE S == Starts(used, n, bytes)
<1>1. S # {} /\ k = CHOOSE i \in S : \A j \in S : i <= j
  BY DEF bitmap_scan
<1>2. \A i \in S : i \in Nat /\ i + n < bytes /\ \A x \in i .. i + n - 1 : x \notin used
  BY DEF Starts, FreeRun
<1> HIDE DEF S
<1>3. \E i \in S : \A j \in S : i <= j
  BY <1>1, <1>2, Smallest
<1>4. k \in S
  BY <1>1, <1>3
<1> QED  BY <1>2, <1>4

\* A function without one of its arguments.
LEMMA WithoutFacts ==
  ASSUME NEW f, NEW x
  PROVE  /\ DOMAIN Without(f, x) = DOMAIN f \ {x}
         /\ \A y \in DOMAIN f : y # x => Without(f, x)[y] = f[y]
BY DEF Without

\* A new arena takes the pages that malloc_page has found.
LEMMA AddArena ==
  ASSUME ArenaInv, NEW k \in Nat, NEW n \in Nat \ {0}, k + n < HeapBytes,
         \A x \in k .. k + n - 1 : x \notin vbits,
         NEW r \in Arenas, n = IF r.large THEN r.cnt ELSE 1,
         r.large => r.desc = 0, ~r.large => r.desc # 0,
         arena' = With(arena, k, r), vbits' = bitmap_set(vbits, k, n, 1)
  PROVE  /\ ArenaInv'
         /\ DOMAIN arena' = DOMAIN arena \cup {k} /\ k \notin DOMAIN arena
         /\ arena'[k] = r
         /\ \A a \in DOMAIN arena : a # k /\ arena'[a] = arena[a]
<1>1. k \in k .. k + n - 1
  OBVIOUS
<1>2. k \notin DOMAIN arena
  BY <1>1, ArenaFacts
<1>3. DOMAIN arena' = DOMAIN arena \cup {k} /\ arena'[k] = r
  BY DEF With
<1>4. \A a \in DOMAIN arena : a # k /\ arena'[a] = arena[a]
  BY <1>2 DEF With
<1>5. Pages(k)' = k .. k + n - 1
  <2>1. CASE r.large
    BY <1>3, <2>1 DEF Pages
  <2>2. CASE ~r.large
    <3>1. k .. k + 1 - 1 = {k}
      OBVIOUS
    <3> QED  BY <1>3, <2>2, <3>1 DEF Pages
  <2> QED  BY <2>1, <2>2
<1>6. \A a \in DOMAIN arena : Pages(a)' = Pages(a)
  BY <1>4 DEF Pages
<1>7. vbits' = vbits \cup (k .. k + n - 1)
  BY DEF bitmap_set
<1>8. \A a \in DOMAIN arena : Pages(a) \subseteq vbits
  BY DEF ArenaInv
<1>9. \A a \in DOMAIN arena' :
        /\ a \in Nat /\ arena'[a] \in Arenas
        /\ arena'[a].large => arena'[a].desc = 0 /\ arena'[a].cnt # 0
        /\ ~arena'[a].large => arena'[a].desc # 0
  BY <1>3, <1>4 DEF ArenaInv
<1>10. \A a \in DOMAIN arena' : Pages(a)' \subseteq 0 .. HeapBytes
  <2>1. k .. k + n - 1 \subseteq 0 .. HeapBytes
    BY HeapAssumption
  <2> QED  BY <2>1, <1>3, <1>5, <1>6 DEF ArenaInv
<1>11. vbits' = UNION {Pages(a)' : a \in DOMAIN arena'}
  <2>1. UNION {Pages(a)' : a \in DOMAIN arena'} 
        = (UNION {Pages(a)' : a \in DOMAIN arena}) \cup Pages(k)'
    BY <1>3
  <2>2. UNION {Pages(a)' : a \in DOMAIN arena} = UNION {Pages(a) : a \in DOMAIN arena}
    BY <1>6
  <2> QED  BY <2>1, <2>2, <1>5, <1>7 DEF ArenaInv
<1>12. \A a, b \in DOMAIN arena' : a # b => Pages(a)' \cap Pages(b)' = {}
  <2>1. \A a \in DOMAIN arena : Pages(a)' \cap Pages(k)' = {}
    BY <1>5, <1>6, <1>8
  <2>2. \A a, b \in DOMAIN arena : a # b => Pages(a)' \cap Pages(b)' = {}
    BY <1>6 DEF ArenaInv
  <2> QED  BY <2>1, <2>2, <1>3
<1> QED  BY <1>2, <1>3, <1>4, <1>9, <1>10, <1>11, <1>12 DEF ArenaInv

\* An arena that goes gives its pages back.
LEMMA DropArena ==
  ASSUME ArenaInv, NEW k \in DOMAIN arena,
         arena' = Without(arena, k),
         vbits' = bitmap_set(vbits, k, Cardinality(Pages(k)), 0)
  PROVE  /\ ArenaInv'
         /\ DOMAIN arena' = DOMAIN arena \ {k}
         /\ \A a \in DOMAIN arena : a # k => arena'[a] = arena[a]
<1>1. DOMAIN arena' = DOMAIN arena \ {k} /\ \A a \in DOMAIN arena : a # k => arena'[a] = arena[a]
  BY WithoutFacts
<1>2. vbits' = vbits \ Pages(k)
  BY ArenaFacts DEF bitmap_set
<1>3. \A a \in DOMAIN arena' : Pages(a)' = Pages(a) /\ arena'[a] = arena[a]
  BY <1>1 DEF Pages
<1>4. vbits' = UNION {Pages(a)' : a \in DOMAIN arena'}
  BY <1>1, <1>2, <1>3 DEF ArenaInv
<1> QED  BY <1>1, <1>3, <1>4 DEF ArenaInv

\* A step that changes no more of an arena of blocks than its count.
LEMMA RecountArena ==
  ASSUME ArenaInv, NEW k \in DOMAIN arena, ~arena[k].large, NEW n \in Nat,
         arena' = [arena EXCEPT ![k].cnt = n], vbits' = vbits
  PROVE  /\ ArenaInv'
         /\ DOMAIN arena' = DOMAIN arena
         /\ arena'[k].desc = arena[k].desc /\ arena'[k].large = arena[k].large
         /\ arena'[k].cnt = n
         /\ \A a \in DOMAIN arena : a # k => arena'[a] = arena[a]
<1>1. arena[k] \in Arenas
  BY DEF ArenaInv
<1>2. /\ DOMAIN arena' = DOMAIN arena
      /\ \A a \in DOMAIN arena : a # k => arena'[a] = arena[a]
      /\ arena'[k] = [arena[k] EXCEPT !.cnt = n]
  OBVIOUS
<1>3. /\ arena'[k] \in Arenas /\ arena'[k].desc = arena[k].desc
      /\ arena'[k].large = arena[k].large /\ arena'[k].cnt = n
  BY <1>1, <1>2 DEF Arenas
<1>4. \A a \in DOMAIN arena : Pages(a)' = Pages(a)
  BY <1>2, <1>3 DEF Pages
<1> QED  BY <1>2, <1>3, <1>4 DEF ArenaInv

\* A sequence without repetitions has as many elements as positions.
LEMMA RangeCard ==
  ASSUME NEW s \in Seq(Nat), IsInjective(s)
  PROVE  IsFiniteSet(Range(s)) /\ Cardinality(Range(s)) = Len(s)
<1> DEFINE n == Len(s)
<1>1. n \in Nat /\ DOMAIN s = 1 .. n
  OBVIOUS
<1>2. s \in Bijection(1 .. n, Range(s))
  BY <1>1 DEF Bijection, Injection, Surjection, IsInjective, Range
<1>3. ExistsBijection(1 .. n, Range(s))
  BY <1>2 DEF ExistsBijection
<1> QED  BY <1>1, <1>3, FS_CountingElements, FS_NatBijection

-----------------------------------------------------------------------------
\* A pointer keeps its block when its arena and the blocks of that stay.
LEMMA LiveStays ==
  ASSUME NEW p, LivePtr(p), NEW a, a = block2arena(p), a \in DOMAIN arena',
         arena'[a].desc = arena[a].desc, arena'[a].large = arena[a].large,
         arena[a].large => arena'[a].cnt = arena[a].cnt,
         live'[p] = live[p],
         ~arena[a].large => p \notin FreeOf(a)'
  PROVE  LivePtr(p)'
<1>1. BlocksOf(a)' = BlocksOf(a)
  BY DEF BlocksOf
<1> QED  BY <1>1 DEF LivePtr

\* So does a free block ...
LEMMA FreeStays ==
  ASSUME NEW d, NEW b, FreeBlock(d, b), NEW a, a = block2arena(b), a \in DOMAIN arena',
         arena'[a].desc = arena[a].desc
  PROVE  FreeBlock(d, b)'
BY DEF FreeBlock, BlocksOf

\* ... and the count of an arena, when no block of it comes or goes.
LEMMA CountStays ==
  ASSUME NEW a, Counted(a), arena'[a] = arena[a],
         FreeIn(a)' = FreeIn(a),
         BlocksOf(a) \cap FreeOf(a) \subseteq FreeOf(a)',
         BlocksOf(a) \cap DOMAIN live \subseteq DOMAIN live'
  PROVE  Counted(a)'
<1>1. BlocksOf(a)' = BlocksOf(a)
  BY DEF BlocksOf
<1> QED  BY <1>1 DEF Counted

\* malloc_page stops the machine when there is no run of pages.
LEMMA ScanAsserted ==
  ASSUME NEW n \in Nat, NEW i \in Int, i = -1
  PROVE  malloc_page_asserts(n, i) # {}
<1>1. "vaddr_get: no virtual pages" \in malloc_page_asserts(n, i)
  BY SMT DEF malloc_page_asserts, Failing
<1> QED  BY <1>1, Zenon

\* malloc_page succeeds: the pages are free, and within the bitmap.
LEMMA PagesFound ==
  ASSUME NEW n \in Nat \ {0}, NEW k, k = FirstFree(n), malloc_page_asserts(n, k) = {}
  PROVE  k \in Nat /\ k + n < HeapBytes /\ \A x \in k .. k + n - 1 : x \notin vbits
<1>1. k # -1
  <2> SUFFICES ASSUME k = -1 PROVE FALSE
    OBVIOUS
  <2>1. k \in Int
    OBVIOUS
  <2> QED  BY <2>1, ScanAsserted
<1> QED  BY <1>1, HeapAssumption, ScanFree DEF FirstFree

\* DIV_ROUND_UP gives pages enough for a request and the header.
LEMMA PagesEnough ==
  ASSUME NEW size \in Nat, NEW n, n = DIV_ROUND_UP(size + ArenaHdr, PG_SIZE)
  PROVE  n \in Nat \ {0} /\ size + ArenaHdr <= n * PG_SIZE
BY DEF DIV_ROUND_UP, ArenaHdr, PG_SIZE

\* A malloc that stops the machine has changed nothing.
LEMMA HeapSame ==
  ASSUME HeapInv, UNCHANGED <<vbits, arena, live, free>>
  PROVE  HeapInv'
<1>1. ArenaInv'
  <2>1. \A a : Pages(a)' = Pages(a)
    BY DEF Pages
  <2> QED  BY <2>1 DEF HeapInv, ArenaInv
<1>2. \A a : BlocksOf(a)' = BlocksOf(a) /\ FreeOf(a)' = FreeOf(a) /\ FreeIn(a)' = FreeIn(a)
  BY DEF BlocksOf, FreeOf, FreeIn
<1>3. LiveInv'
  <2>1. \A p : LivePtr(p) => LivePtr(p)'
    BY <1>2 DEF LivePtr
  <2> QED  BY <2>1 DEF HeapInv, LiveInv
<1>4. FreeInv'
  <2>1. \A d, b : FreeBlock(d, b) => FreeBlock(d, b)'
    BY <1>2 DEF FreeBlock
  <2>2. \A a : Counted(a) => Counted(a)'
    BY <1>2 DEF Counted
  <2> QED  BY <2>1, <2>2 DEF HeapInv, FreeInv
<1> QED  BY <1>1, <1>3, <1>4 DEF HeapInv

\* A pointer and a free block belong to arenas; so to no new one.
LEMMA OldArenas ==
  ASSUME HeapInv
  PROVE  /\ \A p \in DOMAIN live : LivePtr(p) /\ block2arena(p) \in DOMAIN arena
         /\ \A d \in Descs : \A b \in Range(free[d]) :
              FreeBlock(d, b) /\ block2arena(b) \in DOMAIN arena
         /\ \A a \in DOMAIN arena : Counted(a)
         /\ \A a \in DOMAIN arena : ~arena[a].large => arena[a].desc \in Descs
BY ArenaFacts DEF HeapInv, LiveInv, LivePtr, FreeInv, FreeBlock

\* sys_malloc of whole pages: a new arena with one pointer and no blocks.
LEMMA MallocLarge ==
  ASSUME HeapInv, NEW size \in Sizes, malloc_large(size)
  PROVE  HeapInv'
<1>1. PICK n : n = DIV_ROUND_UP(size + ArenaHdr, PG_SIZE)
  OBVIOUS
<1>2. PICK k : k = FirstFree(n)
  OBVIOUS
<1>3. CASE panic' # {}
  <2>1. UNCHANGED <<vbits, arena, live, free>>
    BY <1>3 DEF malloc_large
  <2> QED  BY <2>1, HeapSame
<1>4. CASE panic' = {}
  <2> DEFINE r == [desc |-> 0, cnt |-> n, large |-> TRUE]
  <2>1. PICK q : q = k * PG_SIZE + ArenaHdr
    OBVIOUS
  <2>2. /\ malloc_page_asserts(n, k) = {}
        /\ vbits' = bitmap_set(vbits, k, n, 1) /\ arena' = With(arena, k, r)
        /\ live' = With(live, q, size) /\ free' = free
    BY <1>1, <1>2, <1>4, <2>1 DEF malloc_large
  <2>3. size \in Nat /\ n \in Nat \ {0} /\ size + ArenaHdr <= n * PG_SIZE
    BY <1>1, PagesEnough, HeapAssumption
  <2>4. k \in Nat /\ k + n < HeapBytes /\ \A x \in k .. k + n - 1 : x \notin vbits
    BY <1>2, <2>2, <2>3, PagesFound
  <2>5. r \in Arenas /\ r.large /\ r.desc = 0 /\ r.cnt = n
    BY <2>3 DEF Arenas, DESC_CNT
  <2> HIDE DEF r
  <2>6. /\ ArenaInv'
        /\ DOMAIN arena' = DOMAIN arena \cup {k} /\ k \notin DOMAIN arena
        /\ arena'[k] = r
        /\ \A a \in DOMAIN arena : a # k /\ arena'[a] = arena[a]
    BY <2>2, <2>3, <2>4, <2>5, AddArena DEF HeapInv
  <2>7. q \in Nat /\ block2arena(q) = k
    <3>1. q \in Nat /\ k * PG_SIZE <= q /\ q < (k + 1) * PG_SIZE
      BY <2>1, <2>4 DEF PG_SIZE, ArenaHdr
    <3> QED  BY <3>1, <2>4, PageOf
  <2>8. q \notin DOMAIN live
    BY <2>6, <2>7, OldArenas
  <2>9. /\ DOMAIN live' = DOMAIN live \cup {q} /\ live'[q] = size
        /\ \A p \in DOMAIN live : live'[p] = live[p]
    BY <2>2, <2>8 DEF With
  <2>10. \A a \in DOMAIN arena : FreeOf(a)' = FreeOf(a) /\ FreeIn(a)' = FreeIn(a)
    BY <2>2, <2>6 DEF FreeOf, FreeIn
  <2>11. LiveInv'
    <3>1. LivePtr(q)'
      BY <2>1, <2>3, <2>5, <2>6, <2>7, <2>9 DEF LivePtr
    <3>2. ASSUME NEW p \in DOMAIN live PROVE LivePtr(p)'
      <4>1. PICK a : a = block2arena(p)
        OBVIOUS
      <4>2. LivePtr(p) /\ a \in DOMAIN arena
        BY <4>1, OldArenas
      <4>3. ~arena[a].large => p \notin FreeOf(a)'
        BY <4>1, <4>2, <2>10 DEF LivePtr
      <4> QED  BY <4>1, <4>2, <4>3, <2>6, <2>9, LiveStays
    <3>3. \A a \in DOMAIN arena' : \E p \in DOMAIN live' : block2arena(p) = a
      BY <2>6, <2>7, <2>9 DEF HeapInv, LiveInv
    <3> QED  BY <3>1, <3>2, <3>3, <2>9 DEF LiveInv
  <2>12. FreeInv'
    <3>1. \A d \in Descs : \A b \in Range(free[d]) : FreeBlock(d, b)'
      <4> TAKE d \in Descs
      <4> TAKE b \in Range(free[d])
      <4>1. FreeBlock(d, b) /\ block2arena(b) \in DOMAIN arena
        BY OldArenas
      <4> QED  BY <4>1, <2>6, FreeStays
    <3>2. Counted(k)'
      BY <2>5, <2>6 DEF Counted
    <3>3. \A a \in DOMAIN arena : Counted(a)'
      BY <2>6, <2>9, <2>10, OldArenas, CountStays
    <3> QED  BY <2>2, <2>6, <3>1, <3>2, <3>3 DEF HeapInv, FreeInv
  <2> QED  BY <2>6, <2>11, <2>12 DEF HeapInv
<1> QED  BY <1>3, <1>4

\* sys_malloc with an empty list: a new arena, whose first block is taken.
LEMMA MallocNewArena ==
  ASSUME HeapInv, NEW size \in Sizes, malloc_new_arena(size)
  PROVE  HeapInv'
<1>1. PICK d : d = desc_idx(size)
  OBVIOUS
<1>2. PICK k : k = FirstFree(1)
  OBVIOUS
<1>3. size \in Nat /\ d \in Descs /\ size <= block_size(d)
  BY <1>1, DescIdx, HeapAssumption DEF malloc_new_arena
<1>4. CASE panic' # {}
  <2>1. UNCHANGED <<vbits, arena, live, free>>
    BY <1>4 DEF malloc_new_arena
  <2> QED  BY <2>1, HeapSame
<1>5. CASE panic' = {}
  <2>1. PICK list : list = Blocks(k, d)
    OBVIOUS
  <2> DEFINE r == [desc |-> d, cnt |-> Len(list) - 1, large |-> FALSE]
  <2>2. PICK h : h = Head(list)
    OBVIOUS
  <2>3. PICK t : t = Tail(list)
    OBVIOUS
  <2>4. /\ malloc_page_asserts(1, k) = {} /\ free[d] = <<>>
        /\ vbits' = bitmap_set(vbits, k, 1, 1) /\ arena' = With(arena, k, r)
        /\ live' = With(live, h, size) /\ free' = [free EXCEPT ![d] = t]
    BY <1>1, <1>2, <1>5, <2>1, <2>2, <2>3 DEF malloc_new_arena
  <2>5. k \in Nat /\ k + 1 < HeapBytes /\ \A x \in k .. k + 1 - 1 : x \notin vbits
    BY <1>2, <2>4, PagesFound
  <2>6. /\ list \in Seq(Nat) /\ IsInjective(list) /\ Len(list) \in Nat \ {0, 1}
        /\ Len(list) = blocks_per_arena(d) /\ list # <<>>
        /\ \A b \in Range(list) : b \in Nat /\ block2arena(b) = k
    <3>1. /\ list \in Seq(Nat) /\ IsInjective(list) /\ Len(list) = blocks_per_arena(d)
          /\ \A b \in Range(list) : b \in Nat /\ block2arena(b) = k
      BY <1>3, <2>1, <2>5, BlockFacts
    <3>2. Len(list) \in Nat \ {0, 1}
      BY <3>1, <1>3, DescFacts
    <3>3. list # <<>>
      BY <3>2
    <3> QED  BY <3>1, <3>2, <3>3
  <2>7. /\ t \in Seq(Nat) /\ IsInjective(t) /\ h \in Range(list)
        /\ Range(t) = Range(list) \ {h}
    BY <2>2, <2>3, <2>6, SeqTail
  <2>8. Cardinality(Range(t)) = Len(list) - 1
    BY <2>6, <2>7, RangeCard, FS_RemoveElement
  <2>9. r \in Arenas /\ ~r.large /\ r.desc = d /\ r.cnt = Len(list) - 1 /\ d # 0
    BY <1>3, <2>6 DEF Arenas, DESC_CNT, Descs
  <2> HIDE DEF r
  <2>10. /\ ArenaInv'
         /\ DOMAIN arena' = DOMAIN arena \cup {k} /\ k \notin DOMAIN arena
         /\ arena'[k] = r
         /\ \A a \in DOMAIN arena : a # k /\ arena'[a] = arena[a]
    <3>1. PICK n \in Nat \ {0} : n = 1
      OBVIOUS
    <3>2. /\ k + n < HeapBytes /\ \A x \in k .. k + n - 1 : x \notin vbits
          /\ vbits' = bitmap_set(vbits, k, n, 1) /\ n = IF r.large THEN r.cnt ELSE 1
      BY <2>4, <2>5, <2>9, <3>1
    <3> QED  BY <2>4, <2>5, <2>9, <3>2, AddArena DEF HeapInv
  <2>11. h \notin DOMAIN live /\ h \in Nat /\ block2arena(h) = k
    BY <2>6, <2>7, <2>10, OldArenas
  <2>12. /\ DOMAIN live' = DOMAIN live \cup {h} /\ live'[h] = size
         /\ \A p \in DOMAIN live : live'[p] = live[p]
    BY <2>4, <2>11 DEF With
  <2>13. /\ free' \in [Descs -> Seq(Nat)] /\ free'[d] = t
         /\ \A e \in Descs : e # d => free'[e] = free[e]
    BY <1>3, <2>4, <2>7 DEF HeapInv, FreeInv
  <2>14. Range(free[d]) = {}
    BY <2>4 DEF Range
  <2>15. ASSUME NEW a \in DOMAIN arena, ~arena[a].large
         PROVE  /\ FreeOf(a) \subseteq FreeOf(a)' /\ FreeIn(a)' = FreeIn(a)
                /\ \A b \in FreeOf(a)' : b \in FreeOf(a) \/ block2arena(b) = k
    <3>1. arena'[a].desc = arena[a].desc /\ arena[a].desc \in Descs /\ a # k
      BY <2>10, <2>15, OldArenas
    <3>2. CASE arena[a].desc = d
      <4>1. FreeOf(a)' = Range(t) /\ FreeOf(a) = {}
        BY <2>13, <2>14, <3>1, <3>2 DEF FreeOf
      <4>2. \A b \in Range(t) : block2arena(b) = k
        BY <2>6, <2>7
      <4> QED  BY <3>1, <4>1, <4>2 DEF FreeIn
    <3>3. CASE arena[a].desc # d
      <4>1. FreeOf(a)' = FreeOf(a)
        BY <2>13, <3>1, <3>3 DEF FreeOf
      <4> QED  BY <4>1 DEF FreeIn
    <3> QED  BY <3>2, <3>3
  <2>16. FreeOf(k)' = Range(t) /\ BlocksOf(k)' = Range(list) /\ FreeIn(k)' = Range(t)
    <3>1. FreeOf(k)' = Range(t) /\ BlocksOf(k)' = Range(list)
      BY <2>1, <2>9, <2>10, <2>13 DEF FreeOf, BlocksOf
    <3> QED  BY <3>1, <2>6, <2>7 DEF FreeIn
  <2>17. LiveInv'
    <3>1. LivePtr(h)'
      BY <1>3, <2>7, <2>9, <2>10, <2>11, <2>12, <2>16 DEF LivePtr
    <3>2. ASSUME NEW p \in DOMAIN live PROVE LivePtr(p)'
      <4>1. PICK a : a = block2arena(p)
        OBVIOUS
      <4>2. LivePtr(p) /\ a \in DOMAIN arena /\ a # k /\ arena'[a] = arena[a]
        BY <4>1, <2>10, OldArenas
      <4>3. ~arena[a].large => p \notin FreeOf(a)'
        BY <4>1, <4>2, <2>15 DEF LivePtr
      <4> QED  BY <4>1, <4>2, <4>3, <2>10, <2>12, LiveStays
    <3>3. \A a \in DOMAIN arena' : \E p \in DOMAIN live' : block2arena(p) = a
      BY <2>10, <2>11, <2>12 DEF HeapInv, LiveInv
    <3> QED  BY <3>1, <3>2, <3>3, <2>12 DEF LiveInv
  <2>18. FreeInv'
    <3>1. \A e \in Descs : IsInjective(free'[e])
      BY <2>7, <2>13 DEF HeapInv, FreeInv
    <3>2. ASSUME NEW e \in Descs, NEW b \in Range(free'[e]) PROVE FreeBlock(e, b)'
      <4>1. CASE e = d
        BY <4>1, <2>6, <2>7, <2>9, <2>10, <2>13, <2>16 DEF FreeBlock
      <4>2. CASE e # d
        <5>1. FreeBlock(e, b) /\ block2arena(b) \in DOMAIN arena
          BY <4>2, <2>13, OldArenas
        <5> QED  BY <5>1, <2>10, FreeStays
      <4> QED  BY <4>1, <4>2
    <3>3. Counted(k)'
      BY <2>7, <2>8, <2>9, <2>10, <2>12, <2>16 DEF Counted
    <3>4. ASSUME NEW a \in DOMAIN arena PROVE Counted(a)'
      <4>1. Counted(a) /\ arena'[a] = arena[a]
        BY <2>10, OldArenas
      <4>2. CASE arena[a].large
        BY <4>1, <4>2 DEF Counted
      <4>3. CASE ~arena[a].large
        BY <4>1, <4>3, <2>12, <2>15, CountStays
      <4> QED  BY <4>2, <4>3
    <3> QED  BY <2>10, <2>13, <3>1, <3>2, <3>3, <3>4 DEF FreeInv
  <2> QED  BY <2>10, <2>17, <2>18 DEF HeapInv
<1> QED  BY <1>4, <1>5

\* sys_free of whole pages: the arena had no other pointer.
LEMMA FreeLarge ==
  ASSUME HeapInv, NEW q \in DOMAIN live, free_large(q), live' = Without(live, q)
  PROVE  HeapInv'
<1>1. PICK k : k = block2arena(q)
  OBVIOUS
<1>2. /\ arena[k].large /\ free' = free /\ arena' = Without(arena, k)
      /\ vbits' = bitmap_set(vbits, k, arena[k].cnt, 0)
  BY <1>1 DEF free_large
<1>3. k \in DOMAIN arena /\ Cardinality(Pages(k)) = arena[k].cnt
  BY <1>1, <1>2, OldArenas, ArenaFacts DEF HeapInv
<1>4. /\ ArenaInv'
      /\ DOMAIN arena' = DOMAIN arena \ {k}
      /\ \A a \in DOMAIN arena : a # k => arena'[a] = arena[a]
  BY <1>2, <1>3, DropArena DEF HeapInv
<1>5. /\ DOMAIN live' = DOMAIN live \ {q}
      /\ \A p \in DOMAIN live : p # q => live'[p] = live[p]
  BY WithoutFacts
<1>6. \A p \in DOMAIN live : block2arena(p) = k <=> p = q
  BY <1>1, <1>2, OldArenas DEF LivePtr
<1>7. \A a \in DOMAIN arena' : FreeOf(a)' = FreeOf(a) /\ FreeIn(a)' = FreeIn(a)
  BY <1>2, <1>4 DEF FreeOf, FreeIn
<1>8. LiveInv'
  <2>1. ASSUME NEW p \in DOMAIN live' PROVE LivePtr(p)'
    <3>1. PICK a : a = block2arena(p)
      OBVIOUS
    <3>2. LivePtr(p) /\ a \in DOMAIN arena' /\ arena'[a] = arena[a] /\ live'[p] = live[p]
      BY <3>1, <1>4, <1>5, <1>6, OldArenas
    <3>3. ~arena[a].large => p \notin FreeOf(a)'
      BY <3>1, <3>2, <1>7 DEF LivePtr
    <3> QED  BY <3>1, <3>2, <3>3, LiveStays
  <2>2. \A a \in DOMAIN arena' : \E p \in DOMAIN live' : block2arena(p) = a
    BY <1>1, <1>4, <1>5 DEF HeapInv, LiveInv
  <2> QED  BY <2>1, <2>2 DEF LiveInv
<1>9. FreeInv'
  <2>1. ASSUME NEW d \in Descs, NEW b \in Range(free[d]) PROVE FreeBlock(d, b)'
    <3>1. FreeBlock(d, b) /\ block2arena(b) \in DOMAIN arena /\ block2arena(b) # k
      BY <1>2, <1>3, OldArenas, FreeFacts DEF HeapInv
    <3> QED  BY <3>1, <1>4, FreeStays
  <2>2. ASSUME NEW a \in DOMAIN arena' PROVE Counted(a)'
    <3>1. Counted(a) /\ arena'[a] = arena[a] /\ a # k
      BY <1>4, OldArenas
    <3>2. CASE arena[a].large
      BY <3>1, <3>2 DEF Counted
    <3>3. CASE ~arena[a].large
      <4>1. BlocksOf(a) \cap DOMAIN live \subseteq DOMAIN live'
        <5>1. arena[a].desc \in Descs /\ a \in Nat
          BY <1>4, <3>3, ArenaFacts DEF HeapInv
        <5>2. \A b \in BlocksOf(a) : block2arena(b) = a
          BY <5>1, BlockFacts DEF BlocksOf
        <5> QED  BY <5>2, <3>1, <1>1, <1>5
      <4> QED  BY <3>1, <4>1, <1>7, CountStays
    <3> QED  BY <3>2, <3>3
  <2> QED  BY <1>2, <2>1, <2>2 DEF HeapInv, FreeInv
<1> QED  BY <1>4, <1>8, <1>9 DEF HeapInv

\* sys_malloc with a list: its first block goes from the list to the caller.
LEMMA MallocFromList ==
  ASSUME HeapInv, NEW size \in Sizes, malloc_from_list(size)
  PROVE  HeapInv'
<1>1. PICK d : d = desc_idx(size)
  OBVIOUS
<1>2. PICK h : h = Head(free[d])
  OBVIOUS
<1>3. PICK k : k = block2arena(h)
  OBVIOUS
<1>4. PICK t : t = Tail(free[d])
  OBVIOUS
<1>5. size \in Nat /\ d \in Descs /\ size <= block_size(d)
  BY <1>1, DescIdx, HeapAssumption DEF malloc_from_list
<1>6. /\ free[d] # <<>> /\ free' = [free EXCEPT ![d] = t]
      /\ arena' = [arena EXCEPT ![k].cnt = arena[k].cnt - 1]
      /\ live' = With(live, h, size) /\ vbits' = vbits
  BY <1>1, <1>2, <1>3, <1>4 DEF malloc_from_list
<1>7. free[d] \in Seq(Nat) /\ IsInjective(free[d])
  BY <1>5 DEF HeapInv, FreeInv
<1>8. /\ t \in Seq(Nat) /\ IsInjective(t) /\ h \in Range(free[d])
      /\ Range(t) = Range(free[d]) \ {h}
  BY <1>2, <1>4, <1>6, <1>7, SeqTail
<1>9. /\ h \in Nat /\ k \in DOMAIN arena /\ arena[k].desc = d /\ ~arena[k].large
      /\ h \in Range(Blocks(k, d)) /\ h \in FreeIn(k) /\ k \in Nat
  BY <1>3, <1>5, <1>8, FreeFacts, ArenaFacts DEF HeapInv
<1>10. /\ arena[k].cnt = Cardinality(FreeIn(k)) /\ IsFiniteSet(FreeIn(k))
       /\ arena[k].cnt \in Nat \ {0}
       /\ Cardinality(FreeIn(k) \ {h}) = arena[k].cnt - 1
  <2>1. arena[k].cnt = Cardinality(FreeIn(k))
    BY <1>9, OldArenas DEF Counted
  <2>2. IsFiniteSet(Range(free[d])) /\ FreeIn(k) \subseteq Range(free[d])
    BY <1>7, <1>9, RangeCard DEF FreeIn, FreeOf
  <2>3. IsFiniteSet(FreeIn(k))
    BY <2>2, FS_Subset
  <2>4. Cardinality(FreeIn(k)) \in Nat /\ Cardinality(FreeIn(k) \ {h}) \in Nat
    BY <2>3, FS_CardinalityType, FS_RemoveElement
  <2>5. Cardinality(FreeIn(k) \ {h}) = Cardinality(FreeIn(k)) - 1
    BY <1>9, <2>3, FS_RemoveElement
  <2> QED  BY <2>1, <2>3, <2>4, <2>5
<1>11. /\ ArenaInv'
       /\ DOMAIN arena' = DOMAIN arena
       /\ arena'[k].desc = d /\ arena'[k].large = arena[k].large
       /\ arena'[k].cnt = arena[k].cnt - 1
       /\ \A a \in DOMAIN arena : a # k => arena'[a] = arena[a]
  <2>1. PICK n \in Nat : n = arena[k].cnt - 1
    BY <1>10
  <2> QED  BY <2>1, <1>6, <1>9, RecountArena DEF HeapInv
<1>12. h \notin DOMAIN live
  BY <1>3, <1>9, OldArenas DEF LivePtr, FreeIn
<1>13. /\ DOMAIN live' = DOMAIN live \cup {h} /\ live'[h] = size
       /\ \A p \in DOMAIN live : live'[p] = live[p]
  BY <1>6, <1>12 DEF With
<1>14. /\ free' \in [Descs -> Seq(Nat)] /\ free'[d] = t
       /\ \A e \in Descs : e # d => free'[e] = free[e]
  BY <1>5, <1>6, <1>8 DEF HeapInv, FreeInv
<1>15. ASSUME NEW a \in DOMAIN arena, ~arena[a].large
       PROVE  FreeOf(a)' = FreeOf(a) \ {h} /\ BlocksOf(a)' = BlocksOf(a)
  <2>1. arena'[a].desc = arena[a].desc /\ arena[a].desc \in Descs
    BY <1>9, <1>11, <1>15, OldArenas
  <2>2. CASE arena[a].desc = d
    BY <2>1, <2>2, <1>8, <1>14 DEF FreeOf, BlocksOf
  <2>3. CASE arena[a].desc # d
    <3>1. h \notin Range(free[arena[a].desc])
      BY <1>3, <1>9, <2>1, <2>3, OldArenas DEF FreeBlock
    <3> QED  BY <2>1, <2>3, <3>1, <1>14 DEF FreeOf, BlocksOf
  <2> QED  BY <2>2, <2>3
<1>16. LiveInv'
  <2>1. LivePtr(h)'
    <3>1. h \in BlocksOf(k)' \ FreeOf(k)'
      BY <1>9, <1>15 DEF BlocksOf
    <3> QED  BY <3>1, <1>3, <1>5, <1>9, <1>11, <1>13 DEF LivePtr
  <2>2. ASSUME NEW p \in DOMAIN live PROVE LivePtr(p)'
    <3>1. PICK a : a = block2arena(p)
      OBVIOUS
    <3>2. LivePtr(p) /\ a \in DOMAIN arena
      BY <3>1, OldArenas
    <3>3. ~arena[a].large => p \notin FreeOf(a)'
      BY <3>1, <3>2, <1>15 DEF LivePtr
    <3>4. /\ arena'[a].desc = arena[a].desc /\ arena'[a].large = arena[a].large
          /\ arena[a].large => arena'[a].cnt = arena[a].cnt
      <4>1. CASE a # k
        BY <4>1, <3>2, <1>11
      <4>2. CASE a = k
        BY <4>2, <1>9, <1>11
      <4> QED  BY <4>1, <4>2
    <3> QED  BY <3>1, <3>2, <3>3, <3>4, <1>11, <1>13, LiveStays
  <2>3. \A a \in DOMAIN arena' : \E p \in DOMAIN live' : block2arena(p) = a
    BY <1>11, <1>13 DEF HeapInv, LiveInv
  <2> QED  BY <2>1, <2>2, <2>3, <1>13 DEF LiveInv
<1>17. FreeInv'
  <2>1. \A e \in Descs : IsInjective(free'[e])
    BY <1>8, <1>14 DEF HeapInv, FreeInv
  <2>2. ASSUME NEW e \in Descs, NEW b \in Range(free'[e]) PROVE FreeBlock(e, b)'
    <3>1. b \in Range(free[e])
      BY <1>8, <1>14
    <3>2. FreeBlock(e, b) /\ block2arena(b) \in DOMAIN arena
      BY <3>1, OldArenas
    <3>3. arena'[block2arena(b)].desc = arena[block2arena(b)].desc
      BY <3>2, <1>9, <1>11
    <3> QED  BY <3>2, <3>3, <1>11, FreeStays
  <2>3. Counted(k)'
    <3>1. FreeIn(k)' = FreeIn(k) \ {h}
      BY <1>9, <1>15 DEF FreeIn
    <3>2. BlocksOf(k)' \subseteq FreeOf(k)' \cup DOMAIN live'
      <4>1. BlocksOf(k) \subseteq FreeOf(k) \cup DOMAIN live
        BY <1>9, OldArenas DEF Counted
      <4> QED  BY <4>1, <1>9, <1>13, <1>15
    <3> QED  BY <3>1, <3>2, <1>10, <1>11 DEF Counted
  <2>4. ASSUME NEW a \in DOMAIN arena, a # k PROVE Counted(a)'
    <3>1. Counted(a) /\ arena'[a] = arena[a]
      BY <2>4, <1>11, OldArenas
    <3>2. CASE arena[a].large
      BY <3>1, <3>2 DEF Counted
    <3>3. CASE ~arena[a].large
      <4>1. FreeIn(a)' = FreeIn(a)
        BY <3>3, <2>4, <1>3, <1>15 DEF FreeIn
      <4>2. BlocksOf(a)' \subseteq FreeOf(a)' \cup DOMAIN live'
        BY <3>1, <3>3, <1>13, <1>15 DEF Counted
      <4> QED  BY <3>1, <4>1, <4>2 DEF Counted
    <3> QED  BY <3>2, <3>3
  <2> QED  BY <1>11, <1>14, <2>1, <2>2, <2>3, <2>4 DEF FreeInv
<1> QED  BY <1>11, <1>16, <1>17 DEF HeapInv

(***************************************************************************)
(* A block comes back.  What both cases start from: it is a block of an    *)
(* arena, and not on its list; put there, it makes the count one larger,   *)
(* and the arena has as many free blocks as blocks only if it has no       *)
(* other block than free ones.                                             *)
(***************************************************************************)
Returned(q, k, d, list) ==
  /\ d \in Descs /\ k \in DOMAIN arena /\ k \in Nat /\ q \in Nat
  /\ q \in Range(Blocks(k, d)) /\ q \notin Range(free[d])
  /\ list \in Seq(Nat) /\ IsInjective(list) /\ Range(list) = Range(free[d]) \cup {q}
  /\ arena[k].cnt \in Nat
  /\ Cardinality(FreeIn(k) \cup {q}) = arena[k].cnt + 1
  /\ FreeIn(k) \cup {q} \subseteq Range(Blocks(k, d))
  /\ FreeIn(k) = {b \in Range(free[d]) : block2arena(b) = k}
  /\ arena[k].cnt + 1 = blocks_per_arena(d) <=> FreeIn(k) \cup {q} = Range(Blocks(k, d))

LEMMA BlockBack ==
  ASSUME HeapInv, NEW q \in DOMAIN live, NEW k, k = block2arena(q), ~arena[k].large,
         NEW d, d = arena[k].desc, NEW list, list = Append(free[d], q)
  PROVE  Returned(q, k, d, list)
<1>1. k \in DOMAIN arena /\ LivePtr(q)
  BY OldArenas
<1>2. d \in Descs /\ k \in Nat /\ arena[k].cnt \in Nat
  BY <1>1, ArenaFacts DEF HeapInv
<1>3. q \in Nat /\ q \in Range(Blocks(k, d)) /\ q \notin Range(free[d])
  BY <1>1 DEF LivePtr, BlocksOf, FreeOf
<1>4. free[d] \in Seq(Nat) /\ IsInjective(free[d])
  BY <1>2 DEF HeapInv, FreeInv
<1>5. list \in Seq(Nat) /\ IsInjective(list) /\ Range(list) = Range(free[d]) \cup {q}
  BY <1>3, <1>4, SeqAppend
<1>6. FreeIn(k) = {b \in Range(free[d]) : block2arena(b) = k}
  BY DEF FreeIn, FreeOf
<1>7. FreeIn(k) \cup {q} \subseteq Range(Blocks(k, d))
  <2>1. ASSUME NEW b \in FreeIn(k) PROVE b \in Range(Blocks(k, d))
    BY <1>2, <1>6, FreeFacts DEF HeapInv
  <2> QED  BY <2>1, <1>3
<1>8. arena[k].cnt = Cardinality(FreeIn(k))
  BY <1>1, OldArenas DEF Counted
<1>9. /\ IsFiniteSet(Range(Blocks(k, d)))
      /\ Cardinality(Range(Blocks(k, d))) = blocks_per_arena(d)
  BY <1>2, BlockFacts, RangeCard
<1>10. IsFiniteSet(FreeIn(k) \cup {q}) /\ IsFiniteSet(FreeIn(k))
  BY <1>7, <1>9, FS_Subset
<1>11. q \notin FreeIn(k)
  BY <1>3, <1>6
<1>12. Cardinality(FreeIn(k) \cup {q}) = arena[k].cnt + 1
  BY <1>8, <1>10, <1>11, FS_AddElement
<1>13. arena[k].cnt + 1 = blocks_per_arena(d) <=> FreeIn(k) \cup {q} = Range(Blocks(k, d))
  BY <1>7, <1>9, <1>12, FS_Subset
<1> QED  BY <1>1, <1>2, <1>3, <1>5, <1>6, <1>7, <1>12, <1>13 DEF Returned

\* The block goes on the free list of its descriptor, and its arena stays.
LEMMA FreeOne ==
  ASSUME HeapInv, NEW q \in DOMAIN live, NEW k, k = block2arena(q), ~arena[k].large,
         NEW d, d = arena[k].desc, NEW list, list = Append(free[d], q),
         arena[k].cnt + 1 # blocks_per_arena(d),
         free' = [free EXCEPT ![d] = list],
         arena' = [arena EXCEPT ![k].cnt = arena[k].cnt + 1],
         vbits' = vbits, live' = Without(live, q)
  PROVE  HeapInv'
<1>1. /\ d \in Descs /\ k \in DOMAIN arena /\ k \in Nat /\ q \in Nat
      /\ q \in Range(Blocks(k, d)) /\ q \notin Range(free[d])
      /\ list \in Seq(Nat) /\ IsInjective(list) /\ Range(list) = Range(free[d]) \cup {q}
      /\ arena[k].cnt \in Nat
      /\ Cardinality(FreeIn(k) \cup {q}) = arena[k].cnt + 1
      /\ FreeIn(k) \cup {q} \subseteq Range(Blocks(k, d))
      /\ FreeIn(k) \cup {q} # Range(Blocks(k, d))
  <2>1. Returned(q, k, d, list)
    BY BlockBack
  <2> QED  BY <2>1 DEF Returned
<1>2. /\ ArenaInv'
      /\ DOMAIN arena' = DOMAIN arena
      /\ arena'[k].desc = d /\ arena'[k].large = arena[k].large
      /\ arena'[k].cnt = arena[k].cnt + 1
      /\ \A a \in DOMAIN arena : a # k => arena'[a] = arena[a]
  <2>1. PICK n \in Nat : n = arena[k].cnt + 1
    BY <1>1
  <2> QED  BY <2>1, <1>1, RecountArena DEF HeapInv
<1>3. /\ DOMAIN live' = DOMAIN live \ {q}
      /\ \A p \in DOMAIN live : p # q => live'[p] = live[p]
  BY WithoutFacts
<1>4. /\ free' \in [Descs -> Seq(Nat)] /\ free'[d] = list
      /\ \A e \in Descs : e # d => free'[e] = free[e]
  BY <1>1 DEF HeapInv, FreeInv
<1>5. ASSUME NEW a \in DOMAIN arena, ~arena[a].large
      PROVE  /\ BlocksOf(a)' = BlocksOf(a)
             /\ FreeOf(a) \subseteq FreeOf(a)' /\ FreeOf(a)' \subseteq FreeOf(a) \cup {q}
             /\ a = k => q \in FreeOf(a)'
  <2>1. arena'[a].desc = arena[a].desc /\ arena[a].desc \in Descs
    BY <1>2, <1>5, OldArenas
  <2>2. CASE arena[a].desc = d
    BY <2>1, <2>2, <1>1, <1>4 DEF FreeOf, BlocksOf
  <2>3. CASE arena[a].desc # d
    BY <2>1, <2>3, <1>4 DEF FreeOf, BlocksOf
  <2> QED  BY <2>2, <2>3
<1>6. LiveInv'
  <2>1. ASSUME NEW p \in DOMAIN live' PROVE LivePtr(p)'
    <3>1. PICK a : a = block2arena(p)
      OBVIOUS
    <3>2. LivePtr(p) /\ a \in DOMAIN arena /\ p # q /\ live'[p] = live[p]
      BY <3>1, <1>3, OldArenas
    <3>3. ~arena[a].large => p \notin FreeOf(a)'
      BY <3>1, <3>2, <1>5 DEF LivePtr
    <3>4. /\ arena'[a].desc = arena[a].desc /\ arena'[a].large = arena[a].large
          /\ arena[a].large => arena'[a].cnt = arena[a].cnt
      BY <3>2, <1>2
    <3> QED  BY <3>1, <3>2, <3>3, <3>4, <1>2, LiveStays
  <2>2. \E p \in DOMAIN live' : block2arena(p) = k
    <3>1. PICK b \in Range(Blocks(k, d)) : b \notin FreeIn(k) /\ b # q
      BY <1>1
    <3>2. block2arena(b) = k
      BY <1>1, BlockFacts
    <3>3. b \in FreeOf(k) \cup DOMAIN live
      BY <1>1, OldArenas DEF Counted, BlocksOf
    <3> QED  BY <3>1, <3>2, <3>3, <1>3 DEF FreeIn
  <2>3. \A a \in DOMAIN arena : a # k => \E p \in DOMAIN live' : block2arena(p) = a
    BY <1>3 DEF HeapInv, LiveInv
  <2> QED  BY <2>1, <2>2, <2>3, <1>2 DEF LiveInv
<1>7. FreeInv'
  <2>1. \A e \in Descs : IsInjective(free'[e])
    BY <1>1, <1>4 DEF HeapInv, FreeInv
  <2>2. FreeBlock(d, q)'
    BY <1>1, <1>2 DEF FreeBlock, BlocksOf
  <2>3. ASSUME NEW e \in Descs, NEW b \in Range(free[e]) PROVE FreeBlock(e, b)'
    <3>1. FreeBlock(e, b) /\ block2arena(b) \in DOMAIN arena
      BY OldArenas
    <3>2. arena'[block2arena(b)].desc = arena[block2arena(b)].desc
      BY <3>1, <1>2
    <3> QED  BY <3>1, <3>2, <1>2, FreeStays
  <2>4. \A e \in Descs : \A b \in Range(free'[e]) : FreeBlock(e, b)'
    BY <2>2, <2>3, <1>1, <1>4
  <2>5. Counted(k)'
    <3>1. FreeOf(k)' = FreeOf(k) \cup {q} /\ BlocksOf(k)' = BlocksOf(k)
      BY <1>1, <1>5
    <3>2. FreeIn(k)' = FreeIn(k) \cup {q}
      BY <3>1 DEF FreeIn
    <3>3. BlocksOf(k) \subseteq FreeOf(k) \cup DOMAIN live
      BY <1>1, OldArenas DEF Counted
    <3> QED  BY <3>1, <3>2, <3>3, <1>1, <1>2, <1>3 DEF Counted
  <2>6. ASSUME NEW a \in DOMAIN arena, a # k PROVE Counted(a)'
    <3>1. Counted(a) /\ arena'[a] = arena[a]
      BY <2>6, <1>2, OldArenas
    <3>2. CASE arena[a].large
      BY <3>1, <3>2 DEF Counted
    <3>3. CASE ~arena[a].large
      <4>1. FreeIn(a)' = FreeIn(a)
        BY <3>3, <2>6, <1>5 DEF FreeIn
      <4>2. q \notin BlocksOf(a)
        <5>1. arena[a].desc \in Descs /\ a \in Nat
          BY <3>3, ArenaFacts DEF HeapInv
        <5> QED  BY <5>1, <2>6, BlockFacts DEF BlocksOf
      <4>3. BlocksOf(a)' \subseteq FreeOf(a)' \cup DOMAIN live'
        BY <3>1, <3>3, <4>2, <1>3, <1>5 DEF Counted
      <4> QED  BY <3>1, <4>1, <4>3 DEF Counted
    <3> QED  BY <3>2, <3>3
  <2> QED  BY <2>1, <2>4, <2>5, <2>6, <1>2, <1>4 DEF FreeInv
<1> QED  BY <1>2, <1>6, <1>7 DEF HeapInv

\* It was the last block: the blocks leave the list and the page is freed.
LEMMA FreeLast ==
  ASSUME HeapInv, NEW q \in DOMAIN live, NEW k, k = block2arena(q), ~arena[k].large,
         NEW d, d = arena[k].desc, NEW list, list = Append(free[d], q),
         arena[k].cnt + 1 = blocks_per_arena(d),
         NEW all, all = Range(Blocks(k, d)),
         free' = [free EXCEPT ![d] = list_remove_all(list, all)],
         arena' = Without(arena, k), vbits' = bitmap_set(vbits, k, 1, 0),
         live' = Without(live, q)
  PROVE  HeapInv' /\ all \subseteq Range(list)
<1>1. /\ d \in Descs /\ k \in DOMAIN arena /\ k \in Nat /\ q \in Nat
      /\ q \in all /\ q \notin Range(free[d])
      /\ list \in Seq(Nat) /\ IsInjective(list) /\ Range(list) = Range(free[d]) \cup {q}
      /\ FreeIn(k) \cup {q} = all
      /\ FreeIn(k) = {b \in Range(free[d]) : block2arena(b) = k}
  <2>1. Returned(q, k, d, list)
    BY BlockBack
  <2> QED  BY <2>1 DEF Returned
<1>2. all \subseteq Range(list)
  BY <1>1
<1>3. Cardinality(Pages(k)) = 1
  BY <1>1, ArenaFacts DEF HeapInv
<1>4. /\ ArenaInv'
      /\ DOMAIN arena' = DOMAIN arena \ {k}
      /\ \A a \in DOMAIN arena : a # k => arena'[a] = arena[a]
  BY <1>1, <1>3, DropArena DEF HeapInv
<1>5. /\ DOMAIN live' = DOMAIN live \ {q}
      /\ \A p \in DOMAIN live : p # q => live'[p] = live[p]
  BY WithoutFacts
<1>6. PICK t : t = list_remove_all(list, all)
  OBVIOUS
<1>7. t \in Seq(Nat) /\ IsInjective(t) /\ Range(t) = Range(list) \ all
  BY <1>1, <1>6, RemoveAll
<1>8. Range(t) = {b \in Range(free[d]) : block2arena(b) # k}
  <2>1. \A b \in all : block2arena(b) = k
    BY <1>1, BlockFacts
  <2> QED  BY <2>1, <1>1, <1>7
<1>9. /\ free' \in [Descs -> Seq(Nat)] /\ free'[d] = t
      /\ \A e \in Descs : e # d => free'[e] = free[e]
  BY <1>1, <1>6, <1>7 DEF HeapInv, FreeInv
<1>10. \A p \in DOMAIN live : block2arena(p) = k <=> p = q
  <2> TAKE p \in DOMAIN live
  <2>1. block2arena(p) = k => p \in all \ FreeIn(k)
    BY OldArenas DEF LivePtr, BlocksOf, FreeOf, FreeIn
  <2> QED  BY <2>1, <1>1
<1>11. ASSUME NEW a \in DOMAIN arena, a # k, ~arena[a].large
       PROVE  /\ BlocksOf(a)' = BlocksOf(a)
              /\ FreeOf(a)' \subseteq FreeOf(a)
              /\ \A b \in FreeOf(a) : block2arena(b) # k => b \in FreeOf(a)'
  <2>1. arena'[a].desc = arena[a].desc /\ arena[a].desc \in Descs
    BY <1>4, <1>11, OldArenas
  <2>2. CASE arena[a].desc = d
    BY <2>1, <2>2, <1>8, <1>9 DEF FreeOf, BlocksOf
  <2>3. CASE arena[a].desc # d
    BY <2>1, <2>3, <1>9 DEF FreeOf, BlocksOf
  <2> QED  BY <2>2, <2>3
<1>12. LiveInv'
  <2>1. ASSUME NEW p \in DOMAIN live' PROVE LivePtr(p)'
    <3>1. PICK a : a = block2arena(p)
      OBVIOUS
    <3>2. /\ LivePtr(p) /\ a \in DOMAIN arena /\ a # k /\ a \in DOMAIN arena'
          /\ arena'[a] = arena[a] /\ live'[p] = live[p]
      BY <3>1, <1>4, <1>5, <1>10, OldArenas
    <3>3. ~arena[a].large => p \notin FreeOf(a)'
      BY <3>1, <3>2, <1>11 DEF LivePtr
    <3> QED  BY <3>1, <3>2, <3>3, LiveStays
  <2>2. \A a \in DOMAIN arena' : \E p \in DOMAIN live' : block2arena(p) = a
    BY <1>4, <1>5 DEF HeapInv, LiveInv
  <2> QED  BY <2>1, <2>2 DEF LiveInv
<1>13. FreeInv'
  <2>1. \A e \in Descs : IsInjective(free'[e])
    BY <1>7, <1>9 DEF HeapInv, FreeInv
  <2>2. ASSUME NEW e \in Descs, NEW b \in Range(free'[e]) PROVE FreeBlock(e, b)'
    <3>1. b \in Range(free[e]) /\ block2arena(b) # k
      <4>1. CASE e = d
        BY <4>1, <1>8, <1>9
      <4>2. CASE e # d
        <5>1. b \in Range(free[e]) /\ FreeBlock(e, b)
          BY <4>2, <1>9, OldArenas
        <5> QED  BY <5>1, <4>2 DEF FreeBlock
      <4> QED  BY <4>1, <4>2
    <3>2. FreeBlock(e, b) /\ block2arena(b) \in DOMAIN arena
      BY <3>1, OldArenas
    <3> QED  BY <3>1, <3>2, <1>4, FreeStays
  <2>3. ASSUME NEW a \in DOMAIN arena' PROVE Counted(a)'
    <3>1. Counted(a) /\ a \in DOMAIN arena /\ a # k /\ arena'[a] = arena[a]
      BY <1>4, OldArenas
    <3>2. CASE arena[a].large
      BY <3>1, <3>2 DEF Counted
    <3>3. CASE ~arena[a].large
      <4>1. arena[a].desc \in Descs /\ a \in Nat
        BY <3>1, <3>3, ArenaFacts DEF HeapInv
      <4>2. \A b \in BlocksOf(a) : block2arena(b) = a
        BY <4>1, BlockFacts DEF BlocksOf
      <4>3. FreeIn(a)' = FreeIn(a)
        BY <3>1, <3>3, <1>11 DEF FreeIn
      <4>4. BlocksOf(a)' \subseteq FreeOf(a)' \cup DOMAIN live'
        BY <3>1, <3>3, <4>2, <1>5, <1>11 DEF Counted
      <4> QED  BY <3>1, <4>3, <4>4 DEF Counted
    <3> QED  BY <3>2, <3>3
  <2> QED  BY <2>1, <2>2, <2>3, <1>9 DEF FreeInv
<1> QED  BY <1>2, <1>4, <1>12, <1>13 DEF HeapInv

\* sys_free of a block, in both cases; its ASSERT holds.
LEMMA FreeBlockStep ==
  ASSUME HeapInv, panic = {}, NEW q \in DOMAIN live, free_block(q), live' = Without(live, q)
  PROVE  HeapInv' /\ panic' = {}
<1>1. PICK k : k = block2arena(q)
  OBVIOUS
<1>2. PICK d : d = arena[k].desc
  OBVIOUS
<1>3. PICK list : list = Append(free[d], q)
  OBVIOUS
<1>4. ~arena[k].large
  BY <1>1 DEF free_block
<1>5. CASE arena[k].cnt + 1 # blocks_per_arena(d)
  <2>1. /\ free' = [free EXCEPT ![d] = list]
        /\ arena' = [arena EXCEPT ![k].cnt = arena[k].cnt + 1]
        /\ vbits' = vbits /\ panic' = panic
    BY <1>1, <1>2, <1>3, <1>5 DEF free_block
  <2> QED  BY <1>1, <1>2, <1>3, <1>4, <1>5, <2>1, FreeOne
<1>6. CASE arena[k].cnt + 1 = blocks_per_arena(d)
  <2>1. PICK all : all = Range(Blocks(k, d))
    OBVIOUS
  <2>2. /\ free' = [free EXCEPT ![d] = list_remove_all(list, all)]
        /\ arena' = Without(arena, k) /\ vbits' = bitmap_set(vbits, k, 1, 0)
        /\ panic' = Failing(all \subseteq Range(list), "sys_free: block not in free list")
    BY <1>1, <1>2, <1>3, <1>6, <2>1 DEF free_block
  <2>3. HeapInv' /\ all \subseteq Range(list)
    BY <1>1, <1>2, <1>3, <1>4, <1>6, <2>1, <2>2, FreeLast
  <2>4. panic' = {}
    BY <2>2, <2>3 DEF Failing
  <2> QED  BY <2>3, <2>4
<1> QED  BY <1>5, <1>6

\* malloc_page stops the machine for other reasons.
LEMMA MallocPanics ==
  ASSUME NEW n, NEW k
  PROVE  "sys_free: block not in free list" \notin malloc_page_asserts(n, k)
BY SMT DEF malloc_page_asserts, Failing

\* Every step keeps the invariant.
LEMMA NextHeap ==
  ASSUME HeapInv, BlocksListed, [Next]_vars
  PROVE  HeapInv' /\ BlocksListed'
<1>1. CASE UNCHANGED vars
  BY <1>1, HeapSame DEF vars, BlocksListed
<1>2. ASSUME NEW size \in Sizes, panic = {}, malloc_large(size) PROVE HeapInv' /\ BlocksListed'
  BY <1>2, MallocLarge, MallocPanics DEF malloc_large, BlocksListed
<1>3. ASSUME NEW size \in Sizes, panic = {}, malloc_from_list(size) PROVE HeapInv' /\ BlocksListed'
  BY <1>3, MallocFromList DEF malloc_from_list, BlocksListed
<1>4. ASSUME NEW size \in Sizes, panic = {}, malloc_new_arena(size) PROVE HeapInv' /\ BlocksListed'
  BY <1>4, MallocNewArena, MallocPanics DEF malloc_new_arena, BlocksListed
<1>5. ASSUME NEW q \in DOMAIN live, panic = {}, free_large(q), live' = Without(live, q)
      PROVE  HeapInv' /\ BlocksListed'
  BY <1>5, FreeLarge DEF free_large, BlocksListed
<1>6. ASSUME NEW q \in DOMAIN live, panic = {}, free_block(q), live' = Without(live, q)
      PROVE  HeapInv' /\ BlocksListed'
  BY <1>6, FreeBlockStep DEF BlocksListed
<1> QED  BY <1>1, <1>2, <1>3, <1>4, <1>5, <1>6 DEF Next, sys_malloc, sys_free

(***************************************************************************)
(* The invariant holds in every state of every heap.                       *)
(***************************************************************************)
THEOREM HeapInvariant == Spec => [](HeapInv /\ BlocksListed)
<1>1. Init => HeapInv /\ BlocksListed
  BY InitHeap DEF Init, BlocksListed
<1>2. HeapInv /\ BlocksListed /\ [Next]_vars => (HeapInv /\ BlocksListed)'
  BY NextHeap
<1> QED  BY <1>1, <1>2, PTL DEF Spec

(***************************************************************************)
(* The headers, the lists and the pointers keep their types, and the pages *)
(* stay within the bitmap.                                                 *)
(***************************************************************************)
THEOREM HeapTypes == Spec => []HeapTypeOK
BY HeapInvariant, InvTypeOK, PTL

(***************************************************************************)
(* sys_malloc never hands out a byte that another allocation, a free block *)
(* or the header of an arena has, nor one outside its arena's pages,       *)
(* whatever sizes are asked for and in whatever order blocks come back.    *)
(***************************************************************************)
THEOREM HeapNoOverlap == Spec => []NoOverlap
BY HeapInvariant, InvNoOverlap, PTL

(***************************************************************************)
(* The count in an arena's header is the number of its blocks on the free  *)
(* list of its descriptor, and the lists hold blocks of existing arenas,   *)
(* each once: no double entry, no block of a page that was freed.          *)
(***************************************************************************)
THEOREM HeapFreeLists == Spec => []FreeListsInv
BY HeapInvariant, InvFreeLists, PTL

(***************************************************************************)
(* Each page that the heap has reserved belongs to one arena and each arena *)
(* to an allocation: sys_free gives back what sys_malloc took.             *)
(***************************************************************************)
THEOREM HeapNoPageLeaked == Spec => []NoPageLeaked
BY HeapInvariant, InvNoPageLeaked, PTL

(***************************************************************************)
(* The ASSERT of sys_free that every block of an arena whose count is full *)
(* is on the free list never fails.                                        *)
(***************************************************************************)
THEOREM SysFreeNeverStops == Spec => []BlocksListed
BY HeapInvariant, PTL
=============================================================================
