-------------------------------- MODULE Heap --------------------------------
(***************************************************************************)
(* sys_malloc and sys_free (kernel/memory.c) over one address space: the   *)
(* kernel's, or that of one process.  Every call runs under the lock of    *)
(* its pool, so each is one step.  Addresses are byte offsets from the     *)
(* start of the heap; virtual pages come from malloc_page and go back to   *)
(* mfree_page (module PageAlloc has the physical side of both).            *)
(*                                                                         *)
(* The machine stops on a failed ASSERT, as in KThread.                    *)
(***************************************************************************)
EXTENDS BitmapOps, Sequences, FiniteSets, Functions

CONSTANTS
  Sizes,        \* the sizes that callers ask for
  HeapBytes,    \* btmp_bytes_len of the virtual address bitmap
  PoolSize,     \* pool_size of the pool
  MaxLive       \* bound on the number of allocations held at once

ASSUME HeapAssumption ==
  /\ Sizes \subseteq Nat
  /\ HeapBytes \in Nat
  /\ PoolSize \in Nat
  /\ MaxLive \in Nat

VARIABLES
  vbits,    \* vaddr_bitmap: the virtual pages in use
  arena,    \* the struct arena at the start of each page that has one
  free,     \* free_list of each mem_block_desc
  live,     \* the size asked for, by pointer handed out and not yet freed
  panic

vars == <<vbits, arena, free, live, panic>>

PG_SIZE  == 4096
ArenaHdr == 12     \* sizeof(struct arena)
DESC_CNT == 7
Descs    == 1 .. DESC_CNT

Failing(condition, label) == IF condition THEN {} ELSE {label}

DIV_ROUND_UP(x, step) == (x + step - 1) \div step

\* block_desc_init
block_size(d) == 16 * 2 ^ (d - 1)

\* Mutant of blocks_per_arena: the header of the arena is forgotten.
blocks_per_page(d) == PG_SIZE \div block_size(d)

blocks_per_arena(d) == (PG_SIZE - ArenaHdr) \div block_size(d)

arena2block(page, d, idx) == page * PG_SIZE + ArenaHdr + idx * block_size(d)

block2arena(b) == b \div PG_SIZE

\* The blocks of an arena, in the order in which sys_malloc lists them.
Blocks(page, d) ==
  [i \in 1 .. blocks_per_arena(d) |-> arena2block(page, d, i - 1)]

Init ==
  /\ vbits = {}
  /\ arena = <<>>
  /\ free = [d \in Descs |-> <<>>]
  /\ live = <<>>
  /\ panic = {}

-----------------------------------------------------------------------------
\* Mutant of malloc_page_asserts: a failed scan goes unnoticed.
malloc_page_unchecked(pg_cnt, page) == {}

\* malloc_page, seen from the heap: the first page of a free run, or a panic.
malloc_page_asserts(pg_cnt, page) ==
  Failing(pg_cnt < 3840, "malloc_page: pg_cnt")
  \cup Failing(page # -1, "vaddr_get: no virtual pages")

FirstFree(pg_cnt) == bitmap_scan(vbits, pg_cnt, HeapBytes)

With(f, x, v) == [y \in DOMAIN f \cup {x} |-> IF y = x THEN v ELSE f[y]]

Without(f, x) == [y \in DOMAIN f \ {x} |-> f[y]]

(***************************************************************************)
(* sys_malloc of more than 1024 bytes: whole pages, with a header that     *)
(* holds their number.                                                     *)
(***************************************************************************)
malloc_large(size) ==
  LET pg_cnt == DIV_ROUND_UP(size + ArenaHdr, PG_SIZE)
      page   == FirstFree(pg_cnt)
  IN
  /\ size > 1024
  /\ panic' = malloc_page_asserts(pg_cnt, page)
  /\ IF panic' # {} THEN UNCHANGED <<vbits, arena, live>>
     ELSE /\ vbits' = bitmap_set(vbits, page, pg_cnt, 1)
          /\ arena' = With(arena, page, [desc |-> 0, cnt |-> pg_cnt, large |-> TRUE])
          /\ live' = With(live, page * PG_SIZE + ArenaHdr, size)
  /\ free' = free

\* The first descriptor whose blocks are large enough.
desc_idx(size) ==
  CHOOSE d \in Descs : size <= block_size(d) /\ \A e \in 1 .. d - 1 : size > block_size(e)

\* Mutant of malloc_from_list: the arena's count stays.
malloc_from_list_uncounted(size) ==
  LET d == desc_idx(size) IN
  /\ size <= 1024
  /\ free[d] # <<>>
  /\ free' = [free EXCEPT ![d] = Tail(@)]
  /\ live' = With(live, Head(free[d]), size)
  /\ UNCHANGED <<vbits, arena, panic>>

(***************************************************************************)
(* A smaller request: the first block of the free list, which a new arena  *)
(* fills first when it is empty.                                           *)
(***************************************************************************)
malloc_from_list(size) ==
  LET d == desc_idx(size)
      b == Head(free[d])
  IN
  /\ size <= 1024
  /\ free[d] # <<>>
  /\ free' = [free EXCEPT ![d] = Tail(@)]
  /\ arena' = [arena EXCEPT ![block2arena(b)].cnt = @ - 1]
  /\ live' = With(live, b, size)
  /\ UNCHANGED <<vbits, panic>>

malloc_new_arena(size) ==
  LET d    == desc_idx(size)
      page == FirstFree(1)
      list == Blocks(page, d)
  IN
  /\ size <= 1024
  /\ free[d] = <<>>
  /\ panic' = malloc_page_asserts(1, page)
  /\ IF panic' # {} THEN UNCHANGED <<vbits, arena, free, live>>
     ELSE /\ vbits' = bitmap_set(vbits, page, 1, 1)
          /\ arena' = With(arena, page, [desc |-> d, cnt |-> Len(list) - 1, large |-> FALSE])
          /\ free' = [free EXCEPT ![d] = Tail(list)]
          /\ live' = With(live, Head(list), size)

\* A request larger than the pool returns NULL before the lock is taken.
sys_malloc(size) ==
  /\ size <= PoolSize
  /\ malloc_large(size) \/ malloc_from_list(size) \/ malloc_new_arena(size)

-----------------------------------------------------------------------------
\* Mutant of free_large: only the first page is freed.
free_large_one_page(ptr) ==
  LET page == block2arena(ptr) IN
  /\ arena[page].large
  /\ vbits' = bitmap_set(vbits, page, 1, 0)
  /\ arena' = Without(arena, page)
  /\ UNCHANGED <<free, panic>>

(***************************************************************************)
(* What list_remove of every element of S leaves of a list.  (A recursive  *)
(* function and not SelectSeq: the provers know no definition of that.)    *)
(***************************************************************************)
list_remove_all(list, S) ==
  LET kept[i \in 0 .. Len(list)] ==
        IF i = 0 THEN <<>>
        ELSE IF list[i] \in S THEN kept[i - 1] ELSE Append(kept[i - 1], list[i])
  IN  kept[Len(list)]

(***************************************************************************)
(* sys_free.  A small block goes back to its list; when it was the last    *)
(* one of its arena, the arena's blocks leave the list and its page is     *)
(* freed.                                                                  *)
(***************************************************************************)
free_large(ptr) ==
  LET page == block2arena(ptr) IN
  /\ arena[page].large
  /\ vbits' = bitmap_set(vbits, page, arena[page].cnt, 0)
  /\ arena' = Without(arena, page)
  /\ UNCHANGED <<free, panic>>

free_block(ptr) ==
  LET page == block2arena(ptr)
      d    == arena[page].desc
      list == Append(free[d], ptr)
      cnt  == arena[page].cnt + 1
      all  == Range(Blocks(page, d))
  IN
  /\ ~arena[page].large
  /\ IF cnt # blocks_per_arena(d)
     THEN /\ free' = [free EXCEPT ![d] = list]
          /\ arena' = [arena EXCEPT ![page].cnt = cnt]
          /\ UNCHANGED <<vbits, panic>>
     ELSE /\ free' = [free EXCEPT ![d] = list_remove_all(list, all)]
          /\ arena' = Without(arena, page)
          /\ vbits' = bitmap_set(vbits, page, 1, 0)
          /\ panic' = Failing(all \subseteq Range(list), "sys_free: block not in free list")

sys_free(ptr) ==
  /\ free_large(ptr) \/ free_block(ptr)
  /\ live' = Without(live, ptr)

Next ==
  /\ panic = {}
  /\ \/ \E size \in Sizes : Cardinality(DOMAIN live) < MaxLive /\ sys_malloc(size)
     \/ \E ptr \in DOMAIN live : sys_free(ptr)

Spec == Init /\ [][Next]_vars

-----------------------------------------------------------------------------

HeapTypeOK ==
  /\ vbits \subseteq 0 .. HeapBytes
  /\ DOMAIN arena \subseteq vbits
  /\ \A p \in DOMAIN arena : arena[p] \in [desc : 0 .. DESC_CNT, cnt : Nat, large : BOOLEAN]
  /\ free \in [Descs -> Seq(Nat)]
  /\ DOMAIN live \subseteq Nat
  /\ \A p \in DOMAIN live : live[p] \in Sizes

\* The pages of an arena.
Pages(p) == IF arena[p].large THEN p .. p + arena[p].cnt - 1 ELSE {p}

Overlap(a, m, b, n) == a < b + n /\ b < a + m

(***************************************************************************)
(* Memory handed out is the caller's alone: it shares no byte with another *)
(* allocation, with a block on a free list or with the header of an arena, *)
(* and lies within the pages of its arena.                                 *)
(***************************************************************************)
NoOverlap ==
  /\ \A p, q \in DOMAIN live : p # q => ~Overlap(p, live[p], q, live[q])
  /\ \A p \in DOMAIN live :
       /\ \A d \in Descs : \A b \in Range(free[d]) :
            ~Overlap(p, live[p], b, block_size(d))
       /\ \A a \in DOMAIN arena : ~Overlap(p, live[p], a * PG_SIZE, ArenaHdr)
       /\ LET a == block2arena(p) IN
            /\ a \in DOMAIN arena
            /\ p + live[p] <= (a + Cardinality(Pages(a))) * PG_SIZE

(***************************************************************************)
(* The count in an arena's header is the number of its blocks on the free  *)
(* list, and a free list holds blocks of existing arenas, each once.       *)
(***************************************************************************)
FreeListsInv ==
  /\ \A d \in Descs :
       /\ IsInjective(free[d])
       /\ \A b \in Range(free[d]) :
            LET a == block2arena(b) IN
            a \in DOMAIN arena /\ arena[a].desc = d /\ b \in Range(Blocks(a, d))
  /\ \A a \in DOMAIN arena :
       ~arena[a].large =>
         arena[a].cnt = Cardinality({b \in Range(free[arena[a].desc]) : block2arena(b) = a})

(***************************************************************************)
(* No page is kept for nothing: each page in use belongs to exactly one    *)
(* arena, and each arena holds memory that a caller has not freed.         *)
(***************************************************************************)
NoPageLeaked ==
  /\ vbits = UNION {Pages(a) : a \in DOMAIN arena}
  /\ \A a, b \in DOMAIN arena : a # b => Pages(a) \cap Pages(b) = {}
  /\ DOMAIN arena = {block2arena(p) : p \in DOMAIN live}
=============================================================================
