----------------------------- MODULE PageAlloc -----------------------------
(***************************************************************************)
(* The page allocator of kernel/memory.c: malloc_page, get_a_page and      *)
(* mfree_page over the kernel's pool of frames and the user pool, the      *)
(* virtual address bitmaps, and the page tables of the kernel and of each  *)
(* process.                                                                *)
(*                                                                         *)
(* A call holds the lock of one pool from beginning to end (the locks are  *)
(* those of module Mutex), but page_table_add takes a frame of the kernel  *)
(* pool for a new page table whichever lock is held.  palloc is therefore  *)
(* two steps, the scan of the bitmap and the write of the bit, between     *)
(* which another thread may run; and every step of a thread may be         *)
(* followed by a switch to another one, which reloads cr3 and so empties   *)
(* the TLB.                                                                *)
(*                                                                         *)
(* The program counter of a thread:                                        *)
(*   "idle"    in no call                                                  *)
(*   "scan"    palloc for a page: bitmap_scan          (memory.c line 85)  *)
(*   "set"     palloc for a page: bitmap_set           (line 88)           *)
(*   "map"     page_table_add                          (line 97)           *)
(*   "tscan"   palloc for a page table: bitmap_scan    (lines 109, 85)     *)
(*   "tset"    palloc for a page table: bitmap_set     (lines 109, 88)     *)
(*   "tclear"  the table is linked and cleared         (lines 110, 113)    *)
(*   "tmap"    the first entry of a new table          (line 114)          *)
(*   "mapped"  all pages are mapped                    (line 148)          *)
(*   "pfree"   mfree_page: the frame of the next page  (line 402)          *)
(*   "unmap"   mfree_page: the entry of the next page  (line 404)          *)
(*   "vaddr"   mfree_page: the virtual addresses       (line 408)          *)
(***************************************************************************)
EXTENDS BitmapOps, FiniteSets

CONSTANTS
  KThreads, Procs,    \* kernel threads, user processes
  Groups,             \* the sets of threads that may run together
  KernelBytes,        \* btmp_bytes_len of the kernel pool and kernel_vaddr
  UserBytes,          \* btmp_bytes_len of the user pool
  SpaceBytes,         \* btmp_bytes_len of userprog_vaddr
  StackPage,          \* the page of USER_STACK3_VADDR
  TablePages,         \* pages mapped by one page table
  MaxPages,           \* bound on the pages of one call
  MaxRegions,         \* bound on the regions a thread holds at once
  Kernel, NULL

Threads == KThreads \cup Procs
Spaces  == {Kernel} \cup Procs

ASSUME PageAllocAssumption ==
  /\ NULL \notin Threads /\ Kernel \notin Procs
  /\ Groups \subseteq SUBSET Threads
  /\ {KernelBytes, UserBytes, SpaceBytes, TablePages, MaxPages, MaxRegions} \subseteq Nat \ {0}
  /\ StackPage \in Nat \ {0}

VARIABLES
  group,     \* the threads that run
  cur,       \* the running thread
  tlb,       \* the translations the TLB holds, <<page, frame>>
  lock,      \* holder of each pool's lock
  pool,      \* pool_bitmap of each pool
  vbits,     \* vaddr_bitmap of each address space
  pte,       \* the frame each page of each address space is mapped to
  pde,       \* the frames of the page tables of each process
  dirty,     \* frames with words whose low bit is 1
  regions,   \* what each thread has allocated: <<first page, pages>>
  pc,
  call,      \* the arguments and local variables of each thread's call
  panic

mem  == <<lock, pool, vbits, pte, pde, dirty>>
vars == <<group, cur, tlb, mem, regions, pc, call, panic>>

\* PF, mem_pool and the address space of a thread's calls.
PoolOf(t)  == IF t \in Procs THEN "user" ELSE "kernel"
SpaceOf(t) == IF t \in Procs THEN t ELSE Kernel

PoolBytes  == [p \in {"kernel", "user"} |-> IF p = "kernel" THEN KernelBytes ELSE UserBytes]
VaddrBytes == [s \in Spaces |-> IF s = Kernel THEN KernelBytes ELSE SpaceBytes]

TableOf(page) == page \div TablePages

Failing(condition, label) == IF condition THEN {} ELSE {label}

goto(label) == pc' = [pc EXCEPT ![cur] = label]

NoCall == [page |-> 0, n |-> 0, i |-> 0, idx |-> 0, frame |-> NULL]

EmptyMap == [x \in {} |-> NULL]

(***************************************************************************)
(* mem_pool_init; the loader has set up the kernel's page tables, and a    *)
(* new process has none of its own.                                        *)
(***************************************************************************)
Init ==
  /\ group \in Groups
  /\ cur \in group
  /\ tlb = {}
  /\ lock = [p \in {"kernel", "user"} |-> NULL]
  /\ pool = [p \in {"kernel", "user"} |-> {}]
  /\ vbits = [s \in Spaces |-> {}]
  /\ pte = [s \in Spaces |-> EmptyMap]
  /\ pde = [p \in Procs |-> EmptyMap]
  /\ dirty = {}
  /\ regions = [t \in Threads |-> {}]
  /\ pc = [t \in Threads |-> "idle"]
  /\ call = [t \in Threads |-> NoCall]
  /\ panic = {}

-----------------------------------------------------------------------------
\* Mutant of lock_acquire: it does not wait.
lock_acquire_at_once(p) == lock' = [lock EXCEPT ![p] = cur]

\* lock_acquire and lock_release of a pool's lock (see module Mutex).
lock_acquire(p) == lock[p] = NULL /\ lock' = [lock EXCEPT ![p] = cur]

lock_release(p) == lock' = [lock EXCEPT ![p] = NULL]

\* One request stays below this many pages, 15 MB.
PageLimit == 3840

\* The request is below the limit and vaddr_get has found the pages.
malloc_page_asserts(n, page) ==
  Failing(n < PageLimit, "malloc_page: pg_cnt")
  \cup Failing(page # -1, "vaddr_get: no virtual pages")

(***************************************************************************)
(* get_kernel_pages, get_user_pages and the callers of malloc_page in      *)
(* sys_malloc: the lock is taken and vaddr_get reserves n virtual pages.   *)
(***************************************************************************)
malloc_page(n) ==
  LET s      == SpaceOf(cur)
      page   == bitmap_scan(vbits[s], n, VaddrBytes[s])
      failed == malloc_page_asserts(n, page)
  IN
  /\ pc[cur] = "idle"
  /\ cur \in Procs => <<StackPage, 1>> \in regions[cur]
  /\ lock_acquire(PoolOf(cur))
  /\ panic' = failed
  /\ vbits' = [vbits EXCEPT ![s] = IF failed = {} THEN bitmap_set(@, page, n, 1) ELSE @]
  /\ call' = [call EXCEPT ![cur] = [NoCall EXCEPT !.page = page, !.n = n]]
  /\ goto("scan")
  /\ UNCHANGED <<pool, pte, pde, dirty, regions>>

\* get_a_page(PF_USER, USER_STACK3_VADDR), the first call of a process.
get_a_page ==
  /\ pc[cur] = "idle"
  /\ cur \in Procs
  /\ <<StackPage, 1>> \notin regions[cur]
  /\ lock_acquire("user")
  /\ vbits' = [vbits EXCEPT ![cur] = bitmap_set(@, StackPage, 1, 1)]
  /\ call' = [call EXCEPT ![cur] = [NoCall EXCEPT !.page = StackPage, !.n = 1]]
  /\ goto("scan")
  /\ UNCHANGED <<pool, pte, pde, dirty, regions, panic>>

\* Mutant of palloc_scan: a failed scan goes unnoticed.
palloc_scan_unchecked(p, from, to) ==
  /\ pc[cur] = from
  /\ call' = [call EXCEPT ![cur].idx = bitmap_scan(pool[p], 1, PoolBytes[p])]
  /\ goto(to)
  /\ UNCHANGED <<mem, regions, panic>>

\* palloc(p), from label "from" to label "to".
palloc_scan(p, from, to) ==
  LET idx == bitmap_scan(pool[p], 1, PoolBytes[p]) IN
  /\ pc[cur] = from
  /\ panic' = Failing(idx # -1, "palloc: pool exhausted")
  /\ call' = [call EXCEPT ![cur].idx = idx]
  /\ goto(to)
  /\ UNCHANGED <<mem, regions>>

palloc_set(p, from, to) ==
  /\ pc[cur] = from
  /\ pool' = [pool EXCEPT ![p] = bitmap_set(@, call[cur].idx, 1, 1)]
  /\ goto(to)
  /\ UNCHANGED <<lock, vbits, pte, pde, dirty, regions, panic>>

page_palloc_scan == palloc_scan(PoolOf(cur), "scan", "set")

page_palloc_set ==
  /\ palloc_set(PoolOf(cur), "set", "map")
  /\ call' = [call EXCEPT ![cur].frame = <<PoolOf(cur), call[cur].idx>>]

table_palloc_scan == palloc_scan("kernel", "tscan", "tset")

table_palloc_set ==
  /\ palloc_set("kernel", "tset", "tclear")
  /\ UNCHANGED call

-----------------------------------------------------------------------------
Page(t) == call[t].page + call[t].i

TablePresent(s, page) == s = Kernel \/ TableOf(page) \in DOMAIN pde[s]

Bind(f, x, v) == [y \in DOMAIN f \cup {x} |-> IF y = x THEN v ELSE f[y]]

\* Mutant of Unbind: the entry stays present.
Unbind_nothing(f, x) == f

Unbind(f, x) == [y \in DOMAIN f \ {x} |-> f[y]]

\* The entry is written; the loop of malloc_page goes on to the next page.
MapPage ==
  /\ pte' = [pte EXCEPT ![SpaceOf(cur)] = Bind(@, Page(cur), call[cur].frame)]
  /\ call' = [call EXCEPT ![cur].i = @ + 1]
  /\ goto(IF call[cur].i + 1 < call[cur].n THEN "scan" ELSE "mapped")

page_table_add ==
  /\ pc[cur] = "map"
  /\ IF TablePresent(SpaceOf(cur), Page(cur))
     THEN /\ MapPage
          /\ panic' = Failing(Page(cur) \notin DOMAIN pte[SpaceOf(cur)], "PTE REPEAT")
     ELSE goto("tscan") /\ UNCHANGED <<pte, call, panic>>
  /\ UNCHANGED <<lock, pool, vbits, pde, dirty, regions>>

table_clear ==
  LET frame == <<"kernel", call[cur].idx>> IN
  /\ pc[cur] = "tclear"
  /\ pde' = [pde EXCEPT ![cur] = Bind(@, TableOf(Page(cur)), frame)]
  /\ dirty' = dirty \ {frame}
  /\ goto("tmap")
  /\ UNCHANGED <<lock, pool, vbits, pte, regions, call, panic>>

\* ASSERT(!(*pte&0x00000001)), then the entry.
table_map ==
  /\ pc[cur] = "tmap"
  /\ panic' = Failing(pde[cur][TableOf(Page(cur))] \notin dirty, "page_table_add: pte present")
  /\ MapPage
  /\ UNCHANGED <<lock, pool, vbits, pde, dirty, regions>>

\* An access of the running thread: through the TLB if it has the page.
Translate(page) ==
  IF \E f \in {x[2] : x \in tlb} : <<page, f>> \in tlb
  THEN CHOOSE f \in {x[2] : x \in tlb} : <<page, f>> \in tlb
  ELSE pte[SpaceOf(cur)][page]

Touched(first, n) == {<<p, Translate(p)>> : p \in first .. first + n - 1}

\* The lock is released; the pages of malloc_page's callers are cleared first.
Return ==
  /\ lock_release(PoolOf(cur))
  /\ regions' = [regions EXCEPT ![cur] = @ \cup {<<call[cur].page, call[cur].n>>}]
  /\ call' = [call EXCEPT ![cur] = NoCall]
  /\ goto("idle")
  /\ UNCHANGED <<pool, vbits, pte, pde, panic>>

malloc_page_return ==
  LET touched == Touched(call[cur].page, call[cur].n) IN
  /\ pc[cur] = "mapped"
  /\ call[cur].page # StackPage
  /\ dirty' = dirty \ {x[2] : x \in touched}
  /\ tlb' = tlb \cup touched
  /\ Return

get_a_page_return ==
  /\ pc[cur] = "mapped"
  /\ call[cur].page = StackPage
  /\ Return
  /\ UNCHANGED dirty

-----------------------------------------------------------------------------
(***************************************************************************)
(* mfree_page.  pfree releases the frame of the next page, and             *)
(* page_table_pte_remove clears its entry.  The invlpg instruction of the  *)
(* latter has the variable vaddr, and not the page it points to, as its    *)
(* operand: no entry of the TLB for the page is dropped.                   *)
(***************************************************************************)
mfree_page(region) ==
  /\ pc[cur] = "idle"
  /\ region \in regions[cur] /\ region # <<StackPage, 1>>
  /\ lock_acquire(PoolOf(cur))
  /\ call' = [call EXCEPT ![cur] = [NoCall EXCEPT !.page = region[1], !.n = region[2]]]
  /\ regions' = [regions EXCEPT ![cur] = @ \ {region}]
  /\ goto("pfree")
  /\ UNCHANGED <<pool, vbits, pte, pde, dirty, panic>>

pfree ==
  LET frame == pte[SpaceOf(cur)][Page(cur)] IN
  /\ pc[cur] = "pfree"
  /\ pool' = [pool EXCEPT ![frame[1]] = bitmap_set(@, frame[2], 1, 0)]
  /\ goto("unmap")
  /\ UNCHANGED <<lock, vbits, pte, pde, dirty, regions, call, panic>>

page_table_pte_remove ==
  /\ pc[cur] = "unmap"
  /\ pte' = [pte EXCEPT ![SpaceOf(cur)] = Unbind(@, Page(cur))]
  /\ call' = [call EXCEPT ![cur].i = @ + 1]
  /\ goto(IF call[cur].i + 1 < call[cur].n THEN "pfree" ELSE "vaddr")
  /\ UNCHANGED <<lock, pool, vbits, pde, dirty, regions, panic>>

\* Mutant of vaddr_remove: one page of the region is forgotten.
vaddr_remove_short ==
  /\ pc[cur] = "vaddr"
  /\ vbits' = [vbits EXCEPT ![SpaceOf(cur)] = bitmap_set(@, call[cur].page, call[cur].n - 1, 0)]
  /\ lock_release(PoolOf(cur))
  /\ call' = [call EXCEPT ![cur] = NoCall]
  /\ goto("idle")
  /\ UNCHANGED <<pool, pte, pde, dirty, regions, panic>>

vaddr_remove ==
  /\ pc[cur] = "vaddr"
  /\ vbits' = [vbits EXCEPT ![SpaceOf(cur)] = bitmap_set(@, call[cur].page, call[cur].n, 0)]
  /\ lock_release(PoolOf(cur))
  /\ call' = [call EXCEPT ![cur] = NoCall]
  /\ goto("idle")
  /\ UNCHANGED <<pool, pte, pde, dirty, regions, panic>>

-----------------------------------------------------------------------------
\* A word with the low bit set is written into the first page of a region: the
\* header of an arena, the links of its blocks, or what the caller keeps there.
Write(region) ==
  LET touched == Touched(region[1], 1) IN
  /\ pc[cur] = "idle"
  /\ region \in regions[cur]
  /\ dirty' = dirty \cup {x[2] : x \in touched}
  /\ tlb' = tlb \cup touched
  /\ UNCHANGED <<lock, pool, vbits, pte, pde, regions, pc, call, panic>>

\* The steps that leave the TLB alone.
Step ==
  \/ \E n \in 1 .. MaxPages : Cardinality(regions[cur]) < MaxRegions /\ malloc_page(n)
  \/ get_a_page
  \/ page_palloc_scan \/ page_palloc_set \/ page_table_add
  \/ table_palloc_scan \/ table_palloc_set \/ table_clear \/ table_map
  \/ \E region \in regions[cur] : mfree_page(region)
  \/ get_a_page_return
  \/ pfree \/ page_table_pte_remove \/ vaddr_remove

\* schedule(): page_dir_activate loads cr3.
Switch(t) ==
  /\ t # cur
  /\ cur' = t
  /\ tlb' = {}
  /\ UNCHANGED <<group, mem, regions, pc, call, panic>>

Next ==
  /\ panic = {}
  /\ \/ Step /\ UNCHANGED <<group, cur, tlb>>
     \/ malloc_page_return /\ UNCHANGED <<group, cur>>
     \/ (\E region \in regions[cur] : Write(region)) /\ UNCHANGED <<group, cur>>
     \/ \E t \in group : Switch(t)

Spec == Init /\ [][Next]_vars

-----------------------------------------------------------------------------

PageTypeOK ==
  /\ cur \in group
  /\ pool["kernel"] \subseteq 0 .. KernelBytes - 1
  /\ pool["user"] \subseteq 0 .. UserBytes - 1
  /\ \A s \in Spaces : vbits[s] \subseteq 0 .. VaddrBytes[s] + StackPage
  /\ \A s \in Spaces : \A p \in DOMAIN pte[s] : pte[s][p][1] \in {"kernel", "user"}
  /\ \A p \in DOMAIN lock : lock[p] \in Threads \cup {NULL}

(***************************************************************************)
(* Where a frame is in use: mapped by a page, as a page table, or taken    *)
(* from its pool by a call that has not mapped it yet.                     *)
(***************************************************************************)
PageUses  == UNION {{<<"page", s, p, pte[s][p]>> : p \in DOMAIN pte[s]} : s \in Spaces}
TableUses == UNION {{<<"table", s, n, pde[s][n]>> : n \in DOMAIN pde[s]} : s \in Procs}
HandUses  == {<<"hand", t, 0, call[t].frame>> :
                t \in {x \in Threads : pc[x] \in {"map", "tscan", "tset", "tclear", "tmap"}}}
Uses      == PageUses \cup TableUses \cup HandUses

\* The page whose frame mfree_page has freed and whose entry it will clear.
Leaving == {<<"page", SpaceOf(t), Page(t), pte[SpaceOf(t)][Page(t)]>> :
              t \in {x \in Threads : pc[x] = "unmap"}}

(***************************************************************************)
(* A frame has one use: no two pages, page tables or calls share one, in   *)
(* any address spaces, and a frame in use is not free in its pool.  The    *)
(* exception is the frame that mfree_page frees before it unmaps it, which *)
(* the pool's lock keeps from everybody else.                              *)
(***************************************************************************)
FrameOwnership ==
  /\ \A u, v \in Uses : u[4] = v[4] => u = v
  /\ \A u \in Uses \ Leaving : u[4][2] \in pool[u[4][1]]

(***************************************************************************)
(* Nothing is leaked: while no call is under way the two bitmaps, the page *)
(* tables and what the callers hold are the same allocation seen from four *)
(* sides.                                                                  *)
(***************************************************************************)
BitmapsAgree ==
  (\A t \in Threads : pc[t] = "idle") =>
    /\ \A p \in DOMAIN pool : pool[p] = {u[4][2] : u \in {x \in Uses : x[4][1] = p}}
    /\ \A s \in Spaces :
         /\ vbits[s] = DOMAIN pte[s]
         /\ vbits[s] = UNION {region[1] .. region[1] + region[2] - 1 :
                                region \in UNION {regions[t] : t \in {x \in Threads : SpaceOf(x) = s}}}

(***************************************************************************)
(* page_table_add finds the entry of a new page clear, in a page table     *)
(* that was there ("PTE REPEAT") and in one it has just cleared.           *)
(***************************************************************************)
PteClear == panic \cap {"PTE REPEAT", "page_table_add: pte present"} = {}

(***************************************************************************)
(* mfree_page gives the memory back: an access to a page allocated later   *)
(* reaches the frame that the page table has for it.                       *)
(***************************************************************************)
FreedForGood ==
  \A region \in regions[cur] : \A p \in region[1] .. region[1] + region[2] - 1 :
    Translate(p) = pte[SpaceOf(cur)][p]
=============================================================================
