-------------------------- MODULE PageAllocProofs --------------------------
(***************************************************************************)
(* The page allocator keeps every frame to one owner, for any number of    *)
(* threads, pages and frames, as long as the threads that run together all *)
(* take the lock of the same pool.  The lock then leaves one call under    *)
(* way at a time, and the invariant says of each label of a call which of  *)
(* its pages are reserved, mapped and freed, and where the frame it works  *)
(* on is recorded.                                                         *)
(***************************************************************************)
EXTENDS PageAlloc, WellFoundedInduction, TLAPS

\* The threads that run together take one lock.
OneLockEach == \A g \in Groups : \A t, u \in g : PoolOf(t) = PoolOf(u)

Pools == {"kernel", "user"}

SpacePool(s) == IF s = Kernel THEN "kernel" ELSE "user"

TableLabels == {"tscan", "tset", "tclear", "tmap"}
HandLabels  == {"map"} \cup TableLabels
AllocLabels == {"scan", "set", "mapped"} \cup HandLabels
FreeLabels  == {"pfree", "unmap", "vaddr"}
DoneLabels  == {"mapped", "vaddr"}

Calls == [page : Nat, n : Nat \ {0}, i : Nat, idx : Int, frame : (Pools \X Nat) \cup {NULL}]

RegionPages(r) == r[1] .. r[1] + r[2] - 1
CallPages(t)   == call[t].page .. call[t].page + call[t].n - 1

TypeInv ==
  /\ group \in Groups /\ cur \in group
  /\ lock \in [Pools -> Threads \cup {NULL}]
  /\ pool \in [Pools -> SUBSET Nat]
  /\ vbits \in [Spaces -> SUBSET Nat]
  /\ DOMAIN pte = Spaces
  /\ DOMAIN pde = Procs
  /\ regions \in [Threads -> SUBSET (Nat \X (Nat \ {0}))]
  /\ pc \in [Threads -> {"idle"} \cup AllocLabels \cup FreeLabels]
  /\ DOMAIN call = Threads
  /\ \A t \in Threads : pc[t] # "idle" => call[t] \in Calls

\* A thread that is in a call is one of those that run, and has the lock.
LockInv ==
  /\ \A t \in Threads : pc[t] # "idle" => t \in group /\ lock[PoolOf(t)] = t
  /\ \A t \in Threads : t \notin group => regions[t] = {}

\* How far a call is, and which of its pages have an entry.
ProgressInv ==
  \A t \in Threads :
    /\ pc[t] # "idle" => IF pc[t] \in DoneLabels THEN call[t].i = call[t].n
                                                 ELSE call[t].i < call[t].n
    /\ pc[t] \in AllocLabels =>
         \A x \in CallPages(t) : x \in DOMAIN pte[SpaceOf(t)] <=> x < Page(t)
    /\ pc[t] \in FreeLabels =>
         \A x \in CallPages(t) : x \in DOMAIN pte[SpaceOf(t)] <=> x >= Page(t)

\* The pages in use are those of the regions and of the calls, each of one.
SpaceInv ==
  /\ \A s \in Spaces : vbits[s] \subseteq 0 .. VaddrBytes[s] + StackPage
  /\ \A s \in Spaces : DOMAIN pte[s] \subseteq vbits[s]
  /\ \A s \in Spaces : \A x \in vbits[s] : \E t \in Threads :
       /\ SpaceOf(t) = s
       /\ \/ pc[t] # "idle" /\ x \in CallPages(t)
          \/ \E r \in regions[t] : x \in RegionPages(r)
  /\ \A t \in Threads : pc[t] # "idle" => CallPages(t) \subseteq vbits[SpaceOf(t)]
  /\ \A t \in Threads : \A r \in regions[t] : RegionPages(r) \subseteq DOMAIN pte[SpaceOf(t)]
  /\ \A t, u \in Threads : SpaceOf(t) = SpaceOf(u) =>
       /\ \A r \in regions[t], q \in regions[u] :
            (t # u \/ r # q) => RegionPages(r) \cap RegionPages(q) = {}
       /\ pc[t] # "idle" =>
            \A q \in regions[u] : CallPages(t) \cap RegionPages(q) = {}

\* The first page of a process is that of its stack.
StackInv ==
  \A t \in Procs :
    <<StackPage, 1>> \notin regions[t] =>
      /\ regions[t] = {}
      /\ pc[t] # "idle" => pc[t] \in AllocLabels /\ call[t].page = StackPage /\ call[t].n = 1

\* mfree_page has freed the frame of page x of space s, and not its entry.
Leaves(s, x) == \E t \in Threads : pc[t] = "unmap" /\ SpaceOf(t) = s /\ Page(t) = x

InPool(f) == f[2] \in pool[f[1]]

FrameTypes ==
  /\ \A p \in Pools : pool[p] \subseteq 0 .. PoolBytes[p] - 1
  /\ \A s \in Spaces : \A x \in DOMAIN pte[s] : pte[s][x] \in {SpacePool(s)} \X Nat
  /\ \A s \in Procs : \A n \in DOMAIN pde[s] : pde[s][n] \in {"kernel"} \X Nat
  /\ \A t \in Threads : pc[t] \in HandLabels => call[t].frame \in {PoolOf(t)} \X Nat
  /\ \A e \in tlb : e[2] \in {PoolOf(cur)} \X Nat

\* Every frame in use is taken from its pool ...
TakenInv ==
  /\ \A s \in Spaces : \A x \in DOMAIN pte[s] : Leaves(s, x) \/ InPool(pte[s][x])
  /\ \A s \in Procs : \A n \in DOMAIN pde[s] : InPool(pde[s][n])
  /\ \A t \in Threads : pc[t] \in HandLabels => InPool(call[t].frame)

\* ... and has one use ...
UniqueInv ==
  /\ \A s, z \in Spaces : \A x \in DOMAIN pte[s], y \in DOMAIN pte[z] :
       pte[s][x] = pte[z][y] => s = z /\ x = y
  /\ \A s, z \in Procs : \A m \in DOMAIN pde[s], n \in DOMAIN pde[z] :
       pde[s][m] = pde[z][n] => s = z /\ m = n
  /\ \A s \in Spaces, z \in Procs : \A x \in DOMAIN pte[s], n \in DOMAIN pde[z] :
       pte[s][x] # pde[z][n]
  /\ \A t \in Threads : pc[t] \in HandLabels =>
       /\ \A s \in Spaces : \A x \in DOMAIN pte[s] : pte[s][x] # call[t].frame
       /\ \A s \in Procs : \A n \in DOMAIN pde[s] : pde[s][n] # call[t].frame

\* ... and every frame that is taken has a use.
UsedByPage(f)  == \E s \in Spaces : \E x \in DOMAIN pte[s] : pte[s][x] = f /\ ~Leaves(s, x)
UsedByTable(f) == \E s \in Procs : \E n \in DOMAIN pde[s] : pde[s][n] = f
InHand(f)      == \E t \in Threads : pc[t] \in HandLabels /\ call[t].frame = f
NewTable(f)    == \E t \in Threads : pc[t] = "tclear" /\ <<"kernel", call[t].idx>> = f

NoLeakInv ==
  \A p \in Pools : \A k \in pool[p] :
    \/ UsedByPage(<<p, k>>) \/ UsedByTable(<<p, k>>)
    \/ InHand(<<p, k>>) \/ NewTable(<<p, k>>)

\* The bit that palloc has found, and the page table that it is for.
PallocInv ==
  \A t \in Threads :
    /\ pc[t] = "set" => call[t].idx \in (0 .. PoolBytes[PoolOf(t)] - 1) \ pool[PoolOf(t)]
    /\ pc[t] = "tset" => call[t].idx \in (0 .. KernelBytes - 1) \ pool["kernel"]
    /\ pc[t] \in TableLabels => t \in Procs
    /\ pc[t] \in TableLabels \ {"tmap"} => TableOf(Page(t)) \notin DOMAIN pde[t]
    /\ pc[t] = "tclear" =>
         /\ call[t].idx \in pool["kernel"]
         /\ \A s \in Spaces : \A x \in DOMAIN pte[s] : pte[s][x] # <<"kernel", call[t].idx>>
         /\ \A s \in Procs : \A n \in DOMAIN pde[s] : pde[s][n] # <<"kernel", call[t].idx>>
    /\ pc[t] = "tmap" =>
         /\ TableOf(Page(t)) \in DOMAIN pde[t]
         /\ pde[t][TableOf(Page(t))] \notin dirty

\* The invariant of a machine that runs.
RunInv ==
  /\ TypeInv /\ LockInv /\ ProgressInv /\ SpaceInv /\ StackInv
  /\ FrameTypes /\ TakenInv /\ UniqueInv /\ NoLeakInv /\ PallocInv

\* A machine that has stopped did so in a call, which left all frames alone.
HaltInv ==
  /\ PageTypeOK /\ TakenInv /\ UniqueInv
  /\ cur \in Threads /\ pc[cur] # "idle"
  /\ \A t, u \in Threads : pc[t] # "idle" /\ pc[u] # "idle" => t = u

PageInv ==
  /\ PteClear
  /\ panic = {} => RunInv
  /\ panic # {} => HaltInv

-----------------------------------------------------------------------------
\* A set of numbers that is not empty has a smallest one.
LEMMA Smallest ==
  ASSUME NEW S, S \subseteq Nat, S # {}
  PROVE  \E i \in S : \A j \in S : i <= j
<1> DEFINE R == {ss \in Nat \X Nat : ss[1] < ss[2]}
<1>1. OpToRel(<, Nat) = R
  BY DEF OpToRel
<1>2. IsWellFoundedOn(R, Nat)
  BY <1>1, NatLessThanWellFounded
<1>3. PICK i \in S : \A j \in S : ~(<<j, i>> \in R)
  <2> HIDE DEF R
  <2> QED  BY <1>2, WFMin
<1>4. ASSUME NEW j \in S PROVE i <= j
  <2>1. i \in Nat /\ j \in Nat /\ ~(<<j, i>> \in R)
    <3> HIDE DEF R
    <3> QED  BY <1>3
  <2>2. ~(j < i)
    BY <2>1
  <2> QED  BY <2>1, <2>2
<1> QED  BY <1>4

\* bitmap_scan returns -1, or the start of a free run within the bitmap.
LEMMA ScanFree ==
  ASSUME NEW used, NEW n \in Nat \ {0}, NEW bytes \in Nat,
         NEW k, k = bitmap_scan(used, n, bytes), k # -1
  PROVE  k \in Nat /\ k + n < bytes /\ \A x \in k .. k + n - 1 : x \notin used
<1> DEFINE S == Starts(used, n, bytes)
<1>1. S # {} /\ k = CHOOSE i \in S : \A j \in S : i <= j
  BY DEF bitmap_scan
<1>2. \A i \in S : i \in Nat /\ i + n < bytes /\ \A x \in i .. i + n - 1 : x \notin used
  BY DEF Starts, FreeRun
<1> HIDE DEF S
<1>3. \E i \in S : \A j \in S : i <= j
  BY <1>1, <1>2, Smallest
<1>4. k \in S
  BY <1>1, <1>3
<1> QED  BY <1>2, <1>4

\* What bitmap_scan returns is an integer, found or not.
LEMMA ScanInt ==
  ASSUME NEW used, NEW n \in Nat \ {0}, NEW bytes \in Nat
  PROVE  bitmap_scan(used, n, bytes) \in Int
<1> DEFINE k == bitmap_scan(used, n, bytes)
<1>1. k # -1 => k \in Nat
  BY ScanFree
<1> HIDE DEF k
<1>2. k \in Int
  BY <1>1
<1> QED  BY <1>2 DEF k

\* One call at a time: the thread that is in a call has the lock.
LEMMA OneCall ==
  ASSUME OneLockEach, TypeInv, LockInv
  PROVE  /\ cur \in Threads
         /\ \A t \in Threads : pc[t] # "idle" => t \in group /\ PoolOf(t) = PoolOf(cur)
         /\ \A t, u \in Threads : pc[t] # "idle" /\ pc[u] # "idle" => t = u
         /\ lock[PoolOf(cur)] = NULL => \A t \in Threads : pc[t] = "idle"
<1>1. group \subseteq Threads
  BY PageAllocAssumption DEF TypeInv
<1>2. \A t \in Threads : pc[t] # "idle" => t \in group /\ PoolOf(t) = PoolOf(cur) /\ lock[PoolOf(t)] = t
  BY <1>1 DEF OneLockEach, TypeInv, LockInv
<1>3. NULL \notin Threads
  BY PageAllocAssumption
<1> QED  BY <1>1, <1>2, <1>3 DEF TypeInv

\* The spaces and pools of threads.
LEMMA Places ==
  ASSUME NEW t \in Threads
  PROVE  /\ SpaceOf(t) \in Spaces
         /\ PoolOf(t) \in Pools
         /\ SpacePool(SpaceOf(t)) = PoolOf(t)
         /\ \A p \in Procs : SpaceOf(p) = p /\ p # Kernel /\ PoolOf(p) = "user"
         /\ \A p \in Procs : SpaceOf(t) = p => t = p
         /\ SpaceOf(t) # Kernel => t \in Procs
BY PageAllocAssumption DEF Threads, Spaces, SpaceOf, PoolOf, Pools, SpacePool

LEMMA Bytes ==
  /\ \A p \in Pools : PoolBytes[p] \in Nat
  /\ PoolBytes["kernel"] = KernelBytes /\ PoolBytes["user"] = UserBytes
  /\ \A s \in Spaces : VaddrBytes[s] \in Nat
  /\ StackPage \in Nat
BY PageAllocAssumption DEF PoolBytes, VaddrBytes, Pools

-----------------------------------------------------------------------------
\* A step that moves a call along without touching its pages.
LEMMA SpaceQuiet ==
  ASSUME TypeInv, ProgressInv, SpaceInv, StackInv,
         UNCHANGED <<vbits, pte, regions>>,
         \A t \in Threads :
           /\ pc'[t] = "idle" <=> pc[t] = "idle"
           /\ pc'[t] \in AllocLabels <=> pc[t] \in AllocLabels
           /\ pc'[t] \in FreeLabels <=> pc[t] \in FreeLabels
           /\ pc'[t] \in DoneLabels <=> pc[t] \in DoneLabels
           /\ call'[t].page = call[t].page /\ call'[t].n = call[t].n /\ call'[t].i = call[t].i
  PROVE  ProgressInv' /\ SpaceInv' /\ StackInv'
<1>1. \A t \in Threads : CallPages(t)' = CallPages(t) /\ Page(t)' = Page(t)
  BY DEF CallPages, Page
<1>2. ProgressInv'
  BY <1>1 DEF ProgressInv
<1>3. SpaceInv'
  BY <1>1 DEF SpaceInv
<1>4. StackInv'
  BY DEF StackInv, Threads
<1> QED  BY <1>2, <1>3, <1>4

\* A step that moves a call along without touching its frames.
LEMMA FramesQuiet ==
  ASSUME TypeInv, TakenInv, UniqueInv, NoLeakInv,
         UNCHANGED <<pool, pte, pde>>,
         \A t \in Threads :
           /\ pc'[t] \in HandLabels <=> pc[t] \in HandLabels
           /\ pc[t] \in HandLabels => call'[t].frame = call[t].frame
           /\ pc'[t] = "unmap" <=> pc[t] = "unmap"
           /\ pc[t] = "unmap" => Page(t)' = Page(t)
           /\ pc'[t] = "tclear" <=> pc[t] = "tclear"
           /\ pc[t] = "tclear" => call'[t].idx = call[t].idx
  PROVE  TakenInv' /\ UniqueInv' /\ NoLeakInv'
<1>1. \A s, x : Leaves(s, x)' <=> Leaves(s, x)
  BY DEF Leaves
<1>2. \A f : InPool(f)' <=> InPool(f)
  BY DEF InPool
<1>3. TakenInv'
  BY <1>1, <1>2 DEF TakenInv
<1>4. UniqueInv'
  BY DEF UniqueInv
<1>5. NoLeakInv'
  <2> SUFFICES ASSUME NEW f PROVE /\ UsedByPage(f) => UsedByPage(f)'
                                  /\ UsedByTable(f) => UsedByTable(f)'
                                  /\ InHand(f) => InHand(f)'
                                  /\ NewTable(f) => NewTable(f)'
    BY DEF NoLeakInv
  <2>1. UsedByPage(f) => UsedByPage(f)'
    BY <1>1 DEF UsedByPage
  <2>2. UsedByTable(f) => UsedByTable(f)'
    BY DEF UsedByTable
  <2>3. InHand(f) => InHand(f)'
    BY DEF InHand
  <2>4. NewTable(f) => NewTable(f)'
    BY DEF NewTable
  <2> QED  BY <2>1, <2>2, <2>3, <2>4
<1> QED  BY <1>3, <1>4, <1>5

\* A call reserves pages that no one has.
LEMMA SpaceReserve ==
  ASSUME TypeInv, ProgressInv, SpaceInv, StackInv,
         NEW c \in Threads, \A t \in Threads : pc[t] = "idle",
         NEW page \in Nat, NEW n \in Nat \ {0},
         \A x \in page .. page + n - 1 : x \notin vbits[SpaceOf(c)],
         page + n - 1 <= VaddrBytes[SpaceOf(c)] + StackPage,
         c \in Procs => <<StackPage, 1>> \in regions[c] \/ (page = StackPage /\ n = 1),
         vbits' = [vbits EXCEPT ![SpaceOf(c)] = bitmap_set(@, page, n, 1)],
         call' = [call EXCEPT ![c] = [NoCall EXCEPT !.page = page, !.n = n]],
         pc' = [pc EXCEPT ![c] = "scan"],
         UNCHANGED <<pte, regions>>
  PROVE  ProgressInv' /\ SpaceInv' /\ StackInv'
<1> DEFINE s == SpaceOf(c)
           W == page .. page + n - 1
<1>1. /\ pc'[c] = "scan" /\ call'[c].page = page /\ call'[c].n = n /\ call'[c].i = 0
      /\ \A t \in Threads : t # c => pc'[t] = "idle" /\ call'[t] = call[t]
      /\ CallPages(c)' = W /\ Page(c)' = page
  BY DEF TypeInv, NoCall, CallPages, Page
<1>2. s \in Spaces /\ vbits'[s] = vbits[s] \cup W
  BY Places DEF TypeInv, bitmap_set
<1>3. \A z \in Spaces : vbits[z] \subseteq vbits'[z] /\ (z # s => vbits'[z] = vbits[z])
  BY <1>2 DEF TypeInv
<1>4. \A x \in W : x \notin DOMAIN pte[s]
  BY <1>2 DEF SpaceInv
<1>5. ProgressInv'
  BY <1>1, <1>4 DEF ProgressInv, AllocLabels, HandLabels, TableLabels, FreeLabels, DoneLabels
<1>6. StackInv'
  BY <1>1 DEF StackInv, AllocLabels, Threads
<1>7. SpaceInv'
  <2> HIDE DEF W, s
  <2>1. \A z \in Spaces : vbits'[z] \subseteq 0 .. VaddrBytes[z] + StackPage
    <3>1. W \subseteq 0 .. VaddrBytes[s] + StackPage
      BY Bytes, <1>2 DEF W, s
    <3> QED  BY <1>2, <1>3, <3>1 DEF SpaceInv
  <2>2. \A z \in Spaces : DOMAIN pte'[z] \subseteq vbits'[z]
    BY <1>3 DEF SpaceInv
  <2>3. ASSUME NEW z \in Spaces, NEW x \in vbits'[z]
        PROVE  \E t \in Threads : /\ SpaceOf(t) = z
                                  /\ \/ pc'[t] # "idle" /\ x \in CallPages(t)'
                                     \/ \E r \in regions'[t] : x \in RegionPages(r)
    <3>1. CASE x \in vbits[z]
      BY <3>1 DEF SpaceInv
    <3>2. CASE x \notin vbits[z]
      <4>1. z = s /\ x \in W
        BY <1>2, <1>3, <3>2
      <4> QED  BY <4>1, <1>1 DEF s, W
    <3> QED  BY <3>1, <3>2
  <2>4. \A t \in Threads : pc'[t] # "idle" => CallPages(t)' \subseteq vbits'[SpaceOf(t)]
    BY <1>1, <1>2 DEF s, W
  <2>5. ASSUME NEW u \in Threads, SpaceOf(u) = s, NEW q \in regions[u]
        PROVE  W \cap RegionPages(q) = {}
    <3>1. RegionPages(q) \subseteq vbits[s]
      BY <1>2, <2>5 DEF SpaceInv
    <3> QED  BY <3>1 DEF W, s
  <2>6. \A t, u \in Threads : SpaceOf(t) = SpaceOf(u) =>
       /\ \A r \in regions'[t], q \in regions'[u] :
            (t # u \/ r # q) => RegionPages(r) \cap RegionPages(q) = {}
       /\ pc'[t] # "idle" =>
            \A q \in regions'[u] : CallPages(t)' \cap RegionPages(q) = {}
    <3>1. \A t, u \in Threads : SpaceOf(t) = SpaceOf(u) =>
            \A r \in regions'[t], q \in regions'[u] :
              (t # u \/ r # q) => RegionPages(r) \cap RegionPages(q) = {}
      BY DEF SpaceInv
    <3>2. \A t, u \in Threads : SpaceOf(t) = SpaceOf(u) /\ pc'[t] # "idle" =>
            \A q \in regions'[u] : CallPages(t)' \cap RegionPages(q) = {}
      <4>1. CallPages(c)' = W
        BY <1>1 DEF W
      <4> QED  BY <1>1, <4>1, <2>5 DEF s
    <3> QED  BY <3>1, <3>2
  <2>7. \A t \in Threads : \A r \in regions'[t] : RegionPages(r) \subseteq DOMAIN pte'[SpaceOf(t)]
    BY DEF SpaceInv
  <2> QED  BY <2>1, <2>2, <2>3, <2>4, <2>6, <2>7 DEF SpaceInv
<1> QED  BY <1>5, <1>6, <1>7

\* The next page of a call gets its entry.
LEMMA SpaceMap ==
  ASSUME TypeInv, ProgressInv, SpaceInv, StackInv,
         NEW c \in Threads, pc[c] \in HandLabels,
         \A t \in Threads : t # c => pc[t] = "idle",
         NEW f,
         pte' = [pte EXCEPT ![SpaceOf(c)] = Bind(@, Page(c), f)],
         call' = [call EXCEPT ![c].i = @ + 1],
         pc' = [pc EXCEPT ![c] = IF call[c].i + 1 < call[c].n THEN "scan" ELSE "mapped"],
         UNCHANGED <<vbits, regions>>
  PROVE  ProgressInv' /\ SpaceInv' /\ StackInv'
<1> DEFINE s == SpaceOf(c)
<1>1. /\ call[c] \in Calls /\ call[c].i < call[c].n
      /\ \A x \in CallPages(c) : x \in DOMAIN pte[s] <=> x < Page(c)
  BY DEF TypeInv, ProgressInv, HandLabels, TableLabels, AllocLabels, DoneLabels
<1>2. call[c].page \in Nat /\ call[c].n \in Nat /\ call[c].i \in Nat
  BY <1>1 DEF Calls
<1>3. /\ call'[c].page = call[c].page /\ call'[c].n = call[c].n /\ call'[c].i = call[c].i + 1
      /\ \A t \in Threads : t # c => pc'[t] = "idle" /\ call'[t] = call[t]
  BY <1>1 DEF TypeInv, Calls
<1>4. \/ pc'[c] = "scan" /\ call'[c].i < call'[c].n
      \/ pc'[c] = "mapped" /\ call'[c].i = call'[c].n
  BY <1>1, <1>2, <1>3 DEF TypeInv
<1>5. CallPages(c)' = CallPages(c) /\ Page(c)' = Page(c) + 1 /\ Page(c) \in CallPages(c)
  BY <1>1, <1>2, <1>3 DEF CallPages, Page
<1>6. s \in Spaces /\ DOMAIN pte'[s] = DOMAIN pte[s] \cup {Page(c)}
  BY Places DEF TypeInv, Bind
<1>7. \A z \in Spaces : z # s => pte'[z] = pte[z]
  BY DEF TypeInv
<1>8. \A x \in CallPages(c) : x \in Int
  BY <1>2 DEF CallPages
<1>9. Page(c) \in Nat
  BY <1>2 DEF Page
<1> HIDE DEF s
<1>10. ProgressInv'
  <2>1. \A x \in CallPages(c)' : x \in DOMAIN pte'[s] <=> x < Page(c)'
    BY <1>1, <1>5, <1>6, <1>8, <1>9
  <2> QED  BY <1>3, <1>4, <2>1 DEF s, ProgressInv, AllocLabels, HandLabels, TableLabels, FreeLabels, DoneLabels
<1>11. StackInv'
  BY <1>3, <1>4 DEF StackInv, AllocLabels, HandLabels, TableLabels, Threads
<1>12. SpaceInv'
  <2>0. \A t \in Threads : /\ pc'[t] # "idle" <=> pc[t] # "idle"
                           /\ pc[t] # "idle" => CallPages(t)' = CallPages(t)
    BY <1>3, <1>4, <1>5 DEF HandLabels, TableLabels
  <2>1. \A z \in Spaces : DOMAIN pte[z] \subseteq DOMAIN pte'[z]
    BY <1>6, <1>7
  <2>2. \A z \in Spaces : DOMAIN pte'[z] \subseteq vbits'[z]
    BY <1>5, <1>6, <1>7, <2>0 DEF SpaceInv, s, HandLabels, TableLabels
  <2>3. \A t \in Threads : SpaceOf(t) \in Spaces
    BY Places
  <2>4. \A t \in Threads : \A r \in regions[t] : RegionPages(r) \subseteq DOMAIN pte'[SpaceOf(t)]
    BY <2>1, <2>3 DEF SpaceInv
  <2> QED  BY <2>0, <2>2, <2>4 DEF SpaceInv
<1> QED  BY <1>10, <1>11, <1>12

\* The pages of a call that has mapped them all become a region.
LEMMA SpaceReturn ==
  ASSUME TypeInv, ProgressInv, SpaceInv, StackInv,
         NEW c \in Threads, pc[c] = "mapped",
         \A t \in Threads : t # c => pc[t] = "idle",
         c \in Procs => <<StackPage, 1>> \in regions[c] \/ call[c].page = StackPage,
         regions' = [regions EXCEPT ![c] = @ \cup {<<call[c].page, call[c].n>>}],
         pc' = [pc EXCEPT ![c] = "idle"],
         UNCHANGED <<vbits, pte>>
  PROVE  ProgressInv' /\ SpaceInv' /\ StackInv'
<1> DEFINE s == SpaceOf(c)
           new == <<call[c].page, call[c].n>>
<1>1. /\ call[c] \in Calls /\ call[c].i = call[c].n
      /\ \A x \in CallPages(c) : x \in DOMAIN pte[s] <=> x < Page(c)
  BY DEF TypeInv, ProgressInv, HandLabels, TableLabels, AllocLabels, DoneLabels
<1>2. call[c].page \in Nat /\ call[c].n \in Nat
  BY <1>1 DEF Calls
<1>3. \A t \in Threads : pc'[t] = "idle" /\ (t # c => regions'[t] = regions[t])
  BY DEF TypeInv
<1>4. regions'[c] = regions[c] \cup {new}
  BY DEF TypeInv
<1>5. RegionPages(new) = CallPages(c)
  BY DEF RegionPages, CallPages
<1>6. CallPages(c) \subseteq DOMAIN pte[s]
  BY <1>1, <1>2 DEF CallPages, Page
<1>7. ProgressInv'
  BY <1>3 DEF ProgressInv, AllocLabels, HandLabels, TableLabels, FreeLabels
<1>8. StackInv'
  <2> SUFFICES ASSUME NEW t \in Procs, <<StackPage, 1>> \notin regions'[t]
               PROVE  regions'[t] = {}
    BY <1>3 DEF StackInv, Threads
  <2>1. CASE t = c
    <3>1. <<StackPage, 1>> \notin regions[c]
      BY <2>1, <1>4
    <3>2. call[c].page = StackPage /\ call[c].n = 1
      BY <2>1, <3>1 DEF StackInv
    <3> QED  BY <2>1, <1>4, <3>2
  <2>2. CASE t # c
    BY <2>2, <1>3 DEF StackInv, Threads
  <2> QED  BY <2>1, <2>2
<1>9. SpaceInv'
  <2> HIDE DEF s, new
  <2>1. ASSUME NEW z \in Spaces, NEW x \in vbits'[z]
        PROVE  \E t \in Threads : SpaceOf(t) = z /\ \E r \in regions'[t] : x \in RegionPages(r)
    <3>1. PICK t \in Threads : /\ SpaceOf(t) = z
                               /\ \/ pc[t] # "idle" /\ x \in CallPages(t)
                                  \/ \E r \in regions[t] : x \in RegionPages(r)
      BY DEF SpaceInv
    <3>2. CASE pc[t] # "idle" /\ x \in CallPages(t)
      <4>1. t = c
        BY <3>2
      <4>2. new \in regions'[c] /\ x \in RegionPages(new)
        BY <1>4, <1>5, <3>2, <4>1
      <4> QED  BY <3>1, <4>1, <4>2
    <3>3. CASE \E r \in regions[t] : x \in RegionPages(r)
      BY <3>1, <3>3, <1>3, <1>4
    <3> QED  BY <3>1, <3>2, <3>3
  <2>2. \A t \in Threads : \A r \in regions'[t] : RegionPages(r) \subseteq DOMAIN pte'[SpaceOf(t)]
    BY <1>3, <1>4, <1>5, <1>6 DEF SpaceInv, s
  <2>3. ASSUME NEW t \in Threads, NEW u \in Threads, SpaceOf(t) = SpaceOf(u),
               NEW r \in regions'[t], NEW q \in regions'[u], t # u \/ r # q
        PROVE  RegionPages(r) \cap RegionPages(q) = {}
    <3>1. CASE r \in regions[t] /\ q \in regions[u]
      BY <2>3, <3>1 DEF SpaceInv
    <3>2. CASE r \notin regions[t] /\ q \in regions[u]
      <4>1. t = c /\ r = new
        BY <1>3, <1>4, <3>2
      <4> QED  BY <1>5, <2>3, <3>2, <4>1 DEF SpaceInv
    <3>3. CASE r \in regions[t] /\ q \notin regions[u]
      <4>1. u = c /\ q = new
        BY <1>3, <1>4, <3>3
      <4>2. CallPages(c) \cap RegionPages(r) = {}
        BY <2>3, <3>3, <4>1 DEF SpaceInv
      <4> QED  BY <1>5, <4>1, <4>2
    <3>4. CASE r \notin regions[t] /\ q \notin regions[u]
      BY <1>3, <1>4, <2>3, <3>4
    <3> QED  BY <3>1, <3>2, <3>3, <3>4
  <2> QED  BY <2>1, <2>2, <2>3, <1>3 DEF SpaceInv
<1> QED  BY <1>7, <1>8, <1>9

\* mfree_page takes a region, other than that of the stack, to free it.
LEMMA SpaceTake ==
  ASSUME TypeInv, ProgressInv, SpaceInv, StackInv,
         NEW c \in Threads, \A t \in Threads : pc[t] = "idle",
         NEW region \in regions[c], region # <<StackPage, 1>>,
         call' = [call EXCEPT ![c] = [NoCall EXCEPT !.page = region[1], !.n = region[2]]],
         regions' = [regions EXCEPT ![c] = @ \ {region}],
         pc' = [pc EXCEPT ![c] = "pfree"],
         UNCHANGED <<vbits, pte>>
  PROVE  ProgressInv' /\ SpaceInv' /\ StackInv'
<1> DEFINE s == SpaceOf(c)
           W == RegionPages(region)
<1>1. region \in Nat \X (Nat \ {0})
  BY DEF TypeInv
<1>2. /\ pc'[c] = "pfree"
      /\ call'[c].page = region[1] /\ call'[c].n = region[2] /\ call'[c].i = 0
      /\ \A t \in Threads : t # c => pc'[t] = "idle" /\ regions'[t] = regions[t]
      /\ regions'[c] = regions[c] \ {region}
  BY DEF TypeInv, NoCall
<1>3. CallPages(c)' = W /\ Page(c)' = region[1]
  BY <1>1, <1>2 DEF CallPages, Page, RegionPages
<1>4. W \subseteq DOMAIN pte[s] /\ \A x \in W : x >= region[1]
  BY <1>1 DEF SpaceInv, RegionPages
<1>5. ProgressInv'
  BY <1>1, <1>2, <1>3, <1>4 DEF ProgressInv, AllocLabels, HandLabels, TableLabels, FreeLabels, DoneLabels
<1>6. StackInv'
  <2> SUFFICES ASSUME NEW t \in Procs, <<StackPage, 1>> \notin regions'[t]
               PROVE  regions'[t] = {} /\ pc'[t] = "idle"
    BY DEF StackInv
  <2>1. t # c
    BY <1>2 DEF StackInv
  <2> QED  BY <2>1, <1>2 DEF StackInv, Threads
<1>7. SpaceInv'
  <2> HIDE DEF s, W
  <2>1. ASSUME NEW z \in Spaces, NEW x \in vbits'[z]
        PROVE  \E t \in Threads : /\ SpaceOf(t) = z
                                  /\ \/ pc'[t] # "idle" /\ x \in CallPages(t)'
                                     \/ \E r \in regions'[t] : x \in RegionPages(r)
    <3>1. PICK t \in Threads : SpaceOf(t) = z /\ \E r \in regions[t] : x \in RegionPages(r)
      BY DEF SpaceInv
    <3>2. PICK r \in regions[t] : x \in RegionPages(r)
      BY <3>1
    <3>3. CASE t = c /\ r = region
      BY <3>1, <3>2, <3>3, <1>2, <1>3 DEF W
    <3>4. CASE ~(t = c /\ r = region)
      <4>1. r \in regions'[t]
        BY <3>2, <3>4, <1>2
      <4> QED  BY <4>1, <3>1, <3>2
    <3> QED  BY <3>3, <3>4
  <2>2. \A z \in Spaces : DOMAIN pte[z] \subseteq vbits[z]
    BY DEF SpaceInv
  <2>3. \A t \in Threads : pc'[t] # "idle" => CallPages(t)' \subseteq vbits'[SpaceOf(t)]
    BY <1>2, <1>3, <1>4, <2>2, Places DEF s
  <2>4. \A t \in Threads : regions'[t] \subseteq regions[t]
    BY <1>2
  <2>5. \A t \in Threads : \A r \in regions'[t] : RegionPages(r) \subseteq DOMAIN pte'[SpaceOf(t)]
    BY <2>4 DEF SpaceInv
  <2>6. \A t, u \in Threads : SpaceOf(t) = SpaceOf(u) =>
          \A r \in regions'[t], q \in regions'[u] :
            (t # u \/ r # q) => RegionPages(r) \cap RegionPages(q) = {}
    BY <2>4 DEF SpaceInv
  <2>7. ASSUME NEW u \in Threads, SpaceOf(c) = SpaceOf(u), NEW q \in regions'[u]
        PROVE  W \cap RegionPages(q) = {}
    <3>1. q \in regions[u] /\ (c # u \/ region # q)
      BY <1>2, <2>7
    <3> QED  BY <3>1, <2>7 DEF SpaceInv, W
  <2>8. \A t, u \in Threads : SpaceOf(t) = SpaceOf(u) /\ pc'[t] # "idle" =>
            \A q \in regions'[u] : CallPages(t)' \cap RegionPages(q) = {}
    BY <1>2, <1>3, <2>7
  <2>9. \A z \in Spaces : vbits'[z] \subseteq 0 .. VaddrBytes[z] + StackPage
    BY DEF SpaceInv
  <2> QED  BY <2>1, <2>2, <2>3, <2>5, <2>6, <2>8, <2>9 DEF SpaceInv
<1> QED  BY <1>5, <1>6, <1>7

\* The entry of the next page of mfree_page is cleared.
LEMMA SpaceUnmap ==
  ASSUME TypeInv, ProgressInv, SpaceInv, StackInv,
         NEW c \in Threads, pc[c] = "unmap",
         \A t \in Threads : t # c => pc[t] = "idle",
         pte' = [pte EXCEPT ![SpaceOf(c)] = Unbind(@, Page(c))],
         call' = [call EXCEPT ![c].i = @ + 1],
         pc' = [pc EXCEPT ![c] = IF call[c].i + 1 < call[c].n THEN "pfree" ELSE "vaddr"],
         UNCHANGED <<vbits, regions>>
  PROVE  ProgressInv' /\ SpaceInv' /\ StackInv'
<1> DEFINE s == SpaceOf(c)
<1>1. /\ call[c] \in Calls /\ call[c].i < call[c].n
      /\ \A x \in CallPages(c) : x \in DOMAIN pte[s] <=> x >= Page(c)
  BY DEF TypeInv, ProgressInv, FreeLabels, DoneLabels
<1>2. call[c].page \in Nat /\ call[c].n \in Nat /\ call[c].i \in Nat
  BY <1>1 DEF Calls
<1>3. /\ call'[c].page = call[c].page /\ call'[c].n = call[c].n /\ call'[c].i = call[c].i + 1
      /\ \A t \in Threads : t # c => pc'[t] = "idle" /\ call'[t] = call[t]
  BY <1>1 DEF TypeInv, Calls
<1>4. \/ pc'[c] = "pfree" /\ call'[c].i < call'[c].n
      \/ pc'[c] = "vaddr" /\ call'[c].i = call'[c].n
  BY <1>1, <1>2, <1>3 DEF TypeInv
<1>5. CallPages(c)' = CallPages(c) /\ Page(c)' = Page(c) + 1 /\ Page(c) \in CallPages(c)
  BY <1>1, <1>2, <1>3 DEF CallPages, Page
<1>6. s \in Spaces /\ DOMAIN pte'[s] = DOMAIN pte[s] \ {Page(c)}
  BY Places DEF TypeInv, Unbind
<1>7. \A z \in Spaces : z # s => pte'[z] = pte[z]
  BY DEF TypeInv
<1>8. \A x \in CallPages(c) : x \in Int
  BY <1>2 DEF CallPages
<1>9. Page(c) \in Nat
  BY <1>2 DEF Page
<1> HIDE DEF s
<1>10. ProgressInv'
  <2>1. \A x \in CallPages(c)' : x \in DOMAIN pte'[s] <=> x >= Page(c)'
    BY <1>1, <1>5, <1>6, <1>8, <1>9
  <2> QED  BY <1>3, <1>4, <2>1 DEF s, ProgressInv, AllocLabels, HandLabels, TableLabels, FreeLabels, DoneLabels
<1>11. StackInv'
  <2> SUFFICES ASSUME NEW t \in Procs, <<StackPage, 1>> \notin regions[t]
               PROVE  regions[t] = {} /\ pc'[t] = "idle"
    BY DEF StackInv
  <2>1. t # c
    BY DEF StackInv, AllocLabels, HandLabels, TableLabels
  <2> QED  BY <2>1, <1>3 DEF StackInv, Threads
<1>12. SpaceInv'
  <2>0. \A t \in Threads : /\ pc'[t] # "idle" <=> pc[t] # "idle"
                           /\ pc[t] # "idle" => CallPages(t)' = CallPages(t)
    BY <1>3, <1>4, <1>5
  <2>1. \A z \in Spaces : DOMAIN pte'[z] \subseteq vbits'[z]
    BY <1>6, <1>7 DEF SpaceInv
  <2>2. ASSUME NEW t \in Threads, NEW r \in regions[t]
        PROVE  RegionPages(r) \subseteq DOMAIN pte'[SpaceOf(t)]
    <3>1. SpaceOf(t) \in Spaces /\ RegionPages(r) \subseteq DOMAIN pte[SpaceOf(t)]
      BY Places DEF SpaceInv
    <3>2. CASE SpaceOf(t) # s
      BY <1>7, <3>1, <3>2
    <3>3. CASE SpaceOf(t) = s
      <4>1. Page(c) \notin RegionPages(r)
        BY <1>5, <3>3 DEF SpaceInv, s
      <4> QED  BY <1>6, <3>1, <3>3, <4>1
    <3> QED  BY <3>2, <3>3
  <2> QED  BY <2>0, <2>1, <2>2 DEF SpaceInv
<1> QED  BY <1>10, <1>11, <1>12

\* The pages of a call that has cleared all their entries are free again.
LEMMA SpaceVaddr ==
  ASSUME TypeInv, ProgressInv, SpaceInv, StackInv,
         NEW c \in Threads, pc[c] = "vaddr",
         \A t \in Threads : t # c => pc[t] = "idle",
         vbits' = [vbits EXCEPT ![SpaceOf(c)] = bitmap_set(@, call[c].page, call[c].n, 0)],
         pc' = [pc EXCEPT ![c] = "idle"],
         UNCHANGED <<pte, regions>>
  PROVE  ProgressInv' /\ SpaceInv' /\ StackInv'
<1> DEFINE s == SpaceOf(c)
<1>1. /\ call[c] \in Calls /\ call[c].i = call[c].n
      /\ \A x \in CallPages(c) : x \in DOMAIN pte[s] <=> x >= Page(c)
  BY DEF TypeInv, ProgressInv, FreeLabels, DoneLabels
<1>2. call[c].page \in Nat /\ call[c].n \in Nat
  BY <1>1 DEF Calls
<1>3. \A t \in Threads : pc'[t] = "idle"
  BY DEF TypeInv
<1>4. s \in Spaces /\ vbits'[s] = vbits[s] \ CallPages(c)
  BY Places DEF TypeInv, bitmap_set, CallPages
<1>5. \A z \in Spaces : z # s => vbits'[z] = vbits[z]
  BY DEF TypeInv
<1>6. CallPages(c) \cap DOMAIN pte[s] = {}
  BY <1>1, <1>2 DEF CallPages, Page
<1>7. ProgressInv'
  BY <1>3 DEF ProgressInv, AllocLabels, HandLabels, TableLabels, FreeLabels
<1>8. StackInv'
  BY <1>3 DEF StackInv, Threads
<1>9. SpaceInv'
  <2> HIDE DEF s
  <2>1. \A z \in Spaces : vbits'[z] \subseteq vbits[z]
    BY <1>4, <1>5
  <2>2. \A z \in Spaces : vbits'[z] \subseteq 0 .. VaddrBytes[z] + StackPage
    BY <2>1 DEF SpaceInv
  <2>3. \A z \in Spaces : DOMAIN pte'[z] \subseteq vbits'[z]
    BY <1>4, <1>5, <1>6 DEF SpaceInv
  <2>4. ASSUME NEW z \in Spaces, NEW x \in vbits'[z]
        PROVE  \E t \in Threads : SpaceOf(t) = z /\ \E r \in regions'[t] : x \in RegionPages(r)
    <3>1. PICK t \in Threads : /\ SpaceOf(t) = z
                               /\ \/ pc[t] # "idle" /\ x \in CallPages(t)
                                  \/ \E r \in regions[t] : x \in RegionPages(r)
      BY <2>1 DEF SpaceInv
    <3>2. ~(pc[t] # "idle" /\ x \in CallPages(t))
      BY <1>4, <3>1 DEF s
    <3> QED  BY <3>1, <3>2
  <2> QED  BY <1>3, <2>2, <2>3, <2>4 DEF SpaceInv
<1> QED  BY <1>7, <1>8, <1>9

-----------------------------------------------------------------------------
\* A bit that is set in a pool stays set when another one is.
LEMMA PoolGrows ==
  ASSUME pool \in [Pools -> SUBSET Nat], NEW p \in Pools, NEW k \in Nat,
         pool' = [pool EXCEPT ![p] = bitmap_set(@, k, 1, 1)]
  PROVE  /\ pool'[p] = pool[p] \cup {k}
         /\ \A q \in Pools : q # p => pool'[q] = pool[q]
         /\ \A f \in Pools \X Nat : InPool(f) => InPool(f)'
         /\ pool' \in [Pools -> SUBSET Nat]
<1>1. k .. k + 1 - 1 = {k}
  OBVIOUS
<1>2. pool'[p] = pool[p] \cup {k}
  BY <1>1 DEF bitmap_set
<1>3. \A q \in Pools : q # p => pool'[q] = pool[q]
  OBVIOUS
<1>4. ASSUME NEW f \in Pools \X Nat, InPool(f) PROVE InPool(f)'
  <2>1. f[1] \in Pools
    OBVIOUS
  <2> QED  BY <1>2, <1>3, <1>4, <2>1 DEF InPool
<1>5. pool' \in [Pools -> SUBSET Nat]
  BY <1>1 DEF bitmap_set
<1> QED  BY <1>2, <1>3, <1>4, <1>5

\* The frames of entries and of page tables are frames of the pools.
LEMMA Frames ==
  ASSUME FrameTypes
  PROVE  /\ \A s \in Spaces : \A x \in DOMAIN pte[s] : pte[s][x] \in Pools \X Nat
         /\ \A s \in Procs : \A n \in DOMAIN pde[s] : pde[s][n] \in Pools \X Nat
         /\ \A t \in Threads : pc[t] \in HandLabels => call[t].frame \in Pools \X Nat
<1>1. \A s : SpacePool(s) \in Pools
  BY DEF SpacePool, Pools
<1>2. \A t : PoolOf(t) \in Pools
  BY DEF PoolOf, Pools
<1>3. "kernel" \in Pools
  BY DEF Pools
<1> QED  BY <1>1, <1>2, <1>3 DEF FrameTypes

\* palloc takes the frame of a page.
LEMMA FrameTaken ==
  ASSUME TypeInv, FrameTypes, TakenInv, UniqueInv, NoLeakInv, PallocInv,
         NEW c \in Threads, pc[c] = "set",
         \A t \in Threads : t # c => pc[t] = "idle",
         pool' = [pool EXCEPT ![PoolOf(c)] = bitmap_set(@, call[c].idx, 1, 1)],
         call' = [call EXCEPT ![c].frame = <<PoolOf(c), call[c].idx>>],
         pc' = [pc EXCEPT ![c] = "map"],
         UNCHANGED <<cur, tlb, pte, pde>>
  PROVE  FrameTypes' /\ TakenInv' /\ UniqueInv' /\ NoLeakInv' /\ PallocInv'
<1>0. PICK k : k = call[c].idx
  OBVIOUS
<1> DEFINE P == PoolOf(c)
           f == <<P, k>>
<1>1. P \in Pools /\ k \in 0 .. PoolBytes[P] - 1 /\ k \notin pool[P] /\ PoolBytes[P] \in Nat
  BY <1>0, Places, Bytes DEF PallocInv
<1>2. /\ pc'[c] = "map" /\ call'[c].frame = f
      /\ \A t \in Threads : t # c => pc'[t] = "idle"
  BY <1>0 DEF TypeInv, Calls
<1>3. k \in Nat /\ f \in {P} \X Nat /\ f \in Pools \X Nat /\ ~InPool(f)
  BY <1>1 DEF InPool
<1>4. /\ pool'[P] = pool[P] \cup {k}
      /\ \A q \in Pools : q # P => pool'[q] = pool[q]
      /\ \A g \in Pools \X Nat : InPool(g) => InPool(g)'
  BY <1>0, <1>1, <1>3, PoolGrows DEF TypeInv
<1>5. InPool(f)'
  BY <1>4 DEF InPool
<1>6. \A s, x : ~Leaves(s, x) /\ ~Leaves(s, x)'
  BY <1>2 DEF Leaves
<1> HIDE DEF P, f
<1>7. FrameTypes'
  <2>1. \A p \in Pools : pool'[p] \subseteq 0 .. PoolBytes[p] - 1
    BY <1>1, <1>4 DEF FrameTypes
  <2>2. \A t \in Threads : pc'[t] \in HandLabels => call'[t].frame \in {PoolOf(t)} \X Nat
    BY <1>2, <1>3 DEF P, HandLabels, TableLabels
  <2> QED  BY <2>1, <2>2 DEF FrameTypes
<1>8. TakenInv'
  <2>1. \A s \in Spaces : \A x \in DOMAIN pte[s] : InPool(pte[s][x])
    BY <1>6 DEF TakenInv
  <2>2. \A s \in Procs : \A n \in DOMAIN pde[s] : InPool(pde[s][n])
    BY DEF TakenInv
  <2>3. /\ \A s \in Spaces : \A x \in DOMAIN pte[s] : InPool(pte[s][x])'
        /\ \A s \in Procs : \A n \in DOMAIN pde[s] : InPool(pde[s][n])'
    BY <1>4, <2>1, <2>2, Frames DEF InPool
  <2>4. \A t \in Threads : pc'[t] \in HandLabels => InPool(call[t].frame)'
    BY <1>2, <1>5 DEF HandLabels, TableLabels, InPool
  <2> QED  BY <2>3, <2>4 DEF TakenInv
<1>9. UniqueInv'
  <2>1. /\ \A s \in Spaces : \A x \in DOMAIN pte[s] : pte[s][x] # f
        /\ \A s \in Procs : \A n \in DOMAIN pde[s] : pde[s][n] # f
    BY <1>3, <1>6 DEF TakenInv
  <2> QED  BY <1>2, <2>1 DEF UniqueInv, HandLabels, TableLabels
<1>10. NoLeakInv'
  <2> SUFFICES ASSUME NEW p \in Pools, NEW j \in pool'[p]
               PROVE  UsedByPage(<<p, j>>)' \/ UsedByTable(<<p, j>>)' \/ InHand(<<p, j>>)'
    BY DEF NoLeakInv
  <2>1. CASE j \in pool[p]
    <3>1. ~InHand(<<p, j>>) /\ ~NewTable(<<p, j>>)
      BY DEF InHand, NewTable, HandLabels, TableLabels
    <3>2. UsedByPage(<<p, j>>) => UsedByPage(<<p, j>>)'
      BY <1>6 DEF UsedByPage
    <3>3. UsedByTable(<<p, j>>) => UsedByTable(<<p, j>>)'
      BY DEF UsedByTable
    <3> QED  BY <2>1, <3>1, <3>2, <3>3 DEF NoLeakInv
  <2>2. CASE j \notin pool[p]
    <3>1. <<p, j>> = f
      BY <1>1, <1>4, <2>2 DEF f
    <3>2. InHand(f)'
      BY <1>2 DEF InHand, HandLabels, f, P
    <3> QED  BY <3>1, <3>2 DEF InHand
  <2> QED  BY <2>1, <2>2
<1>11. PallocInv'
  BY <1>2 DEF PallocInv, TableLabels
<1> QED  BY <1>7, <1>8, <1>9, <1>10, <1>11

\* palloc takes the frame of a page table.
LEMMA TableTaken ==
  ASSUME TypeInv, FrameTypes, TakenInv, UniqueInv, NoLeakInv, PallocInv,
         NEW c \in Threads, pc[c] = "tset",
         \A t \in Threads : t # c => pc[t] = "idle",
         pool' = [pool EXCEPT !["kernel"] = bitmap_set(@, call[c].idx, 1, 1)],
         pc' = [pc EXCEPT ![c] = "tclear"],
         UNCHANGED <<cur, tlb, pte, pde, call, dirty>>
  PROVE  FrameTypes' /\ TakenInv' /\ UniqueInv' /\ NoLeakInv' /\ PallocInv'
<1>0. PICK k : k = call[c].idx
  OBVIOUS
<1> DEFINE f == <<"kernel", k>>
<1>1. /\ "kernel" \in Pools /\ k \in 0 .. PoolBytes["kernel"] - 1
      /\ k \notin pool["kernel"] /\ PoolBytes["kernel"] \in Nat
  BY <1>0, Bytes DEF PallocInv, Pools
<1>2. /\ pc'[c] = "tclear"
      /\ \A t \in Threads : t # c => pc'[t] = "idle"
  BY DEF TypeInv
<1>3. k \in Nat /\ f \in Pools \X Nat /\ ~InPool(f)
  BY <1>1 DEF InPool
<1>4. /\ pool'["kernel"] = pool["kernel"] \cup {k}
      /\ \A q \in Pools : q # "kernel" => pool'[q] = pool[q]
      /\ \A g \in Pools \X Nat : InPool(g) => InPool(g)'
  BY <1>0, <1>1, <1>3, PoolGrows DEF TypeInv
<1>6. \A s, x : ~Leaves(s, x) /\ ~Leaves(s, x)'
  BY <1>2 DEF Leaves
<1> HIDE DEF f
<1>7. FrameTypes'
  <2>1. \A p \in Pools : pool'[p] \subseteq 0 .. PoolBytes[p] - 1
    BY <1>1, <1>4 DEF FrameTypes
  <2>2. \A t \in Threads : pc'[t] \in HandLabels => call'[t].frame \in {PoolOf(t)} \X Nat
    BY <1>2 DEF FrameTypes, HandLabels, TableLabels
  <2> QED  BY <2>1, <2>2 DEF FrameTypes
<1>8. TakenInv'
  <2>1. \A s \in Spaces : \A x \in DOMAIN pte[s] : InPool(pte[s][x])
    BY <1>6 DEF TakenInv
  <2>2. \A s \in Procs : \A n \in DOMAIN pde[s] : InPool(pde[s][n])
    BY DEF TakenInv
  <2>3. /\ \A s \in Spaces : \A x \in DOMAIN pte[s] : InPool(pte[s][x])'
        /\ \A s \in Procs : \A n \in DOMAIN pde[s] : InPool(pde[s][n])'
    BY <1>4, <2>1, <2>2, Frames DEF InPool
  <2>4. pc[c] \in HandLabels
    BY DEF HandLabels, TableLabels
  <2>5. InPool(call[c].frame)'
    BY <1>4, <2>4, Frames DEF TakenInv, InPool
  <2>6. \A t \in Threads : pc'[t] \in HandLabels => InPool(call[t].frame)'
    BY <1>2, <2>5 DEF HandLabels, TableLabels
  <2> QED  BY <2>3, <2>6 DEF TakenInv
<1>9. UniqueInv'
  BY <1>2 DEF UniqueInv, HandLabels, TableLabels
<1>10. NoLeakInv'
  <2> SUFFICES ASSUME NEW p \in Pools, NEW j \in pool'[p]
               PROVE  \/ UsedByPage(<<p, j>>)' \/ UsedByTable(<<p, j>>)'
                      \/ InHand(<<p, j>>)' \/ NewTable(<<p, j>>)'
    BY DEF NoLeakInv
  <2>1. CASE j \in pool[p]
    <3>1. ~NewTable(<<p, j>>)
      BY DEF NewTable
    <3>2. UsedByPage(<<p, j>>) => UsedByPage(<<p, j>>)'
      BY <1>6 DEF UsedByPage
    <3>3. UsedByTable(<<p, j>>) => UsedByTable(<<p, j>>)'
      BY DEF UsedByTable
    <3>4. InHand(<<p, j>>) => InHand(<<p, j>>)'
      BY <1>2 DEF InHand, HandLabels, TableLabels
    <3> QED  BY <2>1, <3>1, <3>2, <3>3, <3>4 DEF NoLeakInv
  <2>2. CASE j \notin pool[p]
    <3>1. <<p, j>> = <<"kernel", k>>
      BY <1>1, <1>4, <2>2
    <3>2. NewTable(<<p, j>>)'
      BY <1>0, <1>2, <3>1 DEF NewTable
    <3> QED  BY <3>2
  <2> QED  BY <2>1, <2>2
<1>11. PallocInv'
  <2>1. /\ \A s \in Spaces : \A x \in DOMAIN pte[s] : pte[s][x] # f
        /\ \A s \in Procs : \A n \in DOMAIN pde[s] : pde[s][n] # f
    BY <1>3, <1>6 DEF TakenInv
  <2>2. c \in Procs /\ TableOf(Page(c)) \notin DOMAIN pde[c]
    BY DEF PallocInv, TableLabels
  <2>3. Page(c)' = Page(c)
    BY DEF Page
  <2>4. TableOf(Page(c))' = TableOf(Page(c))
    BY <2>3 DEF TableOf
  <2>5. k \in pool'["kernel"]
    BY <1>4
  <2> QED  BY <1>0, <1>2, <2>1, <2>2, <2>4, <2>5 DEF PallocInv, TableLabels, f
<1> QED  BY <1>7, <1>8, <1>9, <1>10, <1>11

\* The new page table is linked and cleared.
LEMMA TableLinked ==
  ASSUME TypeInv, FrameTypes, TakenInv, UniqueInv, NoLeakInv, PallocInv,
         NEW c \in Threads, pc[c] = "tclear",
         \A t \in Threads : t # c => pc[t] = "idle",
         pde' = [pde EXCEPT ![c] = Bind(@, TableOf(Page(c)), <<"kernel", call[c].idx>>)],
         dirty' = dirty \ {<<"kernel", call[c].idx>>},
         pc' = [pc EXCEPT ![c] = "tmap"],
         UNCHANGED <<cur, tlb, pool, pte, call>>
  PROVE  FrameTypes' /\ TakenInv' /\ UniqueInv' /\ NoLeakInv' /\ PallocInv'
<1>0. PICK k, m : k = call[c].idx /\ m = TableOf(Page(c))
  OBVIOUS
<1> DEFINE f == <<"kernel", k>>
<1>1. c \in Procs /\ m \notin DOMAIN pde[c] /\ k \in pool["kernel"]
  BY <1>0 DEF PallocInv, TableLabels
<1>2. /\ pc'[c] = "tmap"
      /\ \A t \in Threads : t # c => pc'[t] = "idle"
  BY DEF TypeInv
<1>3. k \in Nat /\ f \in {"kernel"} \X Nat /\ InPool(f)
  BY <1>1 DEF InPool, TypeInv, Pools
<1>4. /\ DOMAIN pde'[c] = DOMAIN pde[c] \cup {m} /\ pde'[c][m] = f
      /\ \A n \in DOMAIN pde[c] : pde'[c][n] = pde[c][n]
      /\ \A s \in Procs : s # c => pde'[s] = pde[s]
  BY <1>0, <1>1 DEF TypeInv, Bind
<1>5. /\ \A s \in Spaces : \A x \in DOMAIN pte[s] : pte[s][x] # f
      /\ \A s \in Procs : \A n \in DOMAIN pde[s] : pde[s][n] # f
  BY <1>0 DEF PallocInv
<1>6. \A s, x : ~Leaves(s, x) /\ ~Leaves(s, x)'
  BY <1>2 DEF Leaves
<1>7. ASSUME NEW s \in Procs, NEW n \in DOMAIN pde'[s]
      PROVE  (s = c /\ n = m /\ pde'[s][n] = f) \/ (n \in DOMAIN pde[s] /\ pde'[s][n] = pde[s][n])
  BY <1>4
<1>8. pc[c] \in HandLabels /\ \A t \in Threads : pc'[t] \in HandLabels => t = c
  BY <1>2 DEF HandLabels, TableLabels
<1>9. call[c].frame # f
  <2>1. call[c].frame \in {"user"} \X Nat
    BY <1>1, <1>8, Places DEF FrameTypes
  <2> QED  BY <2>1
<1> HIDE DEF f
<1>10. FrameTypes'
  <2>1. \A s \in Procs : \A n \in DOMAIN pde'[s] : pde'[s][n] \in {"kernel"} \X Nat
    BY <1>3, <1>7 DEF FrameTypes
  <2>2. \A t \in Threads : pc'[t] \in HandLabels => call'[t].frame \in {PoolOf(t)} \X Nat
    BY <1>8 DEF FrameTypes
  <2> QED  BY <2>1, <2>2 DEF FrameTypes
<1>11. TakenInv'
  <2>1. \A g : InPool(g)' <=> InPool(g)
    BY DEF InPool
  <2>2. \A s \in Procs : \A n \in DOMAIN pde'[s] : InPool(pde'[s][n])
    BY <1>3, <1>7 DEF TakenInv
  <2>3. \A s \in Procs : \A n \in DOMAIN pde'[s] : InPool(pde[s][n])'
    BY <2>2 DEF InPool
  <2>4. \A t \in Threads : pc'[t] \in HandLabels => InPool(call[t].frame)'
    BY <1>8 DEF TakenInv, InPool
  <2>5. \A s \in Spaces : \A x \in DOMAIN pte[s] : InPool(pte[s][x])'
    BY <1>6 DEF TakenInv, InPool
  <2> QED  BY <2>3, <2>4, <2>5 DEF TakenInv
<1>12. UniqueInv'
  <2>1. ASSUME NEW s \in Procs, NEW z \in Procs, NEW i \in DOMAIN pde'[s], NEW j \in DOMAIN pde'[z],
               pde'[s][i] = pde'[z][j]
        PROVE  s = z /\ i = j
    BY <1>5, <1>7, <2>1 DEF UniqueInv
  <2>2. ASSUME NEW s \in Spaces, NEW z \in Procs, NEW x \in DOMAIN pte[s], NEW n \in DOMAIN pde'[z]
        PROVE  pte[s][x] # pde'[z][n]
    BY <1>5, <1>7 DEF UniqueInv
  <2>3. \A t \in Threads : pc'[t] \in HandLabels =>
          /\ \A s \in Spaces : \A x \in DOMAIN pte[s] : pte[s][x] # call[t].frame
          /\ \A s \in Procs : \A n \in DOMAIN pde'[s] : pde'[s][n] # call[t].frame
    BY <1>7, <1>8, <1>9 DEF UniqueInv
  <2>4. \A s, z \in Spaces : \A x \in DOMAIN pte[s], y \in DOMAIN pte[z] :
          pte[s][x] = pte[z][y] => s = z /\ x = y
    BY DEF UniqueInv
  <2> QED  BY <2>1, <2>2, <2>3, <2>4 DEF UniqueInv
<1>13. NoLeakInv'
  <2> SUFFICES ASSUME NEW g PROVE  /\ UsedByPage(g) => UsedByPage(g)'
                                   /\ UsedByTable(g) => UsedByTable(g)'
                                   /\ InHand(g) => InHand(g)'
                                   /\ NewTable(g) => UsedByTable(g)'
    BY DEF NoLeakInv
  <2>1. UsedByPage(g) => UsedByPage(g)'
    BY <1>6 DEF UsedByPage
  <2>2. UsedByTable(g) => UsedByTable(g)'
    BY <1>4 DEF UsedByTable
  <2>3. InHand(g) => InHand(g)'
    BY <1>2 DEF InHand, HandLabels, TableLabels
  <2>4. NewTable(g) => UsedByTable(g)'
    BY <1>0, <1>1, <1>4 DEF NewTable, UsedByTable, f
  <2> QED  BY <2>1, <2>2, <2>3, <2>4
<1>14. PallocInv'
  <2>1. TableOf(Page(c))' = m
    BY <1>0 DEF Page, TableOf
  <2>2. m \in DOMAIN pde'[c] /\ pde'[c][m] \notin dirty'
    BY <1>0, <1>4 DEF f
  <2> QED  BY <1>1, <1>2, <2>1, <2>2 DEF PallocInv, TableLabels
<1> QED  BY <1>10, <1>11, <1>12, <1>13, <1>14

\* The frame in a call's hand goes into the entry of its next page.
LEMMA FrameMapped ==
  ASSUME TypeInv, FrameTypes, TakenInv, UniqueInv, NoLeakInv, PallocInv,
         NEW c \in Threads, pc[c] \in {"map", "tmap"},
         \A t \in Threads : t # c => pc[t] = "idle",
         Page(c) \notin DOMAIN pte[SpaceOf(c)],
         pte' = [pte EXCEPT ![SpaceOf(c)] = Bind(@, Page(c), call[c].frame)],
         pc' = [pc EXCEPT ![c] = IF call[c].i + 1 < call[c].n THEN "scan" ELSE "mapped"],
         UNCHANGED <<cur, tlb, pool, pde>>
  PROVE  FrameTypes' /\ TakenInv' /\ UniqueInv' /\ NoLeakInv' /\ PallocInv'
<1>0. PICK f, m : f = call[c].frame /\ m = Page(c)
  OBVIOUS
<1> DEFINE s == SpaceOf(c)
<1>1. s \in Spaces /\ SpacePool(s) = PoolOf(c) /\ pc[c] \in HandLabels
  BY Places DEF HandLabels, TableLabels
<1>2. \A t \in Threads : pc'[t] \in {"idle", "scan", "mapped"}
  BY DEF TypeInv
<1>3. f \in {SpacePool(s)} \X Nat /\ InPool(f)
  BY <1>0, <1>1 DEF FrameTypes, TakenInv
<1>4. /\ DOMAIN pte'[s] = DOMAIN pte[s] \cup {m} /\ pte'[s][m] = f
      /\ \A x \in DOMAIN pte[s] : pte'[s][x] = pte[s][x]
      /\ \A z \in Spaces : z # s => pte'[z] = pte[z]
  BY <1>0, <1>1 DEF TypeInv, Bind
<1>5. /\ \A z \in Spaces : \A x \in DOMAIN pte[z] : pte[z][x] # f
      /\ \A z \in Procs : \A n \in DOMAIN pde[z] : pde[z][n] # f
  BY <1>0, <1>1 DEF UniqueInv
<1>6. \A z, x : ~Leaves(z, x) /\ ~Leaves(z, x)'
  BY <1>2 DEF Leaves
<1>7. ASSUME NEW z \in Spaces, NEW x \in DOMAIN pte'[z]
      PROVE  (z = s /\ x = m /\ pte'[z][x] = f) \/ (x \in DOMAIN pte[z] /\ pte'[z][x] = pte[z][x])
  BY <1>4
<1>8. \A t \in Threads : pc'[t] \notin HandLabels
  BY <1>2 DEF HandLabels, TableLabels
<1> HIDE DEF s
<1>10. FrameTypes'
  <2>1. \A z \in Spaces : \A x \in DOMAIN pte'[z] : pte'[z][x] \in {SpacePool(z)} \X Nat
    BY <1>3, <1>7 DEF FrameTypes
  <2> QED  BY <1>8, <2>1 DEF FrameTypes
<1>11. TakenInv'
  <2>1. \A z \in Spaces : \A x \in DOMAIN pte'[z] : InPool(pte'[z][x])
    BY <1>3, <1>6, <1>7 DEF TakenInv
  <2>2. \A z \in Spaces : \A x \in DOMAIN pte'[z] : InPool(pte[z][x])'
    BY <2>1 DEF InPool
  <2>3. \A z \in Procs : \A n \in DOMAIN pde[z] : InPool(pde[z][n])'
    BY DEF TakenInv, InPool
  <2> QED  BY <1>8, <2>2, <2>3 DEF TakenInv
<1>12. UniqueInv'
  <2>1. ASSUME NEW z \in Spaces, NEW w \in Spaces, NEW x \in DOMAIN pte'[z], NEW y \in DOMAIN pte'[w],
               pte'[z][x] = pte'[w][y]
        PROVE  z = w /\ x = y
    BY <1>5, <1>7, <2>1 DEF UniqueInv
  <2>2. ASSUME NEW z \in Spaces, NEW w \in Procs, NEW x \in DOMAIN pte'[z], NEW n \in DOMAIN pde[w]
        PROVE  pte'[z][x] # pde[w][n]
    BY <1>5, <1>7 DEF UniqueInv
  <2>3. \A z, w \in Procs : \A m_1 \in DOMAIN pde[z], n \in DOMAIN pde[w] :
          pde[z][m_1] = pde[w][n] => z = w /\ m_1 = n
    BY DEF UniqueInv
  <2> QED  BY <1>8, <2>1, <2>2, <2>3 DEF UniqueInv
<1>13. NoLeakInv'
  <2> SUFFICES ASSUME NEW g PROVE  /\ UsedByPage(g) => UsedByPage(g)'
                                   /\ UsedByTable(g) => UsedByTable(g)'
                                   /\ InHand(g) => UsedByPage(g)'
                                   /\ ~NewTable(g)
    BY DEF NoLeakInv
  <2>1. UsedByPage(g) => UsedByPage(g)'
    BY <1>4, <1>6 DEF UsedByPage
  <2>2. UsedByTable(g) => UsedByTable(g)'
    BY DEF UsedByTable
  <2>3. InHand(g) => UsedByPage(g)'
    <3>1. InHand(g) => g = f
      BY <1>0 DEF InHand, HandLabels, TableLabels
    <3>2. UsedByPage(f)'
      BY <1>1, <1>4, <1>6 DEF UsedByPage
    <3> QED  BY <3>1, <3>2
  <2>4. ~NewTable(g)
    BY DEF NewTable
  <2> QED  BY <2>1, <2>2, <2>3, <2>4
<1>14. PallocInv'
  BY <1>2 DEF PallocInv, TableLabels
<1> QED  BY <1>10, <1>11, <1>12, <1>13, <1>14

\* pfree clears the bit of the frame of the next page.
LEMMA FrameFreed ==
  ASSUME TypeInv, FrameTypes, TakenInv, UniqueInv, NoLeakInv, PallocInv,
         NEW c \in Threads, pc[c] = "pfree",
         \A t \in Threads : t # c => pc[t] = "idle",
         Page(c) \in DOMAIN pte[SpaceOf(c)],
         LET frame == pte[SpaceOf(c)][Page(c)]
         IN  pool' = [pool EXCEPT ![frame[1]] = bitmap_set(@, frame[2], 1, 0)],
         pc' = [pc EXCEPT ![c] = "unmap"],
         UNCHANGED <<cur, tlb, pte, pde, call>>
  PROVE  FrameTypes' /\ TakenInv' /\ UniqueInv' /\ NoLeakInv' /\ PallocInv'
<1>0. PICK f, m : f = pte[SpaceOf(c)][Page(c)] /\ m = Page(c)
  OBVIOUS
<1> DEFINE s == SpaceOf(c)
<1>1. s \in Spaces /\ m \in DOMAIN pte[s] /\ f = pte[s][m] /\ f \in Pools \X Nat
  BY <1>0, Places, Frames
<1>2. pc'[c] = "unmap" /\ \A t \in Threads : t # c => pc'[t] = "idle"
  BY DEF TypeInv
<1>3. PICK p \in Pools, k \in Nat : f = <<p, k>>
  BY <1>1
<1>4. pool'[p] = pool[p] \ {k} /\ \A q \in Pools : q # p => pool'[q] = pool[q]
  <2>1. pool' = [pool EXCEPT ![p] = bitmap_set(@, k, 1, 0)]
    BY <1>0, <1>3
  <2>2. k .. k + 1 - 1 = {k}
    OBVIOUS
  <2> QED  BY <2>1, <2>2 DEF TypeInv, bitmap_set
<1>5. \A g \in Pools \X Nat : InPool(g) /\ g # f => InPool(g)'
  <2> SUFFICES ASSUME NEW q \in Pools, NEW j \in Nat, j \in pool[q], <<q, j>> # f
               PROVE  j \in pool'[q]
    BY DEF InPool
  <2> QED  BY <1>3, <1>4
<1>6. Page(c)' = Page(c)
  BY DEF Page
<1>7. \A z, x : ~Leaves(z, x) /\ (Leaves(z, x)' <=> z = s /\ x = m)
  BY <1>0, <1>2, <1>6 DEF Leaves
<1>8. \A t \in Threads : pc[t] \notin HandLabels /\ pc'[t] \notin HandLabels
  BY <1>2 DEF HandLabels, TableLabels
<1>9. \A t \in Threads : pc[t] # "tclear"
  OBVIOUS
<1> HIDE DEF s
<1>10. FrameTypes'
  <2>1. \A q \in Pools : pool'[q] \subseteq pool[q]
    BY <1>4
  <2>2. \A q \in Pools : pool'[q] \subseteq 0 .. PoolBytes[q] - 1
    BY <2>1 DEF FrameTypes
  <2> QED  BY <1>8, <2>2 DEF FrameTypes
<1>11. TakenInv'
  <2>1. ASSUME NEW z \in Spaces, NEW x \in DOMAIN pte[z]
        PROVE  Leaves(z, x)' \/ InPool(pte[z][x])'
    <3>1. CASE z = s /\ x = m
      BY <1>7, <3>1
    <3>2. CASE ~(z = s /\ x = m)
      <4>1. pte[z][x] # f /\ pte[z][x] \in Pools \X Nat /\ InPool(pte[z][x])
        BY <1>1, <1>7, <3>2, Frames DEF UniqueInv, TakenInv
      <4> QED  BY <4>1, <1>5 DEF InPool
    <3> QED  BY <3>1, <3>2
  <2>2. ASSUME NEW z \in Procs, NEW n \in DOMAIN pde[z]
        PROVE  InPool(pde[z][n])'
    <3>1. pde[z][n] # f /\ pde[z][n] \in Pools \X Nat /\ InPool(pde[z][n])
      BY <1>1, Frames DEF UniqueInv, TakenInv
    <3> QED  BY <3>1, <1>5 DEF InPool
  <2> QED  BY <1>8, <2>1, <2>2 DEF TakenInv
<1>12. UniqueInv'
  BY <1>8 DEF UniqueInv
<1>13. NoLeakInv'
  <2> SUFFICES ASSUME NEW q \in Pools, NEW j \in pool'[q]
               PROVE  UsedByPage(<<q, j>>)' \/ UsedByTable(<<q, j>>)'
    BY DEF NoLeakInv
  <2>1. j \in pool[q] /\ <<q, j>> # f
    BY <1>3, <1>4
  <2>2. ~InHand(<<q, j>>) /\ ~NewTable(<<q, j>>)
    BY <1>8, <1>9 DEF InHand, NewTable
  <2>3. UsedByPage(<<q, j>>) => UsedByPage(<<q, j>>)'
    BY <1>1, <1>7, <2>1 DEF UsedByPage
  <2>4. UsedByTable(<<q, j>>) => UsedByTable(<<q, j>>)'
    BY DEF UsedByTable
  <2> QED  BY <2>1, <2>2, <2>3, <2>4 DEF NoLeakInv
<1>14. PallocInv'
  BY <1>2 DEF PallocInv, TableLabels
<1> QED  BY <1>10, <1>11, <1>12, <1>13, <1>14

\* The entry that held the freed frame is cleared.
LEMMA FrameUnmapped ==
  ASSUME TypeInv, FrameTypes, TakenInv, UniqueInv, NoLeakInv, PallocInv,
         NEW c \in Threads, pc[c] = "unmap",
         \A t \in Threads : t # c => pc[t] = "idle",
         pte' = [pte EXCEPT ![SpaceOf(c)] = Unbind(@, Page(c))],
         pc' = [pc EXCEPT ![c] = IF call[c].i + 1 < call[c].n THEN "pfree" ELSE "vaddr"],
         UNCHANGED <<cur, tlb, pool, pde>>
  PROVE  FrameTypes' /\ TakenInv' /\ UniqueInv' /\ NoLeakInv' /\ PallocInv'
<1>0. PICK m : m = Page(c)
  OBVIOUS
<1> DEFINE s == SpaceOf(c)
<1>1. s \in Spaces
  BY Places
<1>2. \A t \in Threads : pc'[t] \in {"idle", "pfree", "vaddr"}
  BY DEF TypeInv
<1>3. /\ DOMAIN pte'[s] = DOMAIN pte[s] \ {m}
      /\ \A x \in DOMAIN pte'[s] : pte'[s][x] = pte[s][x]
      /\ \A z \in Spaces : z # s => pte'[z] = pte[z]
  BY <1>0, <1>1 DEF TypeInv, Unbind
<1>4. \A z \in Spaces : \A x \in DOMAIN pte'[z] : x \in DOMAIN pte[z] /\ pte'[z][x] = pte[z][x]
  BY <1>3
<1>5. \A z, x : (Leaves(z, x) <=> z = s /\ x = m) /\ ~Leaves(z, x)'
  BY <1>0, <1>2 DEF Leaves
<1>6. \A t \in Threads : pc[t] \notin HandLabels /\ pc'[t] \notin HandLabels /\ pc[t] # "tclear"
  BY <1>2 DEF HandLabels, TableLabels
<1> HIDE DEF s
<1>7. FrameTypes'
  BY <1>4, <1>6 DEF FrameTypes
<1>8. TakenInv'
  <2>1. \A z \in Spaces : \A x \in DOMAIN pte'[z] : InPool(pte'[z][x])
    BY <1>3, <1>4, <1>5 DEF TakenInv
  <2>2. \A z \in Spaces : \A x \in DOMAIN pte'[z] : InPool(pte[z][x])'
    BY <2>1 DEF InPool
  <2>3. \A z \in Procs : \A n \in DOMAIN pde[z] : InPool(pde[z][n])'
    BY DEF TakenInv, InPool
  <2> QED  BY <1>6, <2>2, <2>3 DEF TakenInv
<1>9. UniqueInv'
  BY <1>4, <1>6 DEF UniqueInv
<1>10. NoLeakInv'
  <2> SUFFICES ASSUME NEW g PROVE  /\ UsedByPage(g) => UsedByPage(g)'
                                   /\ UsedByTable(g) => UsedByTable(g)'
                                   /\ ~InHand(g) /\ ~NewTable(g)
    BY DEF NoLeakInv
  <2>1. UsedByPage(g) => UsedByPage(g)'
    BY <1>3, <1>5 DEF UsedByPage
  <2>2. UsedByTable(g) => UsedByTable(g)'
    BY DEF UsedByTable
  <2>3. ~InHand(g) /\ ~NewTable(g)
    BY <1>6 DEF InHand, NewTable
  <2> QED  BY <2>1, <2>2, <2>3
<1>11. PallocInv'
  BY <1>2 DEF PallocInv, TableLabels
<1> QED  BY <1>7, <1>8, <1>9, <1>10, <1>11

\* A step of a call that has no frame in its hand, before or after it.
LEMMA FramesIdle ==
  ASSUME TypeInv, FrameTypes, TakenInv, UniqueInv, NoLeakInv,
         \A t \in Threads : /\ pc[t] \in {"idle", "scan", "pfree", "mapped", "vaddr"}
                            /\ pc'[t] \in {"idle", "scan", "pfree", "mapped", "vaddr"},
         \A e \in tlb' : e[2] \in {PoolOf(cur')} \X Nat,
         UNCHANGED <<pool, pte, pde>>
  PROVE  FrameTypes' /\ TakenInv' /\ UniqueInv' /\ NoLeakInv' /\ PallocInv'
<1>1. TakenInv' /\ UniqueInv' /\ NoLeakInv'
  BY FramesQuiet DEF HandLabels, TableLabels
<1>2. \A t \in Threads : pc'[t] \notin HandLabels
  BY DEF HandLabels, TableLabels
<1>3. FrameTypes'
  BY <1>2 DEF FrameTypes
<1>4. PallocInv'
  BY DEF PallocInv, TableLabels
<1> QED  BY <1>1, <1>3, <1>4

\* The frames that accesses of the running thread reach are of its pool.
LEMMA TouchedFrames ==
  ASSUME FrameTypes, cur \in Threads, NEW first \in Nat, NEW n \in Nat,
         first .. first + n - 1 \subseteq DOMAIN pte[SpaceOf(cur)]
  PROVE  \A e \in Touched(first, n) : e[2] \in {PoolOf(cur)} \X Nat
<1> SUFFICES ASSUME NEW p \in first .. first + n - 1
             PROVE  Translate(p) \in {PoolOf(cur)} \X Nat
  BY DEF Touched
<1>1. CASE \E f \in {x[2] : x \in tlb} : <<p, f>> \in tlb
  <2>1. Translate(p) \in {x[2] : x \in tlb}
    BY <1>1 DEF Translate
  <2>2. PICK e \in tlb : Translate(p) = e[2]
    BY <2>1
  <2> QED  BY <2>2 DEF FrameTypes
<1>2. CASE ~\E f \in {x[2] : x \in tlb} : <<p, f>> \in tlb
  <2>1. Translate(p) = pte[SpaceOf(cur)][p]
    BY <1>2 DEF Translate
  <2> QED  BY <2>1, Places DEF FrameTypes
<1> QED  BY <1>1, <1>2

\* What RunInv says of the running thread.
LEMMA Running ==
  ASSUME OneLockEach, RunInv
  PROVE  /\ cur \in Threads
         /\ lock[PoolOf(cur)] = NULL => \A t \in Threads : pc[t] = "idle"
         /\ pc[cur] # "idle" =>
              /\ \A t \in Threads : t # cur => pc[t] = "idle"
              /\ call[cur] \in Calls /\ lock[PoolOf(cur)] = cur
BY OneCall DEF RunInv, TypeInv, LockInv

\* A machine that goes on has not failed an assertion.
LEMMA NoPanicYet == panic' = {} => PteClear'
BY DEF PteClear

-----------------------------------------------------------------------------
\* The local variables of a new call.
LEMMA NewCall ==
  ASSUME NEW page \in Nat, NEW n \in Nat \ {0}
  PROVE  [page |-> page, n |-> n, i |-> 0, idx |-> 0, frame |-> NULL] \in Calls
BY DEF Calls

\* malloc_page and get_a_page, when vaddr_get has found the pages.
LEMMA Reserved ==
  ASSUME OneLockEach, RunInv, panic' = {},
         NEW c \in Threads, c = cur, NEW page \in Nat, NEW n \in Nat \ {0},
         \A x \in page .. page + n - 1 : x \notin vbits[SpaceOf(c)],
         page + n - 1 <= VaddrBytes[SpaceOf(c)] + StackPage,
         c \in Procs => <<StackPage, 1>> \in regions[c] \/ (page = StackPage /\ n = 1),
         pc[c] = "idle", lock_acquire(PoolOf(c)),
         vbits' = [vbits EXCEPT ![SpaceOf(c)] = bitmap_set(@, page, n, 1)],
         call' = [call EXCEPT ![c] = [NoCall EXCEPT !.page = page, !.n = n]],
         pc' = [pc EXCEPT ![c] = "scan"],
         UNCHANGED <<group, cur, tlb, pool, pte, pde, dirty, regions>>
  PROVE  PageInv'
<1> USE DEF RunInv
<1>1. c \in Threads /\ PoolOf(c) \in Pools /\ SpaceOf(c) \in Spaces
  BY Running, Places
<1>2. \A t \in Threads : pc[t] = "idle"
  BY Running DEF lock_acquire
<1>3. pc'[c] = "scan" /\ \A t \in Threads : t # c => pc'[t] = "idle"
  BY <1>1, <1>2 DEF TypeInv
<1>4. call'[c] \in Calls
  <2>1. call'[c] = [page |-> page, n |-> n, i |-> 0, idx |-> 0, frame |-> NULL]
    BY <1>1 DEF TypeInv, NoCall
  <2> QED  BY <2>1, NewCall
<1>5. TypeInv'
  <2>1. vbits' \in [Spaces -> SUBSET Nat]
    BY <1>1 DEF TypeInv, bitmap_set
  <2>2. lock' \in [Pools -> Threads \cup {NULL}]
    BY <1>1 DEF TypeInv, lock_acquire
  <2>3. pc' \in [Threads -> {"idle"} \cup AllocLabels \cup FreeLabels]
    BY DEF TypeInv, AllocLabels
  <2> QED  BY <1>3, <1>4, <2>1, <2>2, <2>3 DEF TypeInv
<1>6. LockInv'
  <2>1. lock'[PoolOf(c)] = c
    BY <1>1 DEF TypeInv, lock_acquire
  <2> QED  BY <1>3, <2>1 DEF LockInv, TypeInv
<1>7. ProgressInv' /\ SpaceInv' /\ StackInv'
  BY <1>1, <1>2, SpaceReserve
<1>8. FrameTypes' /\ TakenInv' /\ UniqueInv' /\ NoLeakInv' /\ PallocInv'
  BY <1>2, <1>3, FramesIdle DEF FrameTypes
<1> QED  BY <1>5, <1>6, <1>7, <1>8, NoPanicYet DEF PageInv

\* A step that fails an assertion of vaddr_get or of palloc.
LEMMA Halted ==
  ASSUME OneLockEach, RunInv, panic' \cap {"PTE REPEAT", "page_table_add: pte present"} = {},
         panic' # {},
         NEW c \in Threads, c = cur, pc'[c] # "idle",
         \A t \in Threads : t # c => pc[t] = "idle" /\ pc'[t] = pc[t],
         pc'[c] \in HandLabels <=> pc[c] \in HandLabels,
         pc[c] \in HandLabels => call'[c].frame = call[c].frame,
         pc[c] \notin {"unmap", "tclear"} /\ pc'[c] \notin {"unmap", "tclear"},
         vbits' = vbits, lock' \in [Pools -> Threads \cup {NULL}],
         UNCHANGED <<group, cur, pool, pte, pde>>
  PROVE  PageInv'
<1> USE DEF RunInv
<1>1. c \in Threads /\ cur \in group
  BY Running DEF TypeInv
<1>2. TakenInv' /\ UniqueInv'
  <2>1. \A t \in Threads : t # c => pc[t] \notin HandLabels /\ pc[t] # "unmap" /\ pc[t] # "tclear"
    BY DEF HandLabels, TableLabels
  <2> QED  BY <2>1, FramesQuiet
<1>3. PageTypeOK'
  <2>1. pool["kernel"] \subseteq 0 .. KernelBytes - 1 /\ pool["user"] \subseteq 0 .. UserBytes - 1
    BY Bytes DEF FrameTypes, Pools
  <2>2. \A s \in Spaces : \A p \in DOMAIN pte[s] : pte[s][p][1] \in {"kernel", "user"}
    BY Frames DEF Pools
  <2>3. \A s \in Spaces : vbits[s] \subseteq 0 .. VaddrBytes[s] + StackPage
    BY DEF SpaceInv
  <2> QED  BY <1>1, <2>1, <2>2, <2>3 DEF PageTypeOK
<1>4. \A t, u \in Threads : pc'[t] # "idle" /\ pc'[u] # "idle" => t = u
  OBVIOUS
<1> QED  BY <1>1, <1>2, <1>3, <1>4 DEF PageInv, HaltInv, PteClear

\* The assertions of malloc_page that fail are the two of malloc_page_asserts.
LEMMA MallocPageAsserts ==
  ASSUME NEW n \in Nat, NEW page \in Int
  PROVE  /\ malloc_page_asserts(n, page)
              \subseteq {"malloc_page: pg_cnt", "vaddr_get: no virtual pages"}
         /\ malloc_page_asserts(n, page) = {} => page # -1
<1>1. malloc_page_asserts(n, page)
        \subseteq {"malloc_page: pg_cnt", "vaddr_get: no virtual pages"}
  BY Zenon DEF malloc_page_asserts, Failing
<1>2. page = -1 => "vaddr_get: no virtual pages" \in malloc_page_asserts(n, page)
  BY SMT DEF malloc_page_asserts, Failing
<1>3. malloc_page_asserts(n, page) = {} => page # -1
  BY <1>2, Zenon
<1> QED  BY <1>1, <1>3, Zenon

LEMMA MallocPage ==
  ASSUME OneLockEach, RunInv, NEW n \in 1 .. MaxPages,
         malloc_page(n), UNCHANGED <<group, cur, tlb>>
  PROVE  PageInv'
<1>0. PICK c, page : c = cur /\ page = bitmap_scan(vbits[SpaceOf(c)], n, VaddrBytes[SpaceOf(c)])
  OBVIOUS
<1>1. n \in Nat \ {0} /\ c \in Threads /\ SpaceOf(c) \in Spaces /\ PoolOf(c) \in Pools
  BY <1>0, Running, Places, PageAllocAssumption
<1>2. /\ pc[c] = "idle" /\ lock_acquire(PoolOf(c))
      /\ c \in Procs => <<StackPage, 1>> \in regions[c]
      /\ panic' = malloc_page_asserts(n, page)
      /\ vbits' = [vbits EXCEPT ![SpaceOf(c)] = IF panic' = {} THEN bitmap_set(@, page, n, 1) ELSE @]
      /\ call' = [call EXCEPT ![c] = [NoCall EXCEPT !.page = page, !.n = n]]
      /\ pc' = [pc EXCEPT ![c] = "scan"]
      /\ UNCHANGED <<pool, pte, pde, dirty, regions>>
  BY <1>0 DEF malloc_page, goto
<1>3. page \in Int
  <2>1. VaddrBytes[SpaceOf(c)] \in Nat
    BY <1>1, Bytes
  <2> QED  BY <1>0, <1>1, <2>1, ScanInt
<1>4. CASE panic' # {}
  <2>1. \A t \in Threads : pc[t] = "idle"
    BY <1>0, <1>2, Running DEF lock_acquire
  <2>2. panic' \subseteq {"malloc_page: pg_cnt", "vaddr_get: no virtual pages"}
    BY <1>1, <1>2, <1>3, MallocPageAsserts
  <2>3. vbits' = vbits
    BY <1>1, <1>2, <1>4 DEF RunInv, TypeInv
  <2>4. lock' \in [Pools -> Threads \cup {NULL}]
    BY <1>0, <1>1, <1>2 DEF RunInv, TypeInv, lock_acquire
  <2>5. panic' # {} /\ panic' \cap {"PTE REPEAT", "page_table_add: pte present"} = {}
    BY <1>4, <2>2
  <2>6. pc'[c] = "scan" /\ \A t \in Threads : t # c => pc'[t] = pc[t]
    BY <1>1, <1>2 DEF RunInv, TypeInv
  <2>7. "scan" \notin HandLabels /\ "idle" \notin HandLabels
    BY DEF HandLabels, TableLabels
  <2> QED  BY <1>0, <1>1, <1>2, <2>1, <2>3, <2>4, <2>5, <2>6, <2>7, Halted
<1>5. CASE panic' = {}
  <2>1. page # -1
    BY <1>1, <1>2, <1>3, <1>5, MallocPageAsserts
  <2>2. page \in Nat /\ page + n < VaddrBytes[SpaceOf(c)]
        /\ \A x \in page .. page + n - 1 : x \notin vbits[SpaceOf(c)]
    BY <1>0, <1>1, <2>1, ScanFree, Bytes
  <2>3. page + n - 1 <= VaddrBytes[SpaceOf(c)] + StackPage
    BY <1>1, <2>2, Bytes
  <2> QED  BY <1>0, <1>1, <1>2, <1>5, <2>2, <2>3, Reserved
<1> QED  BY <1>4, <1>5

LEMMA GetAPage ==
  ASSUME OneLockEach, RunInv, panic = {}, get_a_page, UNCHANGED <<group, cur, tlb>>
  PROVE  PageInv'
<1>0. PICK c : c = cur
  OBVIOUS
<1>1. c \in Procs /\ c \in Threads /\ SpaceOf(c) = c /\ PoolOf(c) = "user" /\ c \in Spaces
  BY <1>0, Running, Places DEF get_a_page, Spaces
<1>2. /\ pc[c] = "idle" /\ lock_acquire("user")
      /\ <<StackPage, 1>> \notin regions[c]
      /\ vbits' = [vbits EXCEPT ![c] = bitmap_set(@, StackPage, 1, 1)]
      /\ call' = [call EXCEPT ![c] = [NoCall EXCEPT !.page = StackPage, !.n = 1]]
      /\ pc' = [pc EXCEPT ![c] = "scan"]
      /\ UNCHANGED <<pool, pte, pde, dirty, regions, panic>>
  BY <1>0 DEF get_a_page, goto
<1>3. \A t \in Threads : pc[t] = "idle"
  BY <1>0, <1>1, <1>2, Running DEF lock_acquire
<1>4. vbits[c] = {}
  <2>1. regions[c] = {}
    BY <1>1, <1>2 DEF RunInv, StackInv
  <2>2. \A t \in Threads : SpaceOf(t) = c => t = c
    BY <1>1, Places
  <2> QED  BY <1>1, <1>3, <2>1, <2>2 DEF RunInv, SpaceInv
<1>5. StackPage + 1 - 1 <= VaddrBytes[SpaceOf(c)] + StackPage /\ StackPage \in Nat
  BY <1>1, Bytes
<1>6. \A x \in StackPage .. StackPage + 1 - 1 : x \notin vbits[SpaceOf(c)]
  BY <1>1, <1>4
<1>7. vbits' = [vbits EXCEPT ![SpaceOf(c)] = bitmap_set(@, StackPage, 1, 1)]
  BY <1>1, <1>2
<1>8. lock_acquire(PoolOf(c)) /\ panic' = {} /\ 1 \in Nat \ {0}
  BY <1>1, <1>2
<1> QED  BY <1>0, <1>1, <1>2, <1>5, <1>6, <1>7, <1>8, Reserved

\* A step within a call.
LEMMA Inside ==
  ASSUME OneLockEach, RunInv, NEW c \in Threads, c = cur, pc[c] # "idle",
         NEW l \in AllocLabels \cup FreeLabels, pc' = [pc EXCEPT ![c] = l],
         DOMAIN call' = Threads, call'[c] \in Calls,
         pool' \in [Pools -> SUBSET Nat], DOMAIN pte' = Spaces, DOMAIN pde' = Procs,
         UNCHANGED <<group, cur, lock, vbits, regions>>
  PROVE  TypeInv' /\ LockInv'
<1> USE DEF RunInv
<1>1. pc' \in [Threads -> {"idle"} \cup AllocLabels \cup FreeLabels]
  BY DEF TypeInv
<1>2. \A t \in Threads : t # c => pc[t] = "idle" /\ pc'[t] = "idle"
  BY Running DEF TypeInv
<1>3. TypeInv'
  BY <1>1, <1>2 DEF TypeInv
<1>4. LockInv'
  BY <1>2 DEF LockInv
<1> QED  BY <1>3, <1>4

\* palloc: bitmap_scan, for a page or for a page table.
LEMMA PallocScan ==
  ASSUME OneLockEach, RunInv, NEW p \in Pools, NEW from, NEW to,
         \/ p = PoolOf(cur) /\ from = "scan" /\ to = "set"
         \/ p = "kernel" /\ from = "tscan" /\ to = "tset",
         palloc_scan(p, from, to), UNCHANGED <<group, cur, tlb>>
  PROVE  PageInv'
<1>a. PICK c \in Threads : c = cur
  BY Running
<1>0. PICK k : c = cur /\ k = bitmap_scan(pool[p], 1, PoolBytes[p])
  BY <1>a
<1>1. /\ pc[c] = from /\ pc' = [pc EXCEPT ![c] = to]
      /\ panic' = Failing(k # -1, "palloc: pool exhausted")
      /\ call' = [call EXCEPT ![c].idx = k]
      /\ UNCHANGED <<lock, pool, vbits, pte, pde, dirty, regions>>
  BY <1>0 DEF palloc_scan, goto, mem
<1>2. /\ \A t \in Threads : t # c => pc[t] = "idle" /\ pc'[t] = pc[t] /\ call'[t] = call[t]
      /\ call[c] \in Calls /\ pc'[c] = to
  BY <1>0, <1>1, Running DEF RunInv, TypeInv
<1>3. /\ call'[c].page = call[c].page /\ call'[c].n = call[c].n /\ call'[c].i = call[c].i
      /\ call'[c].frame = call[c].frame /\ call'[c].idx = k
  BY <1>1, <1>2 DEF RunInv, TypeInv, Calls
<1>4. /\ from \in HandLabels <=> to \in HandLabels
      /\ from \in AllocLabels /\ to \in AllocLabels /\ to # "idle"
      /\ from \notin {"unmap", "tclear"} /\ to \notin {"unmap", "tclear"}
      /\ from \notin DoneLabels /\ to \notin DoneLabels
      /\ from \notin FreeLabels /\ to \notin FreeLabels
  BY DEF HandLabels, TableLabels, AllocLabels, DoneLabels, FreeLabels
<1>5. CASE k = -1
  <2>1. panic' # {} /\ panic' \cap {"PTE REPEAT", "page_table_add: pte present"} = {}
    BY <1>1, <1>5 DEF Failing
  <2>2. lock' \in [Pools -> Threads \cup {NULL}]
    BY <1>1 DEF RunInv, TypeInv
  <2> QED  BY <1>0, <1>1, <1>2, <1>3, <1>4, <2>1, <2>2, Halted
<1>6. CASE k # -1
  <2>0. panic' = {}
    BY <1>1, <1>6 DEF Failing
  <2>1. k \in Nat /\ k + 1 < PoolBytes[p] /\ k \notin pool[p]
    <3>1. PoolBytes[p] \in Nat /\ 1 \in Nat \ {0}
      BY Bytes
    <3>2. k \in Nat /\ k + 1 < PoolBytes[p] /\ \A x \in k .. k + 1 - 1 : x \notin pool[p]
      BY <1>0, <1>6, <3>1, ScanFree
    <3> QED  BY <3>2
  <2>2. call'[c] \in Calls
    <3>1. call'[c] = [call[c] EXCEPT !.idx = k]
      BY <1>1 DEF RunInv, TypeInv
    <3> HIDE DEF RunInv
    <3> QED  BY <1>2, <2>1, <3>1 DEF Calls
  <2>3. TypeInv' /\ LockInv'
    <3>1. /\ DOMAIN call' = Threads /\ pool' \in [Pools -> SUBSET Nat]
          /\ DOMAIN pte' = Spaces /\ DOMAIN pde' = Procs
      BY <1>1 DEF RunInv, TypeInv
    <3>2. pc[c] # "idle"
      BY <1>1
    <3> QED  BY <1>0, <1>1, <1>4, <2>2, <3>1, <3>2, Inside
  <2>4. \A t \in Threads : /\ pc'[t] = pc[t] \/ (t = c /\ pc[t] = from /\ pc'[t] = to)
                           /\ call'[t] = call[t] \/ t = c
    BY <1>1, <1>2
  <2>5. ProgressInv' /\ SpaceInv' /\ StackInv'
    <3>1. from # "idle"
      OBVIOUS
    <3> QED  BY <1>1, <1>3, <1>4, <2>4, <3>1, SpaceQuiet DEF RunInv
  <2>6. TakenInv' /\ UniqueInv' /\ NoLeakInv'
    <3>1. \A t \in Threads : pc[t] # "unmap" /\ pc'[t] # "unmap" /\ pc[t] # "tclear" /\ pc'[t] # "tclear"
      BY <1>1, <1>2, <1>4
    <3> QED  BY <1>1, <1>3, <1>4, <2>4, <3>1, FramesQuiet DEF RunInv
  <2>7. FrameTypes'
    BY <1>1, <1>3, <1>4, <2>4 DEF RunInv, FrameTypes
  <2>8. PallocInv'
    <3>1. Page(c)' = Page(c)
      BY <1>3 DEF Page
    <3>2. \A t \in Threads : t # c => pc'[t] = "idle"
      BY <1>2
    <3>3. k \in 0 .. PoolBytes[p] - 1
      BY <2>1, Bytes
    <3>4. CASE from = "scan"
      <4>1. p = PoolOf(c) /\ pc'[c] = "set"
        BY <1>0, <1>2, <3>4
      <4> QED  BY <1>1, <1>3, <2>1, <3>2, <3>3, <4>1 DEF PallocInv, TableLabels
    <3>5. CASE from = "tscan"
      <4>1. p = "kernel" /\ pc'[c] = "tset" /\ PoolBytes[p] = KernelBytes
        BY <1>2, <3>5, Bytes
      <4>2. c \in Procs /\ TableOf(Page(c)) \notin DOMAIN pde[c]
        BY <1>1, <3>5 DEF RunInv, PallocInv, TableLabels
      <4>3. TableOf(Page(c))' = TableOf(Page(c))
        BY <3>1 DEF TableOf
      <4> QED  BY <1>1, <1>3, <2>1, <3>2, <3>3, <4>1, <4>2, <4>3 DEF PallocInv, TableLabels
    <3> QED  BY <3>4, <3>5
  <2> QED  BY <2>0, <2>3, <2>5, <2>6, <2>7, <2>8, NoPanicYet DEF PageInv, RunInv
<1> QED  BY <1>5, <1>6

LEMMA PagePallocSet ==
  ASSUME OneLockEach, RunInv, panic = {}, page_palloc_set, UNCHANGED <<group, cur, tlb>>
  PROVE  PageInv'
<1>a. PICK c \in Threads : c = cur
  BY Running
<1>0. PICK k : c = cur /\ k = call[c].idx
  BY <1>a
<1>1. /\ pc[c] = "set" /\ pc' = [pc EXCEPT ![c] = "map"]
      /\ pool' = [pool EXCEPT ![PoolOf(c)] = bitmap_set(@, call[c].idx, 1, 1)]
      /\ call' = [call EXCEPT ![c].frame = <<PoolOf(c), call[c].idx>>]
      /\ UNCHANGED <<lock, vbits, pte, pde, dirty, regions, panic>>
  BY <1>0 DEF page_palloc_set, palloc_set, goto
<1>2. /\ \A t \in Threads : t # c => pc[t] = "idle" /\ pc'[t] = pc[t] /\ call'[t] = call[t]
      /\ call[c] \in Calls /\ pc'[c] = "map"
  BY <1>0, <1>1, Running DEF RunInv, TypeInv
<1>3. k \in Nat /\ PoolOf(c) \in Pools
  BY <1>0, <1>1, Places, Bytes DEF RunInv, PallocInv
<1>4. call'[c] = [call[c] EXCEPT !.frame = <<PoolOf(c), k>>]
  BY <1>0, <1>1 DEF RunInv, TypeInv
<1>5. /\ call'[c] \in Calls
      /\ call'[c].page = call[c].page /\ call'[c].n = call[c].n /\ call'[c].i = call[c].i
  BY <1>2, <1>3, <1>4 DEF Calls
<1>6. TypeInv' /\ LockInv'
  <2>1. /\ DOMAIN call' = Threads /\ DOMAIN pte' = Spaces /\ DOMAIN pde' = Procs
        /\ pc[c] # "idle" /\ "map" \in AllocLabels
    BY <1>1 DEF RunInv, TypeInv, AllocLabels, HandLabels
  <2>2. pool' \in [Pools -> SUBSET Nat]
    BY <1>0, <1>1, <1>3, PoolGrows DEF RunInv, TypeInv
  <2> QED  BY <1>0, <1>1, <1>5, <2>1, <2>2, Inside
<1>7. ProgressInv' /\ SpaceInv' /\ StackInv'
  <2>1. /\ "set" \in AllocLabels /\ "map" \in AllocLabels
        /\ {"set", "map"} \cap (FreeLabels \cup DoneLabels) = {}
    BY DEF AllocLabels, HandLabels, FreeLabels, DoneLabels
  <2> QED  BY <1>1, <1>2, <1>5, <2>1, SpaceQuiet DEF RunInv
<1>8. FrameTypes' /\ TakenInv' /\ UniqueInv' /\ NoLeakInv' /\ PallocInv'
  BY <1>1, <1>2, FrameTaken DEF RunInv
<1> QED  BY <1>1, <1>6, <1>7, <1>8, NoPanicYet DEF PageInv, RunInv

LEMMA TablePallocSet ==
  ASSUME OneLockEach, RunInv, panic = {}, table_palloc_set, UNCHANGED <<group, cur, tlb>>
  PROVE  PageInv'
<1>a. PICK c \in Threads : c = cur
  BY Running
<1>0. PICK k : c = cur /\ k = call[c].idx
  BY <1>a
<1>1. /\ pc[c] = "tset" /\ pc' = [pc EXCEPT ![c] = "tclear"]
      /\ pool' = [pool EXCEPT !["kernel"] = bitmap_set(@, call[c].idx, 1, 1)]
      /\ UNCHANGED <<lock, vbits, pte, pde, dirty, regions, panic, call>>
  BY <1>0 DEF table_palloc_set, palloc_set, goto
<1>2. /\ \A t \in Threads : t # c => pc[t] = "idle" /\ pc'[t] = pc[t]
      /\ call[c] \in Calls /\ pc'[c] = "tclear"
  BY <1>0, <1>1, Running DEF RunInv, TypeInv
<1>3. k \in Nat /\ "kernel" \in Pools
  BY <1>0, <1>1 DEF RunInv, PallocInv, Pools
<1>6. TypeInv' /\ LockInv'
  <2>1. /\ DOMAIN call' = Threads /\ DOMAIN pte' = Spaces /\ DOMAIN pde' = Procs
        /\ pc[c] # "idle" /\ "tclear" \in AllocLabels
    BY <1>1 DEF RunInv, TypeInv, AllocLabels, HandLabels, TableLabels
  <2>2. pool' \in [Pools -> SUBSET Nat]
    BY <1>0, <1>1, <1>3, PoolGrows DEF RunInv, TypeInv
  <2> QED  BY <1>0, <1>1, <1>2, <2>1, <2>2, Inside
<1>7. ProgressInv' /\ SpaceInv' /\ StackInv'
  <2>1. /\ "tset" \in AllocLabels /\ "tclear" \in AllocLabels
        /\ {"tset", "tclear"} \cap (FreeLabels \cup DoneLabels) = {}
    BY DEF AllocLabels, HandLabels, TableLabels, FreeLabels, DoneLabels
  <2> QED  BY <1>1, <1>2, <2>1, SpaceQuiet DEF RunInv
<1>8. FrameTypes' /\ TakenInv' /\ UniqueInv' /\ NoLeakInv' /\ PallocInv'
  BY <1>1, <1>2, TableTaken DEF RunInv
<1> QED  BY <1>1, <1>6, <1>7, <1>8, NoPanicYet DEF PageInv, RunInv

LEMMA TableClear ==
  ASSUME OneLockEach, RunInv, panic = {}, table_clear, UNCHANGED <<group, cur, tlb>>
  PROVE  PageInv'
<1>0. PICK c \in Threads : c = cur
  BY Running
<1>1. /\ pc[c] = "tclear" /\ pc' = [pc EXCEPT ![c] = "tmap"]
      /\ pde' = [pde EXCEPT ![c] = Bind(@, TableOf(Page(c)), <<"kernel", call[c].idx>>)]
      /\ dirty' = dirty \ {<<"kernel", call[c].idx>>}
      /\ UNCHANGED <<lock, pool, vbits, pte, regions, call, panic>>
  BY <1>0 DEF table_clear, goto
<1>2. /\ \A t \in Threads : t # c => pc[t] = "idle" /\ pc'[t] = pc[t]
      /\ call[c] \in Calls /\ pc'[c] = "tmap"
  BY <1>0, <1>1, Running DEF RunInv, TypeInv
<1>6. TypeInv' /\ LockInv'
  <2>1. /\ DOMAIN call' = Threads /\ DOMAIN pte' = Spaces /\ DOMAIN pde' = Procs
        /\ pc[c] # "idle" /\ "tmap" \in AllocLabels /\ pool' \in [Pools -> SUBSET Nat]
    BY <1>1 DEF RunInv, TypeInv, AllocLabels, HandLabels, TableLabels
  <2> QED  BY <1>0, <1>1, <1>2, <2>1, Inside
<1>7. ProgressInv' /\ SpaceInv' /\ StackInv'
  <2>1. /\ "tmap" \in AllocLabels /\ "tclear" \in AllocLabels
        /\ {"tmap", "tclear"} \cap (FreeLabels \cup DoneLabels) = {}
    BY DEF AllocLabels, HandLabels, TableLabels, FreeLabels, DoneLabels
  <2> QED  BY <1>1, <1>2, <2>1, SpaceQuiet DEF RunInv
<1>8. FrameTypes' /\ TakenInv' /\ UniqueInv' /\ NoLeakInv' /\ PallocInv'
  BY <1>1, <1>2, TableLinked DEF RunInv
<1> QED  BY <1>1, <1>6, <1>7, <1>8, NoPanicYet DEF PageInv, RunInv

LEMMA Pfree ==
  ASSUME OneLockEach, RunInv, panic = {}, pfree, UNCHANGED <<group, cur, tlb>>
  PROVE  PageInv'
<1>a. PICK c \in Threads : c = cur
  BY Running
<1>0. PICK f : c = cur /\ f = pte[SpaceOf(c)][Page(c)]
  BY <1>a
<1>1. /\ pc[c] = "pfree" /\ pc' = [pc EXCEPT ![c] = "unmap"]
      /\ pool' = [pool EXCEPT ![f[1]] = bitmap_set(@, f[2], 1, 0)]
      /\ UNCHANGED <<lock, vbits, pte, pde, dirty, regions, call, panic>>
  BY <1>0 DEF pfree, goto
<1>2. /\ \A t \in Threads : t # c => pc[t] = "idle" /\ pc'[t] = pc[t]
      /\ call[c] \in Calls /\ pc'[c] = "unmap"
  BY <1>0, <1>1, Running DEF RunInv, TypeInv
<1>3. Page(c) \in DOMAIN pte[SpaceOf(c)]
  <2>1. call[c].i < call[c].n /\ \A x \in CallPages(c) : x \in DOMAIN pte[SpaceOf(c)] <=> x >= Page(c)
    BY <1>1 DEF RunInv, ProgressInv, FreeLabels, DoneLabels
  <2>2. call[c].page \in Nat /\ call[c].n \in Nat /\ call[c].i \in Nat
    BY <1>2 DEF Calls
  <2>3. Page(c) \in CallPages(c) /\ Page(c) \in Nat
    BY <2>1, <2>2 DEF Page, CallPages
  <2> QED  BY <2>1, <2>3
<1>4. f[1] \in Pools
  BY <1>0, <1>3, Places, Frames DEF RunInv
<1>6. TypeInv' /\ LockInv'
  <2>1. /\ DOMAIN call' = Threads /\ DOMAIN pte' = Spaces /\ DOMAIN pde' = Procs
        /\ pc[c] # "idle" /\ "unmap" \in FreeLabels
    BY <1>1 DEF RunInv, TypeInv, FreeLabels
  <2>2. pool' \in [Pools -> SUBSET Nat]
    BY <1>1, <1>4 DEF RunInv, TypeInv, bitmap_set
  <2> QED  BY <1>0, <1>1, <1>2, <2>1, <2>2, Inside
<1>7. ProgressInv' /\ SpaceInv' /\ StackInv'
  <2>1. /\ "pfree" \in FreeLabels /\ "unmap" \in FreeLabels
        /\ {"pfree", "unmap"} \cap (AllocLabels \cup DoneLabels) = {}
    BY DEF AllocLabels, HandLabels, TableLabels, FreeLabels, DoneLabels
  <2> QED  BY <1>1, <1>2, <2>1, SpaceQuiet DEF RunInv
<1>8. FrameTypes' /\ TakenInv' /\ UniqueInv' /\ NoLeakInv' /\ PallocInv'
  BY <1>0, <1>1, <1>2, <1>3, FrameFreed DEF RunInv
<1> QED  BY <1>1, <1>6, <1>7, <1>8, NoPanicYet DEF PageInv, RunInv

\* The next page of a call that allocates has no entry.
LEMMA NextPageClear ==
  ASSUME RunInv, NEW c \in Threads, pc[c] \in HandLabels
  PROVE  Page(c) \notin DOMAIN pte[SpaceOf(c)]
<1>1. call[c].i < call[c].n /\ \A x \in CallPages(c) : x \in DOMAIN pte[SpaceOf(c)] <=> x < Page(c)
  BY DEF RunInv, ProgressInv, AllocLabels, HandLabels, TableLabels, DoneLabels
<1>2. call[c] \in Calls
  BY DEF RunInv, TypeInv, HandLabels, TableLabels
<1>3. call[c].page \in Nat /\ call[c].n \in Nat /\ call[c].i \in Nat
  BY <1>2 DEF Calls
<1>4. Page(c) \in CallPages(c) /\ Page(c) \in Nat
  BY <1>1, <1>3 DEF Page, CallPages
<1> QED  BY <1>1, <1>4

\* The entry of a page is written, in an old page table or in a new one.
LEMMA Mapped ==
  ASSUME OneLockEach, RunInv, pc[cur] \in {"map", "tmap"}, MapPage, panic' = {},
         UNCHANGED <<group, cur, tlb, lock, pool, vbits, pde, dirty, regions>>
  PROVE  PageInv'
<1>a. PICK c \in Threads : c = cur
  BY Running
<1>0. PICK f, m, l :
        /\ c = cur /\ f = call[c].frame /\ m = Page(c)
        /\ l = IF call[c].i + 1 < call[c].n THEN "scan" ELSE "mapped"
  BY <1>a
<1>1. /\ pte' = [pte EXCEPT ![SpaceOf(c)] = Bind(@, Page(c), call[c].frame)]
      /\ call' = [call EXCEPT ![c].i = @ + 1]
      /\ pc' = [pc EXCEPT ![c] = IF call[c].i + 1 < call[c].n THEN "scan" ELSE "mapped"]
  BY <1>0 DEF MapPage, goto
<1>2. /\ \A t \in Threads : t # c => pc[t] = "idle"
      /\ call[c] \in Calls /\ pc[c] \in {"map", "tmap"} /\ pc[c] \in HandLabels
  BY <1>0, Running DEF HandLabels, TableLabels
<1>3. call'[c] \in Calls
  <2>1. call'[c] = [call[c] EXCEPT !.i = call[c].i + 1]
    BY <1>1 DEF RunInv, TypeInv
  <2> QED  BY <1>2, <2>1 DEF Calls
<1>4. TypeInv' /\ LockInv'
  <2>1. /\ DOMAIN call' = Threads /\ DOMAIN pte' = Spaces /\ DOMAIN pde' = Procs
        /\ pc[c] # "idle" /\ l \in AllocLabels /\ pool' \in [Pools -> SUBSET Nat]
    BY <1>0, <1>1, <1>2 DEF RunInv, TypeInv, AllocLabels
  <2>2. pc' = [pc EXCEPT ![c] = l]
    BY <1>0, <1>1
  <2> QED  BY <1>0, <1>3, <2>1, <2>2, Inside
<1>5. ProgressInv' /\ SpaceInv' /\ StackInv'
  BY <1>1, <1>2, SpaceMap DEF RunInv
<1>6. FrameTypes' /\ TakenInv' /\ UniqueInv' /\ NoLeakInv' /\ PallocInv'
  BY <1>1, <1>2, FrameMapped, NextPageClear DEF RunInv
<1> QED  BY <1>4, <1>5, <1>6, NoPanicYet DEF PageInv, RunInv

LEMMA PageTableAdd ==
  ASSUME OneLockEach, RunInv, panic = {}, page_table_add, UNCHANGED <<group, cur, tlb>>
  PROVE  PageInv'
<1>0. PICK c \in Threads : c = cur
  BY Running
<1>1. pc[c] = "map" /\ pc[c] \in HandLabels
  BY <1>0 DEF page_table_add, HandLabels
<1>2. CASE TablePresent(SpaceOf(c), Page(c))
  <2>1. MapPage /\ panic' = Failing(Page(c) \notin DOMAIN pte[SpaceOf(c)], "PTE REPEAT")
    BY <1>0, <1>2 DEF page_table_add
  <2>2. panic' = {}
    BY <1>1, <2>1, NextPageClear DEF Failing
  <2> QED  BY <1>0, <1>1, <2>1, <2>2, Mapped DEF page_table_add
<1>3. CASE ~TablePresent(SpaceOf(c), Page(c))
  <2>1. /\ pc' = [pc EXCEPT ![c] = "tscan"]
        /\ UNCHANGED <<pte, call, panic, lock, pool, vbits, pde, dirty, regions>>
    BY <1>0, <1>3 DEF page_table_add, goto
  <2>2. /\ \A t \in Threads : t # c => pc[t] = "idle" /\ pc'[t] = pc[t]
        /\ call[c] \in Calls /\ pc'[c] = "tscan"
    BY <1>0, <1>1, <2>1, Running DEF RunInv, TypeInv
  <2>3. c \in Procs /\ TableOf(Page(c)) \notin DOMAIN pde[c]
    BY <1>3, Places DEF TablePresent
  <2>4. TypeInv' /\ LockInv'
    <3>1. /\ DOMAIN call' = Threads /\ DOMAIN pte' = Spaces /\ DOMAIN pde' = Procs
          /\ pc[c] # "idle" /\ "tscan" \in AllocLabels /\ pool' \in [Pools -> SUBSET Nat]
      BY <1>1, <2>1 DEF RunInv, TypeInv, AllocLabels, HandLabels, TableLabels
    <3> QED  BY <1>0, <2>1, <2>2, <3>1, Inside
  <2>5. ProgressInv' /\ SpaceInv' /\ StackInv'
    <3>1. /\ "map" \in AllocLabels /\ "tscan" \in AllocLabels
          /\ {"map", "tscan"} \cap (FreeLabels \cup DoneLabels) = {}
      BY DEF AllocLabels, HandLabels, TableLabels, FreeLabels, DoneLabels
    <3> QED  BY <1>1, <2>1, <2>2, <3>1, SpaceQuiet DEF RunInv
  <2>6. \A t \in Threads : pc'[t] \in HandLabels <=> pc[t] \in HandLabels
    BY <1>1, <2>2 DEF HandLabels, TableLabels
  <2>7. TakenInv' /\ UniqueInv' /\ NoLeakInv'
    <3>1. \A t \in Threads : pc[t] # "unmap" /\ pc'[t] # "unmap" /\ pc[t] # "tclear" /\ pc'[t] # "tclear"
      BY <1>1, <2>2
    <3> QED  BY <2>1, <2>6, <3>1, FramesQuiet DEF RunInv
  <2>8. FrameTypes'
    BY <2>1, <2>6 DEF RunInv, FrameTypes
  <2>9. PallocInv'
    <3>1. TableOf(Page(c))' = TableOf(Page(c))
      BY <2>1 DEF Page, TableOf
    <3> QED  BY <2>1, <2>2, <2>3, <3>1 DEF PallocInv, TableLabels
  <2> QED  BY <2>1, <2>4, <2>5, <2>7, <2>8, <2>9, NoPanicYet DEF PageInv, RunInv
<1> QED  BY <1>2, <1>3

LEMMA TableMap ==
  ASSUME OneLockEach, RunInv, table_map, UNCHANGED <<group, cur, tlb>>
  PROVE  PageInv'
<1>1. cur \in Threads /\ pc[cur] = "tmap"
  BY Running DEF table_map
<1>2. pde[cur][TableOf(Page(cur))] \notin dirty
  BY <1>1 DEF RunInv, PallocInv
<1>3. panic' = {}
  BY <1>2 DEF table_map, Failing
<1> QED  BY <1>1, <1>3, Mapped DEF table_map

LEMMA PteRemove ==
  ASSUME OneLockEach, RunInv, panic = {}, page_table_pte_remove, UNCHANGED <<group, cur, tlb>>
  PROVE  PageInv'
<1>a. PICK c \in Threads : c = cur
  BY Running
<1>0. PICK l :
        c = cur /\ l = IF call[c].i + 1 < call[c].n THEN "pfree" ELSE "vaddr"
  BY <1>a
<1>1. /\ pc[c] = "unmap"
      /\ pte' = [pte EXCEPT ![SpaceOf(c)] = Unbind(@, Page(c))]
      /\ call' = [call EXCEPT ![c].i = @ + 1]
      /\ pc' = [pc EXCEPT ![c] = IF call[c].i + 1 < call[c].n THEN "pfree" ELSE "vaddr"]
      /\ UNCHANGED <<lock, pool, vbits, pde, dirty, regions, panic>>
  BY <1>0 DEF page_table_pte_remove, goto
<1>2. (\A t \in Threads : t # c => pc[t] = "idle") /\ call[c] \in Calls
  BY <1>0, <1>1, Running
<1>3. call'[c] \in Calls
  <2>1. call'[c] = [call[c] EXCEPT !.i = call[c].i + 1]
    BY <1>1 DEF RunInv, TypeInv
  <2> QED  BY <1>2, <2>1 DEF Calls
<1>4. TypeInv' /\ LockInv'
  <2>1. /\ DOMAIN call' = Threads /\ DOMAIN pte' = Spaces /\ DOMAIN pde' = Procs
        /\ pc[c] # "idle" /\ l \in FreeLabels /\ pool' \in [Pools -> SUBSET Nat]
    BY <1>0, <1>1 DEF RunInv, TypeInv, FreeLabels
  <2>2. pc' = [pc EXCEPT ![c] = l]
    BY <1>0, <1>1
  <2> QED  BY <1>0, <1>1, <1>3, <2>1, <2>2, Inside
<1>5. ProgressInv' /\ SpaceInv' /\ StackInv'
  BY <1>1, <1>2, SpaceUnmap DEF RunInv
<1>6. FrameTypes' /\ TakenInv' /\ UniqueInv' /\ NoLeakInv' /\ PallocInv'
  BY <1>1, <1>2, FrameUnmapped DEF RunInv
<1> QED  BY <1>1, <1>4, <1>5, <1>6, NoPanicYet DEF PageInv, RunInv

\* A call ends and releases the lock.
LEMMA CallEnds ==
  ASSUME OneLockEach, RunInv, NEW c \in Threads, c = cur, pc[c] # "idle",
         lock_release(PoolOf(c)), pc' = [pc EXCEPT ![c] = "idle"],
         call' = [call EXCEPT ![c] = NoCall],
         regions' \in [Threads -> SUBSET (Nat \X (Nat \ {0}))],
         \A t \in Threads : t # c => regions'[t] = regions[t],
         vbits' \in [Spaces -> SUBSET Nat],
         UNCHANGED <<group, cur, pool, pte, pde>>
  PROVE  TypeInv' /\ LockInv'
<1> USE DEF RunInv
<1>1. \A t \in Threads : pc'[t] = "idle"
  BY Running DEF TypeInv
<1>2. pc' \in [Threads -> {"idle"} \cup AllocLabels \cup FreeLabels]
  BY DEF TypeInv
<1>3. lock' \in [Pools -> Threads \cup {NULL}]
  BY DEF TypeInv, lock_release
<1>4. DOMAIN call' = Threads
  BY DEF TypeInv
<1>5. TypeInv'
  BY <1>1, <1>2, <1>3, <1>4 DEF TypeInv
<1>6. LockInv'
  BY <1>1 DEF LockInv, TypeInv
<1> QED  BY <1>5, <1>6

LEMMA Returns ==
  ASSUME OneLockEach, RunInv, panic = {}, pc[cur] = "mapped", Return,
         cur \in Procs => <<StackPage, 1>> \in regions[cur] \/ call[cur].page = StackPage,
         \A e \in tlb' : e[2] \in {PoolOf(cur)} \X Nat,
         UNCHANGED <<group, cur>>
  PROVE  PageInv'
<1>0. PICK c \in Threads : c = cur
  BY Running
<1>1. /\ pc[c] = "mapped" /\ lock_release(PoolOf(c)) /\ pc' = [pc EXCEPT ![c] = "idle"]
      /\ regions' = [regions EXCEPT ![c] = @ \cup {<<call[c].page, call[c].n>>}]
      /\ call' = [call EXCEPT ![c] = NoCall]
      /\ c \in Procs => <<StackPage, 1>> \in regions[c] \/ call[c].page = StackPage
      /\ UNCHANGED <<pool, vbits, pte, pde, panic>>
  BY <1>0 DEF Return, goto
<1>2. (\A t \in Threads : t # c => pc[t] = "idle") /\ call[c] \in Calls
  BY <1>0, <1>1, Running
<1>3. <<call[c].page, call[c].n>> \in Nat \X (Nat \ {0})
  BY <1>2 DEF Calls
<1>4. TypeInv' /\ LockInv'
  <2>1. regions' \in [Threads -> SUBSET (Nat \X (Nat \ {0}))]
    BY <1>1, <1>3 DEF RunInv, TypeInv
  <2>2. \A t \in Threads : t # c => regions'[t] = regions[t]
    BY <1>1 DEF RunInv, TypeInv
  <2>3. vbits' \in [Spaces -> SUBSET Nat] /\ pc[c] # "idle"
    BY <1>1 DEF RunInv, TypeInv
  <2> QED  BY <1>0, <1>1, <2>1, <2>2, <2>3, CallEnds
<1>5. ProgressInv' /\ SpaceInv' /\ StackInv'
  BY <1>1, <1>2, SpaceReturn DEF RunInv
<1>6. FrameTypes' /\ TakenInv' /\ UniqueInv' /\ NoLeakInv' /\ PallocInv'
  <2>1. \A t \in Threads : pc[t] \in {"idle", "mapped"} /\ pc'[t] \in {"idle", "mapped"}
    BY <1>1, <1>2 DEF RunInv, TypeInv
  <2> QED  BY <1>1, <2>1, FramesIdle DEF RunInv
<1> QED  BY <1>1, <1>4, <1>5, <1>6, NoPanicYet DEF PageInv, RunInv

LEMMA MallocPageReturn ==
  ASSUME OneLockEach, RunInv, panic = {}, malloc_page_return, UNCHANGED <<group, cur>>
  PROVE  PageInv'
<1>1. cur \in Threads /\ pc[cur] = "mapped" /\ call[cur].page # StackPage /\ Return
  BY Running DEF malloc_page_return
<1>2. cur \in Procs => <<StackPage, 1>> \in regions[cur]
  BY <1>1 DEF RunInv, StackInv
<1>3. \A e \in tlb' : e[2] \in {PoolOf(cur)} \X Nat
  <2>1. call[cur] \in Calls /\ call[cur].i = call[cur].n
    BY <1>1, Running DEF RunInv, ProgressInv, DoneLabels
  <2>2. \A x \in CallPages(cur) : x \in DOMAIN pte[SpaceOf(cur)] <=> x < Page(cur)
    BY <1>1 DEF RunInv, ProgressInv, AllocLabels
  <2>3. call[cur].page \in Nat /\ call[cur].n \in Nat
    BY <2>1 DEF Calls
  <2>4. CallPages(cur) \subseteq DOMAIN pte[SpaceOf(cur)]
    BY <2>1, <2>2, <2>3 DEF CallPages, Page
  <2>5. \A e \in Touched(call[cur].page, call[cur].n) : e[2] \in {PoolOf(cur)} \X Nat
    BY <1>1, <2>3, <2>4, TouchedFrames DEF CallPages, RunInv
  <2>6. tlb' = tlb \cup Touched(call[cur].page, call[cur].n)
    BY DEF malloc_page_return
  <2> QED  BY <2>5, <2>6 DEF RunInv, FrameTypes
<1> QED  BY <1>1, <1>2, <1>3, Returns

LEMMA GetAPageReturn ==
  ASSUME OneLockEach, RunInv, panic = {}, get_a_page_return, UNCHANGED <<group, cur, tlb>>
  PROVE  PageInv'
<1>1. \A e \in tlb' : e[2] \in {PoolOf(cur)} \X Nat
  BY DEF RunInv, FrameTypes
<1> QED  BY <1>1, Returns DEF get_a_page_return

LEMMA MfreePage ==
  ASSUME OneLockEach, RunInv, panic = {}, NEW region \in regions[cur],
         mfree_page(region), UNCHANGED <<group, cur, tlb>>
  PROVE  PageInv'
<1>0. PICK c \in Threads : c = cur
  BY Running
<1>1. /\ pc[c] = "idle" /\ region \in regions[c] /\ region # <<StackPage, 1>>
      /\ lock_acquire(PoolOf(c)) /\ pc' = [pc EXCEPT ![c] = "pfree"]
      /\ call' = [call EXCEPT ![c] = [NoCall EXCEPT !.page = region[1], !.n = region[2]]]
      /\ regions' = [regions EXCEPT ![c] = @ \ {region}]
      /\ UNCHANGED <<pool, vbits, pte, pde, dirty, panic>>
  BY <1>0 DEF mfree_page, goto
<1>2. \A t \in Threads : pc[t] = "idle"
  BY <1>0, <1>1, Running DEF lock_acquire
<1>3. pc'[c] = "pfree" /\ \A t \in Threads : t # c => pc'[t] = "idle"
  BY <1>1, <1>2 DEF RunInv, TypeInv
<1>4. call'[c] \in Calls
  <2>1. call'[c] = [page |-> region[1], n |-> region[2], i |-> 0, idx |-> 0, frame |-> NULL]
    BY <1>1 DEF RunInv, TypeInv, NoCall
  <2>2. region \in Nat \X (Nat \ {0})
    BY <1>1 DEF RunInv, TypeInv
  <2>3. region[1] \in Nat /\ region[2] \in Nat \ {0}
    BY <2>2
  <2> QED  BY <2>1, <2>3, NewCall
<1>5. lock' \in [Pools -> Threads \cup {NULL}] /\ lock'[PoolOf(c)] = c
  BY <1>0, <1>1, Places DEF RunInv, TypeInv, lock_acquire
<1>6. TypeInv'
  <2>1. pc' \in [Threads -> {"idle"} \cup AllocLabels \cup FreeLabels]
    BY <1>1 DEF RunInv, TypeInv, FreeLabels
  <2>2. regions' \in [Threads -> SUBSET (Nat \X (Nat \ {0}))]
    BY <1>1 DEF RunInv, TypeInv
  <2>3. DOMAIN call' = Threads
    BY <1>1 DEF RunInv, TypeInv
  <2> QED  BY <1>1, <1>3, <1>4, <1>5, <2>1, <2>2, <2>3 DEF RunInv, TypeInv
<1>7. LockInv'
  <2>1. c \in group /\ \A t \in Threads : t # c => regions'[t] = regions[t]
    BY <1>0, <1>1 DEF RunInv, TypeInv
  <2> QED  BY <1>3, <1>5, <2>1 DEF RunInv, LockInv
<1>8. ProgressInv' /\ SpaceInv' /\ StackInv'
  BY <1>1, <1>2, SpaceTake DEF RunInv
<1>9. FrameTypes' /\ TakenInv' /\ UniqueInv' /\ NoLeakInv' /\ PallocInv'
  <2>1. \A t \in Threads : pc[t] \in {"idle", "pfree"} /\ pc'[t] \in {"idle", "pfree"}
    BY <1>2, <1>3
  <2>2. \A e \in tlb' : e[2] \in {PoolOf(cur')} \X Nat
    BY DEF RunInv, FrameTypes
  <2> QED  BY <1>1, <2>1, <2>2, FramesIdle DEF RunInv
<1> QED  BY <1>1, <1>6, <1>7, <1>8, <1>9, NoPanicYet DEF PageInv, RunInv

LEMMA VaddrRemove ==
  ASSUME OneLockEach, RunInv, panic = {}, vaddr_remove, UNCHANGED <<group, cur, tlb>>
  PROVE  PageInv'
<1>0. PICK c \in Threads : c = cur
  BY Running
<1>1. /\ pc[c] = "vaddr" /\ lock_release(PoolOf(c)) /\ pc' = [pc EXCEPT ![c] = "idle"]
      /\ vbits' = [vbits EXCEPT ![SpaceOf(c)] = bitmap_set(@, call[c].page, call[c].n, 0)]
      /\ call' = [call EXCEPT ![c] = NoCall]
      /\ UNCHANGED <<pool, pte, pde, dirty, regions, panic>>
  BY <1>0 DEF vaddr_remove, goto
<1>2. \A t \in Threads : t # c => pc[t] = "idle"
  BY <1>0, <1>1, Running
<1>4. TypeInv' /\ LockInv'
  <2>1. regions' \in [Threads -> SUBSET (Nat \X (Nat \ {0}))] /\ pc[c] # "idle"
    BY <1>1 DEF RunInv, TypeInv
  <2>2. \A t \in Threads : t # c => regions'[t] = regions[t]
    BY <1>1
  <2>3. vbits' \in [Spaces -> SUBSET Nat]
    BY <1>1, Places DEF RunInv, TypeInv, bitmap_set
  <2> QED  BY <1>0, <1>1, <2>1, <2>2, <2>3, CallEnds
<1>5. ProgressInv' /\ SpaceInv' /\ StackInv'
  BY <1>1, <1>2, SpaceVaddr DEF RunInv
<1>6. FrameTypes' /\ TakenInv' /\ UniqueInv' /\ NoLeakInv' /\ PallocInv'
  <2>1. \A t \in Threads : pc[t] \in {"idle", "vaddr"} /\ pc'[t] \in {"idle", "vaddr"}
    BY <1>1, <1>2 DEF RunInv, TypeInv
  <2>2. \A e \in tlb' : e[2] \in {PoolOf(cur')} \X Nat
    BY DEF RunInv, FrameTypes
  <2> QED  BY <1>1, <2>1, <2>2, FramesIdle DEF RunInv
<1> QED  BY <1>1, <1>4, <1>5, <1>6, NoPanicYet DEF PageInv, RunInv

\* A write reaches a frame of the running thread's pool, never a page table.
LEMMA Writes ==
  ASSUME OneLockEach, RunInv, panic = {}, NEW region \in regions[cur],
         Write(region), UNCHANGED <<group, cur>>
  PROVE  PageInv'
<1> DEFINE touched == Touched(region[1], 1)
<1>1. cur \in Threads /\ UNCHANGED <<lock, pool, vbits, pte, pde, regions, pc, call, panic>>
  BY Running DEF Write
<1>2. \A e \in touched : e[2] \in {PoolOf(cur)} \X Nat
  <2>1. region \in Nat \X (Nat \ {0}) /\ RegionPages(region) \subseteq DOMAIN pte[SpaceOf(cur)]
    BY <1>1 DEF RunInv, TypeInv, SpaceInv
  <2>2. region[1] \in Nat /\ region[1] .. region[1] + 1 - 1 \subseteq RegionPages(region)
    BY <2>1 DEF RegionPages
  <2>3. region[1] .. region[1] + 1 - 1 \subseteq DOMAIN pte[SpaceOf(cur)]
    BY <2>1, <2>2
  <2> QED  BY <1>1, <2>2, <2>3, TouchedFrames DEF RunInv
<1>3. tlb' = tlb \cup touched /\ dirty' = dirty \cup {x[2] : x \in touched}
  BY DEF Write
<1> HIDE DEF touched
<1>4. TypeInv' /\ LockInv'
  BY <1>1 DEF RunInv, TypeInv, LockInv
<1>5. ProgressInv' /\ SpaceInv' /\ StackInv'
  BY <1>1, SpaceQuiet DEF RunInv
<1>6. \A t \in Threads : Page(t)' = Page(t)
  BY <1>1 DEF Page
<1>7. TakenInv' /\ UniqueInv' /\ NoLeakInv'
  BY <1>1, <1>6, FramesQuiet DEF RunInv
<1>8. FrameTypes'
  BY <1>1, <1>2, <1>3 DEF RunInv, FrameTypes
<1>9. PallocInv'
  <2>1. \A t \in Threads : TableOf(Page(t))' = TableOf(Page(t))
    BY <1>6 DEF TableOf
  <2>2. ASSUME NEW t \in Threads, pc[t] = "tmap"
        PROVE  pde[t][TableOf(Page(t))] \notin dirty'
    <3>1. t \in Procs /\ TableOf(Page(t)) \in DOMAIN pde[t] /\ pde[t][TableOf(Page(t))] \notin dirty
      BY <2>2 DEF RunInv, PallocInv, TableLabels
    <3>2. pde[t][TableOf(Page(t))] \in {"kernel"} \X Nat
      BY <3>1 DEF RunInv, FrameTypes
    <3>3. PoolOf(cur) = "user"
      BY <2>2, <3>1, OneCall, Places DEF RunInv
    <3>4. \A e \in touched : e[2] # pde[t][TableOf(Page(t))]
      BY <1>2, <3>2, <3>3
    <3> QED  BY <1>3, <3>1, <3>4
  <2> QED  BY <1>1, <2>1, <2>2 DEF RunInv, PallocInv
<1> QED  BY <1>1, <1>4, <1>5, <1>7, <1>8, <1>9, NoPanicYet DEF PageInv, RunInv

\* A switch, and a step that changes nothing.
LEMMA Switches ==
  ASSUME RunInv, panic = {}, cur' \in group, UNCHANGED <<group, mem, regions, pc, call, panic>>,
         tlb' = {} \/ UNCHANGED <<cur, tlb>>
  PROVE  PageInv'
<1>1. UNCHANGED <<lock, pool, vbits, pte, pde, dirty>>
  BY DEF mem
<1>2. TypeInv' /\ LockInv'
  BY <1>1 DEF RunInv, TypeInv, LockInv
<1>3. ProgressInv' /\ SpaceInv' /\ StackInv'
  BY <1>1, SpaceQuiet DEF RunInv
<1>4. \A t \in Threads : Page(t)' = Page(t) /\ TableOf(Page(t))' = TableOf(Page(t))
  BY DEF Page, TableOf
<1>5. TakenInv' /\ UniqueInv' /\ NoLeakInv'
  BY <1>1, <1>4, FramesQuiet DEF RunInv
<1>6. FrameTypes'
  <2>1. \A e \in tlb' : e[2] \in {PoolOf(cur')} \X Nat
    BY DEF RunInv, FrameTypes
  <2> QED  BY <1>1, <2>1 DEF RunInv, FrameTypes
<1>7. PallocInv'
  BY <1>1, <1>4 DEF RunInv, PallocInv
<1> QED  BY <1>2, <1>3, <1>5, <1>6, <1>7, NoPanicYet DEF PageInv, RunInv

LEMMA PageInvInit == Init => PageInv
<1> SUFFICES ASSUME Init PROVE PageInv
  OBVIOUS
<1>1. TypeInv
  BY PageAllocAssumption DEF Init, TypeInv, Pools, EmptyMap
<1>2. \A t \in Threads : pc[t] = "idle" /\ regions[t] = {}
  BY DEF Init
<1>3. \A s \in Spaces : vbits[s] = {} /\ DOMAIN pte[s] = {}
  BY DEF Init, EmptyMap
<1>4. \A s \in Procs : DOMAIN pde[s] = {}
  BY DEF Init, EmptyMap
<1>5. \A p \in Pools : pool[p] = {}
  BY DEF Init, Pools
<1>6. LockInv
  BY <1>2 DEF LockInv
<1>7. ProgressInv
  BY <1>2 DEF ProgressInv, AllocLabels, HandLabels, TableLabels, FreeLabels
<1>8. SpaceInv
  BY <1>2, <1>3, Places DEF SpaceInv
<1>9. StackInv
  BY <1>2 DEF StackInv, Threads
<1>10. \A t \in Threads : pc[t] \notin HandLabels
  BY <1>2 DEF HandLabels, TableLabels
<1>11. FrameTypes
  BY <1>3, <1>4, <1>5, <1>10 DEF FrameTypes, Init
<1>12. TakenInv
  BY <1>3, <1>4, <1>10 DEF TakenInv
<1>13. UniqueInv
  BY <1>3, <1>4, <1>10 DEF UniqueInv
<1>14. NoLeakInv
  BY <1>5 DEF NoLeakInv
<1>15. PallocInv
  BY <1>2 DEF PallocInv, TableLabels
<1>16. panic = {}
  BY DEF Init
<1> QED  BY <1>1, <1>6, <1>7, <1>8, <1>9, <1>11, <1>12, <1>13, <1>14, <1>15, <1>16
         DEF PageInv, RunInv, PteClear

LEMMA PageInvNext ==
  ASSUME OneLockEach, PageInv, [Next]_vars
  PROVE  PageInv'
<1>1. CASE Next
  <2>1. panic = {} /\ RunInv
    BY <1>1 DEF Next, PageInv
  <2>2. CASE Step /\ UNCHANGED <<group, cur, tlb>>
    <3>1. ASSUME NEW n \in 1 .. MaxPages, malloc_page(n) PROVE PageInv'
      BY <2>1, <2>2, <3>1, MallocPage
    <3>2. CASE get_a_page
      BY <2>1, <2>2, <3>2, GetAPage
    <3>3. CASE page_palloc_scan
      <4>1. PoolOf(cur) \in Pools
        BY <2>1, Running, Places
      <4> QED  BY <2>1, <2>2, <3>3, <4>1, PallocScan DEF page_palloc_scan
    <3>4. CASE page_palloc_set
      BY <2>1, <2>2, <3>4, PagePallocSet
    <3>5. CASE page_table_add
      BY <2>1, <2>2, <3>5, PageTableAdd
    <3>6. CASE table_palloc_scan
      <4>1. "kernel" \in Pools
        BY DEF Pools
      <4> QED  BY <2>1, <2>2, <3>6, <4>1, PallocScan DEF table_palloc_scan
    <3>7. CASE table_palloc_set
      BY <2>1, <2>2, <3>7, TablePallocSet
    <3>8. CASE table_clear
      BY <2>1, <2>2, <3>8, TableClear
    <3>9. CASE table_map
      BY <2>1, <2>2, <3>9, TableMap
    <3>10. ASSUME NEW region \in regions[cur], mfree_page(region) PROVE PageInv'
      BY <2>1, <2>2, <3>10, MfreePage
    <3>11. CASE get_a_page_return
      BY <2>1, <2>2, <3>11, GetAPageReturn
    <3>12. CASE pfree
      BY <2>1, <2>2, <3>12, Pfree
    <3>13. CASE page_table_pte_remove
      BY <2>1, <2>2, <3>13, PteRemove
    <3>14. CASE vaddr_remove
      BY <2>1, <2>2, <3>14, VaddrRemove
    <3> QED  BY <2>2, <3>1, <3>2, <3>3, <3>4, <3>5, <3>6, <3>7, <3>8, <3>9, <3>10, <3>11,
                <3>12, <3>13, <3>14 DEF Step
  <2>3. CASE malloc_page_return /\ UNCHANGED <<group, cur>>
    BY <2>1, <2>3, MallocPageReturn
  <2>4. CASE (\E region \in regions[cur] : Write(region)) /\ UNCHANGED <<group, cur>>
    BY <2>1, <2>4, Writes
  <2>5. CASE \E t \in group : Switch(t)
    BY <2>1, <2>5, Switches DEF Switch
  <2> QED  BY <1>1, <2>2, <2>3, <2>4, <2>5 DEF Next
<1>2. CASE UNCHANGED vars
  <2>0. UNCHANGED <<group, cur, tlb, lock, pool, vbits, pte, pde, dirty, regions, pc, call, panic>>
    BY <1>2 DEF vars, mem
  <2>1. CASE panic = {}
    BY <2>0, <2>1, Switches DEF PageInv, RunInv, TypeInv, mem
  <2>2. CASE panic # {}
    <3>1. HaltInv
      BY <2>2 DEF PageInv
    <3>2. PageTypeOK'
      BY <2>0, <3>1 DEF HaltInv, PageTypeOK
    <3>3. TakenInv'
      BY <2>0, <3>1 DEF HaltInv, TakenInv, InPool, Leaves, Page
    <3>4. UniqueInv'
      BY <2>0, <3>1 DEF HaltInv, UniqueInv
    <3> QED  BY <2>0, <2>2, <3>1, <3>2, <3>3, <3>4 DEF PageInv, HaltInv, PteClear
  <2> QED  BY <2>1, <2>2
<1> QED  BY <1>1, <1>2

-----------------------------------------------------------------------------
\* What the two bitmaps of frames hold, and the types of the state.
LEMMA TypesFollow == OneLockEach /\ PageInv => PageTypeOK
<1> SUFFICES ASSUME OneLockEach, PageInv, panic = {} PROVE PageTypeOK
  BY DEF PageInv, HaltInv
<1>1. RunInv
  BY DEF PageInv
<1>2. pool["kernel"] \subseteq 0 .. KernelBytes - 1 /\ pool["user"] \subseteq 0 .. UserBytes - 1
  BY <1>1, Bytes DEF RunInv, FrameTypes, Pools
<1>3. \A s \in Spaces : \A p \in DOMAIN pte[s] : pte[s][p][1] \in {"kernel", "user"}
  BY <1>1, Frames DEF RunInv, Pools
<1>4. \A s \in Spaces : vbits[s] \subseteq 0 .. VaddrBytes[s] + StackPage
  BY <1>1 DEF RunInv, SpaceInv
<1>5. cur \in group /\ \A p \in DOMAIN lock : lock[p] \in Threads \cup {NULL}
  BY <1>1 DEF RunInv, TypeInv
<1> QED  BY <1>2, <1>3, <1>4, <1>5 DEF PageTypeOK

\* A use of a frame is that of an entry, of a page table or of a call.
LEMMA UseKinds ==
  ASSUME NEW u \in Uses
  PROVE  \/ \E s \in Spaces : \E x \in DOMAIN pte[s] : u = <<"page", s, x, pte[s][x]>>
         \/ \E s \in Procs : \E n \in DOMAIN pde[s] : u = <<"table", s, n, pde[s][n]>>
         \/ \E t \in Threads : pc[t] \in HandLabels /\ u = <<"hand", t, 0, call[t].frame>>
<1>1. CASE u \in PageUses
  BY <1>1 DEF PageUses
<1>2. CASE u \in TableUses
  BY <1>2 DEF TableUses
<1>3. CASE u \in HandUses
  BY <1>3 DEF HandUses, HandLabels, TableLabels
<1> QED  BY <1>1, <1>2, <1>3 DEF Uses

LEMMA OwnershipFollows == OneLockEach /\ PageInv => FrameOwnership
<1> SUFFICES ASSUME OneLockEach, PageInv PROVE FrameOwnership
  OBVIOUS
<1>1. /\ TakenInv /\ UniqueInv
      /\ \A t, u \in Threads : pc[t] # "idle" /\ pc[u] # "idle" => t = u
  <2>1. CASE panic = {}
    BY <2>1, OneCall DEF PageInv, RunInv
  <2>2. CASE panic # {}
    BY <2>2 DEF PageInv, HaltInv
  <2> QED  BY <2>1, <2>2
<1>2. \A t, u \in Threads : pc[t] \in HandLabels /\ pc[u] \in HandLabels => t = u
  BY <1>1 DEF HandLabels, TableLabels
<1>3. ASSUME NEW u \in Uses, NEW v \in Uses, u[4] = v[4]
      PROVE  u = v
  <2>1. CASE \E s \in Spaces : \E x \in DOMAIN pte[s] : u = <<"page", s, x, pte[s][x]>>
    BY <1>1, <1>3, <2>1, UseKinds DEF UniqueInv
  <2>2. CASE \E s \in Procs : \E n \in DOMAIN pde[s] : u = <<"table", s, n, pde[s][n]>>
    BY <1>1, <1>3, <2>2, UseKinds DEF UniqueInv
  <2>3. CASE \E t \in Threads : pc[t] \in HandLabels /\ u = <<"hand", t, 0, call[t].frame>>
    BY <1>1, <1>2, <1>3, <2>3, UseKinds DEF UniqueInv
  <2> QED  BY <2>1, <2>2, <2>3, UseKinds
<1>4. ASSUME NEW u \in Uses \ Leaving
      PROVE  u[4][2] \in pool[u[4][1]]
  <2>1. ASSUME NEW s \in Spaces, NEW x \in DOMAIN pte[s], u = <<"page", s, x, pte[s][x]>>
        PROVE  u[4][2] \in pool[u[4][1]]
    <3>1. ~Leaves(s, x)
      <4> SUFFICES ASSUME Leaves(s, x) PROVE u \in Leaving
        OBVIOUS
      <4>1. PICK t \in Threads : pc[t] = "unmap" /\ SpaceOf(t) = s /\ Page(t) = x
        BY DEF Leaves
      <4>2. u = <<"page", SpaceOf(t), Page(t), pte[SpaceOf(t)][Page(t)]>>
        BY <2>1, <4>1
      <4> QED  BY <4>1, <4>2 DEF Leaving
    <3>2. InPool(pte[s][x])
      BY <1>1, <3>1 DEF TakenInv
    <3>3. u[4] = pte[s][x]
      BY <2>1
    <3> QED  BY <3>2, <3>3 DEF InPool
  <2>2. ASSUME NEW s \in Procs, NEW n \in DOMAIN pde[s], u = <<"table", s, n, pde[s][n]>>
        PROVE  u[4][2] \in pool[u[4][1]]
    <3>1. InPool(pde[s][n]) /\ u[4] = pde[s][n]
      BY <1>1, <2>2 DEF TakenInv
    <3> QED  BY <3>1 DEF InPool
  <2>3. ASSUME NEW t \in Threads, pc[t] \in HandLabels, u = <<"hand", t, 0, call[t].frame>>
        PROVE  u[4][2] \in pool[u[4][1]]
    <3>1. InPool(call[t].frame) /\ u[4] = call[t].frame
      BY <1>1, <2>3 DEF TakenInv
    <3> QED  BY <3>1 DEF InPool
  <2> QED  BY <2>1, <2>2, <2>3, UseKinds
<1> QED  BY <1>3, <1>4 DEF FrameOwnership

LEMMA AgreementFollows == OneLockEach /\ PageInv => BitmapsAgree
<1> SUFFICES ASSUME OneLockEach, PageInv, \A t \in Threads : pc[t] = "idle"
             PROVE  /\ \A p \in DOMAIN pool : pool[p] = {u[4][2] : u \in {x \in Uses : x[4][1] = p}}
                    /\ \A s \in Spaces :
                         /\ vbits[s] = DOMAIN pte[s]
                         /\ vbits[s] = UNION {region[1] .. region[1] + region[2] - 1 :
                              region \in UNION {regions[t] : t \in {x \in Threads : SpaceOf(x) = s}}}
  BY DEF BitmapsAgree
<1>1. RunInv
  BY DEF PageInv, HaltInv
<1>2. \A t \in Threads : pc[t] \notin HandLabels
  BY DEF HandLabels, TableLabels
<1>3. \A s, x : ~Leaves(s, x)
  BY DEF Leaves
<1>4. ASSUME NEW p \in Pools
      PROVE  pool[p] = {u[4][2] : u \in {x \in Uses : x[4][1] = p}}
  <2>1. ASSUME NEW k \in pool[p] PROVE \E u \in Uses : u[4] = <<p, k>>
    <3>1. ~InHand(<<p, k>>) /\ ~NewTable(<<p, k>>)
      BY <1>2 DEF InHand, NewTable
    <3>2. CASE UsedByPage(<<p, k>>)
      <4>1. PICK s \in Spaces : \E x \in DOMAIN pte[s] : pte[s][x] = <<p, k>>
        BY <3>2 DEF UsedByPage
      <4>2. PICK x \in DOMAIN pte[s] : pte[s][x] = <<p, k>>
        BY <4>1
      <4>3. <<"page", s, x, pte[s][x]>> \in Uses
        BY DEF Uses, PageUses
      <4> QED  BY <4>2, <4>3
    <3>3. CASE UsedByTable(<<p, k>>)
      <4>1. PICK s \in Procs : \E n \in DOMAIN pde[s] : pde[s][n] = <<p, k>>
        BY <3>3 DEF UsedByTable
      <4>2. PICK n \in DOMAIN pde[s] : pde[s][n] = <<p, k>>
        BY <4>1
      <4>3. <<"table", s, n, pde[s][n]>> \in Uses
        BY DEF Uses, TableUses
      <4> QED  BY <4>2, <4>3
    <3> QED  BY <1>1, <3>1, <3>2, <3>3 DEF RunInv, NoLeakInv
  <2>2. ASSUME NEW u \in Uses, u[4][1] = p PROVE u[4][2] \in pool[p]
    <3>1. u \notin Leaving
      BY DEF Leaving
    <3> QED  BY <2>2, <3>1, OwnershipFollows DEF FrameOwnership
  <2>3. \A k \in pool[p] : \E u \in {x \in Uses : x[4][1] = p} : k = u[4][2]
    <3> TAKE k \in pool[p]
    <3>1. PICK u \in Uses : u[4] = <<p, k>>
      BY <2>1
    <3> QED  BY <3>1
  <2>4. \A u \in {x \in Uses : x[4][1] = p} : u[4][2] \in pool[p]
    BY <2>2
  <2> QED  BY <2>3, <2>4
<1>5. ASSUME NEW s \in Spaces
      PROVE  /\ vbits[s] = DOMAIN pte[s]
             /\ vbits[s] = UNION {region[1] .. region[1] + region[2] - 1 :
                  region \in UNION {regions[t] : t \in {x \in Threads : SpaceOf(x) = s}}}
  <2> DEFINE Held == UNION {regions[t] : t \in {x \in Threads : SpaceOf(x) = s}}
  <2>1. \A r : r \in Held <=> \E t \in Threads : SpaceOf(t) = s /\ r \in regions[t]
    OBVIOUS
  <2> HIDE DEF Held
  <2>2. ASSUME NEW x \in vbits[s] PROVE \E r \in Held : x \in RegionPages(r)
    <3>1. PICK t \in Threads : SpaceOf(t) = s /\ \E r \in regions[t] : x \in RegionPages(r)
      BY <1>1 DEF RunInv, SpaceInv
    <3> QED  BY <2>1, <3>1
  <2>3. \A r \in Held : RegionPages(r) \subseteq DOMAIN pte[s]
    BY <1>1, <2>1 DEF RunInv, SpaceInv
  <2>4. DOMAIN pte[s] \subseteq vbits[s]
    BY <1>1 DEF RunInv, SpaceInv
  <2>5. vbits[s] = DOMAIN pte[s]
    BY <2>2, <2>3, <2>4
  <2>6. vbits[s] = UNION {RegionPages(r) : r \in Held}
    BY <2>2, <2>3, <2>4
  <2> QED  BY <2>5, <2>6 DEF RegionPages, Held
<1>6. DOMAIN pool = Pools
  BY <1>1 DEF RunInv, TypeInv
<1> QED  BY <1>4, <1>5, <1>6

(***************************************************************************)
(* The invariant holds of every behaviour in which the threads that run    *)
(* together take the lock of one pool.                                     *)
(***************************************************************************)
THEOREM PageInvariance == ASSUME OneLockEach PROVE Spec => []PageInv
BY PageInvInit, PageInvNext, PTL DEF Spec

(***************************************************************************)
(* The bitmaps stay within their length, every entry points into a pool,   *)
(* and the lock of a pool is free or held by a thread.                     *)
(***************************************************************************)
THEOREM PageTypeCorrect == ASSUME OneLockEach PROVE Spec => []PageTypeOK
BY PageInvariance, TypesFollow, PTL

(***************************************************************************)
(* malloc_page, get_a_page and mfree_page never give a frame two uses, and *)
(* a frame in use is taken from its pool, whatever the number of threads,  *)
(* of frames and of pages in a call: for a new page table too, whose frame *)
(* comes from a pool that the lock held is not the one of.                 *)
(***************************************************************************)
THEOREM FrameOwnershipThm == ASSUME OneLockEach PROVE Spec => []FrameOwnership
BY PageInvariance, OwnershipFollows, PTL

(***************************************************************************)
(* Between the calls the pools, the virtual bitmaps, the page tables and   *)
(* what the callers hold describe one allocation: no frame and no page is  *)
(* lost, however the calls were interleaved.                               *)
(***************************************************************************)
THEOREM BitmapsAgreeThm == ASSUME OneLockEach PROVE Spec => []BitmapsAgree
BY PageInvariance, AgreementFollows, PTL

(***************************************************************************)
(* page_table_add never meets an entry that is present: neither "PTE       *)
(* REPEAT" nor the assertion after a new table is cleared can fail, even   *)
(* through the translations that mfree_page leaves in the TLB.             *)
(***************************************************************************)
THEOREM PteClearThm == ASSUME OneLockEach PROVE Spec => []PteClear
<1>1. PageInv => PteClear
  BY DEF PageInv
<1> QED  BY <1>1, PageInvariance, PTL
=============================================================================
