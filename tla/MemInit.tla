------------------------------ MODULE MemInit ------------------------------
(***************************************************************************)
(* How much memory there is and how it is divided: the search of           *)
(* boot/loader.S through what the BIOS reports, and mem_pool_init of       *)
(* kernel/memory.c, with the widths of their registers and variables.      *)
(*                                                                         *)
(* Amounts of memory are in KB, and AddrSpace is 2^32 bytes; frames are    *)
(* numbered from address 0, and addresses of bitmaps are bytes from        *)
(* MEM_BITMAP_BASE, 0xc009a000.  A BIOS is described by its map, ards, and *)
(* by ax and bx, its answer to function 0xe801; e820 says whether it can   *)
(* report the map.                                                         *)
(***************************************************************************)
EXTENDS BitmapOps, FiniteSets

CONSTANTS
  AddrSpace,   \* what 32 bits can address
  BiosMaps     \* the machines

ASSUME AddrSpaceAssumption == AddrSpace \in Nat /\ AddrSpace > 2048

ASSUME BiosAssumption ==
  \A b \in BiosMaps :
    /\ b.e820 \in BOOLEAN /\ b.ax \in 0 .. 2^16 - 1 /\ b.bx \in 0 .. 2^16 - 1
    /\ \A r \in b.ards : r.base \in Nat /\ r.length \in Nat /\ r.ram \in BOOLEAN

FrameKB == 4

\* The value of a 32-bit register for the signed comparison jge.
Signed(x) == IF x < AddrSpace \div 2 THEN x ELSE x - AddrSpace

(***************************************************************************)
(* With a map, the largest sum of the low halves of base and length of an  *)
(* entry, whatever its type; otherwise the answer of function 0xe801.      *)
(***************************************************************************)
find_max_mem(ards) ==
  LET ends == {0} \cup {(r.base + r.length) % AddrSpace : r \in ards}
  IN  CHOOSE edx \in ends : \A eax \in ends : Signed(edx) >= Signed(eax)

total_mem(b) ==
  IF b.e820 THEN find_max_mem(b.ards)
  ELSE (b.ax + 1024 + 64 * b.bx) % AddrSpace

used_mem        == 2048        \* the first megabyte and 256 page tables
MEM_BITMAP_BASE == 0
PCB_OF_MAIN     == 16384       \* 0xc009e000: the page with main's PCB and stack

UINT16 == 65536

\* The subtraction is in 32 bits, and the number of pages is a uint16_t.
all_free_pages(all_mem) == (((all_mem - used_mem) % AddrSpace) \div FrameKB) % UINT16

kernel_free_pages(all_mem) == all_free_pages(all_mem) \div 2

user_free_pages(all_mem) == all_free_pages(all_mem) - kernel_free_pages(all_mem)

\* Mutant of user_pool_start: the two pools start together.
user_pool_start_same(all_mem) == used_mem \div FrameKB

user_pool_start(all_mem) == used_mem \div FrameKB + kernel_free_pages(all_mem)

(***************************************************************************)
(* The pools, with their first frame and the length and address of their   *)
(* bitmap, and the bitmap of the kernel's virtual pages.                   *)
(***************************************************************************)
mem_pool_init(all_mem) ==
  LET kernel_bitmap_length == kernel_free_pages(all_mem) \div 8
      user_bitmap_length   == user_free_pages(all_mem) \div 8
  IN  [kernel |-> [start |-> used_mem \div FrameKB, bytes |-> kernel_bitmap_length,
                   bits |-> MEM_BITMAP_BASE],
       user   |-> [start |-> user_pool_start(all_mem), bytes |-> user_bitmap_length,
                   bits |-> MEM_BITMAP_BASE + kernel_bitmap_length],
       vaddr  |-> [bytes |-> kernel_bitmap_length,
                   bits |-> MEM_BITMAP_BASE + kernel_bitmap_length + user_bitmap_length]]

-----------------------------------------------------------------------------
\* The bits that a bitmap has, the ones that bitmap_scan reaches, and the bytes
\* that the bitmap occupies.
Bits(p)   == 8 * p.bytes
Frames(p) == {p.start + i : i \in Starts({}, 1, p.bytes)}

(***************************************************************************)
(* The frames behind the bits of the two bitmaps are different ones, and   *)
(* the three bitmaps lie one after another below the PCB of main.          *)
(***************************************************************************)
PoolsApart(pools) ==
  /\ pools.kernel.start + Bits(pools.kernel) <= pools.user.start
  /\ pools.kernel.bits + pools.kernel.bytes <= pools.user.bits
  /\ pools.user.bits + pools.user.bytes <= pools.vaddr.bits
  /\ pools.vaddr.bits + pools.vaddr.bytes <= PCB_OF_MAIN

\* The frame lies in an entry of the map that is usable memory.
IsRam(b, f) ==
  \E r \in b.ards : /\ r.ram
                    /\ r.base <= FrameKB * f
                    /\ FrameKB * (f + 1) <= r.base + r.length

\* Every frame that palloc can hand out is usable memory above the page tables.
HandsOutRam(b, pools) ==
  \A p \in {pools.kernel, pools.user} :
    \A f \in Frames(p) : f >= used_mem \div FrameKB /\ IsRam(b, f)

GoodLayout ==
  \A b \in BiosMaps : LET pools == mem_pool_init(total_mem(b))
                       IN  PoolsApart(pools) /\ HandsOutRam(b, pools)
=============================================================================
