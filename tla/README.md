# A TLA+ model of the OS_Learning kernel

OS_Learning is a small 32-bit x86 kernel: preemptive threads and user
processes, locks, paged memory with a heap, a keyboard driver and a text
console. It runs on one CPU. What makes it hard to test is that the timer may
interrupt a thread between almost any two instructions, and that a failed
`ASSERT` calls `panic_spin`, which stops the machine.

The modules here are translated from the source and checked in two ways: TLC
explores small instances completely, and TLAPS proves the central properties of
the locks, the scheduler, the interrupt entries and switches, the I/O queue and
the keyboard, the page allocator, the heap, the bitmap search and the division
of memory for every size.

## Inventory

| Part | State it keeps | Operations | Interacts with | What makes it correct |
|---|---|---|---|---|
| `thread/sync.c` | per lock: `value`, `waiters`, `holder`, `holder_repeat_nr` | `sema_down`, `sema_up`, `lock_acquire`, `lock_release` | blocks and wakes threads; used by everything | mutual exclusion, counted nesting, no lost wake-up, no thread on two lists |
| `thread/thread.c` | ready list, all-threads list, `status`, `ticks`, `pid` of each PCB | `schedule`, `thread_block`, `thread_unblock`, `thread_start`, `init_thread` | called from the timer, from semaphores, from `ioq_wait` | lists and statuses agree, every ready thread runs |
| `device/timer.c` | ticks of the running thread | `intr_timer_handler` | `schedule` | slices end |
| `userprog/process.c`, `tss.c` | page directory of a process, cr3, TSS stack | `process_execute`, `process_activate` | called by `schedule` | the running thread has its own address space and stack |
| `lib/kernel/list.c` | linked lists | push, append, pop, remove, find | threads, semaphores, heap | |
| `lib/kernel/bitmap.c` | bits | `bitmap_scan`, `bitmap_set` | page allocator | finds the first free run |
| `kernel/memory.c`, pages | two frame pools, virtual bitmaps, page tables | `malloc_page`, `get_a_page`, `mfree_page`, `palloc`, `page_table_add` | pool locks, bitmaps, MMU | one use per frame, no leak, no double mapping |
| `kernel/memory.c`, heap | arenas, block descriptors, free lists | `sys_malloc`, `sys_free` | page allocator, pool locks | allocations disjoint, counts exact, pages returned |
| `device/ioqueue.c` | ring buffer, two sleeping threads | `ioq_putchar`, `ioq_getchar` | locks, `thread_block`, keyboard | first in first out, sleepers are woken |
| `device/keyboard.c` | modifier flags | `intr_keyboard_handler` | I/O queue | never sleeps, modifiers do not stick |
| `device/console.c`, `print.S`, `lib/stdio.c` | video memory, cursor, digit buffer | `console_put_*`, `put_char`, `put_int`, `printf` | console lock | strings and numbers whole, in order and converted correctly |
| `kernel/interrupt.c`, `kernel.S`, `switch.S` | gates, handlers, controller, kernel stacks | entry and exit of interrupts, `switch_to`, `intr_enable`, `intr_disable` | CPU, 8259A, every handler | a thread finds its registers as it left them, each request its handler |
| `syscall-init.c`, `lib/user/syscall.c` | table of four functions | `int 0x80` | heap, console | the result reaches the caller, and nobody else |
| `kernel/init.c`, `main.c` | | `init_all`, what main starts | everything | nothing is used before it is set up |
| `boot/loader.S`, `mem_pool_init` | amount of memory, pools, bitmaps | detection and division of memory | BIOS, page allocator | pools disjoint, in memory, clear of main's stack |

The list of components in `PROJECT.json` also has the parts that are left out
(disk driver, string library, most of the boot loader) with the reasons; its list of hazards says, line by line, what could go wrong
and which property would show it.

## Modules

    KThread ───┬─ Sync ─┬─ Scheduler ─┬─ MCScheduler
               │        │             └─ SchedulerProofs (instantiates SyncProofs)
               │        ├─ IoQueue ── Keyboard ─┬─ MCKeyboard
               │        │                       └─ KeyboardProofs
               │        ├─ SyncProofs
               │        └─ MCSync
               ├─ KThreadProofs (extended by the other proofs about threads)
               └─ Interrupts ─┬─ MCInterrupts
                              └─ InterruptsProofs
    BitmapOps ─┬─ MemInit (extended by Interrupts)
               ├─ Bitmap ── BitmapProofs
               ├─ Heap ── HeapProofs
               └─ PageAlloc ── MCPageAlloc, PageAllocProofs
    Console ── MCConsole
    Mutex (abstract, of Sync)    Fifo (abstract, of IoQueue)

**KThread** has the running thread, the ready list and the statuses, and
`schedule`, `thread_block` and `thread_unblock` as actions that other modules
use as parts of their steps. They run with interrupts disabled, so each is
atomic. `panic` is the set of assertions that failed in the last step; nothing
happens once it is not empty. Two assertions belong to the modules that have the
state they are about: that interrupts are disabled in `schedule` is in Interrupts,
and that the timer's handler finds `stack_magic` in the PCB, which `init_thread`
writes, is in Scheduler and Interrupts (Sync's `Preempt` is a switch without it).

**Sync** is `sync.c`. `sema_down` and `sema_up` disable interrupts and are
atomic between the points where they block. `lock_acquire` and `lock_release`
do not, and are split at every write to shared memory; `pc` says where a thread
is, and `Preempt` may come anywhere else than in the loop of `sema_down`. A
woken thread is back at the test of that loop, as in the code. Callers release
only locks they hold and nest locks in an acyclic order (`LockOrder`); the
shipped kernel never nests two locks, and the run has one. The proofs cover any
number of them, nested in any acyclic order.

**Mutex** is the recursive lock that `sync.c` promises; a thread owns a lock
from the moment `sema_down` takes the semaphore until `sema_up` returns it.

**Scheduler** adds time slices, the activation of address spaces, the creation
of threads and processes, and the fact that interrupts stay disabled from a
switch until the new thread enables them. `thread_start` fills its two lists in
two steps because interrupts are enabled there; `process_execute` in one. For
the same reason the `elem_find` of `thread_start` walks the ready list node by
node: `ptr` is the node it stands on, and a node that has been moved to the
waiters of a lock leads past the end of the list that is searched.
The pages that a new thread needs are in PageAlloc.

**Bitmap** is `bitmap_scan` loop by loop; **BitmapOps** has the closed form of
what it computes, including where its loop stops (a number of bits compared
with a length in bytes), which Heap and PageAlloc use.

**Heap** is `sys_malloc` and `sys_free` with byte addresses. Each call runs
under its pool's lock and is one step. The loop of `sys_free` that takes the
blocks of an empty arena off the free list is the recursive function in
`list_remove_all`.

**PageAlloc** is the page allocator step by step: the scan and the write of
`palloc`, the creation of a page table, freeing, and the TLB, which a switch
empties because `page_dir_activate` always loads cr3. The pool locks are taken
and released as module Mutex says. `dirty` records which frames hold words with
the present bit set, which is all that the assertion on a new page table can
see; `Write` is the first thing that sets one, the header and the blocks that
`sys_malloc` writes into a new arena. `malloc_page` stops the machine when the
request has 3840 pages or more (no request of the runs comes near that), or finds
no place. The contents of pages, the register frame of a new process and the page
tables of the kernel half, which the loader makes, are left out.

**IoQueue** is `ioqueue.c` on top of Sync, with interrupts disabled in every
call; **Fifo** is what it promises. **Keyboard** adds the interrupt handler,
the keyboard that sends it scan codes, and the variable `irq` for the thread on
whose stack the handler is.

**Console** is `put_char` in three steps (read the cursor, draw, write the
cursor) under the lock of the console. The two halves of the cursor register
are written as one. `put_int` stores its digits in a buffer that all threads
share and prints them from there. `vsprintf` goes through a format character by
character; the reference that the screen is compared with has each number's
digits as the coefficients of the powers of the base. Words have `Nibbles`
hexadecimal digits, 8 in the machine and 2 in the run. A backspace in the first
cell writes outside the video memory, as in the code; the model stops there
(`fault`).

**Interrupts** has the registers and, word by word, the kernel stacks: what a
thread does next is nowhere else. The value that a register has in thread *t*'s
own code is a name, and `want` records what that code expects to find, so that a
frame taken off in the wrong order, or off the wrong stack, is seen. `eip` is the
function that is being executed. An interrupt in user mode starts at
`tss.esp0`; one in the kernel goes on with the stack in use. The steps follow
`kernel.S`, `switch.S`, `kernel_thread`, `start_process` and `syscall_handler`;
`init_step` is one call of `init_all`. The data segments of the kernel are
taken as one. When a thread is switched out is decided in Scheduler and Sync;
here it may happen wherever the code allows it. The address of a frame within
its page, and with it what happens to a new process that is preempted before
`start_process` has read `self_kstack`, is left out. The interrupt flag is taken
to be clear when `init_all` begins, although nothing in `boot/` clears it.

**MemInit** is arithmetic: the amount of memory that the loader finds in what
the BIOS reports, and the pools and bitmaps that `mem_pool_init` makes of it,
with their 16-bit and 32-bit variables. Amounts are in KB.

Operators introduced by a comment "Mutant of ..." are wrong variants of the
definition that follows; they are not used by any specification. Each stands
for a plausible slip in the code and shows that a property can fail.

## Runs

| Run | Instance | States | Result |
|---|---|---|---|
| `sync` | 3 threads, 1 lock, nesting depth 2, fairness | 2 thousand | holds |
| `scheduler` | main, 2 kernel threads, 1 process, 2 locks, fairness | 77 thousand | holds |
| `bitmap` | every bitmap of 8 bits, 6 lengths, 4 request sizes | 45 thousand | holds |
| `bitmap_capacity` | 2 bytes, 1 bit wanted | | **violated** |
| `heap` | sizes 1024, 1025, 4085, 40000; 5 pages; 5 live allocations | 49 thousand | holds |
| `page_alloc` | 2 kernel threads or 2 processes; 4 frames per pool; 2 pages per call | 3.1 million | holds |
| `page_table_race` | a kernel thread and a process together | | **violated** |
| `tlb` | one kernel thread | | **violated** |
| `keyboard` | 2 producers, 1 consumer, the handler; 2 places; 3 keys | 0.8 million | holds |
| `ioqueue_wait` | a consumer that waits | | **violated** |
| `console` | 2 threads, a screen of 2 × 2, 3 of 13 calls, words of 8 bits | 110 thousand | holds |
| `startup` | main, 2 processes, 3 lines, 2 system calls, 15 machines, fairness | 67 thousand | holds |

What the bounds are for:

- Three threads are enough for the case that matters in `sync.c`: a holder, a
  woken waiter and a third thread that takes the semaphore first. Nesting depth
  2 has both branches of `lock_release`.
- In `scheduler` the priorities, and so the slices, are 0 and 1 ticks instead
  of 1 and 31; main starts a process after two kernel threads, as `main.c` does.
- In `heap`, 1024 is the largest small request (three blocks in an arena), 1025
  the smallest large one, 4085 the smallest that needs two pages because of the
  12-byte header, and 40000 is larger than the pool. Five live allocations fill
  more than one arena. When the pages run out the code panics, so the run may
  stop: deadlock is not checked there, nor in `page_alloc`, for the same reason.
  In `bitmap` and `console` the behaviours are finite by construction.
- In `page_alloc` the pages and the stack of a process lie in two page tables,
  the pool runs dry, and `MaxRegions` bounds what a thread holds at once.
- In `keyboard` the queue has two places so that it fills and both producers
  block, one in `ioq_wait` and the other on the lock. The right Ctrl key sends
  the prefix byte. A key is pressed only when the last code has been read.
- In `console` the strings fill lines exactly, scroll, and erase across a line;
  one erases three cells, past the first cell of the screen when the screen is
  empty, nearly so, or what it erases has scrolled away;
  the numbers are zero, one digit, a zero at the end and all bits set; the
  formats are that of `main.c`, the smallest int, and a string before a number.
- In `startup` the timer and the keyboard have their lines and a third line is
  masked; a system call that cannot sleep and one that can stand for the four.
  The machines have 4 MB to 3 GB, with the sizes around 256 MB, where the number
  of pages wraps, and 2 GB, where the loader's signed comparison does. A PC's map
  has holes, the ACPI area at the end of memory and a ROM below 4 GB; the older
  ones only answer function 0xe801.

### The four disagreements

- `bitmap_capacity`: `bitmap_scan` looks at `btmp_bytes_len` bits, not bytes;
  seven eighths of the memory that the comment in `memory.c` counts are never
  handed out.
- `page_table_race`: `page_table_add` takes a frame of the kernel pool while a
  process holds only the lock of the user pool. With a kernel thread in
  `palloc` at the same moment both get one frame.
- `tlb`: `invlpg` is given the address of a local variable, so freed pages stay
  in the TLB until the next switch. With two-page requests an address soon comes
  back with another frame, and accesses go to the old one. `page_alloc` holds
  all the same: it is about bitmaps and tables, not about what an access hits.
- `ioqueue_wait`: `ioq_getchar` on an empty queue passes a null pointer to
  `ioq_wait` and stops the machine. The `keyboard` run therefore has consumers
  that look before they call.

`NoStuckProducer` holds for a subtle reason: a producer that gets the queue's
lock goes to sleep without testing the queue again, and is saved by
`thread_unblock` putting it in front of the ready list, so that no consumer runs
in between. The mutant that appends it instead is caught. A consumer that is
itself woken from another lock could still get ahead of it; consumers here use
no other lock. Nor may a producer be a consumer too (see Proofs).

`put_char` does not look at the cursor before it erases: a backspace in the first
cell of the screen writes outside the video memory, and the run reaches that.
`FaultOnlyPastTop` says that only a text that itself goes back past the first cell
does it; neither scrolling nor a second thread moves the cursor under a text that
does not. No comment or test of the repository promises more.

`WalkInReadyList` holds because main starts two kernel threads only: while it
walks the list for the second one, the first is the only other thread, and main
holds no lock that it could wait for. The mutant in which main holds one is
caught, and a third kernel thread would have the same effect.

`MemoryLayout` holds on all machines, not always for good reasons. At 258 MB
the number of pages wraps to 0 and both pools are empty, so that the kernel stops
at its first allocation. The loader counts the ACPI area as memory; its frames
are not handed out because `bitmap_scan` never gets that far. The signed
comparison keeps the ROM below 4 GB from being taken for the end of memory.

The entries in `kernel.S` skip vector 0x60, so that the gates above it lead to
the entry of the next vector. `RightHandler` is not affected: nothing raises
those vectors except 0x80, whose gate is written again.

`UniquePids` holds because only main creates threads; `allocate_pid` returns
`next_pid` after it has released the lock.

## Fairness

- `Sync!Fairness`: the timer keeps interrupting (strong fairness of `Preempt`,
  because it is disabled while a woken thread has interrupts off); a thread
  that is given the CPU again and again gets through its calls (strong, per
  thread, because it can be preempted at every step); callers leave their
  critical sections (strong, per thread and lock).
- `Scheduler!TimerFairness`: strong fairness of the timer's handler, and weak
  fairness of code that runs with interrupts disabled and cannot be preempted.
  Nothing is assumed about what threads do otherwise: a thread may loop for ever.
- `Interrupts!FairSpec`: code that has disabled interrupts goes on (weak fairness
  of `Locked`); system calls return and kernel code enables interrupts again
  (strong, because the thread may be switched out or sleep in between); a CPU
  that again and again can take the timer's interrupt takes it (strong, because
  interrupts are disabled for stretches). The timer itself need not fire.
- `bitmap_scan` is weakly fair: a thread in it goes on.

## Proofs

**SyncProofs** proves, for any finite set of threads, any set of locks and any
depth of nesting, that `Sync!Spec` implies `[]TypeOK`, `[]MutualExclusion`,
`[](ReadyListInv /\ WaitersInv)`, `[]NoLostWakeup` and `[]NoPanic`, and that it
implements Mutex. Assumed of
the constants: the set of threads is finite and not empty, `NULL` is no thread,
and `LockOrder` has no cycle (every non-empty set of locks has one that is not
taken before another of the set).

None of these is inductive alone. `IInv` is their conjunction with

- `CallInv`: what `holder` and `holder_repeat_nr` are at each point where a
  thread can be preempted in a call; without it a thread about to write `holder`
  could find another one there;
- `RepeatInv`: a held lock has a positive count, a free one has none;
- `OrderInv`: a waiting thread holds only locks that come before the one it
  waits for;
- `CreatedInv`: a thread that has not been created is in no call and owns
  nothing, which lets the scheduler create it later.

The step that needs an idea is `NoPanic` when a thread blocks:
`schedule` must find the ready list non-empty. Lemma `SomeThreadReady` takes,
among the locks with waiters or a caller about to wait, one that no other of
them comes after. By `MutualExclusion` and `NoLostWakeup` it has an owner or a
woken thread, and by `OrderInv` that thread is not waiting for anything:
it is ready. `KThreadProofs` has what `schedule`, `thread_block` and
`thread_unblock` do to `ReadyListInv`, once for all.

`Refinement` goes through the actions once more: taking the semaphore is
`Acquire`, returning it `ReleaseLast`, the calls that only count are `Reacquire`
and `Release`, and every other step leaves the owner and the count alone. The
count that Mutex sees is not `holder_repeat_nr` while a thread is between two
writes of `lock_acquire`; `CallInv` says what it is there.

**SchedulerProofs** proves all the safety properties of the `scheduler` run for
any number of threads, processes and locks and any priorities, and that locks
keep `MutualExclusion` and `NoLostWakeup` there. The proof does not repeat that
of Sync. A thread whose creation has not reached the ready list is one that does
not exist for `sync.c`; with the statuses read so (`SyncStatus`), every step
of the scheduler is a step of Sync, leaves Sync's variables alone, or adds one
thread to the ready list, and `SyncProofs!IInv` carries over. To it `SInv` adds
where main is in its list of threads to start (`TodoInv`), which threads exist
(`ExistInv`), that `next_pid` is ahead of every pid (`PidInv`), where in
`sync.c` main can be in each step of a start (`CallerInv`), and that the node at
which `elem_find` stands is a thread that exists (`WalkInv`). Assumed beyond
Sync: main alone starts threads, each once, and at most two kernel threads
before the processes (`MainAssumption`), as `main.c` does. The last part is what
keeps the walk inside the ready list: while main walks, the only other kernel
thread could have left that list only to wait for a lock that main would have to
hold. `OwnAddressSpace` needs no other invariant.

**InterruptsProofs** proves `IntrTypeOK`, `ContextRestored` and the action
property `RightHandler` for any number of threads, processes and lines. What a
thread will do is on its stack, so the invariant has to say what each stack can
be: `Parked` for a thread that is off the CPU, by the return address that
`switch_to` will find, and `Running` for the one that has it, by the function it
is in. Either is a frame, perhaps with the words of a system call, of
`thread_block` or of `switch_to` above it. A frame (`Frame`) is described by the
words that `intr_exit` will read and the registers they restore, which are those
that the thread's own code expects (`want`), except in three cases: in a system
call, where eax is to be the result; in a process that has never
entered its program, interrupted in `start_process`; and the same one
interrupted in the `intr_exit` that `start_process` jumps to with interrupts
enabled, which puts a second frame on the first. That no stack gets deeper than
`MaxDepth` follows from these shapes. For `RightHandler`, `TablesInv` says which
gates, handlers and mask bits the calls of `init_all` made so far have written.
Assumed: main is a thread and no process, the controller has lines 0 and 1 and
at most eight, and the only system calls are the four of `syscall-init.c`.

**KeyboardProofs** proves all properties of the `keyboard` run, with any number
of threads, any size of the buffer and any of the keys. Assumed beyond Sync: the
buffer has at least two places, no thread both puts and gets, and not every
thread puts (`CallersAssumption`). The shipped kernel, in which only the handler
puts, satisfies it; without the second part the queue is wrong: a producer that
has released the lock and then takes all characters leaves the next one asleep
on an empty queue. The inductive invariant `QInv` says

- where a thread off the CPU can be (`Parked`): in no call, asleep on the lock or
  just woken from it, asleep in `ioq_wait` or just woken from it;
- what `value`, `holder` and `holder_repeat_nr` are at each point of the running
  thread's call, and that who sleeps in `ioq_wait` keeps the lock (`LockInv`);
- that at most one thread that was woken has not run yet and it is the first in
  the ready list (`FrontInv`). If it comes from the lock, the running thread is
  the producer that released it, which cannot take characters. This is why the
  queue is not empty when the woken thread sleeps without looking again.

A thread that puts nothing never sleeps, so somebody is ready whenever a producer
does. `NoStuckModifier` has an invariant of its own, about what the bytes on the
wire will do to each modifier. For `ImplementsFifo` the lemmas are about `%`: the
number of characters and the place of the *i*-th one.

**BitmapProofs** proves `ScanCorrect` for bitmaps of any size: the invariant
`ScanInv` says that `zeronum` is the number of free bits in the window and that
no earlier window was free; it is inductive and a theorem of its own. The
lemmas are about the cardinality of an interval
that gains or loses a bit.

**PageAllocProofs** proves all four properties of the `page_alloc` run for any
number of threads, processes, frames and pages, from one hypothesis on the
constants, `OneLockEach`: the threads that run together all take the lock of
the same pool. The hypothesis is needed: `page_table_race` is the same model with
a kernel thread and a process. One call is then under way at a time, and the invariant
`RunInv` says what it leaves between any two of its steps:

- `ProgressInv`: which pages of the call have an entry, the ones before its next
  page when it allocates and the others when it frees;
- `SpaceInv` and `StackInv`: the pages of an address space that are in use are
  those of the regions handed out and of the call, each of one only, and the
  first page of a process is that of its stack;
- `TakenInv`, `UniqueInv` and `NoLeakInv`: the frames taken from the pools are
  exactly those in an entry, a page table or the hand of the call, without
  duplicates; the exceptions are the frame that `pfree` has freed and whose
  entry is still there (`Leaves`), and that of a page table not yet linked;
- `PallocInv`: the bit that `bitmap_scan` found is still free when `bitmap_set`
  comes, and a new page table stays clear until its first entry. The second
  part holds against writes through translations that `mfree_page` left in the
  TLB because those reach frames of the user pool, and page tables are in the
  kernel's.

A failed assertion stops the machine in a call; `HaltInv` says that the frames
are in order then too. That `bitmap_scan` returns a free run rests on the
existence of the first one, which lemma `Smallest` takes from the well-founded
order of the numbers. `FreedForGood` is not among the theorems: it is false.

**HeapProofs** proves all four properties of the `heap` run, and that the
`ASSERT` in the loop of `sys_free` never fails (`SysFreeNeverStops`), for requests
of any sizes, a pool of any size and any number of live allocations. Assumed:
the sizes and bounds are natural numbers. `sys_free` computes the arena from the
pointer and trusts what its header says, so the properties are not inductive.
`HeapInv` adds

- `ArenaInv`: a header is that of a large arena with a number of pages, or of a
  small one with a descriptor; the pages of the arenas are disjoint and are the
  ones taken from the bitmap;
- `LiveInv`: a pointer handed out is the start of a large arena or a block of a
  small one that is not on its free list and is at least as large as the
  request; each arena has such a pointer;
- `FreeInv`: a block of a small arena is on the list of its descriptor or handed
  out, and the count in the header is the number of the former. Hence the count
  reaches `blocks_per_arena` exactly when the last block comes back; all of them
  are on the list then, and nobody has a pointer into the page that is freed.

That a block lies in its arena's page, and that rounding it down gives the arena,
is lemma `BlockFacts`, for each of the seven descriptors. `list_remove_all` is
recursive; lemma `RemoveAll` says what is left of a list, by an induction over
its length that goes back to the smallest number of a set (`Smallest`).

The end of **InterruptsProofs** is about the division of memory. `PoolsApartThm`:
for every amount of memory that 32 bits can hold the frames behind the two
bitmaps are disjoint, and the three bitmaps lie one after another below main's
PCB; this rests on the number of pages being below 2^16, so that the wrap-around
that makes the pools smaller also keeps the bitmaps within their four pages.
`PoolsInMemory`: with at least 2 MB the pools end within the memory reported.
`LayoutThm` is `MemoryLayout` for any set of machines of which each satisfies
`MostlyRam`: three quarters of the pages that `mem_pool_init` counts, from 2 MB
on, are in one stretch of usable memory. That is a property of the BIOS's map and
not of the code: the loader keeps only the end of memory, and where a map has a
hole among the frames that `bitmap_scan` can find, the code hands them out. All 15
machines of the run have it. No more than three quarters is needed, although the loader counts reserved areas at the end
of memory too, because `bitmap_scan` uses one bit in eight: the highest frame it
can find is at nine sixteenths of the pages counted. Assumed of the constants:
the address space is larger than 2 MB, and what the BIOS reports has the width of
its registers.

Only model-checked are

- liveness (`EventuallyWoken`, `ReadyRuns`, `ScanTerminates`, `TimerServed`), which
  is out of the prover's reach;
- the properties of Console. `ScreenShowsStrings` compares the screen with folds
  over the text printed, and `itoa` with the powers of the base, which takes
  induction over the text and the number. `FaultOnlyPastTop` follows
  the cursor along the same folds, and `ConsoleTypeOK` is there to support these two.

## Not modelled

- The disk driver: it is not in the makefile and does not compile.
- The string library: loops over a buffer, without state.
- The boot sector and the loader, except for the detection of memory: they run
  once, in a straight line, before there is anything to interleave with. The
  loader's last fallback runs into `error_hlt` whatever the BIOS answers.
- CPU exceptions: `general_intr_handler` prints a message and loops for ever. On
  the way it calls `set_cursor`, a label inside `put_char`, as a function.
- The rate of the timer, which is about 7.7 kHz and not 100 Hz, because the high
  byte of the counter is always 0 (`timer.c:24`); `mtime_sleep`, which nothing
  calls; the bits of the descriptors that `tss_init` writes; `cls_screen`.
- The size of `printf`'s buffer, addresses within kernel stacks, and speeds.

## Plan

In order; all of it is done.

1. KThread, Sync, Mutex, Scheduler; Bitmap, Heap, PageAlloc.
2. IoQueue, Fifo, Keyboard, Console. Proofs of Sync and Bitmap.
3. The interrupted walk through the ready list; MemInit with its proofs;
   Interrupts, system calls and start-up; formatting.
4. Theorems: Sync implements Mutex; the scheduler's lists, pids and address
   spaces; the stacks and handlers of Interrupts; the ring buffer, the handler
   and the modifiers of the keyboard.
5. Theorems: `FrameOwnership` of PageAlloc for one pool; `NoOverlap` of Heap and
   the count of its blocks; `MemoryLayout` for all machines with enough usable memory.
