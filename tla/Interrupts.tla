----------------------------- MODULE Interrupts -----------------------------
(***************************************************************************)
(* How the CPU gets from one thread's code to another's: the interrupt     *)
(* controller and the descriptor table (kernel/interrupt.c), the entries   *)
(* and the exit of interrupts and system calls (kernel/kernel.S), the      *)
(* change of stacks (thread/switch.S), the way a new thread or process     *)
(* begins, and init_all, which sets all of it up.                          *)
(*                                                                         *)
(* regs is the register file.  The value that register r has in the code   *)
(* of thread t is <<t, r>>; eflags is the interrupt flag alone, cs the     *)
(* privilege, and eip the function that is being executed.  kstack is the  *)
(* kernel stack of each thread, word by word, top first: what a thread     *)
(* will do when it gets the CPU again is on its stack and nowhere else.    *)
(* Frames of C functions are left out except for what they keep across a   *)
(* switch.  Time slices and locks, which decide when a thread is switched  *)
(* out, are in Scheduler and Sync; here it may happen whenever the code    *)
(* allows it.                                                              *)
(***************************************************************************)
EXTENDS KThread, MemInit

CONSTANTS
  main,       \* the thread that runs main()
  Procs,      \* user processes
  Lines,      \* lines of the master controller that have a device
  Calls       \* the system calls that the processes make

ASSUME InterruptsAssumption ==
  /\ main \in Threads
  /\ Procs \subseteq Threads \ {main}
  /\ {0, 1} \subseteq Lines /\ Lines \subseteq 0 .. 7
  /\ Calls \subseteq {"SYS_GETPID", "SYS_WRITE", "SYS_MALLOC", "SYS_FREE"}

VARIABLES
  todo,       \* the calls that init_all has still to make
  idt,        \* the number of the entry in kernel.S that each gate leads to
  idt_table,  \* the handler that each entry calls
  irr, isr, imr,  \* lines requested, in service and masked in the controller
  regs,       \* the registers
  kstack,     \* the kernel stack of each thread
  esp0,       \* the thread whose page tss.esp0 is the top of
  want        \* what each thread's own code expects to find in the registers

setup == <<todo, idt, idt_table>>
pic   == <<irr, isr, imr>>
cpu   == <<regs, kstack, esp0>>
ivars == <<kthread, setup, pic, cpu, want>>

General   == {"eax", "ecx", "edx", "ebx", "ebp", "esi", "edi"}
Segments  == {"ds", "es", "fs", "gs"}
Registers == General \cup Segments \cup {"eip", "cs", "eflags", "esp", "ss"}
JUNK      == <<"junk">>
FLAT      == <<"flat">>

\* In the kernel all data segments are the same, and esp is where kstack is.
InKernel(file) == [r \in Registers |-> IF r \in Segments \cup {"esp", "ss"} THEN FLAT
                                       ELSE IF r = "cs" THEN "kernel" ELSE file[r]]

\* The registers of t's own code when it starts.
Own(t) ==
  LET file == [r \in Registers |-> CASE r = "eip"    -> "code"
                                     [] r = "cs"     -> "user"
                                     [] r = "eflags" -> TRUE
                                     [] OTHER        -> <<t, r>>]
  IN  IF t \in Procs THEN file ELSE InKernel(file)

\* The vectors that something in this system raises.
SYSCALL  == 128
SPURIOUS == 39
vector(line) == 32 + line
Vectors  == {vector(l) : l \in Lines} \cup {SPURIOUS, SYSCALL}

\* A C function keeps the other registers.
Clobbered(file) == [file EXCEPT !.eax = JUNK, !.ecx = JUNK, !.edx = JUNK]

Push(words) == kstack' = [kstack EXCEPT ![cur] = words \o @]

-----------------------------------------------------------------------------
(***************************************************************************)
(* init_all.  Of each call, what interrupts can meet.  The table of        *)
(* entries has none for vector 0x60, so from there on it is shifted by     *)
(* one; the last gate, 0x80, is set again, for system calls.               *)
(***************************************************************************)
\* Mutant of init_all: the timer registers its handler before the table is filled.
init_all_timer_first ==
  <<"timer_init", "idt_init", "mem_init", "thread_init", "console_init",
    "keyboard_init", "tss_init", "syscall_init">>

init_all ==
  <<"idt_init", "mem_init", "thread_init", "timer_init", "console_init",
    "keyboard_init", "tss_init", "syscall_init">>

intr_entry_table(i) == IF i < 96 THEN i ELSE i + 1

pic_init == imr' = Lines \ {0, 1} /\ irr' = {} /\ isr' = {}

idt_desc_init ==
  idt' = [v \in Vectors |-> IF v = SYSCALL THEN "syscall_handler" ELSE intr_entry_table(v)]

exception_init == idt_table' = [v \in Vectors |-> "general_intr_handler"]

idt_init == idt_desc_init /\ exception_init /\ pic_init

register_handler(vector_no, function) ==
  /\ idt_table' = [idt_table EXCEPT ![vector_no] = function]
  /\ UNCHANGED <<idt, pic>>

timer_init == register_handler(vector(0), "intr_timer_handler")

keyboard_init == register_handler(vector(1), "intr_keyboard_handler")

init_step ==
  /\ todo # <<>>
  /\ todo' = Tail(todo)
  /\ CASE Head(todo) = "idt_init"      -> idt_init
       [] Head(todo) = "timer_init"    -> timer_init
       [] Head(todo) = "keyboard_init" -> keyboard_init
       [] OTHER                        -> UNCHANGED <<idt, idt_table, pic>>
  /\ UNCHANGED <<kthread, cpu, want>>

\* main, after init_all.
main_enable ==
  /\ todo = <<>> /\ regs.eip = "init_all"
  /\ regs' = Own(main)
  /\ UNCHANGED <<kthread, setup, pic, kstack, esp0, want>>

\* The frame that thread_create prepares for the switch_to of schedule.
thread_create == <<<<"0">>, <<"0">>, <<"0">>, <<"0">>, "kernel_thread">>

InCode == regs.eip = "code"

thread_start(t) ==
  /\ InCode /\ cur = main
  /\ status[t] = NOT_CREATED
  /\ ready' = Append(ready, t)
  /\ status' = [status EXCEPT ![t] = TASK_READY]
  /\ kstack' = [kstack EXCEPT ![t] = thread_create]
  /\ UNCHANGED <<cur, panic, setup, pic, regs, esp0, want>>

-----------------------------------------------------------------------------
(***************************************************************************)
(* The entries of kernel.S.  An interrupt in user mode starts a new stack  *)
(* at tss.esp0, and running_thread is the thread that stack belongs to;    *)
(* one in the kernel goes on with the stack that is in use.  The end of    *)
(* interrupt is sent before the handler is called.                         *)
(***************************************************************************)
pushad   == <<"edi", "esi", "ebp", "esp", "ebx", "edx", "ecx", "eax">>
segments == <<"gs", "fs", "es", "ds">>

Words(file, rs) == [i \in DOMAIN rs |-> file[rs[i]]]

Saved(file, vec) ==
  <<vec>> \o Words(file, pushad \o segments) \o <<0>>
  \o Words(file, <<"eip", "cs", "eflags">>
                   \o IF file.cs = "user" THEN <<"esp", "ss">> ELSE <<>>)

\* Mutant of Enter: the gates leave the interrupt flag alone.
Enter_trap_gate(words, function) ==
  /\ IF regs.cs = "user"
     THEN kstack' = [kstack EXCEPT ![esp0] = words] /\ cur' = esp0
     ELSE Push(words) /\ cur' = cur
  /\ regs' = [InKernel(regs) EXCEPT !.eip = function]
  /\ UNCHANGED <<ready, status, panic, setup, esp0>>

Enter(words, function) ==
  /\ IF regs.cs = "user"
     THEN kstack' = [kstack EXCEPT ![esp0] = words] /\ cur' = esp0
     ELSE Push(words) /\ cur' = cur
  /\ regs' = [InKernel(regs) EXCEPT !.eflags = FALSE, !.eip = function]
  /\ UNCHANGED <<ready, status, panic, setup, esp0>>

\* Mutant of eoi: it is not sent.
eoi_none(serving) == isr' = serving

\* The end of interrupt clears the line of the highest priority in service.
eoi(serving) == isr' = {l \in serving : \E k \in serving : k < l}

intrXXentry(nr, serving) ==
  /\ Enter(Saved(regs, nr), "handler")
  /\ eoi(serving)
  /\ UNCHANGED <<imr, want>>

\* The 8259A: a device asks; the CPU is given the first line that is allowed.
Raise(l) ==
  /\ l \notin irr
  /\ irr' = irr \cup {l}
  /\ UNCHANGED <<kthread, setup, isr, imr, cpu, want>>

interrupt(l) ==
  /\ regs.eflags
  /\ l \in irr \ imr
  /\ \A k \in (irr \ imr) \cup isr : l <= k
  /\ l \notin isr
  /\ irr' = irr \ {l}
  /\ intrXXentry(idt[vector(l)], isr \cup {l})

\* A request that is gone when the CPU asks for its vector.
spurious ==
  /\ regs.eflags
  /\ intrXXentry(idt[SPURIOUS], isr)
  /\ UNCHANGED irr

\* Mutant of intr_exit_pops: edi and esi change places.
intr_exit_pops_swapped ==
  <<"-", "esi", "edi", "ebp", "-", "ebx", "edx", "ecx", "eax",
    "gs", "fs", "es", "ds", "-", "eip", "cs", "eflags">>

\* The words that intr_exit takes from the stack; "-" is skipped.
intr_exit_pops ==
  <<"-", "edi", "esi", "ebp", "-", "ebx", "edx", "ecx", "eax",
    "gs", "fs", "es", "ds", "-", "eip", "cs", "eflags">>

intr_exit ==
  /\ regs.eip = "intr_exit"
  /\ LET stack == kstack[cur]
         pops  == intr_exit_pops \o IF stack[16] = "user" THEN <<"esp", "ss">> ELSE <<>>
         Popped(r) == {i \in DOMAIN pops : pops[i] = r}
     IN  /\ regs' = [r \in Registers |->
                       IF Popped(r) = {} THEN regs[r] ELSE stack[CHOOSE i \in Popped(r) : TRUE]]
         /\ kstack' = [kstack EXCEPT ![cur] = SubSeq(@, Len(pops) + 1, Len(@))]
  /\ UNCHANGED <<kthread, setup, pic, esp0, want>>

-----------------------------------------------------------------------------
(***************************************************************************)
(* schedule with switch_to: the registers that C functions must keep and   *)
(* the return address go to the stack of the thread that is left and are   *)
(* taken from that of the next one.  schedule asserts that interrupts are  *)
(* disabled: by the gate, or by thread_block.                              *)
(***************************************************************************)
intr_off_asserts(intr_status) == Failing(~intr_status, "schedule: interrupts enabled")

update_tss_esp(pthread) == esp0' = pthread

switch_to(stat, below, return) ==
  /\ schedule(stat)
  /\ IF cur' \in Procs THEN update_tss_esp(cur') ELSE UNCHANGED esp0
  /\ LET left == <<regs.ebp, regs.ebx, regs.edi, regs.esi, return>> \o below
         next == IF cur' = cur THEN left ELSE kstack[cur']
     IN  /\ kstack' = [kstack EXCEPT ![cur] = left, ![cur'] = SubSeq(next, 6, Len(next))]
         /\ regs' = [Clobbered(regs) EXCEPT !.ebp = next[1], !.ebx = next[2],
                                            !.edi = next[3], !.esi = next[4],
                                            !.eip = next[5], !.eflags = FALSE]

Return(function) ==
  /\ regs' = [Clobbered(regs) EXCEPT !.eip = function]
  /\ UNCHANGED <<kstack, esp0>>

\* The running entry has called this handler.
Handling(handler) == regs.eip = "handler" /\ idt_table[Head(kstack[cur])] = handler

\* main has its PCB from thread_init on.
timer_asserts ==
  Failing(stack_magic(cur) /\ "thread_init" \notin Range(todo), "intr_timer_handler: stack_magic")

intr_timer_handler ==
  /\ Handling("intr_timer_handler")
  /\ \/ /\ Return("intr_exit")
        /\ panic' = timer_asserts
        /\ UNCHANGED <<cur, ready, status>>
     \/ /\ switch_to(TASK_RUNNING, kstack[cur], "intr_exit")
        /\ panic' = timer_asserts \cup intr_off_asserts(regs.eflags)
                                  \cup schedule_asserts(TASK_RUNNING)
  /\ UNCHANGED <<setup, pic, want>>

\* A key may wake a thread that waits for it.
Unblock ==
  \E t \in Threads : /\ status[t] = TASK_BLOCKED
                     /\ thread_unblock(t)
                     /\ panic' = thread_unblock_asserts(t)

intr_keyboard_handler ==
  /\ Handling("intr_keyboard_handler")
  /\ Unblock \/ UNCHANGED kthread
  /\ Return("intr_exit")
  /\ UNCHANGED <<setup, pic, want>>

\* Every other vector than these ends in its endless loop.
general_intr_handler ==
  /\ Handling("general_intr_handler")
  /\ Head(kstack[cur]) \in {39, 47}
  /\ Return("intr_exit")
  /\ UNCHANGED <<kthread, setup, pic, want>>

(***************************************************************************)
(* The first steps of a thread.  start_process builds the frame of an      *)
(* interrupt in the user program and leaves through intr_exit.             *)
(***************************************************************************)
kernel_thread ==
  /\ regs.eip = "kernel_thread"
  /\ regs' = IF cur \in Procs THEN [regs EXCEPT !.eflags = TRUE, !.eip = "start_process"]
             ELSE Own(cur)
  /\ UNCHANGED <<kthread, setup, pic, kstack, esp0, want>>

start_process ==
  /\ regs.eip = "start_process"
  /\ kstack' = [kstack EXCEPT ![cur] = Saved(Own(cur), <<"0">>)]
  /\ regs' = [Clobbered(regs) EXCEPT !.eip = "intr_exit"]
  /\ UNCHANGED <<kthread, setup, pic, esp0, want>>

(***************************************************************************)
(* System calls.  The result goes to the word from which eax is restored;  *)
(* it depends on the function, on who calls and on the first argument.     *)
(***************************************************************************)
syscall_table ==
  [SYS_GETPID |-> "sys_getpid", SYS_WRITE |-> "sys_write",
   SYS_MALLOC |-> "sys_malloc", SYS_FREE |-> "sys_free"]

\* The call of a user program: its number in eax, its argument in ebx.
syscall1(nr) == [regs EXCEPT !.eax = <<nr>>]

syscall(nr) ==
  LET file == syscall1(nr) IN
  /\ InCode /\ cur \in Procs
  /\ idt[SYSCALL] = "syscall_handler"
  /\ Enter(Words(file, <<"ebx", "ecx", "edx">>) \o Saved(file, SYSCALL), syscall_table[nr])
  /\ want' = [want EXCEPT ![cur].eax = <<syscall_table[nr], cur, want[cur].ebx>>]
  /\ UNCHANGED pic

InSyscall == regs.eip \in {syscall_table[nr] : nr \in Calls}

syscall_return ==
  /\ InSyscall
  /\ LET result == <<regs.eip, cur, Head(kstack[cur])>>
     IN  kstack' = [kstack EXCEPT ![cur] = [SubSeq(@, 4, Len(@)) EXCEPT ![9] = result]]
  /\ regs' = [Clobbered(regs) EXCEPT !.eip = "intr_exit"]
  /\ UNCHANGED <<kthread, setup, pic, esp0, want>>

-----------------------------------------------------------------------------
(***************************************************************************)
(* What kernel code does besides: block, wake others, and run a stretch    *)
(* with interrupts disabled.  old_status is a local variable of            *)
(* thread_block, which disables interrupts before it calls schedule.  Sync *)
(* proves that somebody is ready when a thread blocks.                     *)
(***************************************************************************)
KernelCode ==
  \/ InCode /\ cur \notin Procs
  \/ InSyscall /\ regs.eip # "sys_getpid"

block ==
  /\ KernelCode
  /\ ready # <<>>
  /\ LET old_status == regs.eflags
     IN  switch_to(TASK_BLOCKED, <<old_status, regs.eip>> \o kstack[cur], "thread_block")
  /\ panic' = thread_block_asserts
  /\ want' = IF InCode THEN [want EXCEPT ![cur] = Clobbered(@)] ELSE want
  /\ UNCHANGED <<setup, pic>>

thread_block_return ==
  /\ regs.eip = "thread_block"
  /\ LET stack == kstack[cur]
     IN  /\ regs' = [regs EXCEPT !.eflags = stack[1], !.eip = stack[2]]
         /\ kstack' = [kstack EXCEPT ![cur] = SubSeq(stack, 3, Len(stack))]
  /\ UNCHANGED <<kthread, setup, pic, esp0, want>>

wake ==
  /\ KernelCode
  /\ Unblock
  /\ UNCHANGED <<setup, pic, cpu, want>>

SetFlag(value) ==
  /\ InCode /\ cur \notin Procs
  /\ regs.eflags # value
  /\ regs' = [regs EXCEPT !.eflags = value]
  /\ want' = [want EXCEPT ![cur].eflags = value]
  /\ UNCHANGED <<kthread, setup, pic, kstack, esp0>>

intr_disable == SetFlag(FALSE)

intr_enable == SetFlag(TRUE)

-----------------------------------------------------------------------------

Init ==
  /\ cur = main
  /\ ready = <<>>
  /\ status = [t \in Threads |-> IF t = main THEN TASK_RUNNING ELSE NOT_CREATED]
  /\ panic = {}
  /\ todo = init_all
  /\ idt = [v \in Vectors |-> 0]
  /\ idt_table = [v \in Vectors |-> "none"]
  /\ irr = {} /\ isr = {} /\ imr = {}
  /\ regs = [Own(main) EXCEPT !.eip = "init_all", !.eflags = FALSE]
  /\ kstack = [t \in Threads |-> <<>>]
  /\ esp0 = JUNK
  /\ want = [t \in Threads |-> Own(t)]

\* Code that goes on until interrupts are enabled again.
Locked ==
  \/ init_step \/ main_enable \/ kernel_thread \/ start_process
  \/ intr_timer_handler \/ intr_keyboard_handler \/ general_intr_handler
  \/ intr_exit \/ thread_block_return

Next ==
  /\ panic = {}
  /\ \/ Locked
     \/ \E t \in Threads : thread_start(t)
     \/ \E l \in Lines : Raise(l) \/ interrupt(l)
     \/ spurious
     \/ \E nr \in Calls : syscall(nr)
     \/ syscall_return \/ block \/ wake \/ intr_disable \/ intr_enable

Spec == Init /\ [][Next]_ivars

(***************************************************************************)
(* Code that has disabled interrupts goes on, system calls and stretches   *)
(* with interrupts disabled end, and a CPU that again and again is ready   *)
(* to take the timer's interrupt takes it.                                 *)
(***************************************************************************)
FairSpec ==
  /\ Spec
  /\ WF_ivars(Locked) /\ SF_ivars(syscall_return) /\ SF_ivars(intr_enable)
  /\ SF_ivars(interrupt(0))

-----------------------------------------------------------------------------

CodeNames == {"code", "init_all", "handler", "intr_exit", "kernel_thread",
              "start_process", "thread_block"} \cup {syscall_table[nr] : nr \in Calls}

\* A process that is preempted in the intr_exit of start_process: the frame it
\* will leave with, that of the interrupt, and that of switch_to.
MaxDepth == 19 + 17 + 5

(***************************************************************************)
(* Type correctness; and interrupts do not nest: the handlers run with     *)
(* interrupts disabled, so the kernel stack, which shares a page with the  *)
(* PCB, has a limit.                                                       *)
(***************************************************************************)
IntrTypeOK ==
  /\ \A t \in Threads : Len(kstack[t]) <= MaxDepth
  /\ cur \in Threads /\ Range(ready) \subseteq Threads /\ panic = {}
  /\ status \in [Threads -> Status \cup {NOT_CREATED}]
  /\ idt_table \in [Vectors -> {"none", "general_intr_handler", "intr_timer_handler",
                                "intr_keyboard_handler"}]
  /\ irr \subseteq Lines /\ isr \subseteq Lines /\ imr \subseteq Lines
  /\ regs.eip \in CodeNames /\ regs.eflags \in BOOLEAN /\ regs.cs \in {"user", "kernel"}
  /\ esp0 \in Threads \cup {JUNK}

(***************************************************************************)
(* Whenever a thread's own code runs, the registers are what it left in    *)
(* them, its stack is as deep as it was, the interrupt flag is as it set   *)
(* it and eax has the result of its last system call, whatever interrupts, *)
(* switches, calls and sleeps of other threads came in between.            *)
(***************************************************************************)
ContextRestored ==
  InCode => regs = want[cur] /\ kstack[cur] = <<>>

(***************************************************************************)
(* Once mem_init has run, whichever machine this is: the pools and their   *)
(* bitmaps do not touch each other or the stack that main is using, and    *)
(* every frame that palloc can hand out is usable memory above the page    *)
(* tables, although the numbers wrap at 2, 256 and 2048 MB.                *)
(***************************************************************************)
MemoryLayout == "mem_init" \notin Range(todo) => GoodLayout

\* The driver behind each line, and when it is ready for interrupts.
Driver == [l \in {0, 1} |-> IF l = 0 THEN "intr_timer_handler" ELSE "intr_keyboard_handler"]

(***************************************************************************)
(* A request that is taken leads through its gate and its entry to the     *)
(* handler of its own device, when everything has been initialised, and    *)
(* never to the endless loop of general_intr_handler.                      *)
(***************************************************************************)
RightHandler ==
  [][\A l \in irr \ irr' : regs'.eip = "handler" =>
       /\ l \in DOMAIN Driver
       /\ idt_table'[Head(kstack'[cur'])] = Driver[l]
       /\ todo = <<>>]_ivars

(***************************************************************************)
(* Every timer interrupt is served, although a switch leaves the handler   *)
(* before it has returned, perhaps for a thread that never was in one.     *)
(***************************************************************************)
TimerServed == 0 \in irr ~> 0 \notin irr
=============================================================================
