------------------------- MODULE InterruptsProofs --------------------------
(***************************************************************************)
(* Interrupts, system calls and switches give every thread its registers   *)
(* and its stack back, for every number of threads and processes.          *)
(*                                                                         *)
(* What a thread will do when it gets the CPU again is on its stack, so    *)
(* the invariant says what the stack of a thread can be, for the running   *)
(* thread (by the function it is in) and for each of the others (by the    *)
(* return address that switch_to will find).  A stack is described by the  *)
(* words that somebody will read: the k words on top of a frame vary, so   *)
(* the frame starts at word k + 1.                                         *)
(*                                                                         *)
(* At the end, the division of memory (module MemInit) for every amount    *)
(* that the loader can find and for every map that the BIOS can report.    *)
(***************************************************************************)
EXTENDS Interrupts, KThreadProofs, WellFoundedInduction

IsStack(s) == Len(s) \in Nat /\ s = [i \in 1 .. Len(s) |-> s[i]]

IsFile(file) == file = [r \in Registers |-> file[r]]

\* A register file of kernel code.
KernelFile(file) ==
  /\ IsFile(file) /\ file.cs = "kernel" /\ file.eflags \in BOOLEAN
  /\ \A r \in Segments \cup {"esp", "ss"} : file[r] = FLAT

\* A register file of a user program.
UserFile(file) == IsFile(file) /\ file.cs = "user" /\ file.eflags = TRUE

Size(file) == IF file.cs = "user" THEN 19 ELSE 17

\* intr_exit will restore file from the words k + 1 ... of s.
Frame(s, k, file) ==
  /\ s[k + 2] = file.edi /\ s[k + 3] = file.esi /\ s[k + 4] = file.ebp
  /\ s[k + 6] = file.ebx /\ s[k + 7] = file.edx /\ s[k + 8] = file.ecx /\ s[k + 9] = file.eax
  /\ s[k + 10] = file.gs /\ s[k + 11] = file.fs /\ s[k + 12] = file.es /\ s[k + 13] = file.ds
  /\ s[k + 15] = file.eip /\ s[k + 16] = file.cs /\ s[k + 17] = file.eflags
  /\ file.cs = "user" => s[k + 18] = file.esp /\ s[k + 19] = file.ss

\* intr_exit will go on in kernel code, at function, with interrupts enabled.
KernelFrame(s, k, function) ==
  /\ \A i \in 10 .. 13 : s[k + i] = FLAT
  /\ s[k + 15] = function /\ s[k + 16] = "kernel" /\ s[k + 17] = TRUE

(***************************************************************************)
(* The thread t, whose own code expects the registers w, was interrupted:  *)
(* in its own code; or, being a process that has not yet entered its       *)
(* program, in start_process; or in the intr_exit that start_process calls *)
(* with interrupts enabled.                                                *)
(***************************************************************************)
OwnTrap(s, k, w) == Len(s) = k + Size(w) /\ Frame(s, k, w)

StartTrap(t, s, k, w) ==
  t \in Procs /\ w = Own(t) /\ Len(s) = k + 17 /\ KernelFrame(s, k, "start_process")

ExitTrap(t, s, k, w) ==
  /\ t \in Procs /\ w = Own(t) /\ Len(s) = k + 17 + 19
  /\ KernelFrame(s, k, "intr_exit") /\ Frame(s, k + 17, w)

OnTrap(t, s, k, w) == OwnTrap(s, k, w) \/ StartTrap(t, s, k, w) \/ ExitTrap(t, s, k, w)

Syscalls == {syscall_table[nr] : nr \in Calls}

\* t is in the system call function: everything but eax will be as it was, and
\* eax will be what the caller expects.
OnCall(t, s, k, w, function) ==
  /\ t \in Procs /\ function \in Syscalls
  /\ Len(s) = k + 3 + 19
  /\ s[k + 1] = w.ebx
  /\ w.eax = <<function, t, w.ebx>>
  /\ Frame(s, k + 3, [w EXCEPT !.eax = s[k + 3 + 9]])

\* t is in thread_block, called from its own kernel code, to which file will
\* return, or from a system call.
OnBlock(t, s, k, w, file) ==
  \/ /\ t \notin Procs /\ Len(s) = k + 2
     /\ s[k + 1] = w.eflags /\ s[k + 2] = "code"
     /\ file.ebp = w.ebp /\ file.ebx = w.ebx /\ file.edi = w.edi /\ file.esi = w.esi
     /\ w.eax = JUNK /\ w.ecx = JUNK /\ w.edx = JUNK
  \/ s[k + 1] = FALSE /\ OnCall(t, s, k + 2, w, s[k + 2])

(***************************************************************************)
(* A thread that is not running: it has never run, it was preempted by the *)
(* timer's handler, or it called thread_block.                             *)
(***************************************************************************)
Parked(t, s, w) ==
  \/ s = thread_create /\ w = Own(t)
  \/ s[5] = "intr_exit" /\ OnTrap(t, s, 5, w)
  \/ s[5] = "thread_block"
       /\ OnBlock(t, s, 5, w, [ebp |-> s[1], ebx |-> s[2], edi |-> s[3], esi |-> s[4]])

(***************************************************************************)
(* The running thread.                                                     *)
(***************************************************************************)
Running(t, file, s, w) ==
  \/ /\ file.eip = "code" /\ file = w /\ s = <<>>
  \/ /\ file.eip = "init_all" /\ KernelFile(file) /\ file.eflags = FALSE
     /\ t = main /\ s = <<>> /\ w = Own(t)
  \/ /\ file.eip = "handler" /\ KernelFile(file) /\ file.eflags = FALSE
     /\ OnTrap(t, s, 0, w)
  \/ /\ file.eip = "intr_exit" /\ KernelFile(file)
     /\ OnTrap(t, s, 0, w)
     /\ file.eflags = TRUE => t \in Procs /\ w = Own(t) /\ OwnTrap(s, 0, w)
  \/ /\ file.eip = "kernel_thread" /\ KernelFile(file) /\ file.eflags = FALSE
     /\ s = <<>> /\ w = Own(t)
  \/ /\ file.eip = "start_process" /\ KernelFile(file)
     /\ t \in Procs /\ s = <<>> /\ w = Own(t)
  \/ /\ file.eip = "thread_block" /\ KernelFile(file) /\ file.eflags = FALSE
     /\ file.eax = JUNK /\ file.ecx = JUNK /\ file.edx = JUNK
     /\ OnBlock(t, s, 0, w, file)
  \/ /\ KernelFile(file) /\ file.eflags = FALSE
     /\ OnCall(t, s, 0, w, file.eip)

\* What the threads' own code expects.
WantInv ==
  \A t \in Threads :
    /\ want[t].eip = "code"
    /\ t \in Procs => UserFile(want[t])
    /\ t \notin Procs => KernelFile(want[t])
    /\ status[t] = NOT_CREATED => want[t] = Own(t)

StacksInv ==
  /\ want = [t \in Threads |-> want[t]]
  /\ kstack = [t \in Threads |-> kstack[t]]
  /\ \A t \in Threads :
    /\ IsStack(kstack[t])
    /\ status[t] = NOT_CREATED => kstack[t] = <<>>
    /\ status[t] # NOT_CREATED /\ t # cur => Parked(t, kstack[t], want[t])

(***************************************************************************)
(* The tables and the controller, while init_all sets them up.             *)
(***************************************************************************)
InitDone(i) == Len(todo) <= Len(init_all) - i

TablesInv ==
  /\ IsStack(todo) /\ Len(todo) <= Len(init_all)
  /\ \A i \in 1 .. Len(todo) : todo[i] = init_all[Len(init_all) - Len(todo) + i]
  /\ regs.eip # "init_all" => todo = <<>>
  /\ idt_table \in [Vectors -> {"none", "general_intr_handler", "intr_timer_handler",
                                "intr_keyboard_handler"}]
  /\ irr \subseteq Lines /\ isr \subseteq Lines /\ imr \subseteq Lines
  /\ InitDone(1) => /\ imr = Lines \ {0, 1}
                    /\ \A l \in Lines : idt[vector(l)] = vector(l)
  /\ InitDone(4) => idt_table[vector(0)] = "intr_timer_handler"
  /\ InitDone(6) => idt_table[vector(1)] = "intr_keyboard_handler"

(***************************************************************************)
(* The inductive invariant.                                                *)
(***************************************************************************)
IntrInv ==
  /\ KThreadTypeOK /\ ReadyListInv /\ panic = {}
  /\ TablesInv
  /\ WantInv
  /\ StacksInv
  /\ Running(cur, regs, kstack[cur], want[cur])
  /\ cur \in Procs => esp0 = cur
  /\ esp0 \in Threads \cup {JUNK}

-----------------------------------------------------------------------------
(***************************************************************************)
(* Stacks.                                                                 *)
(***************************************************************************)
LEMMA StackSeq ==
  ASSUME NEW s, IsStack(s)
  PROVE  /\ s \in Seq({s[i] : i \in 1 .. Len(s)}) /\ Len(s) \in Nat
         /\ DOMAIN s = 1 .. Len(s)
<1>1. s \in [1 .. Len(s) -> {s[i] : i \in 1 .. Len(s)}]
  BY DEF IsStack
<1> QED  BY <1>1, SeqDef DEF IsStack

LEMMA SeqStack ==
  ASSUME NEW T, NEW s \in Seq(T)
  PROVE  IsStack(s)
BY LenProperties DEF IsStack

\* c is the words a on top of the stack b.
OnTop(c, a, b) ==
  /\ IsStack(c) /\ Len(c) = Len(a) + Len(b)
  /\ \A i \in 1 .. Len(a) : c[i] = a[i]
  /\ \A i \in 1 .. Len(b) : c[Len(a) + i] = b[i]

LEMMA CatStack ==
  ASSUME NEW a, NEW b, IsStack(a), IsStack(b)
  PROVE  IsStack(a \o b) /\ OnTop(a \o b, a, b)
<1> DEFINE A == {a[i] : i \in 1 .. Len(a)}
           B == {b[i] : i \in 1 .. Len(b)}
           c == a \o b
<1>1. a \in Seq(A) /\ b \in Seq(B) /\ Len(a) \in Nat /\ Len(b) \in Nat
  BY StackSeq
<1> HIDE DEF A, B
<1>2. a \in Seq(A \cup B) /\ b \in Seq(A \cup B)
  BY <1>1
<1>3. /\ c \in Seq(A \cup B) /\ Len(c) = Len(a) + Len(b)
      /\ \A i \in 1 .. Len(a) + Len(b) : c[i] = IF i <= Len(a) THEN a[i] ELSE b[i - Len(a)]
  BY <1>2, ConcatProperties
<1> HIDE DEF c
<1>4. \A i \in 1 .. Len(b) : c[Len(a) + i] = b[i]
  <2>1. \A i \in 1 .. Len(b) : /\ Len(a) + i \in 1 .. Len(a) + Len(b)
                               /\ ~(Len(a) + i <= Len(a)) /\ (Len(a) + i) - Len(a) = i
    BY <1>1
  <2> QED  BY <1>3, <2>1
<1>5. \A i \in 1 .. Len(a) : c[i] = a[i]
  <2>1. \A i \in 1 .. Len(a) : i \in 1 .. Len(a) + Len(b) /\ i <= Len(a)
    BY <1>1
  <2> QED  BY <1>3, <2>1
<1>6. IsStack(c)
  BY <1>3, SeqStack
<1> QED  BY <1>3, <1>4, <1>5, <1>6 DEF OnTop, c

\* q is what is left of s when k words have been taken.
Rest(q, s, k) ==
  /\ IsStack(q) /\ Len(q) = Len(s) - k
  /\ \A i \in 1 .. Len(s) - k : q[i] = s[k + i]

LEMMA SubStack ==
  ASSUME NEW s, IsStack(s), NEW k \in Nat, k <= Len(s)
  PROVE  IsStack(SubSeq(s, k + 1, Len(s))) /\ Rest(SubSeq(s, k + 1, Len(s)), s, k)
<1> DEFINE T == {s[i] : i \in 1 .. Len(s)}
           q == SubSeq(s, k + 1, Len(s))
<1>1. s \in Seq(T) /\ Len(s) \in Nat
  BY StackSeq
<1> HIDE DEF T
<1>2. /\ q \in Seq(T)
      /\ Len(q) = IF k + 1 <= Len(s) THEN Len(s) - (k + 1) + 1 ELSE 0
      /\ \A i \in 1 .. Len(s) - (k + 1) + 1 : q[i] = s[k + 1 + i - 1]
  BY <1>1, SubSeqProperties
<1> HIDE DEF q
<1>3. Len(q) = Len(s) - k
  BY <1>1, <1>2
<1>4. \A i \in 1 .. Len(s) - k : q[i] = s[k + i]
  <2> SUFFICES ASSUME NEW i \in 1 .. Len(s) - k PROVE q[i] = s[k + i]
    OBVIOUS
  <2>1. i \in 1 .. Len(s) - (k + 1) + 1 /\ k + 1 + i - 1 = k + i
    BY <1>1
  <2> QED  BY <1>2, <2>1
<1>5. IsStack(q)
  BY <1>2, SeqStack
<1> QED  BY <1>3, <1>4, <1>5 DEF q, Rest

LEMMA EmptyStack ==
  ASSUME NEW s, IsStack(s), Len(s) = 0
  PROVE  s = <<>>
BY StackSeq, EmptySeq

(***************************************************************************)
(* The words that an entry of kernel.S pushes are those from which         *)
(* intr_exit restores the registers.                                       *)
(***************************************************************************)
HasWords(a, file, rs) ==
  IsStack(a) /\ Len(a) = Len(rs) /\ \A i \in 1 .. Len(rs) : a[i] = file[rs[i]]

LEMMA WordsFacts ==
  ASSUME NEW file, NEW rs, IsStack(rs)
  PROVE  HasWords(Words(file, rs), file, rs)
<1>1. DOMAIN rs = 1 .. Len(rs) /\ Len(rs) \in Nat
  BY StackSeq
<1> DEFINE U == {file[rs[i]] : i \in 1 .. Len(rs)}
<1>2. Words(file, rs) \in [1 .. Len(rs) -> U] /\ \A i \in 1 .. Len(rs) : Words(file, rs)[i] = file[rs[i]]
  BY <1>1 DEF Words
<1> HIDE DEF U
<1>3. Words(file, rs) \in Seq(U)
  BY <1>1, <1>2, SeqDef
<1>4. Len(Words(file, rs)) = Len(rs)
  BY <1>1, <1>2, <1>3, LenProperties
<1> QED  BY <1>2, <1>3, <1>4, SeqStack DEF HasWords

LEMMA SavedFacts ==
  ASSUME NEW file, NEW vec
  PROVE  /\ IsStack(Saved(file, vec)) /\ Len(Saved(file, vec)) = Size(file)
         /\ Saved(file, vec)[1] = vec
         /\ Frame(Saved(file, vec), 0, file)
<1> DEFINE g == IF file.cs = "user" THEN <<"esp", "ss">> ELSE <<>>
           e == <<"eip", "cs", "eflags">>
           ps == pushad \o segments
           rs == e \o g
           a == Words(file, ps)
           b == Words(file, rs)
           v == <<vec>>
           o == <<0>>
           x == v \o a
           y == x \o o
           z == y \o b
<1>1. /\ IsStack(ps) /\ Len(ps) = 12
      /\ ps[1] = "edi" /\ ps[2] = "esi" /\ ps[3] = "ebp" /\ ps[5] = "ebx"
      /\ ps[6] = "edx" /\ ps[7] = "ecx" /\ ps[8] = "eax"
      /\ ps[9] = "gs" /\ ps[10] = "fs" /\ ps[11] = "es" /\ ps[12] = "ds"
  <2>1. IsStack(pushad) /\ Len(pushad) = 8
    BY DEF pushad, IsStack
  <2>2. IsStack(segments) /\ Len(segments) = 4
    BY DEF segments, IsStack
  <2>3. /\ pushad[1] = "edi" /\ pushad[2] = "esi" /\ pushad[3] = "ebp" /\ pushad[5] = "ebx"
        /\ pushad[6] = "edx" /\ pushad[7] = "ecx" /\ pushad[8] = "eax"
        /\ segments[1] = "gs" /\ segments[2] = "fs" /\ segments[3] = "es" /\ segments[4] = "ds"
    BY DEF pushad, segments
  <2>4. OnTop(ps, pushad, segments)
    BY <2>1, <2>2, CatStack, Zenon
  <2> HIDE DEF ps
  <2> QED  BY <2>1, <2>2, <2>3, <2>4 DEF OnTop
<1>2. Size(file) \in {17, 19} /\ (file.cs = "user" => Size(file) = 19)
  BY DEF Size
<1>3. /\ IsStack(rs) /\ Len(rs) = Size(file) - 14
      /\ rs[1] = "eip" /\ rs[2] = "cs" /\ rs[3] = "eflags"
      /\ file.cs = "user" => rs[4] = "esp" /\ rs[5] = "ss"
  <2>1. IsStack(e) /\ Len(e) = 3 /\ e[1] = "eip" /\ e[2] = "cs" /\ e[3] = "eflags"
    BY DEF IsStack
  <2>2. /\ IsStack(g) /\ Len(g) = Size(file) - 17
        /\ file.cs = "user" => g[1] = "esp" /\ g[2] = "ss"
    <3>1. CASE file.cs = "user"
      BY <3>1 DEF IsStack, Size
    <3>2. CASE file.cs # "user"
      BY <3>2 DEF IsStack, Size
    <3> QED  BY <3>1, <3>2
  <2> HIDE DEF e, g
  <2>3. OnTop(rs, e, g)
    BY <2>1, <2>2, CatStack, Zenon
  <2> HIDE DEF rs
  <2> QED  BY <1>2, <2>1, <2>2, <2>3 DEF OnTop
<1>4. Saved(file, vec) = z
  BY DEF Saved
<1> HIDE DEF ps, rs
<1>5. HasWords(a, file, ps)
  BY <1>1, WordsFacts
<1>6. HasWords(b, file, rs)
  BY <1>3, WordsFacts
<1> HIDE DEF a, b
<1>7. /\ IsStack(a) /\ Len(a) = 12
      /\ a[1] = file.edi /\ a[2] = file.esi /\ a[3] = file.ebp /\ a[5] = file.ebx
      /\ a[6] = file.edx /\ a[7] = file.ecx /\ a[8] = file.eax
      /\ a[9] = file.gs /\ a[10] = file.fs /\ a[11] = file.es /\ a[12] = file.ds
  BY <1>1, <1>5 DEF HasWords
<1>8. /\ IsStack(b) /\ Len(b) = Size(file) - 14
      /\ b[1] = file.eip /\ b[2] = file.cs /\ b[3] = file.eflags
      /\ file.cs = "user" => b[4] = file.esp /\ b[5] = file.ss
  BY <1>2, <1>3, <1>6 DEF HasWords
<1>9. /\ IsStack(v) /\ Len(v) = 1 /\ v[1] = vec /\ IsStack(o) /\ Len(o) = 1
  BY DEF IsStack
<1> HIDE DEF v, o
<1>10. IsStack(x) /\ OnTop(x, v, a)
  BY <1>7, <1>9, CatStack, Zenon
<1> HIDE DEF x
<1>11. IsStack(y) /\ OnTop(y, x, o)
  BY <1>9, <1>10, CatStack, Zenon
<1> HIDE DEF y
<1>12. IsStack(z) /\ OnTop(z, y, b)
  BY <1>8, <1>11, CatStack, Zenon
<1> HIDE DEF z
<1>13. Len(x) = 13 /\ x[1] = vec /\ \A i \in 1 .. 12 : x[1 + i] = a[i]
  BY <1>7, <1>9, <1>10 DEF OnTop
<1>14. Len(y) = 14 /\ \A i \in 1 .. 13 : y[i] = x[i]
  BY <1>9, <1>11, <1>13 DEF OnTop
<1>15. /\ IsStack(z) /\ Len(z) = Size(file) /\ (\A i \in 1 .. 14 : z[i] = y[i])
       /\ \A i \in 1 .. Size(file) - 14 : z[14 + i] = b[i]
  BY <1>2, <1>8, <1>12, <1>14 DEF OnTop
<1>16. z[1] = vec /\ \A i \in 1 .. 12 : z[1 + i] = a[i]
  BY <1>13, <1>14, <1>15
<1>17. /\ z[2] = a[1] /\ z[3] = a[2] /\ z[4] = a[3] /\ z[6] = a[5] /\ z[7] = a[6]
       /\ z[8] = a[7] /\ z[9] = a[8] /\ z[10] = a[9] /\ z[11] = a[10] /\ z[12] = a[11] /\ z[13] = a[12]
  BY <1>16
<1>18. /\ z[15] = b[1] /\ z[16] = b[2] /\ z[17] = b[3]
       /\ file.cs = "user" => z[18] = b[4] /\ z[19] = b[5]
  BY <1>2, <1>15
<1>19. Frame(z, 0, file)
  BY <1>7, <1>8, <1>17, <1>18 DEF Frame
<1> QED  BY <1>4, <1>15, <1>16, <1>19

LEMMA SameFile ==
  ASSUME NEW f, NEW g, IsFile(f), IsFile(g), \A r \in Registers : f[r] = g[r]
  PROVE  f = g
BY DEF IsFile

\* Where intr_exit finds each register.
PopsOf(user) == intr_exit_pops \o IF user THEN <<"esp", "ss">> ELSE <<>>

LEMMA PopsFacts ==
  ASSUME NEW user \in BOOLEAN
  PROVE  /\ Len(PopsOf(user)) = (IF user THEN 19 ELSE 17)
         /\ DOMAIN PopsOf(user) = 1 .. (IF user THEN 19 ELSE 17)
         /\ PopsOf(user)[1] = "-" /\ PopsOf(user)[2] = "edi" /\ PopsOf(user)[3] = "esi"
         /\ PopsOf(user)[4] = "ebp" /\ PopsOf(user)[5] = "-" /\ PopsOf(user)[6] = "ebx"
         /\ PopsOf(user)[7] = "edx" /\ PopsOf(user)[8] = "ecx" /\ PopsOf(user)[9] = "eax"
         /\ PopsOf(user)[10] = "gs" /\ PopsOf(user)[11] = "fs" /\ PopsOf(user)[12] = "es"
         /\ PopsOf(user)[13] = "ds" /\ PopsOf(user)[14] = "-" /\ PopsOf(user)[15] = "eip"
         /\ PopsOf(user)[16] = "cs" /\ PopsOf(user)[17] = "eflags"
         /\ user => PopsOf(user)[18] = "esp" /\ PopsOf(user)[19] = "ss"
<1> DEFINE g == IF user THEN <<"esp", "ss">> ELSE <<>>
           e == intr_exit_pops
           c == e \o g
<1>1. /\ IsStack(e) /\ Len(e) = 17
      /\ e[1] = "-" /\ e[2] = "edi" /\ e[3] = "esi" /\ e[4] = "ebp" /\ e[5] = "-"
      /\ e[6] = "ebx" /\ e[7] = "edx" /\ e[8] = "ecx" /\ e[9] = "eax" /\ e[10] = "gs"
      /\ e[11] = "fs" /\ e[12] = "es" /\ e[13] = "ds" /\ e[14] = "-" /\ e[15] = "eip"
      /\ e[16] = "cs" /\ e[17] = "eflags"
  BY DEF intr_exit_pops, IsStack
<1>2. /\ IsStack(g) /\ Len(g) = (IF user THEN 2 ELSE 0)
      /\ user => g[1] = "esp" /\ g[2] = "ss"
  <2>1. CASE user
    BY <2>1 DEF IsStack
  <2>2. CASE ~user
    BY <2>2 DEF IsStack
  <2> QED  BY <2>1, <2>2
<1> HIDE DEF e, g
<1>3. IsStack(c) /\ OnTop(c, e, g)
  BY <1>1, <1>2, CatStack, Zenon
<1>4. PopsOf(user) = c
  BY DEF PopsOf, e, g
<1> HIDE DEF c
<1>5. DOMAIN c = 1 .. Len(c)
  BY <1>3, StackSeq
<1>6. Len(c) = (IF user THEN 19 ELSE 17)
  BY <1>1, <1>2, <1>3 DEF OnTop
<1>7. \A i \in 1 .. 17 : c[i] = e[i]
  BY <1>1, <1>3 DEF OnTop
<1>8. user => c[18] = g[1] /\ c[19] = g[2]
  BY <1>1, <1>2, <1>3 DEF OnTop
<1> QED  BY <1>1, <1>2, <1>4, <1>5, <1>6, <1>7, <1>8

LEMMA PoppedFacts ==
  ASSUME NEW user \in BOOLEAN
  PROVE  LET Popped(r) == {i \in DOMAIN PopsOf(user) : PopsOf(user)[i] = r} IN
         /\ Popped("edi") = {2} /\ Popped("esi") = {3} /\ Popped("ebp") = {4}
         /\ Popped("ebx") = {6} /\ Popped("edx") = {7} /\ Popped("ecx") = {8}
         /\ Popped("eax") = {9} /\ Popped("gs") = {10} /\ Popped("fs") = {11}
         /\ Popped("es") = {12} /\ Popped("ds") = {13} /\ Popped("eip") = {15}
         /\ Popped("cs") = {16} /\ Popped("eflags") = {17}
         /\ Popped("esp") = (IF user THEN {18} ELSE {})
         /\ Popped("ss") = (IF user THEN {19} ELSE {})
<1> DEFINE c == PopsOf(user)
           n == IF user THEN 19 ELSE 17
           Popped(r) == {i \in DOMAIN c : c[i] = r}
<1>1. /\ DOMAIN c = 1 .. n
      /\ c[1] = "-" /\ c[2] = "edi" /\ c[3] = "esi" /\ c[4] = "ebp" /\ c[5] = "-"
      /\ c[6] = "ebx" /\ c[7] = "edx" /\ c[8] = "ecx" /\ c[9] = "eax" /\ c[10] = "gs"
      /\ c[11] = "fs" /\ c[12] = "es" /\ c[13] = "ds" /\ c[14] = "-" /\ c[15] = "eip"
      /\ c[16] = "cs" /\ c[17] = "eflags"
      /\ user => c[18] = "esp" /\ c[19] = "ss"
  BY PopsFacts
<1>2. n \in {17, 19} /\ (user <=> n = 19)
  OBVIOUS
<1> HIDE DEF c, n
<1>3. \A i : i \in DOMAIN c =>
        \/ i = 1
        \/ i = 2
        \/ i = 3
        \/ i = 4
        \/ i = 5
        \/ i = 6
        \/ i = 7
        \/ i = 8
        \/ i = 9
        \/ i = 10
        \/ i = 11
        \/ i = 12
        \/ i = 13
        \/ i = 14
        \/ i = 15
        \/ i = 16
        \/ i = 17
        \/ user /\ (i = 18 \/ i = 19)
  BY <1>1, <1>2
<1>4. \A i \in 1 .. 17 : i \in DOMAIN c
  BY <1>1, <1>2
<1>5. user => 18 \in DOMAIN c /\ 19 \in DOMAIN c
  BY <1>1, <1>2
<1>6. Popped("edi") = {2}
  BY <1>1, <1>3, <1>4
<1>7. Popped("esi") = {3}
  BY <1>1, <1>3, <1>4
<1>8. Popped("ebp") = {4}
  BY <1>1, <1>3, <1>4
<1>9. Popped("ebx") = {6}
  BY <1>1, <1>3, <1>4
<1>10. Popped("edx") = {7}
  BY <1>1, <1>3, <1>4
<1>11. Popped("ecx") = {8}
  BY <1>1, <1>3, <1>4
<1>12. Popped("eax") = {9}
  BY <1>1, <1>3, <1>4
<1>13. Popped("gs") = {10}
  BY <1>1, <1>3, <1>4
<1>14. Popped("fs") = {11}
  BY <1>1, <1>3, <1>4
<1>15. Popped("es") = {12}
  BY <1>1, <1>3, <1>4
<1>16. Popped("ds") = {13}
  BY <1>1, <1>3, <1>4
<1>17. Popped("eip") = {15}
  BY <1>1, <1>3, <1>4
<1>18. Popped("cs") = {16}
  BY <1>1, <1>3, <1>4
<1>19. Popped("eflags") = {17}
  BY <1>1, <1>3, <1>4
<1>20. Popped("esp") = (IF user THEN {18} ELSE {})
  BY <1>1, <1>3, <1>5
<1>21. Popped("ss") = (IF user THEN {19} ELSE {})
  BY <1>1, <1>3, <1>5
<1> QED  BY <1>6, <1>7, <1>8, <1>9, <1>10, <1>11, <1>12, <1>13, <1>14, <1>15, <1>16, <1>17, <1>18, <1>19, <1>20, <1>21 DEF c

\* intr_exit puts back the frame on top of the stack.
LEMMA IntrExitFacts ==
  ASSUME intr_exit, cur \in Threads, kstack = [t \in Threads |-> kstack[t]],
         kstack[cur][16] \in {"user", "kernel"}
  PROVE  LET s == kstack[cur] IN
         /\ IsFile(regs') /\ Frame(s, 0, regs')
         /\ s[16] = "kernel" => regs'.esp = regs.esp /\ regs'.ss = regs.ss
         /\ kstack' = [kstack EXCEPT ![cur] = SubSeq(s, (IF s[16] = "user" THEN 19 ELSE 17) + 1, Len(s))]
<1> DEFINE s == kstack[cur]
           user == s[16] = "user"
           pops == PopsOf(user)
           Popped(r) == {i \in DOMAIN pops : pops[i] = r}
<1>1. /\ regs' = [r \in Registers |->
                    IF Popped(r) = {} THEN regs[r] ELSE s[CHOOSE i \in Popped(r) : TRUE]]
      /\ kstack' = [kstack EXCEPT ![cur] = SubSeq(s, Len(pops) + 1, Len(s))]
  BY DEF intr_exit, PopsOf
<1>2. user \in BOOLEAN
  OBVIOUS
<1>3. Len(pops) = (IF user THEN 19 ELSE 17)
  BY <1>2, PopsFacts
<1>4. /\ Popped("edi") = {2} /\ Popped("esi") = {3} /\ Popped("ebp") = {4}
      /\ Popped("ebx") = {6} /\ Popped("edx") = {7} /\ Popped("ecx") = {8}
      /\ Popped("eax") = {9} /\ Popped("gs") = {10} /\ Popped("fs") = {11}
      /\ Popped("es") = {12} /\ Popped("ds") = {13} /\ Popped("eip") = {15}
      /\ Popped("cs") = {16} /\ Popped("eflags") = {17}
      /\ Popped("esp") = (IF user THEN {18} ELSE {})
      /\ Popped("ss") = (IF user THEN {19} ELSE {})
  BY <1>2, PoppedFacts
<1> HIDE DEF Popped, pops
<1>5. \A r \in Registers : \A k : Popped(r) = {k} => regs'[r] = s[k]
  <2>1. ASSUME NEW r \in Registers, NEW k, Popped(r) = {k}
        PROVE  regs'[r] = s[k]
    <3>1. Popped(r) # {} /\ (CHOOSE i \in Popped(r) : TRUE) = k
      BY <2>1
    <3> QED  BY <1>1, <3>1
  <2> QED  BY <2>1
<1>6. IsFile(regs')
  BY <1>1 DEF IsFile
<1>7. \A r \in Registers : Popped(r) = {} => regs'[r] = regs[r]
  BY <1>1
<1>8. {"edi", "esi", "ebp", "ebx", "edx", "ecx", "eax", "gs", "fs", "es", "ds", "eip", "cs",
       "eflags", "esp", "ss"} = Registers
  BY DEF Registers, General, Segments
<1> HIDE DEF s
<1>9. Frame(s, 0, regs')
  <2>1. /\ regs'.edi = s[2] /\ regs'.esi = s[3] /\ regs'.ebp = s[4]
        /\ regs'.ebx = s[6] /\ regs'.edx = s[7] /\ regs'.ecx = s[8] /\ regs'.eax = s[9]
    BY <1>4, <1>5, <1>8
  <2>2. /\ regs'.gs = s[10] /\ regs'.fs = s[11] /\ regs'.es = s[12] /\ regs'.ds = s[13]
        /\ regs'.eip = s[15] /\ regs'.cs = s[16] /\ regs'.eflags = s[17]
    BY <1>4, <1>5, <1>8
  <2>3. user => regs'.esp = s[18] /\ regs'.ss = s[19]
    BY <1>4, <1>5, <1>8
  <2> QED  BY <2>1, <2>2, <2>3 DEF Frame
<1>10. ~user => regs'.esp = regs.esp /\ regs'.ss = regs.ss
  BY <1>4, <1>7, <1>8
<1> QED  BY <1>1, <1>3, <1>6, <1>9, <1>10 DEF s

(***************************************************************************)
(* A description of a stack still fits when words are put on top of it or  *)
(* taken from it.                                                          *)
(***************************************************************************)
SameWords(q, j, s, i) == \A c \in 1 .. Len(q) - j : q[j + c] = s[i + c]

LEMMA Shift ==
  ASSUME NEW s, IsStack(s), NEW q, NEW k \in Nat, Rest(q, s, k), NEW j \in Nat
  PROVE  SameWords(q, j, s, k + j)
<1> SUFFICES ASSUME NEW c \in 1 .. Len(q) - j PROVE q[j + c] = s[k + j + c]
  BY DEF SameWords
<1>1. Len(s) \in Nat /\ Len(q) \in Nat /\ Len(q) = Len(s) - k
  BY StackSeq DEF Rest
<1>2. j + c \in 1 .. Len(s) - k /\ k + (j + c) = k + j + c
  BY <1>1
<1> QED  BY <1>2 DEF Rest

LEMMA ShiftFrame ==
  ASSUME NEW s, IsStack(s), NEW q, NEW k \in Nat, Rest(q, s, k), NEW j \in Nat, NEW file,
         Len(q) >= j + Size(file)
  PROVE  Frame(q, j, file) <=> Frame(s, k + j, file)
<1>1. Len(q) \in Nat /\ Size(file) \in {17, 19} /\ (file.cs = "user" => Size(file) = 19)
  BY StackSeq DEF Rest, Size
<1>2. SameWords(q, j, s, k + j)
  BY Shift
<1>3. /\ \A c \in 1 .. 17 : c \in 1 .. Len(q) - j
      /\ file.cs = "user" => 18 \in 1 .. Len(q) - j /\ 19 \in 1 .. Len(q) - j
  BY <1>1
<1>4. \A c \in 1 .. 17 : q[j + c] = s[k + j + c]
  BY <1>2, <1>3 DEF SameWords
<1>5. file.cs = "user" => q[j + 18] = s[k + j + 18] /\ q[j + 19] = s[k + j + 19]
  BY <1>2, <1>3 DEF SameWords
<1>6. /\ q[j + 2] = s[k + j + 2] /\ q[j + 3] = s[k + j + 3] /\ q[j + 4] = s[k + j + 4]
      /\ q[j + 6] = s[k + j + 6] /\ q[j + 7] = s[k + j + 7] /\ q[j + 8] = s[k + j + 8]
      /\ q[j + 9] = s[k + j + 9] /\ q[j + 10] = s[k + j + 10] /\ q[j + 11] = s[k + j + 11]
      /\ q[j + 12] = s[k + j + 12] /\ q[j + 13] = s[k + j + 13] /\ q[j + 15] = s[k + j + 15]
      /\ q[j + 16] = s[k + j + 16] /\ q[j + 17] = s[k + j + 17]
  BY <1>4
<1> QED  BY <1>5, <1>6 DEF Frame

LEMMA ShiftKernelFrame ==
  ASSUME NEW s, IsStack(s), NEW q, NEW k \in Nat, Rest(q, s, k), NEW function, Len(q) >= 17
  PROVE  KernelFrame(q, 0, function) <=> KernelFrame(s, k, function)
<1>1. Len(q) \in Nat /\ Len(s) \in Nat /\ Len(q) = Len(s) - k
  BY StackSeq DEF Rest
<1>2. \A c \in 1 .. 17 : c \in 1 .. Len(s) - k /\ 0 + c = c
  BY <1>1
<1>3. \A c \in 1 .. 17 : q[0 + c] = s[k + c]
  BY <1>2 DEF Rest
<1>4. \A c \in 10 .. 13 : q[0 + c] = s[k + c]
  <2>1. \A c \in 10 .. 13 : c \in 1 .. 17
    OBVIOUS
  <2> QED  BY <1>3, <2>1
<1>5. q[0 + 15] = s[k + 15] /\ q[0 + 16] = s[k + 16] /\ q[0 + 17] = s[k + 17]
  BY <1>3
<1> QED  BY <1>4, <1>5 DEF KernelFrame

LEMMA ShiftTrap ==
  ASSUME NEW s, IsStack(s), NEW q, NEW k \in Nat, Rest(q, s, k), NEW t, NEW w
  PROVE  /\ OwnTrap(q, 0, w) <=> OwnTrap(s, k, w)
         /\ OnTrap(t, q, 0, w) <=> OnTrap(t, s, k, w)
<1>1. Len(q) \in Nat /\ Len(s) \in Nat /\ Len(q) = Len(s) - k
  BY StackSeq DEF Rest
<1>2. Size(w) \in {17, 19}
  BY DEF Size
<1>3. OwnTrap(q, 0, w) <=> OwnTrap(s, k, w)
  <2>1. Len(q) = 0 + Size(w) <=> Len(s) = k + Size(w)
    BY <1>1, <1>2
  <2>2. Len(q) = 0 + Size(w) => (Frame(q, 0, w) <=> Frame(s, k + 0, w))
    BY <1>1, <1>2, ShiftFrame
  <2>3. k + 0 = k
    OBVIOUS
  <2> QED  BY <2>1, <2>2, <2>3 DEF OwnTrap
<1>4. StartTrap(t, q, 0, w) <=> StartTrap(t, s, k, w)
  <2>1. Len(q) = 0 + 17 <=> Len(s) = k + 17
    BY <1>1
  <2>2. Len(q) = 0 + 17 => (KernelFrame(q, 0, "start_process") <=> KernelFrame(s, k, "start_process"))
    <3>1. Len(q) = 0 + 17 => Len(q) >= 17
      OBVIOUS
    <3> QED  BY <3>1, ShiftKernelFrame
  <2> QED  BY <2>1, <2>2 DEF StartTrap
<1>5. ExitTrap(t, q, 0, w) <=> ExitTrap(t, s, k, w)
  <2>1. Len(q) = 0 + 17 + 19 <=> Len(s) = k + 17 + 19
    BY <1>1
  <2>2. Len(q) = 0 + 17 + 19 =>
          /\ KernelFrame(q, 0, "intr_exit") <=> KernelFrame(s, k, "intr_exit")
          /\ Frame(q, 17, w) <=> Frame(s, k + 17, w)
    <3> SUFFICES ASSUME Len(q) = 0 + 17 + 19
                 PROVE  /\ KernelFrame(q, 0, "intr_exit") <=> KernelFrame(s, k, "intr_exit")
                        /\ Frame(q, 17, w) <=> Frame(s, k + 17, w)
      OBVIOUS
    <3>1. Len(q) >= 17 + Size(w) /\ Len(q) >= 17
      BY <1>2
    <3> QED  BY <3>1, ShiftFrame, ShiftKernelFrame
  <2>3. 0 + 17 = 17
    OBVIOUS
  <2> QED  BY <2>1, <2>2, <2>3 DEF ExitTrap
<1> QED  BY <1>3, <1>4, <1>5 DEF OnTrap

LEMMA ShiftCall ==
  ASSUME NEW s, IsStack(s), NEW q, NEW k \in Nat, Rest(q, s, k), NEW j \in Nat,
         NEW t, NEW w, IsFile(w), NEW function
  PROVE  OnCall(t, q, j, w, function) <=> OnCall(t, s, k + j, w, function)
<1>1. Len(q) \in Nat /\ Len(s) \in Nat /\ Len(q) = Len(s) - k
  BY StackSeq DEF Rest
<1>2. Len(q) = j + 3 + 19 <=> Len(s) = k + j + 3 + 19
  BY <1>1
<1>3. ASSUME Len(q) = j + 3 + 19
      PROVE  /\ q[j + 1] = s[k + j + 1]
             /\ Frame(q, j + 3, [w EXCEPT !.eax = q[j + 3 + 9]])
                  <=> Frame(s, k + j + 3, [w EXCEPT !.eax = s[k + j + 3 + 9]])
  <2>1. q[j + 1] = s[k + j + 1] /\ q[j + 12] = s[k + j + 12]
    <3>1. SameWords(q, j, s, k + j)
      BY Shift
    <3>2. 1 \in 1 .. Len(q) - j /\ 12 \in 1 .. Len(q) - j
      BY <1>1, <1>3
    <3> QED  BY <3>1, <3>2 DEF SameWords
  <2>2. q[j + 3 + 9] = s[k + j + 3 + 9]
    BY <2>1
  <2> DEFINE f == [w EXCEPT !.eax = q[j + 3 + 9]]
  <2>3. Size(f) \in {17, 19}
    BY DEF Size
  <2> HIDE DEF f
  <2>4. Len(q) >= (j + 3) + Size(f) /\ j + 3 \in Nat /\ k + (j + 3) = k + j + 3
    BY <1>1, <1>3, <2>3
  <2>5. Frame(q, j + 3, f) <=> Frame(s, k + j + 3, f)
    BY <2>4, ShiftFrame
  <2> QED  BY <2>1, <2>2, <2>5 DEF f
<1> QED  BY <1>2, <1>3 DEF OnCall

LEMMA ShiftBlock ==
  ASSUME NEW s, IsStack(s), NEW q, NEW k \in Nat, Rest(q, s, k),
         NEW t, NEW w, IsFile(w), NEW file
  PROVE  OnBlock(t, q, 0, w, file) <=> OnBlock(t, s, k, w, file)
<1>1. Len(q) \in Nat /\ Len(s) \in Nat /\ Len(q) = Len(s) - k
  BY StackSeq DEF Rest
<1>2. Len(q) >= 2 => q[0 + 1] = s[k + 1] /\ q[0 + 2] = s[k + 2]
  <2>1. Len(q) >= 2 => 1 \in 1 .. Len(s) - k /\ 2 \in 1 .. Len(s) - k
    BY <1>1
  <2>2. 0 + 1 = 1 /\ 0 + 2 = 2
    OBVIOUS
  <2> QED  BY <2>1, <2>2 DEF Rest
<1>3. Len(q) = 0 + 2 <=> Len(s) = k + 2
  BY <1>1
<1>4. OnCall(t, q, 0 + 2, w, q[0 + 2]) <=> OnCall(t, s, k + 2, w, q[0 + 2])
  <2>1. 0 + 2 = 2 /\ 2 \in Nat
    OBVIOUS
  <2> QED  BY <2>1, ShiftCall
<1>5. OnCall(t, q, 0 + 2, w, q[0 + 2]) => Len(q) >= 2
  BY DEF OnCall
<1>6. OnCall(t, s, k + 2, w, s[k + 2]) => Len(q) >= 2
  BY <1>1 DEF OnCall
<1> QED  BY <1>1, <1>2, <1>3, <1>4, <1>5, <1>6 DEF OnBlock

-----------------------------------------------------------------------------
(***************************************************************************)
(* Register files.                                                         *)
(***************************************************************************)
LEMMA RegisterNames ==
  /\ {"eax", "ecx", "edx", "ebx", "ebp", "esi", "edi", "ds", "es", "fs", "gs",
      "eip", "cs", "eflags", "esp", "ss"} = Registers
  /\ Segments \cup {"esp", "ss"} = {"ds", "es", "fs", "gs", "esp", "ss"}
BY DEF Registers, General, Segments

LEMMA InKernelFacts ==
  ASSUME NEW file, file.eflags \in BOOLEAN
  PROVE  /\ KernelFile(InKernel(file))
         /\ \A r \in General \cup {"eip", "eflags"} : InKernel(file)[r] = file[r]
<1>1. /\ IsFile(InKernel(file))
      /\ \A r \in Segments \cup {"esp", "ss"} : InKernel(file)[r] = FLAT
      /\ \A r \in General \cup {"eip", "eflags"} : InKernel(file)[r] = file[r]
      /\ InKernel(file)["cs"] = "kernel"
  BY DEF InKernel, IsFile, Registers, General, Segments
<1> QED  BY <1>1 DEF KernelFile

LEMMA OwnFacts ==
  ASSUME NEW t \in Threads
  PROVE  /\ t \in Procs => UserFile(Own(t))
         /\ t \notin Procs => KernelFile(Own(t))
         /\ Own(t).eip = "code" /\ Own(t).eflags = TRUE
<1> DEFINE file == [r \in Registers |-> CASE r = "eip"    -> "code"
                                          [] r = "cs"     -> "user"
                                          [] r = "eflags" -> TRUE
                                          [] OTHER        -> <<t, r>>]
<1>1. IsFile(file) /\ file.eip = "code" /\ file.cs = "user" /\ file.eflags = TRUE
  BY DEF IsFile, Registers
<1>2. Own(t) = IF t \in Procs THEN file ELSE InKernel(file)
  BY DEF Own
<1> HIDE DEF file
<1>3. KernelFile(InKernel(file)) /\ InKernel(file).eip = "code" /\ InKernel(file).eflags = TRUE
  BY <1>1 DEF InKernel, KernelFile, IsFile, Registers, General, Segments
<1> QED  BY <1>1, <1>2, <1>3 DEF UserFile

\* A kernel file stays one when general registers, eip or the flag change.
LEMMA KernelFileExcept ==
  ASSUME NEW f, KernelFile(f), NEW g, IsFile(g), g.eflags \in BOOLEAN,
         \A r \in Segments \cup {"esp", "ss", "cs"} : g[r] = f[r]
  PROVE  KernelFile(g)
BY DEF KernelFile

LEMMA ClobberedFacts ==
  ASSUME NEW f, IsFile(f)
  PROVE  /\ IsFile(Clobbered(f))
         /\ \A r \in Registers \ {"eax", "ecx", "edx"} : Clobbered(f)[r] = f[r]
         /\ Clobbered(f).eax = JUNK /\ Clobbered(f).ecx = JUNK /\ Clobbered(f).edx = JUNK
BY DEF Clobbered, IsFile, Registers, General

\* The registers when a C function has returned to function.
LEMMA ReturnFacts ==
  ASSUME NEW f, KernelFile(f), NEW function, NEW g, g = [Clobbered(f) EXCEPT !.eip = function]
  PROVE  KernelFile(g) /\ g.eip = function /\ (f.eflags = FALSE => g.eflags = FALSE)
<1>1. IsFile(f) /\ f.eflags \in BOOLEAN
  BY DEF KernelFile
<1> DEFINE h == Clobbered(f)
<1>2. IsFile(h) /\ \A r \in Registers \ {"eax", "ecx", "edx"} : h[r] = f[r]
  BY <1>1, ClobberedFacts
<1> HIDE DEF h
<1>3. IsFile(g) /\ g.eip = function /\ \A r \in Registers \ {"eip"} : g[r] = h[r]
  BY <1>2 DEF IsFile, Registers, h
<1>4. g.eflags = f.eflags /\ \A r \in Segments \cup {"esp", "ss", "cs"} : g[r] = f[r]
  BY <1>2, <1>3 DEF Registers, Segments, General
<1> QED  BY <1>1, <1>3, <1>4, KernelFileExcept

\* The names of system calls are not those of other functions.
LEMMA SyscallNames ==
  Syscalls \subseteq {"sys_getpid", "sys_write", "sys_malloc", "sys_free"}
BY InterruptsAssumption DEF Syscalls, syscall_table

(***************************************************************************)
(* A parked thread goes on where it was when switch_to takes its frame.    *)
(***************************************************************************)
LEMMA ParkedFacts ==
  ASSUME NEW t, NEW s, IsStack(s), NEW w, Parked(t, s, w)
  PROVE  Len(s) \in Nat /\ Len(s) >= 5 /\ Len(s) <= MaxDepth
<1> DEFINE n == Len(s)
           z == Size(w)
<1>1. z \in {17, 19}
  BY DEF Size
<1>2. \/ n = 5 \/ n = 5 + z \/ n = 5 + 17 \/ n = 5 + 17 + 19 \/ n = 5 + 2 \/ n = 5 + 2 + 3 + 19
  <2>1. s = thread_create => n = 5
    BY DEF thread_create
  <2> HIDE DEF n, z
  <2> QED  BY <2>1 DEF Parked, OnTrap, OwnTrap, StartTrap, ExitTrap, OnBlock, OnCall, n, z
<1> HIDE DEF n, z
<1>3. n \in Nat /\ n >= 5 /\ n <= 19 + 17 + 5
  BY <1>1, <1>2
<1> QED  BY <1>3 DEF n, MaxDepth

LEMMA Resume ==
  ASSUME NEW t, NEW s, IsStack(s), NEW w, IsFile(w), Parked(t, s, w),
         NEW q, Rest(q, s, 5), NEW file, KernelFile(file), file.eflags = FALSE,
         file.eax = JUNK, file.ecx = JUNK, file.edx = JUNK,
         file.ebp = s[1], file.ebx = s[2], file.edi = s[3], file.esi = s[4], file.eip = s[5]
  PROVE  Running(t, file, q, w)
<1>1. Len(s) \in Nat /\ IsStack(q) /\ Len(q) = Len(s) - 5
  BY ParkedFacts DEF Rest
<1>2. CASE s = thread_create /\ w = Own(t)
  <2>1. Len(s) = 5 /\ s[5] = "kernel_thread"
    BY <1>2 DEF thread_create
  <2>2. q = <<>>
    BY <1>1, <2>1, EmptyStack
  <2> QED  BY <1>2, <2>1, <2>2 DEF Running
<1>3. CASE s[5] = "intr_exit" /\ OnTrap(t, s, 5, w)
  <2>1. OnTrap(t, q, 0, w)
    BY <1>3, ShiftTrap
  <2> QED  BY <1>3, <2>1 DEF Running
<1>4. CASE s[5] = "thread_block"
             /\ OnBlock(t, s, 5, w, [ebp |-> s[1], ebx |-> s[2], edi |-> s[3], esi |-> s[4]])
  <2>1. OnBlock(t, s, 5, w, file)
    BY <1>4 DEF OnBlock
  <2>2. OnBlock(t, q, 0, w, file)
    BY <2>1, ShiftBlock
  <2> QED  BY <1>4, <2>2 DEF Running
<1> QED  BY <1>2, <1>3, <1>4 DEF Parked

-----------------------------------------------------------------------------
(***************************************************************************)
(* The steps.                                                              *)
(***************************************************************************)
LEMMA TablesSame ==
  ASSUME TablesInv, UNCHANGED setup, imr' = imr, irr' \subseteq Lines, isr' \subseteq Lines,
         regs'.eip # "init_all" => todo = <<>>
  PROVE  TablesInv'
<1>1. todo' = todo /\ idt' = idt /\ idt_table' = idt_table
  BY DEF setup
<1>2. \A i : InitDone(i)' <=> InitDone(i)
  BY <1>1 DEF InitDone
<1>3. regs'.eip # "init_all" => todo' = <<>>
  BY <1>1 DEF TablesInv
<1> QED  BY <1>1, <1>2, <1>3 DEF TablesInv

\* The running thread exists.
LEMMA CurExists ==
  ASSUME IntrInv
  PROVE  /\ cur \in Threads /\ status[cur] # NOT_CREATED
         /\ IsStack(kstack[cur]) /\ IsFile(want[cur])
BY DEF IntrInv, KThreadTypeOK, ReadyListInv, TASK_RUNNING, NOT_CREATED, StacksInv, WantInv,
       UserFile, KernelFile

\* What the code of t may expect.
GoodWant(t, w) ==
  /\ w.eip = "code"
  /\ t \in Procs => UserFile(w)
  /\ t \notin Procs => KernelFile(w)

\* A step that leaves the CPU with the running thread.
LEMMA CurStep ==
  ASSUME IntrInv, TablesInv', KThreadTypeOK', ReadyListInv', panic' = {}, cur' = cur,
         \A t \in Threads : status'[t] = NOT_CREATED <=> status[t] = NOT_CREATED,
         esp0' = esp0,
         NEW s, IsStack(s), kstack' = [kstack EXCEPT ![cur] = s],
         NEW w, GoodWant(cur, w), want' = [want EXCEPT ![cur] = w],
         Running(cur, regs', s, w)
  PROVE  IntrInv'
<1>1. cur \in Threads /\ status[cur] # NOT_CREATED
  BY CurExists
<1>2. /\ kstack' = [t \in Threads |-> kstack'[t]] /\ kstack'[cur] = s
      /\ \A t \in Threads : t # cur => kstack'[t] = kstack[t]
  BY <1>1 DEF IntrInv, StacksInv
<1>3. /\ want' = [t \in Threads |-> want'[t]] /\ want'[cur] = w
      /\ \A t \in Threads : t # cur => want'[t] = want[t]
  BY <1>1 DEF IntrInv, StacksInv
<1>4. WantInv'
  <2> SUFFICES ASSUME NEW t \in Threads
               PROVE  GoodWant(t, want'[t]) /\ (status'[t] = NOT_CREATED => want'[t] = Own(t))
    BY DEF WantInv, GoodWant
  <2>1. CASE t = cur
    BY <1>1, <1>3, <2>1
  <2>2. CASE t # cur
    BY <1>3, <2>2 DEF IntrInv, WantInv, GoodWant
  <2> QED  BY <2>1, <2>2
<1>5. StacksInv'
  <2> SUFFICES ASSUME NEW t \in Threads
               PROVE  /\ IsStack(kstack'[t])
                      /\ status'[t] = NOT_CREATED => kstack'[t] = <<>>
                      /\ status'[t] # NOT_CREATED /\ t # cur' => Parked(t, kstack'[t], want'[t])
    BY <1>2, <1>3 DEF StacksInv
  <2>1. CASE t = cur
    BY <1>1, <1>2, <2>1
  <2>2. CASE t # cur
    BY <1>2, <1>3, <2>2 DEF IntrInv, StacksInv
  <2> QED  BY <2>1, <2>2
<1>6. Running(cur, regs', kstack'[cur], want'[cur])
  BY <1>2, <1>3
<1> QED  BY <1>4, <1>5, <1>6 DEF IntrInv

\* The same for a step that changes nothing but registers.
LEMMA RegsStep ==
  ASSUME IntrInv, UNCHANGED <<kthread, setup, pic, kstack, esp0, want>>,
         regs'.eip # "init_all" => todo = <<>>,
         Running(cur, regs', kstack[cur], want[cur])
  PROVE  IntrInv'
<1>1. TablesInv'
  BY TablesSame DEF IntrInv, TablesInv, pic
<1>2. KThreadTypeOK' /\ ReadyListInv' /\ panic' = {} /\ cur' = cur /\ status' = status
  BY DEF IntrInv, kthread, KThreadTypeOK, ReadyListInv
<1>3. WantInv' /\ StacksInv'
  BY <1>2 DEF IntrInv, WantInv, StacksInv
<1>4. Running(cur, regs', kstack'[cur], want'[cur])
  OBVIOUS
<1> QED  BY <1>1, <1>2, <1>3, <1>4 DEF IntrInv

\* What the lemmas of a step need from the invariant.
LEMMA InvFacts ==
  ASSUME IntrInv
  PROVE  /\ TablesInv /\ KThreadTypeOK /\ ReadyListInv /\ panic = {}
         /\ GoodWant(cur, want[cur])
         /\ Running(cur, regs, kstack[cur], want[cur])
         /\ kstack = [kstack EXCEPT ![cur] = kstack[cur]]
         /\ want = [want EXCEPT ![cur] = want[cur]]
         /\ regs.eip # "init_all" => todo = <<>>
<1>1. cur \in Threads
  BY CurExists
<1> QED  BY <1>1 DEF IntrInv, WantInv, GoodWant, StacksInv, TablesInv

\* What holds in each function.
LEMMA NowAt ==
  ASSUME IntrInv
  PROVE  /\ regs.eip \in CodeNames
         /\ regs.eip # "code" => KernelFile(regs)
         /\ regs.eip = "code" => regs = want[cur] /\ kstack[cur] = <<>>
         /\ regs.eip = "init_all" =>
              regs.eflags = FALSE /\ cur = main /\ kstack[cur] = <<>> /\ want[cur] = Own(cur)
         /\ regs.eip = "handler" => regs.eflags = FALSE /\ OnTrap(cur, kstack[cur], 0, want[cur])
         /\ regs.eip = "intr_exit" =>
              /\ OnTrap(cur, kstack[cur], 0, want[cur])
              /\ regs.eflags = TRUE =>
                   cur \in Procs /\ want[cur] = Own(cur) /\ OwnTrap(kstack[cur], 0, want[cur])
         /\ regs.eip = "kernel_thread" =>
              regs.eflags = FALSE /\ kstack[cur] = <<>> /\ want[cur] = Own(cur)
         /\ regs.eip = "start_process" =>
              cur \in Procs /\ kstack[cur] = <<>> /\ want[cur] = Own(cur)
         /\ regs.eip = "thread_block" =>
              /\ regs.eflags = FALSE /\ OnBlock(cur, kstack[cur], 0, want[cur], regs)
              /\ regs.eax = JUNK /\ regs.ecx = JUNK /\ regs.edx = JUNK
         /\ regs.eip \in Syscalls =>
              regs.eflags = FALSE /\ OnCall(cur, kstack[cur], 0, want[cur], regs.eip)
         /\ regs.eip # "init_all" => todo = <<>>
<1>1. OnCall(cur, kstack[cur], 0, want[cur], regs.eip) => regs.eip \in Syscalls
  BY DEF OnCall
<1>2. regs.eip \in Syscalls =>
        /\ regs.eip \in CodeNames
        /\ regs.eip \notin {"code", "init_all", "handler", "intr_exit", "kernel_thread",
                            "start_process", "thread_block"}
  BY SyscallNames DEF CodeNames, Syscalls
<1>3. {"code", "init_all", "handler", "intr_exit", "kernel_thread", "start_process",
       "thread_block"} \subseteq CodeNames
  BY DEF CodeNames
<1>4. Running(cur, regs, kstack[cur], want[cur])
  BY InvFacts
<1> QED  BY <1>1, <1>2, <1>3, <1>4, InvFacts DEF Running

LEMMA MainEnableStep ==
  ASSUME IntrInv, main_enable
  PROVE  IntrInv'
<1>1. cur = main /\ kstack[cur] = <<>> /\ want[cur] = Own(main)
  BY InvFacts, NowAt DEF main_enable
<1>2. Own(main).eip = "code"
  BY InterruptsAssumption, OwnFacts
<1>3. Running(cur, regs', kstack[cur], want[cur])
  BY <1>1, <1>2 DEF main_enable, Running
<1> QED  BY <1>3, RegsStep DEF main_enable

LEMMA KernelThreadStep ==
  ASSUME IntrInv, kernel_thread
  PROVE  IntrInv'
<1>1. /\ KernelFile(regs) /\ kstack[cur] = <<>> /\ want[cur] = Own(cur)
      /\ todo = <<>>
  BY InvFacts, NowAt DEF kernel_thread
<1>2. Running(cur, regs', kstack[cur], want[cur])
  <2>1. CASE cur \in Procs
    <3>1. regs' = [regs EXCEPT !.eflags = TRUE, !.eip = "start_process"]
      BY <2>1 DEF kernel_thread
    <3>2. /\ IsFile(regs') /\ regs'.eflags = TRUE /\ regs'.eip = "start_process"
          /\ \A r \in Segments \cup {"esp", "ss", "cs"} : regs'[r] = regs[r]
      BY <1>1, <3>1 DEF KernelFile, IsFile, Registers, Segments
    <3>3. KernelFile(regs')
      BY <1>1, <3>2, KernelFileExcept
    <3> QED  BY <1>1, <2>1, <3>2, <3>3 DEF Running
  <2>2. CASE cur \notin Procs
    <3>1. regs' = Own(cur) /\ Own(cur).eip = "code"
      BY <2>2, OwnFacts, CurExists DEF kernel_thread
    <3> QED  BY <1>1, <3>1 DEF Running
  <2> QED  BY <2>1, <2>2
<1> QED  BY <1>1, <1>2, RegsStep DEF kernel_thread

LEMMA StartProcessStep ==
  ASSUME IntrInv, start_process
  PROVE  IntrInv'
<1> DEFINE s == Saved(Own(cur), <<"0">>)
<1>1. /\ KernelFile(regs) /\ cur \in Procs /\ want[cur] = Own(cur)
      /\ todo = <<>>
  BY InvFacts, NowAt DEF start_process
<1>2. IsStack(s) /\ Len(s) = Size(want[cur]) /\ Frame(s, 0, want[cur])
  BY <1>1, SavedFacts
<1>3. KernelFile(regs') /\ regs'.eip = "intr_exit"
  BY <1>1, ReturnFacts DEF start_process
<1>4. kstack' = [kstack EXCEPT ![cur] = s]
  BY DEF start_process
<1> HIDE DEF s
<1>5. OwnTrap(s, 0, want[cur])
  <2>1. 0 + Size(want[cur]) = Size(want[cur])
    BY DEF Size
  <2> QED  BY <1>2, <2>1 DEF OwnTrap
<1>6. Running(cur, regs', s, want[cur])
  BY <1>1, <1>3, <1>5 DEF Running, OnTrap
<1>7. /\ UNCHANGED setup /\ imr' = imr /\ irr' = irr /\ isr' = isr /\ cur' = cur /\ esp0' = esp0
      /\ UNCHANGED kthread /\ want' = want
  BY DEF start_process, pic, kthread
<1>8. TablesInv'
  BY <1>1, <1>7, InvFacts, TablesSame DEF TablesInv
<1>9. KThreadTypeOK' /\ ReadyListInv' /\ panic' = {} /\ status' = status
  BY <1>7, InvFacts DEF kthread, KThreadTypeOK, ReadyListInv
<1>10. GoodWant(cur, want[cur]) /\ want' = [want EXCEPT ![cur] = want[cur]]
  BY <1>7, InvFacts
<1> QED  BY <1>2, <1>4, <1>6, <1>7, <1>8, <1>9, <1>10, CurStep

\* A handler that returns to its entry.
LEMMA HandlerReturn ==
  ASSUME IntrInv, regs.eip = "handler", Return("intr_exit"), UNCHANGED <<setup, pic, want>>,
         Unblock \/ UNCHANGED kthread
  PROVE  IntrInv'
<1>1. /\ KernelFile(regs) /\ regs.eflags = FALSE /\ OnTrap(cur, kstack[cur], 0, want[cur])
      /\ todo = <<>>
  BY InvFacts, NowAt
<1>2. KernelFile(regs') /\ regs'.eip = "intr_exit" /\ regs'.eflags = FALSE
  BY <1>1, ReturnFacts DEF Return
<1>3. Running(cur, regs', kstack[cur], want[cur])
  BY <1>1, <1>2 DEF Running
<1>4. /\ KThreadTypeOK' /\ ReadyListInv' /\ panic' = {} /\ cur' = cur
      /\ \A t \in Threads : status'[t] = NOT_CREATED <=> status[t] = NOT_CREATED
  <2>1. CASE UNCHANGED kthread
    BY <2>1, InvFacts DEF kthread, KThreadTypeOK, ReadyListInv
  <2>2. CASE Unblock
    <3>1. PICK p \in Threads : /\ status[p] = TASK_BLOCKED
                               /\ thread_unblock(p) /\ panic' = thread_unblock_asserts(p)
      BY <2>2 DEF Unblock
    <3>2. cur' = cur
      BY <3>1 DEF thread_unblock
    <3> QED  BY <3>1, <3>2, InvFacts, ThreadUnblockFacts
  <2> QED  BY <2>1, <2>2
<1>5. /\ UNCHANGED setup /\ imr' = imr /\ irr' = irr /\ isr' = isr /\ esp0' = esp0
      /\ kstack' = kstack /\ want' = want
  BY DEF Return, pic
<1>6. TablesInv'
  BY <1>1, <1>5, InvFacts, TablesSame DEF TablesInv
<1>7. /\ GoodWant(cur, want[cur]) /\ want' = [want EXCEPT ![cur] = want[cur]]
      /\ kstack' = [kstack EXCEPT ![cur] = kstack[cur]] /\ IsStack(kstack[cur])
  BY <1>5, InvFacts, CurExists
<1> QED  BY <1>3, <1>4, <1>5, <1>6, <1>7, CurStep

LEMMA RaiseStep ==
  ASSUME IntrInv, NEW l \in Lines, Raise(l)
  PROVE  IntrInv'
<1>1. /\ UNCHANGED setup /\ imr' = imr /\ irr' \subseteq Lines /\ isr' \subseteq Lines
      /\ regs' = regs
  BY InvFacts DEF Raise, cpu, TablesInv
<1>2. TablesInv'
  BY <1>1, InvFacts, TablesSame
<1>3. KThreadTypeOK' /\ ReadyListInv' /\ panic' = {} /\ cur' = cur /\ status' = status
  BY InvFacts DEF Raise, kthread, KThreadTypeOK, ReadyListInv
<1>4. kstack' = kstack /\ want' = want /\ esp0' = esp0
  BY DEF Raise, cpu
<1>5. WantInv' /\ StacksInv'
  BY <1>3, <1>4 DEF IntrInv, WantInv, StacksInv
<1> QED  BY <1>1, <1>2, <1>3, <1>4, <1>5 DEF IntrInv

LEMMA WakeStep ==
  ASSUME IntrInv, wake
  PROVE  IntrInv'
<1>1. PICK p \in Threads : /\ status[p] = TASK_BLOCKED
                           /\ thread_unblock(p) /\ panic' = thread_unblock_asserts(p)
  BY DEF wake, Unblock
<1>2. cur' = cur
  BY <1>1 DEF thread_unblock
<1>3. /\ KThreadTypeOK' /\ ReadyListInv' /\ panic' = {}
      /\ \A t \in Threads : status'[t] = NOT_CREATED <=> status[t] = NOT_CREATED
  BY <1>1, InvFacts, ThreadUnblockFacts
<1>4. /\ UNCHANGED setup /\ imr' = imr /\ irr' = irr /\ isr' = isr /\ regs' = regs
      /\ kstack' = kstack /\ want' = want /\ esp0' = esp0
  BY DEF wake, cpu, pic
<1>5. TablesInv'
  BY <1>4, InvFacts, TablesSame DEF TablesInv
<1>6. /\ GoodWant(cur, want[cur]) /\ want' = [want EXCEPT ![cur] = want[cur]]
      /\ kstack' = [kstack EXCEPT ![cur] = kstack[cur]] /\ IsStack(kstack[cur])
      /\ Running(cur, regs', kstack[cur], want[cur])
  BY <1>4, InvFacts, CurExists
<1> QED  BY <1>2, <1>3, <1>4, <1>5, <1>6, CurStep

LEMMA SetFlagStep ==
  ASSUME IntrInv, NEW value \in BOOLEAN, SetFlag(value)
  PROVE  IntrInv'
<1> DEFINE w == [want[cur] EXCEPT !.eflags = value]
<1>1. /\ regs = want[cur] /\ kstack[cur] = <<>> /\ cur \notin Procs /\ todo = <<>>
      /\ KernelFile(regs) /\ regs.eip = "code"
  BY InvFacts, NowAt DEF SetFlag, InCode, GoodWant
<1>2. want' = [want EXCEPT ![cur] = w]
  BY DEF SetFlag
<1>3. regs' = w
  BY <1>1 DEF SetFlag
<1>4. /\ IsFile(w) /\ w.eflags = value /\ w.eip = "code"
      /\ \A r \in Segments \cup {"esp", "ss", "cs"} : w[r] = want[cur][r]
  BY <1>1 DEF KernelFile, IsFile, Registers, Segments
<1>5. KernelFile(w)
  BY <1>1, <1>4, KernelFileExcept
<1> HIDE DEF w
<1>6. Running(cur, regs', kstack[cur], w)
  BY <1>1, <1>3, <1>4 DEF Running
<1>7. GoodWant(cur, w)
  BY <1>1, <1>4, <1>5 DEF GoodWant
<1>8. /\ UNCHANGED setup /\ imr' = imr /\ irr' = irr /\ isr' = isr /\ cur' = cur /\ esp0' = esp0
      /\ UNCHANGED kthread /\ kstack' = kstack
  BY DEF SetFlag, pic, kthread
<1>9. TablesInv'
  BY <1>1, <1>8, InvFacts, TablesSame DEF TablesInv
<1>10. KThreadTypeOK' /\ ReadyListInv' /\ panic' = {} /\ status' = status
  BY <1>8, InvFacts DEF kthread, KThreadTypeOK, ReadyListInv
<1>11. kstack' = [kstack EXCEPT ![cur] = kstack[cur]] /\ IsStack(kstack[cur])
  BY <1>8, InvFacts, CurExists
<1> QED  BY <1>2, <1>6, <1>7, <1>8, <1>9, <1>10, <1>11, CurStep

LEMMA ThreadStartStep ==
  ASSUME IntrInv, NEW p \in Threads, thread_start(p)
  PROVE  IntrInv'
<1> USE DEF TASK_READY, TASK_RUNNING, TASK_BLOCKED, NOT_CREATED
<1>1. /\ cur \in Threads /\ ready \in Seq(Threads)
      /\ status \in [Threads -> Status \cup {NOT_CREATED}]
  BY InvFacts DEF KThreadTypeOK
<1>2. status[p] = NOT_CREATED /\ p # cur /\ p \notin Range(ready) /\ IsInjective(ready)
  BY <1>1, InvFacts DEF thread_start, ReadyListInv
<1>3. /\ ready' \in Seq(Threads) /\ IsInjective(ready')
      /\ Range(ready') = Range(ready) \cup {p}
  BY <1>1, <1>2, AppendFacts DEF thread_start
<1>4. /\ status' = [status EXCEPT ![p] = TASK_READY]
      /\ kstack' = [kstack EXCEPT ![p] = thread_create]
      /\ UNCHANGED <<cur, panic, setup, pic, regs, esp0, want>>
  BY DEF thread_start
<1>5. /\ \A t \in Threads : status'[t] = IF t = p THEN TASK_READY ELSE status[t]
      /\ \A t \in Threads : kstack'[t] = IF t = p THEN thread_create ELSE kstack[t]
      /\ kstack' = [t \in Threads |-> kstack'[t]]
  BY <1>1, <1>4 DEF IntrInv, StacksInv
<1>6. KThreadTypeOK' /\ ReadyListInv'
  <2>1. KThreadTypeOK'
    BY <1>1, <1>3, <1>4 DEF KThreadTypeOK, Status
  <2>2. ReadyListInv'
    BY <1>2, <1>3, <1>4, <1>5, InvFacts DEF ReadyListInv
  <2> QED  BY <2>1, <2>2
<1>7. TablesInv'
  BY <1>4, InvFacts, TablesSame DEF TablesInv, pic
<1>8. WantInv'
  BY <1>4, <1>5 DEF IntrInv, WantInv
<1>9. StacksInv'
  <2>1. IsStack(thread_create)
    BY DEF thread_create, IsStack
  <2>2. Parked(p, thread_create, want[p])
    BY <1>2 DEF Parked, IntrInv, WantInv
  <2> QED  BY <1>4, <1>5, <2>1, <2>2 DEF IntrInv, StacksInv
<1>10. Running(cur, regs, kstack'[cur], want[cur])
  BY <1>1, <1>2, <1>5, InvFacts
<1> QED  BY <1>4, <1>6, <1>7, <1>8, <1>9, <1>10 DEF IntrInv

\* A step of the running thread that changes its registers and its stack.
LEMMA StackStep ==
  ASSUME IntrInv, UNCHANGED <<kthread, setup, esp0, want>>, imr' = imr,
         irr' \subseteq Lines, isr' \subseteq Lines, regs.eip # "init_all",
         NEW s, IsStack(s), kstack' = [kstack EXCEPT ![cur] = s],
         Running(cur, regs', s, want[cur])
  PROVE  IntrInv'
<1>1. TablesInv'
  BY InvFacts, NowAt, TablesSame
<1>2. KThreadTypeOK' /\ ReadyListInv' /\ panic' = {} /\ status' = status /\ cur' = cur
  BY InvFacts DEF kthread, KThreadTypeOK, ReadyListInv
<1>3. GoodWant(cur, want[cur]) /\ want' = [want EXCEPT ![cur] = want[cur]]
  BY InvFacts
<1> QED  BY <1>1, <1>2, <1>3, CurStep

\* The frame on top of a stack does not depend on what is below.
LEMMA TopFrame ==
  ASSUME NEW a, NEW b, NEW c, OnTop(c, a, b), NEW file, Len(a) = Size(file), Frame(a, 0, file)
  PROVE  Frame(c, 0, file)
<1>1. Size(file) \in {17, 19} /\ (file.cs = "user" => Size(file) = 19)
  BY DEF Size
<1>2. \A i \in 1 .. Size(file) : c[i] = a[i]
  BY DEF OnTop
<1>3. \A i \in 1 .. 17 : c[i] = a[i]
  BY <1>1, <1>2
<1>4. file.cs = "user" => c[18] = a[18] /\ c[19] = a[19]
  BY <1>1, <1>2
<1>5. /\ c[2] = a[2] /\ c[3] = a[3] /\ c[4] = a[4] /\ c[6] = a[6] /\ c[7] = a[7] /\ c[8] = a[8]
      /\ c[9] = a[9] /\ c[10] = a[10] /\ c[11] = a[11] /\ c[12] = a[12] /\ c[13] = a[13]
      /\ c[15] = a[15] /\ c[16] = a[16] /\ c[17] = a[17]
  BY <1>3
<1> QED  BY <1>4, <1>5 DEF Frame

LEMMA BelowRest ==
  ASSUME NEW a, NEW b, NEW c, IsStack(a), IsStack(b), OnTop(c, a, b)
  PROVE  Rest(b, c, Len(a))
<1>1. Len(a) \in Nat /\ Len(b) \in Nat /\ Len(c) = Len(a) + Len(b)
  BY StackSeq DEF OnTop
<1>2. Len(c) - Len(a) = Len(b)
  BY <1>1
<1> QED  BY <1>2 DEF Rest, OnTop

\* The registers of kernel code that runs with interrupts disabled.
HasFlag(f) == f.eflags \in BOOLEAN

Closed(g, function) == KernelFile(g) /\ g.eip = function /\ g.eflags = FALSE

LEMMA EntryFile ==
  ASSUME NEW f, HasFlag(f), NEW function, NEW g,
         g = [InKernel(f) EXCEPT !.eflags = FALSE, !.eip = function]
  PROVE  Closed(g, function)
<1> DEFINE h == InKernel(f)
<1>1. KernelFile(h)
  BY InKernelFacts DEF HasFlag
<1> HIDE DEF h
<1>2. /\ IsFile(g) /\ g.eflags = FALSE /\ g.eip = function
      /\ \A r \in Segments \cup {"esp", "ss", "cs"} : g[r] = h[r]
  BY <1>1 DEF KernelFile, IsFile, Registers, Segments, h
<1> QED  BY <1>1, <1>2, KernelFileExcept DEF Closed

(***************************************************************************)
(* An interrupt finds the CPU in a thread's own code, in start_process, or *)
(* in the intr_exit that start_process calls; its frame is one that        *)
(* intr_exit will leave through.                                           *)
(***************************************************************************)
LEMMA EntryStep ==
  ASSUME IntrInv, NEW nr, NEW serving \in SUBSET Lines, irr' \subseteq Lines, regs.eflags,
         intrXXentry(nr, serving)
  PROVE  /\ IntrInv'
         /\ cur' = cur /\ kstack'[cur][1] = nr /\ IsStack(kstack'[cur])
         /\ Len(kstack'[cur]) # 0 /\ regs.eip # "init_all"
<1> DEFINE a == Saved(regs, nr)
           s == kstack[cur]
           w == want[cur]
           q == IF regs.cs = "user" THEN a ELSE a \o s
<1>1. /\ regs.eip # "code" => KernelFile(regs)
      /\ regs.eip = "code" => regs = w
      /\ regs.eflags = TRUE
      /\ regs.eip \in {"code", "intr_exit", "start_process"}
  <2>1. GoodWant(cur, want[cur])
    BY InvFacts
  <2>2. regs.eflags \in BOOLEAN
    BY <2>1, NowAt DEF GoodWant, KernelFile, UserFile
  <2>3. regs.eflags = TRUE
    BY <2>2
  <2>4. regs.eip \in {"code", "init_all", "handler", "intr_exit", "kernel_thread",
                      "start_process", "thread_block"} \cup Syscalls
    BY NowAt DEF CodeNames, Syscalls
  <2> QED  BY <2>3, <2>4, NowAt
<1>2. cur \in Threads /\ IsStack(s) /\ IsFile(w) /\ GoodWant(cur, w)
  BY CurExists, InvFacts
<1>3. regs.cs = "user" => cur \in Procs /\ regs.eip = "code" /\ esp0 = cur
  BY <1>1, <1>2 DEF KernelFile, GoodWant, IntrInv
<1>4. /\ kstack' = [kstack EXCEPT ![cur] = q] /\ cur' = cur
      /\ regs' = [InKernel(regs) EXCEPT !.eflags = FALSE, !.eip = "handler"]
      /\ UNCHANGED <<kthread, setup, esp0, want>> /\ imr' = imr
  BY <1>3 DEF intrXXentry, Enter, Push, kthread
<1>5. isr' \subseteq Lines
  BY DEF intrXXentry, eoi
<1>6. IsStack(a) /\ Len(a) = Size(regs) /\ a[1] = nr /\ Frame(a, 0, regs)
  BY SavedFacts
<1>7. regs.cs # "user" => OnTop(q, a, s)
  BY <1>2, <1>6, CatStack
<1>8. KernelFile(regs') /\ regs'.eip = "handler" /\ regs'.eflags = FALSE
  <2>1. HasFlag(regs)
    BY <1>1 DEF HasFlag
  <2>2. Closed(regs', "handler")
    BY <1>4, <2>1, EntryFile
  <2> QED  BY <2>2 DEF Closed
<1>9. /\ Len(a) \in {17, 19} /\ (regs.cs = "user" => Len(a) = 19) /\ (regs.cs # "user" => Len(a) = 17)
      /\ Len(s) \in Nat /\ (s = <<>> => Len(s) = 0)
  BY <1>2, <1>6, StackSeq DEF Size
<1>10. CASE regs.cs = "user"
  <2>1. q = a /\ regs = w
    BY <1>1, <1>3, <1>10
  <2>2. OwnTrap(q, 0, w)
    <3>1. 0 + Size(w) = Size(w)
      BY DEF Size
    <3> QED  BY <1>6, <2>1, <3>1 DEF OwnTrap
  <2>3. Running(cur, regs', q, w)
    BY <1>8, <2>2 DEF Running, OnTrap
  <2>4. q[1] = nr /\ IsStack(q) /\ Len(q) # 0 /\ kstack'[cur] = q
    <3>1. kstack'[cur] = q
      BY <1>2, <1>4 DEF IntrInv, StacksInv
    <3> HIDE DEF q, a
    <3> QED  BY <1>6, <1>9, <1>10, <2>1, <3>1
  <2> HIDE DEF q
  <2> QED  BY <1>1, <1>4, <1>5, <2>3, <2>4, StackStep
<1>11. CASE regs.cs # "user"
  <2> DEFINE k == Len(a)
  <2>1. k = 17 /\ Len(q) = k + Len(s) /\ IsStack(q) /\ (\A i \in 1 .. k : q[i] = a[i])
    BY <1>7, <1>9, <1>11 DEF OnTop
  <2>2. q[1] = nr /\ Len(q) # 0 /\ kstack'[cur] = q
    <3>1. kstack'[cur] = q
      BY <1>2, <1>4 DEF IntrInv, StacksInv
    <3> HIDE DEF q, s, a
    <3> QED  BY <1>6, <1>9, <2>1, <3>1
  <2>3. Frame(q, 0, regs)
    BY <1>6, <1>7, <1>11, TopFrame
  <2>4. OnTrap(cur, q, 0, w)
    <3>1. CASE regs.eip = "code"
      <4>1. regs = w /\ Len(s) = 0
        BY <1>9, <3>1, NowAt
      <4>2. Len(q) = 0 + Size(w)
        <5>1. Size(w) = 17
          BY <1>11, <4>1 DEF Size
        <5> HIDE DEF q, s, a, w
        <5> QED  BY <2>1, <4>1, <5>1
      <4> QED  BY <2>3, <4>1, <4>2 DEF OnTrap, OwnTrap
    <3>2. KernelFile(regs) => KernelFrame(q, 0, regs.eip)
      <4> HIDE DEF q
      <4>1. KernelFile(regs) => /\ regs.gs = FLAT /\ regs.fs = FLAT /\ regs.es = FLAT
                                /\ regs.ds = FLAT /\ regs.cs = "kernel"
        BY DEF KernelFile, Segments
      <4> QED  BY <1>1, <2>3, <4>1 DEF KernelFrame, Frame
    <3>3. CASE regs.eip = "start_process"
      <4>1. cur \in Procs /\ Len(s) = 0 /\ w = Own(cur) /\ KernelFile(regs)
        BY <1>9, <3>3, NowAt
      <4>2. Len(q) = 0 + 17
        <5> HIDE DEF q, s, a
        <5> QED  BY <1>9, <2>1, <4>1
      <4> QED  BY <3>2, <3>3, <4>1, <4>2 DEF OnTrap, StartTrap
    <3>4. CASE regs.eip = "intr_exit"
      <4>1. cur \in Procs /\ w = Own(cur) /\ KernelFile(regs) /\ OwnTrap(s, 0, w)
        BY <1>1, <3>4, NowAt
      <4>2. Size(w) = 19
        BY <1>2, <4>1 DEF Size, GoodWant, UserFile
      <4>3. Len(s) = 19 /\ Frame(s, 0, w)
        BY <4>1, <4>2 DEF OwnTrap
      <4>4. Len(q) = 0 + 17 + 19
        <5> HIDE DEF q, s, a
        <5> QED  BY <1>9, <2>1, <4>3
      <4>5. Rest(s, q, 17)
        BY <1>2, <1>6, <1>7, <1>11, <2>1, BelowRest
      <4>6. Frame(q, 17, w)
        <5> HIDE DEF q, s, a, w
        <5>1. Len(s) >= 0 + Size(w) /\ 17 + 0 = 17
          BY <4>2, <4>3
        <5>2. Frame(s, 0, w) <=> Frame(q, 17 + 0, w)
          BY <2>1, <4>5, <5>1, ShiftFrame
        <5> QED  BY <4>3, <5>1, <5>2
      <4>7. 0 + 17 = 17
        OBVIOUS
      <4> QED  BY <3>2, <3>4, <4>1, <4>4, <4>6, <4>7 DEF OnTrap, ExitTrap
    <3> QED  BY <1>1, <3>1, <3>3, <3>4
  <2>5. Running(cur, regs', q, w)
    BY <1>8, <2>4 DEF Running
  <2> HIDE DEF q
  <2> QED  BY <1>1, <1>4, <1>5, <2>1, <2>2, <2>5, StackStep
<1> QED  BY <1>10, <1>11

LEMMA InterruptStep ==
  ASSUME IntrInv, NEW l \in Lines, interrupt(l)
  PROVE  IntrInv'
<1>1. irr \subseteq Lines /\ isr \subseteq Lines
  BY InvFacts DEF TablesInv
<1>2. irr' \subseteq Lines /\ isr \cup {l} \in SUBSET Lines /\ regs.eflags
  BY <1>1 DEF interrupt
<1>3. intrXXentry(idt[vector(l)], isr \cup {l})
  BY DEF interrupt
<1> QED  BY <1>2, <1>3, EntryStep

LEMMA SpuriousStep ==
  ASSUME IntrInv, spurious
  PROVE  IntrInv'
<1>1. irr' \subseteq Lines /\ isr \in SUBSET Lines /\ regs.eflags
  BY InvFacts DEF TablesInv, spurious
<1>2. intrXXentry(idt[SPURIOUS], isr)
  BY DEF spurious
<1> QED  BY <1>1, <1>2, EntryStep

\* Two register files restored from the same words are the same.
LEMMA FrameFile ==
  ASSUME NEW s, NEW f, NEW g, IsFile(f), IsFile(g), Frame(s, 0, f), Frame(s, 0, g),
         f.esp = g.esp, f.ss = g.ss
  PROVE  f = g
<1>1. \A r \in Registers : f[r] = g[r]
  <2> SUFFICES ASSUME NEW r \in Registers PROVE f[r] = g[r]
    OBVIOUS
  <2>1. r \in {"eax", "ecx", "edx", "ebx", "ebp", "esi", "edi", "ds", "es", "fs", "gs",
               "eip", "cs", "eflags", "esp", "ss"}
    BY RegisterNames
  <2> QED  BY <2>1 DEF Frame
<1> QED  BY <1>1, SameFile

LEMMA IntrExitStep ==
  ASSUME IntrInv, intr_exit
  PROVE  IntrInv'
<1> DEFINE s == kstack[cur]
           w == want[cur]
           q == SubSeq(s, (IF s[16] = "user" THEN 19 ELSE 17) + 1, Len(s))
<1>1. /\ regs.eip = "intr_exit" /\ KernelFile(regs) /\ OnTrap(cur, s, 0, w)
  BY NowAt DEF intr_exit
<1>2. cur \in Threads /\ IsStack(s) /\ IsFile(w) /\ GoodWant(cur, w)
  BY CurExists, InvFacts
<1>3. w.cs \in {"user", "kernel"}
  BY <1>2 DEF GoodWant, UserFile, KernelFile
<1>4. /\ OwnTrap(s, 0, w) => s[16] = w.cs
      /\ StartTrap(cur, s, 0, w) => s[16] = "kernel"
      /\ ExitTrap(cur, s, 0, w) => s[16] = "kernel"
  <2>1. 0 + 16 = 16
    OBVIOUS
  <2> HIDE DEF s, w
  <2> QED  BY <2>1 DEF OwnTrap, StartTrap, ExitTrap, Frame, KernelFrame
<1>5. s[16] \in {"user", "kernel"}
  BY <1>1, <1>3, <1>4 DEF OnTrap
<1>6. /\ IsFile(regs') /\ Frame(s, 0, regs')
      /\ s[16] = "kernel" => regs'.esp = regs.esp /\ regs'.ss = regs.ss
      /\ kstack' = [kstack EXCEPT ![cur] = q]
  BY <1>2, <1>5, IntrExitFacts DEF IntrInv, StacksInv
<1>7. /\ UNCHANGED <<kthread, setup, esp0, want>> /\ imr' = imr
      /\ irr' \subseteq Lines /\ isr' \subseteq Lines
  BY InvFacts DEF intr_exit, pic, TablesInv
<1>8. Len(s) \in Nat
  BY <1>2, StackSeq
<1>9. ASSUME NEW k \in Nat, k <= Len(s), k = IF s[16] = "user" THEN 19 ELSE 17
      PROVE  IsStack(q) /\ Rest(q, s, k)
  <2>1. q = SubSeq(s, k + 1, Len(s))
    BY <1>9
  <2> HIDE DEF q, s
  <2> QED  BY <1>2, <1>9, <2>1, SubStack
<1>10. CASE OwnTrap(s, 0, w)
  <2>1. Len(s) = Size(w) /\ Frame(s, 0, w) /\ s[16] = w.cs
    <3>1. 0 + Size(w) = Size(w)
      BY DEF Size
    <3> QED  BY <1>4, <1>10, <3>1 DEF OwnTrap
  <2>2. Size(w) \in Nat /\ Size(w) = IF s[16] = "user" THEN 19 ELSE 17
    BY <2>1 DEF Size
  <2>3. IsStack(q) /\ Rest(q, s, Size(w))
    <3> HIDE DEF s, w, q
    <3>1. Size(w) <= Len(s)
      BY <2>1, <2>2
    <3> QED  BY <1>9, <2>2, <3>1
  <2>4. q = <<>>
    <3> HIDE DEF s, w, q
    <3>1. Len(q) = 0
      BY <1>8, <2>1, <2>2, <2>3 DEF Rest
    <3> QED  BY <2>3, <3>1, EmptyStack
  <2>5. regs'.esp = w.esp /\ regs'.ss = w.ss
    <3>1. CASE w.cs = "user"
      <4>1. s[16] = "user"
        BY <2>1, <3>1
      <4>2. regs'.cs = "user"
        <5> HIDE DEF s, w
        <5> QED  BY <1>6, <4>1 DEF Frame
      <4> HIDE DEF s, w
      <4> QED  BY <1>6, <2>1, <3>1, <4>2 DEF Frame
    <3>2. CASE w.cs = "kernel"
      <4>1. cur \notin Procs /\ KernelFile(w)
        BY <1>2, <3>2 DEF GoodWant, UserFile
      <4>2. regs'.esp = regs.esp /\ regs'.ss = regs.ss
        BY <1>6, <2>1, <3>2
      <4> QED  BY <1>1, <4>1, <4>2 DEF KernelFile
    <3> QED  BY <1>3, <3>1, <3>2
  <2>6. regs' = w
    <3> HIDE DEF s, w
    <3> QED  BY <1>2, <1>6, <2>1, <2>5, FrameFile
  <2>7. Running(cur, regs', q, w)
    BY <1>2, <2>4, <2>6 DEF Running, GoodWant
  <2> HIDE DEF q
  <2> QED  BY <1>1, <1>6, <1>7, <2>3, <2>7, StackStep
<1>11. ASSUME NEW function, KernelFrame(s, 0, function)
       PROVE  KernelFile(regs') /\ regs'.eip = function /\ regs'.eflags = TRUE
  <2> HIDE DEF s
  <2>1. /\ s[0 + 10] = FLAT /\ s[0 + 11] = FLAT /\ s[0 + 12] = FLAT /\ s[0 + 13] = FLAT
        /\ s[0 + 15] = function /\ s[0 + 16] = "kernel" /\ s[0 + 17] = TRUE
    BY <1>11 DEF KernelFrame
  <2>2. /\ regs'.gs = FLAT /\ regs'.fs = FLAT /\ regs'.es = FLAT /\ regs'.ds = FLAT
        /\ regs'.eip = function /\ regs'.cs = "kernel" /\ regs'.eflags = TRUE
    BY <1>6, <2>1 DEF Frame
  <2>3. regs'.esp = FLAT /\ regs'.ss = FLAT
    <3>1. s[16] = "kernel"
      BY <2>1
    <3> QED  BY <1>1, <1>6, <3>1 DEF KernelFile
  <2>4. \A r \in Segments \cup {"esp", "ss"} : regs'[r] = FLAT
    BY <2>2, <2>3 DEF Segments
  <2> QED  BY <1>6, <2>2, <2>4 DEF KernelFile
<1>12. CASE StartTrap(cur, s, 0, w)
  <2>1. Len(s) = 17 /\ cur \in Procs /\ w = Own(cur) /\ KernelFrame(s, 0, "start_process")
    <3>1. 0 + 17 = 17
      OBVIOUS
    <3> QED  BY <1>12, <3>1 DEF StartTrap
  <2>2. IsStack(q) /\ Rest(q, s, 17)
    <3>1. s[16] # "user"
      BY <1>4, <1>12
    <3>2. 17 <= Len(s)
      BY <2>1
    <3> QED  BY <1>9, <3>1, <3>2
  <2>3. q = <<>>
    <3> HIDE DEF s, w, q
    <3>1. Len(q) = 0
      BY <2>1, <2>2 DEF Rest
    <3> QED  BY <2>2, <3>1, EmptyStack
  <2>4. KernelFile(regs') /\ regs'.eip = "start_process"
    BY <1>11, <2>1
  <2>5. Running(cur, regs', q, w)
    BY <2>1, <2>3, <2>4 DEF Running
  <2> HIDE DEF q
  <2> QED  BY <1>1, <1>6, <1>7, <2>2, <2>5, StackStep
<1>13. CASE ExitTrap(cur, s, 0, w)
  <2>1. /\ Len(s) = 17 + 19 /\ cur \in Procs /\ w = Own(cur) /\ KernelFrame(s, 0, "intr_exit")
        /\ Frame(s, 17, w)
    <3>1. 0 + 17 + 19 = 17 + 19 /\ 0 + 17 = 17
      OBVIOUS
    <3> QED  BY <1>13, <3>1 DEF ExitTrap
  <2>2. IsStack(q) /\ Rest(q, s, 17)
    <3>1. s[16] # "user"
      BY <1>4, <1>13
    <3>2. 17 <= Len(s)
      BY <2>1
    <3> QED  BY <1>9, <3>1, <3>2
  <2>3. Size(w) = 19
    BY <1>2, <2>1 DEF Size, GoodWant, UserFile
  <2>4. OwnTrap(q, 0, w)
    <3> HIDE DEF s, w, q
    <3>1. Len(q) = 0 + Size(w) /\ 17 + 0 = 17 /\ Len(q) >= 0 + Size(w)
      BY <2>1, <2>2, <2>3 DEF Rest
    <3>2. Frame(q, 0, w) <=> Frame(s, 17 + 0, w)
      BY <1>2, <2>2, <3>1, ShiftFrame
    <3> QED  BY <2>1, <3>1, <3>2 DEF OwnTrap
  <2>5. KernelFile(regs') /\ regs'.eip = "intr_exit"
    BY <1>11, <2>1
  <2>6. Running(cur, regs', q, w)
    BY <2>1, <2>4, <2>5 DEF Running, OnTrap
  <2> HIDE DEF q
  <2> QED  BY <1>1, <1>6, <1>7, <2>2, <2>6, StackStep
<1> QED  BY <1>1, <1>10, <1>12, <1>13 DEF OnTrap

LEMMA ThreadBlockReturnStep ==
  ASSUME IntrInv, thread_block_return
  PROVE  IntrInv'
<1> DEFINE s == kstack[cur]
           w == want[cur]
           q == SubSeq(s, 3, Len(s))
<1>1. /\ regs.eip = "thread_block" /\ KernelFile(regs) /\ OnBlock(cur, s, 0, w, regs)
      /\ regs.eax = JUNK /\ regs.ecx = JUNK /\ regs.edx = JUNK
  BY NowAt DEF thread_block_return
<1>2. cur \in Threads /\ IsStack(s) /\ IsFile(w) /\ GoodWant(cur, w)
  BY CurExists, InvFacts
<1>3. /\ regs' = [regs EXCEPT !.eflags = s[1], !.eip = s[2]]
      /\ kstack' = [kstack EXCEPT ![cur] = q]
  BY DEF thread_block_return
<1>4. /\ UNCHANGED <<kthread, setup, esp0, want>> /\ imr' = imr
      /\ irr' \subseteq Lines /\ isr' \subseteq Lines
  BY InvFacts DEF thread_block_return, pic, TablesInv
<1>5. /\ IsFile(regs') /\ regs'["eflags"] = s[1] /\ regs'["eip"] = s[2]
      /\ \A r \in Registers \ {"eflags", "eip"} : regs'[r] = regs[r]
  <2> HIDE DEF s
  <2> QED  BY <1>1, <1>3 DEF KernelFile, IsFile, Registers
<1>6. Len(s) \in Nat
  BY <1>2, StackSeq
<1>7. Len(s) >= 2 => IsStack(q) /\ Rest(q, s, 2)
  <2>1. 2 + 1 = 3 /\ 2 \in Nat
    OBVIOUS
  <2>2. Len(s) >= 2 => 2 <= Len(s)
    BY <1>6
  <2> HIDE DEF s
  <2> QED  BY <1>2, <2>1, <2>2, SubStack
<1> HIDE DEF q
<1>8. CASE /\ cur \notin Procs /\ Len(s) = 0 + 2
           /\ s[0 + 1] = w.eflags /\ s[0 + 2] = "code"
           /\ regs.ebp = w.ebp /\ regs.ebx = w.ebx /\ regs.edi = w.edi /\ regs.esi = w.esi
           /\ w.eax = JUNK /\ w.ecx = JUNK /\ w.edx = JUNK
  <2>1. KernelFile(w) /\ w.eip = "code"
    BY <1>2, <1>8 DEF GoodWant
  <2>2. s[1] = w.eflags /\ s[2] = "code" /\ Len(s) = 2
    <3> HIDE DEF s, w
    <3> QED  BY <1>8
  <2>3. IsStack(q) /\ q = <<>>
    <3> HIDE DEF s, w
    <3>1. IsStack(q) /\ Len(q) = 0
      BY <1>7, <2>2 DEF Rest
    <3> QED  BY <3>1, EmptyStack
  <2>4. \A r \in Registers : regs'[r] = w[r]
    <3> SUFFICES ASSUME NEW r \in Registers PROVE regs'[r] = w[r]
      OBVIOUS
    <3>1. CASE r \in Segments \cup {"esp", "ss", "cs"}
      <4>1. regs'[r] = regs[r]
        BY <1>5, <3>1 DEF Segments
      <4> QED  BY <1>1, <2>1, <3>1, <4>1 DEF KernelFile
    <3>2. CASE r \in General
      BY <1>1, <1>5, <1>8, <3>2 DEF General, Registers
    <3>3. CASE r = "eip"
      BY <1>5, <2>1, <2>2, <3>3
    <3>4. CASE r = "eflags"
      BY <1>5, <2>2, <3>4
    <3> QED  BY <3>1, <3>2, <3>3, <3>4 DEF Registers
  <2>5. regs' = w
    BY <1>2, <1>5, <2>4, SameFile
  <2>6. Running(cur, regs', q, w)
    BY <2>1, <2>3, <2>5 DEF Running
  <2> QED  BY <1>1, <1>3, <1>4, <2>3, <2>6, StackStep
<1>9. CASE s[0 + 1] = FALSE /\ OnCall(cur, s, 0 + 2, w, s[0 + 2])
  <2>1. s[1] = FALSE /\ OnCall(cur, s, 2, w, s[2])
    <3>1. 0 + 1 = 1 /\ 0 + 2 = 2
      OBVIOUS
    <3> QED  BY <1>9, <3>1
  <2>2. Len(s) = 2 + 3 + 19
    BY <2>1 DEF OnCall
  <2>3. IsStack(q) /\ Rest(q, s, 2)
    <3> HIDE DEF s
    <3>1. Len(s) >= 2
      BY <2>2
    <3> QED  BY <1>7, <3>1
  <2>4. OnCall(cur, q, 0, w, s[2])
    <3> HIDE DEF s, w
    <3>1. 2 + 0 = 2 /\ 2 \in Nat /\ 0 \in Nat
      OBVIOUS
    <3>2. OnCall(cur, q, 0, w, s[2]) <=> OnCall(cur, s, 2 + 0, w, s[2])
      BY <1>2, <2>3, <3>1, ShiftCall
    <3> QED  BY <2>1, <3>1, <3>2
  <2>5. regs'.eflags = FALSE /\ regs'.eip = s[2]
    BY <1>5, <2>1
  <2>6. KernelFile(regs')
    <3>1. \A r \in Segments \cup {"esp", "ss", "cs"} : regs'[r] = regs[r]
      BY <1>5 DEF Segments, Registers
    <3> QED  BY <1>1, <1>5, <2>5, <3>1, KernelFileExcept
  <2>7. Running(cur, regs', q, w)
    <3> HIDE DEF s, w
    <3> QED  BY <2>4, <2>5, <2>6 DEF Running
  <2> QED  BY <1>1, <1>3, <1>4, <2>3, <2>7, StackStep
<1> QED  BY <1>1, <1>8, <1>9 DEF OnBlock

LEMMA SyscallStep ==
  ASSUME IntrInv, NEW nr \in Calls, syscall(nr)
  PROVE  IntrInv'
<1> DEFINE file == syscall1(nr)
           f == syscall_table[nr]
           a == Words(file, <<"ebx", "ecx", "edx">>)
           b == Saved(file, SYSCALL)
           s == a \o b
           v == want[cur]
           w == [v EXCEPT !.eax = <<f, cur, v.ebx>>]
<1>1. /\ cur \in Procs /\ regs = v /\ kstack[cur] = <<>> /\ UserFile(v) /\ v.eip = "code"
      /\ esp0 = cur /\ cur \in Threads
  BY NowAt, InvFacts, CurExists DEF syscall, InCode, GoodWant, IntrInv
<1>2. f \in Syscalls
  BY DEF Syscalls
<1>3. /\ kstack' = [kstack EXCEPT ![cur] = s] /\ cur' = cur
      /\ regs' = [InKernel(regs) EXCEPT !.eflags = FALSE, !.eip = f]
      /\ UNCHANGED <<kthread, setup, esp0>> /\ imr' = imr /\ irr' = irr /\ isr' = isr
  BY <1>1 DEF syscall, Enter, kthread, pic, UserFile
<1>4. want' = [want EXCEPT ![cur] = w]
  BY DEF syscall
<1>5. /\ IsFile(file) /\ file.cs = "user" /\ file.eax = <<nr>>
      /\ \A r \in Registers \ {"eax"} : file[r] = v[r]
  BY <1>1 DEF syscall1, UserFile, IsFile, Registers, General
<1>6. /\ IsFile(w) /\ w.eax = <<f, cur, v.ebx>> /\ \A r \in Registers \ {"eax"} : w[r] = v[r]
  <2> HIDE DEF f
  <2> QED  BY <1>1 DEF UserFile, IsFile, Registers, General
<1>7. UserFile(w) /\ w.eip = "code" /\ w.ebx = v.ebx
  BY <1>1, <1>6 DEF UserFile, Registers, General
<1> HIDE DEF file, w
<1>8. IsStack(a) /\ Len(a) = 3 /\ a[1] = file.ebx
  <2> DEFINE rs == <<"ebx", "ecx", "edx">>
  <2>1. IsStack(rs) /\ Len(rs) = 3 /\ rs[1] = "ebx"
    BY DEF IsStack
  <2> HIDE DEF rs
  <2>2. HasWords(Words(file, rs), file, rs)
    BY <2>1, WordsFacts
  <2>3. a = Words(file, rs)
    BY DEF rs
  <2> HIDE DEF a
  <2> QED  BY <2>1, <2>2, <2>3 DEF HasWords
<1>9. IsStack(b) /\ Len(b) = 19 /\ Frame(b, 0, file)
  <2>1. Size(file) = 19
    BY <1>5 DEF Size
  <2> QED  BY <2>1, SavedFacts
<1> HIDE DEF a, b
<1>10. OnTop(s, a, b) /\ IsStack(s)
  BY <1>8, <1>9, CatStack, Zenon
<1> HIDE DEF s
<1>11. Rest(b, s, 3)
  BY <1>8, <1>9, <1>10, BelowRest
<1>12. Len(s) = 3 + 19 /\ s[1] = v.ebx
  BY <1>5, <1>8, <1>9, <1>10 DEF OnTop, Registers, General
<1>13. Frame(s, 3, file)
  <2>1. Size(file) = 19
    BY <1>5 DEF Size
  <2>2. Len(b) >= 0 + Size(file) /\ 3 + 0 = 3 /\ 3 \in Nat /\ 0 \in Nat
    BY <1>9, <2>1
  <2>3. Frame(b, 0, file) <=> Frame(s, 3 + 0, file)
    BY <1>10, <1>11, <2>2, ShiftFrame
  <2> QED  BY <1>9, <2>2, <2>3
<1>14. file = [w EXCEPT !.eax = s[12]]
  <2>1. s[3 + 9] = file.eax
    BY <1>13 DEF Frame
  <2>2. 3 + 9 = 12
    OBVIOUS
  <2>3. s[12] = file.eax
    BY <2>1, <2>2
  <2> DEFINE g == [w EXCEPT !.eax = s[12]]
  <2>4. IsFile(g) /\ g["eax"] = s[12] /\ \A r \in Registers \ {"eax"} : g[r] = w[r]
    BY <1>6 DEF IsFile, Registers, General
  <2> HIDE DEF g
  <2>5. \A r \in Registers : file[r] = g[r]
    BY <1>5, <1>6, <2>3, <2>4
  <2>6. file = g
    BY <1>5, <2>4, <2>5, SameFile
  <2> QED  BY <2>6 DEF g
<1> HIDE DEF f
<1>15. OnCall(cur, s, 0, w, f)
  <2>1. 0 + 3 + 19 = 3 + 19 /\ 0 + 1 = 1 /\ 0 + 3 = 3 /\ 0 + 3 + 9 = 12
    OBVIOUS
  <2> QED  BY <1>1, <1>2, <1>6, <1>7, <1>12, <1>13, <1>14, <2>1 DEF OnCall
<1>16. Closed(regs', f)
  <2>1. HasFlag(regs)
    BY <1>1 DEF UserFile, HasFlag
  <2> QED  BY <1>3, <2>1, EntryFile
<1>17. Running(cur, regs', s, w)
  BY <1>15, <1>16 DEF Running, Closed
<1>18. GoodWant(cur, w)
  BY <1>1, <1>7 DEF GoodWant
<1>19. KThreadTypeOK' /\ ReadyListInv' /\ panic' = {} /\ status' = status
  BY <1>3, InvFacts DEF kthread, KThreadTypeOK, ReadyListInv
<1>20. TablesInv'
  BY <1>1, <1>3, NowAt, InvFacts, TablesSame DEF TablesInv
<1> QED  BY <1>3, <1>4, <1>10, <1>17, <1>18, <1>19, <1>20, CurStep

LEMMA SyscallReturnStep ==
  ASSUME IntrInv, syscall_return
  PROVE  IntrInv'
<1> DEFINE s == kstack[cur]
           w == want[cur]
           q == SubSeq(s, 4, Len(s))
           result == <<regs.eip, cur, Head(s)>>
           p == [q EXCEPT ![9] = result]
<1>1. regs.eip \in Syscalls
  BY DEF syscall_return, InSyscall, Syscalls
<1>2. /\ KernelFile(regs) /\ OnCall(cur, s, 0, w, regs.eip) /\ regs.eflags = FALSE
      /\ regs.eip # "init_all"
  BY <1>1, NowAt, SyscallNames
<1>3. cur \in Threads /\ IsStack(s) /\ IsFile(w) /\ GoodWant(cur, w)
  BY CurExists, InvFacts
<1>4. /\ cur \in Procs /\ Len(s) = 3 + 19 /\ s[1] = w.ebx /\ w.eax = <<regs.eip, cur, w.ebx>>
      /\ Frame(s, 3, [w EXCEPT !.eax = s[12]])
  <2>1. 0 + 3 + 19 = 3 + 19 /\ 0 + 1 = 1 /\ 0 + 3 = 3 /\ 0 + 3 + 9 = 12
    OBVIOUS
  <2> QED  BY <1>2, <2>1 DEF OnCall
<1>5. kstack' = [kstack EXCEPT ![cur] = p]
  BY <1>3 DEF syscall_return, IntrInv, StacksInv
<1>6. Head(s) = s[1]
  <2>1. s \in Seq({s[i] : i \in 1 .. Len(s)})
    BY <1>3, StackSeq
  <2>2. s # <<>>
    BY <1>4
  <2> HIDE DEF s
  <2> QED  BY <2>1, <2>2, HeadTailProperties
<1>7. result = w.eax
  BY <1>4, <1>6
<1>8. IsStack(q) /\ Rest(q, s, 3)
  <2>1. 3 + 1 = 4 /\ 3 \in Nat
    OBVIOUS
  <2>2. 3 <= Len(s)
    BY <1>4
  <2> HIDE DEF s
  <2> QED  BY <1>3, <2>1, <2>2, SubStack
<1> HIDE DEF q, s, w, result
<1>9. Len(q) = 19 /\ q[9] = s[12]
  <2>1. Len(q) = Len(s) - 3 /\ Len(s) - 3 = 19
    BY <1>4, <1>8 DEF Rest
  <2>2. 9 \in 1 .. Len(s) - 3 /\ 3 + 9 = 12
    BY <1>4
  <2> QED  BY <1>8, <2>1, <2>2 DEF Rest
<1>10. /\ IsStack(p) /\ Len(p) = 19 /\ p[9] = w.eax
       /\ \A i \in 1 .. 19 : i # 9 => p[i] = q[i]
  <2> DEFINE T == {q[i] : i \in 1 .. Len(q)} \cup {result}
  <2>1. q \in [1 .. 19 -> T]
    BY <1>8, <1>9 DEF IsStack
  <2>2. result \in T
    OBVIOUS
  <2> HIDE DEF T
  <2>3. /\ p \in [1 .. 19 -> T] /\ p[9] = result /\ \A i \in 1 .. 19 : i # 9 => p[i] = q[i]
    BY <2>1, <2>2
  <2> HIDE DEF p
  <2>4. p \in Seq(T)
    BY <2>3, SeqDef
  <2>5. Len(p) = 19
    BY <2>3, <2>4, LenProperties
  <2> QED  BY <1>7, <2>3, <2>4, <2>5, SeqStack
<1> HIDE DEF p
<1>11. UserFile(w) /\ Size(w) = 19
  BY <1>3, <1>4 DEF GoodWant, UserFile, Size
<1> DEFINE g == [w EXCEPT !.eax = s[12]]
<1>12. g["cs"] = "user" /\ \A r \in Registers \ {"eax"} : g[r] = w[r]
  BY <1>11 DEF UserFile, IsFile, Registers
<1>13. Frame(s, 3, g)
  BY <1>4
<1> HIDE DEF g
<1>14. Frame(q, 0, g)
  <2>1. Size(g) = 19
    BY <1>12 DEF Size
  <2>2. Len(q) >= 0 + Size(g) /\ 3 + 0 = 3 /\ 3 \in Nat /\ 0 \in Nat
    BY <1>9, <2>1
  <2>3. Frame(q, 0, g) <=> Frame(s, 3 + 0, g)
    BY <1>3, <1>8, <2>2, ShiftFrame
  <2> QED  BY <1>13, <2>2, <2>3
<1>15. Frame(p, 0, w)
  <2>1. /\ p[2] = q[2] /\ p[3] = q[3] /\ p[4] = q[4] /\ p[6] = q[6] /\ p[7] = q[7] /\ p[8] = q[8]
        /\ p[10] = q[10] /\ p[11] = q[11] /\ p[12] = q[12] /\ p[13] = q[13] /\ p[15] = q[15]
        /\ p[16] = q[16] /\ p[17] = q[17] /\ p[18] = q[18] /\ p[19] = q[19]
    BY <1>10
  <2>2. /\ g.edi = w.edi /\ g.esi = w.esi /\ g.ebp = w.ebp /\ g.ebx = w.ebx /\ g.edx = w.edx
        /\ g.ecx = w.ecx /\ g.gs = w.gs /\ g.fs = w.fs /\ g.es = w.es /\ g.ds = w.ds
        /\ g.eip = w.eip /\ g.cs = w.cs /\ g.eflags = w.eflags /\ g.esp = w.esp /\ g.ss = w.ss
        /\ g.cs = "user"
    BY <1>12, RegisterNames
  <2> QED  BY <1>10, <1>14, <2>1, <2>2 DEF Frame
<1>16. OwnTrap(p, 0, w)
  <2>1. 0 + 19 = 19
    OBVIOUS
  <2> QED  BY <1>10, <1>11, <1>15, <2>1 DEF OwnTrap
<1>17. KernelFile(regs') /\ regs'.eip = "intr_exit" /\ regs'.eflags = FALSE
  BY <1>2, ReturnFacts DEF syscall_return
<1>18. Running(cur, regs', p, w)
  BY <1>16, <1>17 DEF Running, OnTrap
<1>19. /\ UNCHANGED <<kthread, setup, esp0, want>> /\ imr' = imr
       /\ irr' \subseteq Lines /\ isr' \subseteq Lines
  BY InvFacts DEF syscall_return, pic, TablesInv
<1>20. Running(cur, regs', p, want[cur])
  BY <1>18 DEF w
<1> QED  BY <1>2, <1>5, <1>10, <1>19, <1>20, StackStep

(***************************************************************************)
(* schedule with switch_to, for the timer's handler and for thread_block.  *)
(***************************************************************************)
LEMMA SwitchStep ==
  ASSUME IntrInv, KThreadTypeOK', ReadyListInv', panic' = {}, TablesInv',
         \A t \in Threads : status'[t] = NOT_CREATED <=> status[t] = NOT_CREATED,
         NEW stat, NEW below, NEW return, switch_to(stat, below, return), KernelFile(regs),
         NEW left, left = <<regs.ebp, regs.ebx, regs.edi, regs.esi, return>> \o below,
         IsStack(left),
         NEW w, GoodWant(cur, w), want' = [want EXCEPT ![cur] = w], Parked(cur, left, w)
  PROVE  IntrInv'
<1>1. PICK n : n = cur'
  OBVIOUS
<1>2. cur \in Threads /\ status[cur] # NOT_CREATED
  BY CurExists
<1>3. n \in Threads /\ status'[n] # NOT_CREATED /\ status[n] # NOT_CREATED
  BY <1>1 DEF KThreadTypeOK, ReadyListInv, TASK_RUNNING, NOT_CREATED
<1> DEFINE next == IF n = cur THEN left ELSE kstack[n]
           q == SubSeq(next, 6, Len(next))
<1>4. /\ kstack' = [kstack EXCEPT ![cur] = left, ![n] = q]
      /\ regs' = [Clobbered(regs) EXCEPT !.ebp = next[1], !.ebx = next[2],
                                         !.edi = next[3], !.esi = next[4],
                                         !.eip = next[5], !.eflags = FALSE]
      /\ n \in Procs => esp0' = n
      /\ n \notin Procs => esp0' = esp0
  BY <1>1 DEF switch_to, update_tss_esp
<1>5. /\ want' = [t \in Threads |-> want'[t]] /\ want'[cur] = w
      /\ \A t \in Threads : t # cur => want'[t] = want[t]
  BY <1>2 DEF IntrInv, StacksInv
<1>6. WantInv'
  <2> SUFFICES ASSUME NEW t \in Threads
               PROVE  GoodWant(t, want'[t]) /\ (status'[t] = NOT_CREATED => want'[t] = Own(t))
    BY DEF WantInv, GoodWant
  <2>1. CASE t = cur
    BY <1>2, <1>5, <2>1
  <2>2. CASE t # cur
    BY <1>5, <2>2 DEF IntrInv, WantInv, GoodWant
  <2> QED  BY <2>1, <2>2
<1>7. IsStack(next) /\ Parked(n, next, want'[n]) /\ IsFile(want'[n])
  <2>1. IsFile(want'[n])
    BY <1>3, <1>6 DEF WantInv, UserFile, KernelFile
  <2>2. CASE n = cur
    BY <1>5, <2>1, <2>2
  <2>3. CASE n # cur
    BY <1>3, <1>5, <2>1, <2>3 DEF IntrInv, StacksInv
  <2> QED  BY <2>2, <2>3
<1> HIDE DEF next
<1>8. IsStack(q) /\ Rest(q, next, 5)
  <2>1. Len(next) \in Nat /\ Len(next) >= 5
    BY <1>7, ParkedFacts
  <2>2. 5 + 1 = 6 /\ 5 \in Nat /\ 5 <= Len(next)
    BY <2>1
  <2> QED  BY <1>7, <2>2, SubStack
<1> HIDE DEF q
<1>9. /\ KernelFile(regs') /\ regs'.eflags = FALSE
      /\ regs'.eax = JUNK /\ regs'.ecx = JUNK /\ regs'.edx = JUNK
      /\ regs'.ebp = next[1] /\ regs'.ebx = next[2] /\ regs'.edi = next[3]
      /\ regs'.esi = next[4] /\ regs'.eip = next[5]
  <2> DEFINE h == Clobbered(regs)
  <2>1. /\ IsFile(h) /\ h.eax = JUNK /\ h.ecx = JUNK /\ h.edx = JUNK
        /\ \A r \in Registers \ {"eax", "ecx", "edx"} : h[r] = regs[r]
    BY ClobberedFacts DEF KernelFile
  <2>2. regs' = [h EXCEPT !.ebp = next[1], !.ebx = next[2], !.edi = next[3], !.esi = next[4],
                          !.eip = next[5], !.eflags = FALSE]
    BY <1>4
  <2> HIDE DEF h
  <2>3. /\ IsFile(regs') /\ regs'.eflags = FALSE
        /\ regs'.ebp = next[1] /\ regs'.ebx = next[2] /\ regs'.edi = next[3]
        /\ regs'.esi = next[4] /\ regs'.eip = next[5]
        /\ \A r \in Registers \ {"ebp", "ebx", "edi", "esi", "eip", "eflags"} : regs'[r] = h[r]
    BY <2>1, <2>2 DEF IsFile, Registers, General
  <2>4. /\ regs'.eax = JUNK /\ regs'.ecx = JUNK /\ regs'.edx = JUNK
        /\ \A r \in Segments \cup {"esp", "ss", "cs"} : regs'[r] = regs[r]
    BY <2>1, <2>3 DEF Registers, General, Segments
  <2>5. KernelFile(regs')
    BY <2>3, <2>4, KernelFileExcept
  <2> QED  BY <2>3, <2>4, <2>5
<1>10. Running(n, regs', q, want'[n])
  BY <1>7, <1>8, <1>9, Resume
<1>11. /\ kstack' = [t \in Threads |-> kstack'[t]]
       /\ \A t \in Threads : kstack'[t] = IF t = n THEN q ELSE IF t = cur THEN left ELSE kstack[t]
  BY <1>2, <1>3, <1>4 DEF IntrInv, StacksInv
<1>12. StacksInv'
  <2> SUFFICES ASSUME NEW t \in Threads
               PROVE  /\ IsStack(kstack'[t])
                      /\ status'[t] = NOT_CREATED => kstack'[t] = <<>>
                      /\ status'[t] # NOT_CREATED /\ t # cur' => Parked(t, kstack'[t], want'[t])
    BY <1>5, <1>11 DEF StacksInv
  <2>1. CASE t = n
    BY <1>1, <1>3, <1>8, <1>11, <2>1
  <2>2. CASE t # n /\ t = cur
    BY <1>2, <1>5, <1>11, <2>2
  <2>3. CASE t # n /\ t # cur
    BY <1>5, <1>11, <2>3 DEF IntrInv, StacksInv
  <2> QED  BY <2>1, <2>2, <2>3
<1>13. kstack'[n] = q
  BY <1>3, <1>11
<1>14. (n \in Procs => esp0' = n) /\ esp0' \in Threads \cup {JUNK}
  BY <1>3, <1>4 DEF IntrInv
<1> QED  BY <1>1, <1>6, <1>10, <1>12, <1>13, <1>14 DEF IntrInv

LEMMA TimerStep ==
  ASSUME IntrInv, intr_timer_handler
  PROVE  IntrInv'
<1>1. regs.eip = "handler" /\ UNCHANGED <<setup, pic, want>>
  BY DEF intr_timer_handler, Handling
<1>2. timer_asserts = {} /\ intr_off_asserts(regs.eflags) = {} /\ panic = {}
  <2>1. status[cur] # NOT_CREATED /\ panic = {}
    BY CurExists, InvFacts
  <2>2. todo = <<>> /\ regs.eflags = FALSE
    BY <1>1, NowAt
  <2>3. "thread_init" \notin Range(todo)
    BY <2>2, EmptyRange
  <2> QED  BY <2>1, <2>2, <2>3 DEF timer_asserts, intr_off_asserts, stack_magic, Failing
<1>3. CASE Return("intr_exit") /\ panic' = timer_asserts /\ UNCHANGED <<cur, ready, status>>
  BY <1>1, <1>2, <1>3, HandlerReturn DEF kthread
<1>4. CASE /\ switch_to(TASK_RUNNING, kstack[cur], "intr_exit")
           /\ panic' = timer_asserts \cup intr_off_asserts(regs.eflags)
                                     \cup schedule_asserts(TASK_RUNNING)
  <2> DEFINE s == kstack[cur]
             w == want[cur]
             a == <<regs.ebp, regs.ebx, regs.edi, regs.esi, "intr_exit">>
             left == a \o s
  <2>1. KernelFile(regs) /\ OnTrap(cur, s, 0, w) /\ todo = <<>>
    BY <1>1, NowAt
  <2>2. IsStack(s) /\ GoodWant(cur, w) /\ want' = [want EXCEPT ![cur] = w]
    BY <1>1, CurExists, InvFacts
  <2>3. /\ KThreadTypeOK' /\ ReadyListInv' /\ panic' = {}
        /\ \A t \in Threads : status'[t] = NOT_CREATED <=> status[t] = NOT_CREATED
    <3>1. schedule(TASK_RUNNING) /\ panic' = schedule_asserts(TASK_RUNNING)
      BY <1>2, <1>4 DEF switch_to
    <3> QED  BY <3>1, InvFacts, ScheduleFacts
  <2>4. TablesInv'
    BY <1>1, <2>1, InvFacts, TablesSame DEF TablesInv, pic
  <2>5. IsStack(a) /\ Len(a) = 5 /\ a[5] = "intr_exit"
    BY DEF IsStack
  <2>6. left = <<regs.ebp, regs.ebx, regs.edi, regs.esi, "intr_exit">> \o kstack[cur]
    OBVIOUS
  <2> HIDE DEF a, s, w
  <2>7. IsStack(left) /\ OnTop(left, a, s)
    BY <2>2, <2>5, CatStack, Zenon
  <2> HIDE DEF left
  <2>8. Rest(s, left, 5)
    BY <2>2, <2>5, <2>7, BelowRest
  <2>9. left[5] = "intr_exit"
    BY <2>5, <2>7 DEF OnTop
  <2>10. OnTrap(cur, left, 5, w)
    <3>1. 5 \in Nat
      OBVIOUS
    <3> QED  BY <2>1, <2>7, <2>8, <3>1, ShiftTrap
  <2>11. Parked(cur, left, w)
    BY <2>9, <2>10 DEF Parked
  <2> QED  BY <1>4, <2>1, <2>2, <2>3, <2>4, <2>6, <2>7, <2>11, SwitchStep
<1> QED  BY <1>3, <1>4 DEF intr_timer_handler

LEMMA BlockStep ==
  ASSUME IntrInv, block
  PROVE  IntrInv'
<1> DEFINE s == kstack[cur]
           v == want[cur]
           w == IF InCode THEN Clobbered(v) ELSE v
           b == <<regs.eflags, regs.eip>>
           below == b \o s
           a == <<regs.ebp, regs.ebx, regs.edi, regs.esi, "thread_block">>
           left == a \o below
<1>1. /\ switch_to(TASK_BLOCKED, below, "thread_block") /\ ready # <<>>
      /\ panic' = thread_block_asserts
      /\ UNCHANGED <<setup, pic>> /\ KernelCode
      /\ left = <<regs.ebp, regs.ebx, regs.edi, regs.esi, "thread_block">> \o below
  BY DEF block
<1>2. cur \in Threads /\ IsStack(s) /\ IsFile(v) /\ GoodWant(cur, v)
  BY CurExists, InvFacts
<1>3. want' = [want EXCEPT ![cur] = w]
  BY InvFacts DEF block
<1>4. /\ KThreadTypeOK' /\ ReadyListInv' /\ panic' = {}
      /\ \A t \in Threads : status'[t] = NOT_CREATED <=> status[t] = NOT_CREATED
  BY <1>1, InvFacts, ThreadBlockFacts DEF switch_to, thread_block
<1>5. regs.eip # "init_all" /\ (InCode \/ regs.eip \in Syscalls)
  BY <1>1, SyscallNames DEF KernelCode, InCode, InSyscall, Syscalls
<1>6. TablesInv'
  BY <1>1, <1>5, NowAt, InvFacts, TablesSame DEF TablesInv, pic
<1>7. IsStack(a) /\ Len(a) = 5 /\ a[1] = regs.ebp /\ a[2] = regs.ebx /\ a[3] = regs.edi
      /\ a[4] = regs.esi /\ a[5] = "thread_block"
  BY DEF IsStack
<1>8. IsStack(b) /\ Len(b) = 2 /\ b[1] = regs["eflags"] /\ b[2] = regs.eip
  BY DEF IsStack
<1> HIDE DEF a, b
<1>9. IsStack(below) /\ OnTop(below, b, s)
  BY <1>2, <1>8, CatStack, Zenon
<1> HIDE DEF below
<1>10. IsStack(left) /\ OnTop(left, a, below)
  BY <1>7, <1>9, CatStack, Zenon
<1> HIDE DEF left
<1>11. Rest(below, left, 5) /\ Rest(s, below, 2)
  BY <1>2, <1>7, <1>8, <1>9, <1>10, BelowRest
<1>12. /\ left[1] = regs.ebp /\ left[2] = regs.ebx /\ left[3] = regs.edi
       /\ left[4] = regs.esi /\ left[5] = "thread_block"
  BY <1>7, <1>10 DEF OnTop
<1>13. /\ below[1] = regs["eflags"] /\ below[2] = regs.eip /\ Len(below) = 2 + Len(s)
  BY <1>8, <1>9 DEF OnTop
<1> DEFINE file == [ebp |-> left[1], ebx |-> left[2], edi |-> left[3], esi |-> left[4]]
<1>14. /\ file.ebp = regs.ebp /\ file.ebx = regs.ebx /\ file.edi = regs.edi /\ file.esi = regs.esi
  BY <1>12
<1> HIDE DEF file
<1>15. /\ IsFile(w) /\ GoodWant(cur, w) /\ KernelFile(regs)
       /\ OnBlock(cur, below, 0, w, file)
  <2>1. CASE InCode
    <3>1. regs = v /\ s = <<>> /\ cur \notin Procs
      BY <1>1, <2>1, NowAt, SyscallNames DEF InCode, KernelCode, InSyscall, Syscalls
    <3>2. KernelFile(v) /\ v.eip = "code"
      BY <1>2, <3>1 DEF GoodWant
    <3>3. /\ IsFile(w) /\ w.eax = JUNK /\ w.ecx = JUNK /\ w.edx = JUNK
          /\ \A r \in Registers \ {"eax", "ecx", "edx"} : w[r] = v[r]
      BY <1>2, <2>1, ClobberedFacts
    <3> HIDE DEF w
    <3>4. /\ w["eflags"] = v["eflags"] /\ w.eip = v.eip /\ w.ebp = v.ebp /\ w.ebx = v.ebx
          /\ w.edi = v.edi /\ w.esi = v.esi
          /\ \A r \in Segments \cup {"esp", "ss", "cs"} : w[r] = v[r]
      BY <3>3 DEF Registers, General, Segments
    <3>5. KernelFile(w)
      <4>1. w.eflags \in BOOLEAN
        BY <3>2, <3>4 DEF KernelFile
      <4> QED  BY <3>2, <3>3, <3>4, <4>1, KernelFileExcept
    <3>6. Len(s) = 0
      BY <3>1
    <3>7. /\ Len(below) = 0 + 2 /\ below[0 + 1] = w["eflags"] /\ below[0 + 2] = "code"
      <4> HIDE DEF s, v
      <4>1. below[1] = w["eflags"] /\ below[2] = "code"
        BY <1>13, <3>1, <3>2, <3>4
      <4> QED  BY <1>13, <3>6, <4>1
    <3>8. OnBlock(cur, below, 0, w, file)
      BY <1>14, <3>1, <3>3, <3>4, <3>7 DEF OnBlock
    <3> QED  BY <3>1, <3>2, <3>3, <3>4, <3>5, <3>8 DEF GoodWant
  <2>2. CASE ~InCode
    <3>1. /\ w = v /\ regs.eip \in Syscalls /\ KernelFile(regs)
          /\ regs["eflags"] = FALSE /\ OnCall(cur, s, 0, w, regs.eip)
      BY <1>5, <2>2, NowAt DEF InCode
    <3> HIDE DEF w, s
    <3>2. OnCall(cur, below, 2, w, regs.eip)
      <4>1. 2 + 0 = 2 /\ 2 \in Nat /\ 0 \in Nat
        OBVIOUS
      <4>2. IsFile(w)
        BY <1>2, <3>1
      <4>3. OnCall(cur, s, 0, w, regs.eip) <=> OnCall(cur, below, 2 + 0, w, regs.eip)
        BY <1>9, <1>11, <4>1, <4>2, ShiftCall
      <4> QED  BY <3>1, <4>1, <4>3
    <3>3. below[0 + 1] = FALSE /\ below[0 + 2] = regs.eip /\ 0 + 2 = 2
      BY <1>13, <3>1
    <3>4. OnBlock(cur, below, 0, w, file)
      BY <3>2, <3>3 DEF OnBlock
    <3> QED  BY <1>2, <3>1, <3>4
  <2> QED  BY <2>1, <2>2
<1> HIDE DEF w
<1>16. OnBlock(cur, left, 5, w, file)
  <2>1. 5 \in Nat
    OBVIOUS
  <2> QED  BY <1>10, <1>11, <1>15, <2>1, ShiftBlock
<1>17. Parked(cur, left, w)
  BY <1>12, <1>16 DEF Parked, file
<1> QED  BY <1>1, <1>3, <1>4, <1>6, <1>10, <1>15, <1>17, SwitchStep

LEMMA VectorFacts ==
  /\ \A l \in Lines : /\ vector(l) \in Vectors /\ vector(l) # SYSCALL
                       /\ intr_entry_table(vector(l)) = vector(l)
  /\ vector(0) \in Vectors /\ vector(1) \in Vectors /\ vector(0) # vector(1)
BY InterruptsAssumption DEF vector, Vectors, SYSCALL, intr_entry_table

LEMMA InitStep ==
  ASSUME IntrInv, init_step
  PROVE  IntrInv'
<1> DEFINE n == Len(todo)
           Handlers == {"none", "general_intr_handler", "intr_timer_handler",
                        "intr_keyboard_handler"}
<1>1. /\ IsStack(todo) /\ n <= 8 /\ regs.eip = "init_all" /\ Len(init_all) = 8
      /\ \A i \in 1 .. n : todo[i] = init_all[8 - n + i]
  <2>1. Len(init_all) = 8
    BY DEF init_all
  <2> QED  BY <2>1, InvFacts DEF TablesInv, init_step
<1>2. /\ n \in 1 .. 8 /\ Head(todo) = todo[1] /\ IsStack(todo') /\ Len(todo') = n - 1
      /\ \A i \in 1 .. n - 1 : todo'[i] = todo[i + 1]
  <2> DEFINE T == {todo[i] : i \in 1 .. n}
  <2>1. todo \in Seq(T) /\ todo # <<>> /\ todo' = Tail(todo) /\ n \in Nat
    BY <1>1, StackSeq DEF init_step
  <2> HIDE DEF T
  <2>2. n # 0
    BY <2>1, EmptySeq
  <2>3. /\ Head(todo) = todo[1] /\ todo' \in Seq(T) /\ Len(todo') = n - 1
        /\ \A i \in 1 .. n - 1 : todo'[i] = todo[i + 1]
    BY <2>1, HeadTailProperties
  <2>4. IsStack(todo')
    BY <2>3, SeqStack
  <2> HIDE DEF n
  <2> QED  BY <1>1, <2>1, <2>2, <2>3, <2>4
<1> HIDE DEF n
<1>3. \A i \in 1 .. n - 1 : todo'[i] = init_all[8 - (n - 1) + i]
  <2> SUFFICES ASSUME NEW i \in 1 .. n - 1 PROVE todo'[i] = init_all[8 - (n - 1) + i]
    OBVIOUS
  <2>1. i + 1 \in 1 .. n /\ 8 - n + (i + 1) = 8 - (n - 1) + i
    BY <1>2
  <2> QED  BY <1>1, <1>2, <2>1
<1>4. /\ Head(todo) = init_all[8 - n + 1]
      /\ 1 <= n /\ n - 1 <= 8
  BY <1>1, <1>2
<1>5. /\ n = 8 => Head(todo) = "idt_init"
      /\ n = 5 => Head(todo) = "timer_init"
      /\ n = 3 => Head(todo) = "keyboard_init"
      /\ n \in {7, 6, 4, 2, 1} =>
           Head(todo) \notin {"idt_init", "timer_init", "keyboard_init"}
  <2>1. /\ init_all[1] = "idt_init" /\ init_all[2] = "mem_init" /\ init_all[3] = "thread_init"
        /\ init_all[4] = "timer_init" /\ init_all[5] = "console_init"
        /\ init_all[6] = "keyboard_init" /\ init_all[7] = "tss_init"
        /\ init_all[8] = "syscall_init"
    BY DEF init_all
  <2>2. /\ (n = 8 => 8 - n + 1 = 1) /\ (n = 7 => 8 - n + 1 = 2) /\ (n = 6 => 8 - n + 1 = 3)
        /\ (n = 5 => 8 - n + 1 = 4) /\ (n = 4 => 8 - n + 1 = 5) /\ (n = 3 => 8 - n + 1 = 6)
        /\ (n = 2 => 8 - n + 1 = 7) /\ (n = 1 => 8 - n + 1 = 8)
    OBVIOUS
  <2>3. /\ (n = 8 => Head(todo) = "idt_init") /\ (n = 7 => Head(todo) = "mem_init")
        /\ (n = 6 => Head(todo) = "thread_init") /\ (n = 5 => Head(todo) = "timer_init")
        /\ (n = 4 => Head(todo) = "console_init") /\ (n = 3 => Head(todo) = "keyboard_init")
        /\ (n = 2 => Head(todo) = "tss_init") /\ (n = 1 => Head(todo) = "syscall_init")
    BY <1>4, <2>1, <2>2
  <2> QED  BY <2>3
<1>6. /\ idt_table \in [Vectors -> Handlers]
      /\ irr \subseteq Lines /\ isr \subseteq Lines /\ imr \subseteq Lines
      /\ n <= 7 => imr = Lines \ {0, 1} /\ \A l \in Lines : idt[vector(l)] = vector(l)
      /\ n <= 4 => idt_table[vector(0)] = "intr_timer_handler"
      /\ n <= 2 => idt_table[vector(1)] = "intr_keyboard_handler"
  <2>1. /\ InitDone(1) <=> n <= 7
        /\ InitDone(4) <=> n <= 4
        /\ InitDone(6) <=> n <= 2
    BY <1>1, <1>2 DEF InitDone, n
  <2> QED  BY <2>1, InvFacts DEF TablesInv
<1>7. /\ idt_table' \in [Vectors -> Handlers]
      /\ irr' \subseteq Lines /\ isr' \subseteq Lines /\ imr' \subseteq Lines
      /\ imr' = Lines \ {0, 1} /\ \A l \in Lines : idt'[vector(l)] = vector(l)
      /\ n - 1 <= 4 => idt_table'[vector(0)] = "intr_timer_handler"
      /\ n - 1 <= 2 => idt_table'[vector(1)] = "intr_keyboard_handler"
  <2>1. CASE n = 8
    <3>1. idt_init
      BY <1>5, <2>1 DEF init_step
    <3>2. ~(n - 1 <= 4) /\ ~(n - 1 <= 2)
      BY <2>1
    <3> QED  BY <3>1, <3>2, VectorFacts DEF idt_init, idt_desc_init, exception_init, pic_init
  <2>2. CASE n = 5
    <3>1. timer_init
      BY <1>5, <2>2 DEF init_step
    <3>2. ~(n - 1 <= 2) /\ n <= 7
      BY <2>2
    <3>3. /\ idt_table' = [idt_table EXCEPT ![vector(0)] = "intr_timer_handler"]
          /\ idt' = idt /\ irr' = irr /\ isr' = isr /\ imr' = imr
      BY <3>1 DEF timer_init, register_handler, pic
    <3> QED  BY <1>6, <3>2, <3>3, VectorFacts
  <2>3. CASE n = 3
    <3>1. keyboard_init
      BY <1>5, <2>3 DEF init_step
    <3>2. n <= 4 /\ n <= 7
      BY <2>3
    <3>3. /\ idt_table' = [idt_table EXCEPT ![vector(1)] = "intr_keyboard_handler"]
          /\ idt' = idt /\ irr' = irr /\ isr' = isr /\ imr' = imr
      BY <3>1 DEF keyboard_init, register_handler, pic
    <3> QED  BY <1>6, <3>2, <3>3, VectorFacts
  <2>4. CASE n \in {7, 6, 4, 2, 1}
    <3>1. UNCHANGED <<idt, idt_table, irr, isr, imr>>
      BY <1>5, <2>4 DEF init_step, pic
    <3>2. n <= 7 /\ (n - 1 <= 4 => n <= 4 \/ n = 5) /\ (n - 1 <= 2 => n <= 2 \/ n = 3)
      BY <2>4
    <3>3. n # 5 /\ n # 3
      BY <2>4
    <3>4. (n - 1 <= 4 => n <= 4) /\ (n - 1 <= 2 => n <= 2)
      BY <3>2, <3>3
    <3> QED  BY <1>6, <3>1, <3>2, <3>4
  <2>5. n = 8 \/ n = 5 \/ n = 3 \/ n \in {7, 6, 4, 2, 1}
    BY <1>2
  <2> QED  BY <2>1, <2>2, <2>3, <2>4, <2>5
<1>8. regs' = regs /\ kstack' = kstack /\ esp0' = esp0 /\ want' = want /\ UNCHANGED kthread
  BY DEF init_step, cpu
<1>9. TablesInv'
  <2>1. /\ InitDone(1)' => TRUE
        /\ InitDone(4)' => n - 1 <= 4
        /\ InitDone(6)' => n - 1 <= 2
    BY <1>1, <1>2 DEF InitDone
  <2>2. regs'.eip = "init_all"
    BY <1>1, <1>8
  <2>3. \A i \in 1 .. Len(todo') : todo'[i] = init_all[Len(init_all) - Len(todo') + i]
    BY <1>1, <1>2, <1>3
  <2>4. Len(todo') <= Len(init_all)
    BY <1>1, <1>2, <1>4
  <2> QED  BY <1>2, <1>7, <2>1, <2>2, <2>3, <2>4 DEF TablesInv
<1>10. KThreadTypeOK' /\ ReadyListInv' /\ panic' = {} /\ cur' = cur /\ status' = status
  BY <1>8, InvFacts DEF kthread, KThreadTypeOK, ReadyListInv
<1>11. WantInv' /\ StacksInv'
  BY <1>8, <1>10 DEF IntrInv, WantInv, StacksInv
<1> QED  BY <1>8, <1>9, <1>10, <1>11 DEF IntrInv

LEMMA IntrInit ==
  ASSUME Init
  PROVE  IntrInv
<1> USE DEF TASK_RUNNING, TASK_READY, TASK_BLOCKED, NOT_CREATED
<1>1. main \in Threads /\ cur = main
  BY InterruptsAssumption DEF Init
<1>2. KThreadTypeOK
  BY <1>1 DEF Init, KThreadTypeOK, Status
<1>3. ReadyListInv
  BY <1>1, EmptyRange DEF Init, ReadyListInv
<1>4. TablesInv
  <2>1. todo = init_all /\ Len(init_all) = 8 /\ IsStack(init_all) /\ Len(todo) = 8
    BY DEF Init, init_all, IsStack
  <2>2. \A i \in 1 .. Len(todo) : todo[i] = init_all[Len(init_all) - Len(todo) + i]
    <3> SUFFICES ASSUME NEW i \in 1 .. 8 PROVE init_all[i] = init_all[8 - 8 + i]
      BY <2>1
    <3>1. 8 - 8 + i = i
      OBVIOUS
    <3> QED  BY <3>1
  <2>3. ~InitDone(1) /\ ~InitDone(4) /\ ~InitDone(6)
    BY <2>1 DEF InitDone
  <2>4. regs.eip = "init_all"
    BY DEF Init, Own, InKernel, Registers
  <2>5. Len(todo) <= Len(init_all)
    BY <2>1
  <2> QED  BY <2>1, <2>2, <2>3, <2>4, <2>5 DEF Init, TablesInv
<1>5. WantInv
  BY OwnFacts DEF Init, WantInv
<1>6. IsStack(<<>>)
  BY DEF IsStack
<1>7. StacksInv
  BY <1>1, <1>6 DEF Init, StacksInv
<1>8. main \notin Procs /\ KernelFile(Own(main))
  BY <1>1, InterruptsAssumption, OwnFacts
<1>9. KernelFile(regs) /\ regs.eip = "init_all" /\ regs.eflags = FALSE
  <2> DEFINE o == Own(main)
  <2>1. regs = [o EXCEPT !.eip = "init_all", !.eflags = FALSE] /\ KernelFile(o)
    BY <1>8 DEF Init
  <2> HIDE DEF o
  <2>2. /\ IsFile(regs) /\ regs.eflags = FALSE /\ regs.eip = "init_all"
        /\ \A r \in Segments \cup {"esp", "ss", "cs"} : regs[r] = o[r]
    BY <2>1 DEF KernelFile, IsFile, Registers, Segments
  <2> QED  BY <2>1, <2>2, KernelFileExcept
<1>10. kstack[cur] = <<>> /\ want[cur] = Own(cur) /\ esp0 = JUNK /\ panic = {}
  BY <1>1 DEF Init
<1>11. Running(cur, regs, kstack[cur], want[cur])
  BY <1>1, <1>9, <1>10 DEF Running
<1> QED  BY <1>1, <1>2, <1>3, <1>4, <1>5, <1>7, <1>8, <1>10, <1>11 DEF IntrInv

LEMMA IntrNext ==
  ASSUME IntrInv, Next
  PROVE  IntrInv'
<1>1. CASE init_step
  BY <1>1, InitStep
<1>2. CASE main_enable
  BY <1>2, MainEnableStep
<1>3. CASE kernel_thread
  BY <1>3, KernelThreadStep
<1>4. CASE start_process
  BY <1>4, StartProcessStep
<1>5. CASE intr_timer_handler
  BY <1>5, TimerStep
<1>6. CASE intr_keyboard_handler
  BY <1>6, HandlerReturn DEF intr_keyboard_handler, Handling
<1>7. CASE general_intr_handler
  BY <1>7, HandlerReturn DEF general_intr_handler, Handling
<1>8. CASE intr_exit
  BY <1>8, IntrExitStep
<1>9. CASE thread_block_return
  BY <1>9, ThreadBlockReturnStep
<1>10. CASE \E t \in Threads : thread_start(t)
  BY <1>10, ThreadStartStep
<1>11. CASE \E l \in Lines : Raise(l) \/ interrupt(l)
  BY <1>11, RaiseStep, InterruptStep
<1>12. CASE spurious
  BY <1>12, SpuriousStep
<1>13. CASE \E nr \in Calls : syscall(nr)
  BY <1>13, SyscallStep
<1>14. CASE syscall_return
  BY <1>14, SyscallReturnStep
<1>15. CASE block
  BY <1>15, BlockStep
<1>16. CASE wake
  BY <1>16, WakeStep
<1>17. CASE intr_disable
  BY <1>17, SetFlagStep DEF intr_disable
<1>18. CASE intr_enable
  BY <1>18, SetFlagStep DEF intr_enable
<1> QED  BY <1>1, <1>2, <1>3, <1>4, <1>5, <1>6, <1>7, <1>8, <1>9, <1>10, <1>11, <1>12, <1>13,
            <1>14, <1>15, <1>16, <1>17, <1>18 DEF Next, Locked

LEMMA IntrStutter ==
  ASSUME IntrInv, UNCHANGED ivars
  PROVE  IntrInv'
<1>1. /\ UNCHANGED <<cur, ready, status, panic>> /\ UNCHANGED <<todo, idt, idt_table>>
      /\ UNCHANGED <<irr, isr, imr>> /\ UNCHANGED <<regs, kstack, esp0, want>>
  BY DEF ivars, kthread, setup, pic, cpu
<1>2. KThreadTypeOK' /\ ReadyListInv' /\ panic' = {}
  BY <1>1, InvFacts DEF KThreadTypeOK, ReadyListInv
<1>3. TablesInv'
  BY <1>1, InvFacts, TablesSame DEF TablesInv, setup
<1>4. WantInv' /\ StacksInv'
  BY <1>1 DEF IntrInv, WantInv, StacksInv
<1> QED  BY <1>1, <1>2, <1>3, <1>4 DEF IntrInv

-----------------------------------------------------------------------------

(***************************************************************************)
(* The stack of every thread is always one of those that the entries of    *)
(* kernel.S, switch_to, thread_create and start_process leave, and holds   *)
(* what the code of the thread expects: IntrInv is inductive.              *)
(***************************************************************************)
THEOREM IntrInvariance == Spec => []IntrInv
<1>1. Init => IntrInv
  BY IntrInit
<1>2. IntrInv /\ [Next]_ivars => IntrInv'
  BY IntrNext, IntrStutter
<1> QED  BY <1>1, <1>2, PTL DEF Spec

(***************************************************************************)
(* Type correctness of the CPU, the controller and the threads, whatever   *)
(* interrupts come: no assertion of schedule or thread_unblock fails, and  *)
(* no kernel stack ever gets deeper than MaxDepth words.                   *)
(***************************************************************************)
THEOREM IntrTypeCorrect == Spec => []IntrTypeOK
<1>1. IntrInv => IntrTypeOK
  <2> SUFFICES ASSUME IntrInv PROVE IntrTypeOK
    OBVIOUS
  <2>1. \A t \in Threads : Len(kstack[t]) <= MaxDepth
    <3> SUFFICES ASSUME NEW t \in Threads PROVE Len(kstack[t]) <= MaxDepth
      OBVIOUS
    <3>1. IsStack(kstack[t])
      BY DEF IntrInv, StacksInv
    <3>2. CASE status[t] = NOT_CREATED
      <4>1. kstack[t] = <<>>
        BY <3>2 DEF IntrInv, StacksInv
      <4> QED  BY <4>1 DEF MaxDepth
    <3>3. CASE status[t] # NOT_CREATED /\ t # cur
      <4>1. Parked(t, kstack[t], want[t])
        BY <3>3 DEF IntrInv, StacksInv
      <4> QED  BY <3>1, <4>1, ParkedFacts
    <3>4. CASE t = cur
      <4> DEFINE s == kstack[cur]
                 n == Len(s)
                 z == Size(want[cur])
      <4>1. z \in {17, 19}
        BY DEF Size
      <4>2. \/ s = <<>>
            \/ n = 0 + z \/ n = 0 + 17 \/ n = 0 + 17 + 19
            \/ n = 0 + 2 \/ n = 0 + 2 + 3 + 19 \/ n = 0 + 3 + 19
        <5>1. Running(cur, regs, s, want[cur])
          BY InvFacts
        <5> HIDE DEF s
        <5> QED  BY <5>1 DEF Running, OnTrap, OwnTrap, StartTrap, ExitTrap, OnBlock, OnCall
      <4>3. s = <<>> => n = 0
        OBVIOUS
      <4> HIDE DEF s, n, z
      <4>4. n <= 19 + 17 + 5
        BY <4>1, <4>2, <4>3
      <4> QED  BY <3>4, <4>4 DEF s, n, MaxDepth
    <3> QED  BY <3>2, <3>3, <3>4
  <2>2. /\ cur \in Threads /\ Range(ready) \subseteq Threads
        /\ status \in [Threads -> Status \cup {NOT_CREATED}]
    <3>1. ready \in Seq(Threads)
      BY DEF IntrInv, KThreadTypeOK
    <3>2. Range(ready) \subseteq Threads
      <4>1. DOMAIN ready = 1 .. Len(ready) /\ \A i \in 1 .. Len(ready) : ready[i] \in Threads
        BY <3>1, LenProperties, ElementOfSeq
      <4> QED  BY <4>1 DEF Range
    <3> QED  BY <3>2 DEF IntrInv, KThreadTypeOK
  <2>3. regs.eip \in CodeNames /\ regs.eflags \in BOOLEAN /\ regs.cs \in {"user", "kernel"}
    <3>1. regs.eip \in CodeNames
      BY NowAt
    <3>2. CASE regs.eip = "code"
      <4>1. UserFile(regs) \/ KernelFile(regs)
        BY <3>2, NowAt, InvFacts DEF GoodWant
      <4> QED  BY <3>1, <4>1 DEF UserFile, KernelFile
    <3>3. CASE regs.eip # "code"
      BY <3>1, <3>3, NowAt DEF KernelFile
    <3> QED  BY <3>2, <3>3
  <2> QED  BY <2>1, <2>2, <2>3 DEF IntrTypeOK, IntrInv, TablesInv
<1> QED  BY <1>1, IntrInvariance, PTL

(***************************************************************************)
(* Whenever a thread's own code runs, its registers and its stack are what *)
(* it left, for every number of threads and processes and every sequence   *)
(* of interrupts, system calls and switches.                               *)
(***************************************************************************)
THEOREM ContextRestoredThm == Spec => []ContextRestored
<1>1. IntrInv => ContextRestored
  BY NowAt DEF ContextRestored, InCode
<1> QED  BY <1>1, IntrInvariance, PTL

(***************************************************************************)
(* A request that is taken leads to the handler of its own device, and     *)
(* only after init_all: imr masks every other line from the first step of  *)
(* idt_init on, and interrupts stay disabled until all is registered.      *)
(***************************************************************************)
THEOREM RightHandlerThm == Spec => RightHandler
<1> DEFINE Right == \A l \in irr \ irr' : regs'.eip = "handler" =>
                      /\ l \in DOMAIN Driver
                      /\ idt_table'[Head(kstack'[cur'])] = Driver[l]
                      /\ todo = <<>>
<1>1. ASSUME IntrInv, NEW l \in Lines, interrupt(l)
      PROVE  Right
  <2>1. irr \subseteq Lines /\ isr \subseteq Lines
    BY <1>1, InvFacts DEF TablesInv
  <2>2. /\ irr' \subseteq Lines /\ isr \cup {l} \in SUBSET Lines /\ regs.eflags
        /\ irr \ irr' \subseteq {l} /\ l \notin imr
    BY <1>1, <2>1 DEF interrupt
  <2>3. intrXXentry(idt[vector(l)], isr \cup {l})
    BY <1>1 DEF interrupt
  <2>4. /\ cur' = cur /\ kstack'[cur][1] = idt[vector(l)] /\ IsStack(kstack'[cur])
        /\ Len(kstack'[cur]) # 0 /\ regs.eip # "init_all"
    BY <1>1, <2>2, <2>3, EntryStep
  <2>5. todo = <<>> /\ idt_table' = idt_table
    BY <1>1, <2>3, <2>4, NowAt DEF intrXXentry, Enter, setup
  <2>6. InitDone(1) /\ InitDone(4) /\ InitDone(6)
    <3>1. Len(todo) = 0 /\ Len(init_all) = 8
      BY <2>5 DEF init_all
    <3> QED  BY <3>1 DEF InitDone
  <2>7. /\ imr = Lines \ {0, 1} /\ idt[vector(l)] = vector(l)
        /\ idt_table[vector(0)] = "intr_timer_handler"
        /\ idt_table[vector(1)] = "intr_keyboard_handler"
    BY <1>1, <2>6, InvFacts DEF TablesInv
  <2>8. Head(kstack'[cur]) = kstack'[cur][1]
    <3>1. PICK s : s = kstack'[cur]
      OBVIOUS
    <3>2. s \in Seq({s[i] : i \in 1 .. Len(s)}) /\ s # <<>>
      BY <2>4, <3>1, StackSeq
    <3>3. Head(s) = s[1]
      BY <3>2, HeadTailProperties
    <3> QED  BY <3>1, <3>3
  <2>9. l \in {0, 1}
    BY <2>2, <2>7
  <2>10. Head(kstack'[cur']) = vector(l)
    BY <2>4, <2>7, <2>8
  <2>11. l \in DOMAIN Driver /\ idt_table[vector(l)] = Driver[l]
    <3>1. CASE l = 0
      BY <2>7, <3>1 DEF Driver
    <3>2. CASE l = 1
      BY <2>7, <3>2 DEF Driver
    <3> QED  BY <2>9, <3>1, <3>2
  <2> QED  BY <2>2, <2>5, <2>10, <2>11
<1>2. ASSUME IntrInv, Next, ~(\E l \in Lines : interrupt(l)), irr \ irr' # {}
      PROVE  regs'.eip # "handler"
  <2>1. init_step
    BY <1>2 DEF Next, Locked, pic, main_enable, kernel_thread, start_process,
       intr_timer_handler, intr_keyboard_handler, general_intr_handler, intr_exit,
       thread_block_return, thread_start, Raise, spurious, syscall, syscall_return, block,
       wake, intr_disable, intr_enable, SetFlag
  <2>2. todo # <<>> /\ regs' = regs
    BY <2>1 DEF init_step, cpu
  <2> QED  BY <1>2, <2>2, NowAt
<1>3. ASSUME IntrInv, [Next]_ivars
      PROVE  [Right]_ivars
  <2>1. CASE UNCHANGED ivars
    BY <2>1
  <2>2. CASE Next
    <3>1. CASE \E l \in Lines : interrupt(l)
      BY <1>1, <1>3, <3>1
    <3>2. CASE ~(\E l \in Lines : interrupt(l))
      BY <1>2, <1>3, <2>2, <3>2
    <3> QED  BY <3>1, <3>2
  <2> QED  BY <1>3, <2>1, <2>2
<1>4. IntrInv /\ [Next]_ivars => [Right]_ivars
  BY <1>3
<1> QED  BY <1>4, IntrInvariance, PTL DEF Spec, RightHandler

-----------------------------------------------------------------------------
\* A number below the modulus is its own remainder.
LEMMA SmallMod ==
  ASSUME NEW x \in Nat, NEW m \in Nat, x < m
  PROVE  x % m = x
OBVIOUS

\* n pages of fewer than 16 * w, halved, with one bit each in whole bytes.
LEMMA Halves ==
  ASSUME NEW n \in Nat, NEW w \in Nat, n < 16 * w
  PROVE  LET k == n \div 2
             u == n - n \div 2
         IN  /\ k \in Nat /\ k \div 8 \in Nat /\ 8 * (k \div 8) <= k
             /\ u \in Nat /\ u \div 8 \in Nat /\ 8 * (u \div 8) <= u
             /\ k + u = n
             /\ k \div 8 + u \div 8 + k \div 8 <= 3 * w
OBVIOUS

\* What mem_pool_init leaves in each field, from the number of pages.
LEMMA Fields ==
  ASSUME NEW all_mem,
         NEW n, n = all_free_pages(all_mem)
  PROVE  LET k     == n \div 2
             u     == n - n \div 2
             pools == mem_pool_init(all_mem)
         IN  /\ pools.kernel.start = 512 /\ pools.user.start = 512 + k
             /\ pools.kernel.bytes = k \div 8 /\ pools.user.bytes = u \div 8
             /\ pools.vaddr.bytes = k \div 8
             /\ pools.kernel.bits = 0 /\ pools.user.bits = 0 + k \div 8
             /\ pools.vaddr.bits = 0 + k \div 8 + u \div 8
<1>1. used_mem \div FrameKB = 512
  BY DEF used_mem, FrameKB
<1> QED
  BY <1>1 DEF mem_pool_init, user_pool_start, kernel_free_pages, user_free_pages, MEM_BITMAP_BASE

\* The number of pages fits its 16 bits and is at most what the memory has.
LEMMA PageCount ==
  ASSUME NEW all_mem \in 0 .. AddrSpace - 1
  PROVE  /\ all_free_pages(all_mem) \in Nat
         /\ all_free_pages(all_mem) < UINT16
         /\ all_mem >= 2048 => 2048 + 4 * all_free_pages(all_mem) <= all_mem
<1> DEFINE free == (all_mem - 2048) % AddrSpace
<1>1. free \in Nat /\ (all_mem >= 2048 => free = all_mem - 2048)
  BY AddrSpaceAssumption, SmallMod
<1>2. all_free_pages(all_mem) = (free \div 4) % UINT16
  BY DEF all_free_pages, used_mem, FrameKB
<1> HIDE DEF free
<1>3. free \div 4 \in Nat /\ 4 * (free \div 4) <= free
  BY <1>1
<1>4. UINT16 \in Nat /\ UINT16 > 0
  BY SMT DEF UINT16
<1>5. \A a, m \in Nat : m > 0 => a % m \in Nat /\ a % m < m /\ a % m <= a
  OBVIOUS
<1> DEFINE a == free \div 4
<1>6. a % UINT16 \in Nat /\ a % UINT16 < UINT16 /\ a % UINT16 <= a
  BY <1>3, <1>4, <1>5
<1> QED
  BY <1>1, <1>2, <1>3, <1>6

(***************************************************************************)
(* Whatever the amount of memory, and although its pages are counted in 16 *)
(* bits after a subtraction that may wrap, mem_pool_init keeps the pools   *)
(* apart and puts the three bitmaps into the 16 KB between MEM_BITMAP_BASE *)
(* and the PCB of main without overlap.                                    *)
(***************************************************************************)
THEOREM PoolsApartThm ==
  \A all_mem \in 0 .. AddrSpace - 1 : PoolsApart(mem_pool_init(all_mem))
<1> TAKE all_mem \in 0 .. AddrSpace - 1
<1> DEFINE n == all_free_pages(all_mem)
           k == n \div 2
           u == n - n \div 2
<1>1. n \in Nat /\ n < UINT16
  BY PageCount
<1>2. UINT16 = 16 * 4096
  BY SMT DEF UINT16
<1>3. n < 16 * 4096
  BY <1>1, <1>2
<1> HIDE DEF n
<1>4. /\ k \in Nat /\ k \div 8 \in Nat /\ 8 * (k \div 8) <= k
      /\ u \in Nat /\ u \div 8 \in Nat /\ 8 * (u \div 8) <= u
      /\ k \div 8 + u \div 8 + k \div 8 <= 3 * 4096
  BY <1>1, <1>3, Halves
<1> DEFINE pools == mem_pool_init(all_mem)
<1>5. /\ pools.kernel.start = 512 /\ pools.user.start = 512 + k
      /\ pools.kernel.bytes = k \div 8 /\ pools.user.bytes = u \div 8
      /\ pools.vaddr.bytes = k \div 8
      /\ pools.kernel.bits = 0 /\ pools.user.bits = 0 + k \div 8
      /\ pools.vaddr.bits = 0 + k \div 8 + u \div 8
  BY Fields DEF n
<1> HIDE DEF pools, k, u
<1>6. PoolsApart(pools)
  BY <1>4, <1>5 DEF PoolsApart, Bits, PCB_OF_MAIN
<1> QED
  BY <1>6 DEF pools

(***************************************************************************)
(* When the loader has found at least the 2 MB that the kernel uses, both  *)
(* pools end within the memory that it has found.                          *)
(***************************************************************************)
THEOREM PoolsInMemory ==
  \A all_mem \in used_mem .. AddrSpace - 1 :
    LET user == mem_pool_init(all_mem).user
    IN  FrameKB * (user.start + Bits(user)) <= all_mem
<1> SUFFICES ASSUME NEW all_mem \in 0 .. AddrSpace - 1, all_mem >= 2048
             PROVE  LET user == mem_pool_init(all_mem).user
                    IN  FrameKB * (user.start + Bits(user)) <= all_mem
  BY AddrSpaceAssumption DEF used_mem
<1> DEFINE n == all_free_pages(all_mem)
           k == n \div 2
           u == n - n \div 2
<1>1. n \in Nat /\ 2048 + 4 * n <= all_mem
  BY PageCount
<1> HIDE DEF n
<1>2. /\ k \in Nat
      /\ u \in Nat /\ u \div 8 \in Nat /\ 8 * (u \div 8) <= u
      /\ k + u = n
  <2>1. n + 1 \in Nat /\ n < 16 * (n + 1)
    BY <1>1
  <2> QED
    BY <1>1, <2>1, Halves
<1>3. /\ mem_pool_init(all_mem).user.start = 512 + k
      /\ mem_pool_init(all_mem).user.bytes = u \div 8
  BY Fields DEF n
<1> HIDE DEF k, u
<1>4. 4 * (512 + k + 8 * (u \div 8)) <= all_mem
  BY <1>1, <1>2
<1> QED
  BY <1>3, <1>4 DEF Bits, FrameKB

-----------------------------------------------------------------------------
\* A set of numbers that is not empty has a smallest one.
LEMMA Smallest ==
  ASSUME NEW S, S \subseteq Nat, S # {}
  PROVE  \E i \in S : \A j \in S : i <= j
<1> DEFINE R == {ss \in Nat \X Nat : ss[1] < ss[2]}
<1>1. OpToRel(<, Nat) = R
  BY DEF OpToRel
<1>2. IsWellFoundedOn(R, Nat)
  BY <1>1, NatLessThanWellFounded
<1>3. PICK i \in S : \A j \in S : ~(<<j, i>> \in R)
  <2> HIDE DEF R
  <2> QED  BY <1>2, WFMin
<1>4. ASSUME NEW j \in S PROVE i <= j
  <2>1. i \in Nat /\ j \in Nat /\ ~(<<j, i>> \in R)
    <3> HIDE DEF R
    <3> QED  BY <1>3
  <2>2. ~(j < i)
    BY <2>1
  <2> QED  BY <2>1, <2>2
<1> QED  BY <1>4

\* The amount that the loader finds is a number of 32 bits, with every map.
LEMMA TotalMem ==
  ASSUME NEW b \in BiosMaps
  PROVE  total_mem(b) \in 0 .. AddrSpace - 1
<1>1. AddrSpace \in Nat /\ AddrSpace > 2048
  BY AddrSpaceAssumption
<1>2. \A x \in Nat : x % AddrSpace \in 0 .. AddrSpace - 1
  BY <1>1
<1>3. CASE b.e820
  <2> DEFINE ends == {0} \cup {(r.base + r.length) % AddrSpace : r \in b.ards}
             S == {AddrSpace - Signed(x) : x \in ends}
  <2>1. ends \subseteq 0 .. AddrSpace - 1 /\ 0 \in ends
    <3>1. \A r \in b.ards : r.base + r.length \in Nat
      BY BiosAssumption
    <3>2. \A r \in b.ards : (r.base + r.length) % AddrSpace \in 0 .. AddrSpace - 1
      BY <1>2, <3>1
    <3> QED  BY <1>1, <3>2
  <2>2. find_max_mem(b.ards) = CHOOSE x \in ends : \A y \in ends : Signed(x) >= Signed(y)
    BY DEF find_max_mem
  <2> HIDE DEF ends
  <2>3. \A x \in ends : Signed(x) \in Int /\ Signed(x) < AddrSpace
    BY <1>1, <2>1 DEF Signed
  <2>4. S \subseteq Nat /\ S # {}
    BY <1>1, <2>1, <2>3
  <2>5. PICK i \in S : \A j \in S : i <= j
    <3> HIDE DEF S
    <3> QED  BY <2>4, Smallest
  <2>6. PICK x \in ends : i = AddrSpace - Signed(x)
    OBVIOUS
  <2>7. \A y \in ends : Signed(x) >= Signed(y)
    <3> TAKE y \in ends
    <3>1. i <= AddrSpace - Signed(y)
      BY <2>5
    <3>2. Signed(x) \in Int /\ Signed(y) \in Int
      BY <2>3
    <3> HIDE DEF S
    <3> QED  BY <1>1, <2>6, <3>1, <3>2
  <2>8. find_max_mem(b.ards) \in ends
    BY <2>2, <2>7
  <2> QED  BY <1>3, <2>1, <2>8 DEF total_mem
<1>4. CASE ~b.e820
  <2>1. b.ax + 1024 + 64 * b.bx \in Nat
    BY BiosAssumption
  <2> QED  BY <1>2, <1>4, <2>1 DEF total_mem
<1> QED  BY <1>3, <1>4

(***************************************************************************)
(* Of the pages that mem_pool_init counts, the first three quarters are in *)
(* one stretch of usable memory.  (The count is of 16 bits, and so is not  *)
(* always the number of pages that there are.)                             *)
(***************************************************************************)
MostlyRam(b) ==
  \E r \in b.ards : /\ r.ram
                    /\ r.base <= used_mem
                    /\ used_mem + 3 * all_free_pages(total_mem(b)) <= r.base + r.length

(***************************************************************************)
(* mem_pool_init gives a pool a bit for each frame, and bitmap_scan uses   *)
(* one bit in eight; so on each machine whose memory is usable up to three *)
(* quarters of the pages counted, whatever the BIOS reports after that,    *)
(* the pools and bitmaps keep apart and palloc hands out usable memory.    *)
(***************************************************************************)
THEOREM LayoutOfMachine ==
  ASSUME NEW b \in BiosMaps, MostlyRam(b)
  PROVE  LET pools == mem_pool_init(total_mem(b))
         IN  PoolsApart(pools) /\ HandsOutRam(b, pools)
<1>1. PICK m : m = total_mem(b)
  OBVIOUS
<1>2. m \in 0 .. AddrSpace - 1
  BY <1>1, TotalMem
<1>3. PICK n : n = all_free_pages(m)
  OBVIOUS
<1>4. n \in Nat
  BY <1>2, <1>3, PageCount
<1>5. PICK k : k = n \div 2
  OBVIOUS
<1>6. PICK u : u = n - n \div 2
  OBVIOUS
<1>7. PICK pools : pools = mem_pool_init(m)
  OBVIOUS
<1>8. /\ pools.kernel.start = 512 /\ pools.kernel.bytes = k \div 8
      /\ pools.user.start = 512 + k /\ pools.user.bytes = u \div 8
  BY <1>3, <1>5, <1>6, <1>7, Fields
<1>9. /\ k \in Nat /\ u \in Nat /\ k \div 8 \in Nat /\ u \div 8 \in Nat
      /\ 4 * (k \div 8) <= 3 * n /\ 4 * k + 4 * (u \div 8) <= 3 * n + 4
  BY <1>4, <1>5, <1>6
<1>10. PICK r \in b.ards : r.ram /\ r.base <= 2048 /\ 2048 + 3 * n <= r.base + r.length
  BY <1>1, <1>3 DEF MostlyRam, used_mem
<1>11. r.base \in Nat /\ r.length \in Nat
  BY BiosAssumption
<1>12. ASSUME NEW f \in Nat, f >= 512, 4 * (f + 1) <= 2048 + 3 * n PROVE IsRam(b, f)
  BY <1>4, <1>10, <1>11, <1>12 DEF IsRam, FrameKB
<1>13. used_mem \div FrameKB = 512
  BY DEF used_mem, FrameKB
<1>14. \A f \in Frames(pools.kernel) : f >= 512 /\ IsRam(b, f)
  <2> SUFFICES ASSUME NEW i \in 0 .. (k \div 8) - 1 - 1
               PROVE  512 + i >= 512 /\ IsRam(b, 512 + i)
    BY <1>8 DEF Frames, Starts
  <2>1. 512 + i \in Nat /\ 512 + i >= 512 /\ 4 * (512 + i + 1) <= 2048 + 3 * n
    BY <1>4, <1>9
  <2> QED  BY <2>1, <1>12
<1>15. \A f \in Frames(pools.user) : f >= 512 /\ IsRam(b, f)
  <2> SUFFICES ASSUME NEW i \in 0 .. (u \div 8) - 1 - 1
               PROVE  512 + k + i >= 512 /\ IsRam(b, 512 + k + i)
    BY <1>8 DEF Frames, Starts
  <2>1. 512 + k + i \in Nat /\ 512 + k + i >= 512 /\ 4 * (512 + k + i + 1) <= 2048 + 3 * n
    BY <1>4, <1>9
  <2> QED  BY <2>1, <1>12
<1>16. HandsOutRam(b, pools)
  BY <1>13, <1>14, <1>15 DEF HandsOutRam
<1>17. PoolsApart(pools)
  BY <1>2, <1>7, PoolsApartThm
<1> QED  BY <1>1, <1>7, <1>16, <1>17

(***************************************************************************)
(* Whatever step init_all has reached and whatever interrupts do, once     *)
(* mem_init has run the layout is the one that palloc and the stack of     *)
(* main need, on all machines whose counted memory is usable up to three   *)
(* quarters.                                                               *)
(***************************************************************************)
THEOREM LayoutThm ==
  ASSUME \A b \in BiosMaps : MostlyRam(b)
  PROVE  Spec => []MemoryLayout
<1>1. GoodLayout
  BY LayoutOfMachine DEF GoodLayout
<1>2. MemoryLayout
  BY <1>1 DEF MemoryLayout
<1> QED  BY <1>2, PTL
=============================================================================
