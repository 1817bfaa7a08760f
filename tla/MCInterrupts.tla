---------------------------- MODULE MCInterrupts ----------------------------
(***************************************************************************)
(* Interrupts with main and two processes, and the machines for MemInit.   *)
(***************************************************************************)
EXTENDS Interrupts

CONSTANTS p, q

\* Entries of a map, in KB: usable memory, and memory that is not.
Ram(base, end)      == [base |-> base, length |-> end - base, ram |-> TRUE]
Reserved(base, end) == [base |-> base, length |-> end - base, ram |-> FALSE]

\* A PC with memory up to end, the last 64 KB of it for ACPI, and a ROM below 4 GB.
PC(end) ==
  [e820 |-> TRUE, ax |-> 0, bx |-> 0,
   ards |-> {Ram(0, 636), Reserved(636, 640), Reserved(928, 1024),
             Ram(1024, end - 64), Reserved(end - 64, end),
             Reserved(AddrSpace - 256, AddrSpace)}]

\* A PC whose BIOS only knows function 0xe801.
OldPC(end) ==
  [e820 |-> FALSE, ax |-> 15360, bx |-> (end - 16384) \div 64,
   ards |-> {Ram(0, 640), Ram(1024, end)}]

MB == 1024

\* Around the sizes at which all_free_pages and the signed comparison wrap.
Machines ==
  {PC(n * MB) : n \in {4, 32, 64, 256, 257, 258, 259, 512, 1024, 2047, 2048, 3072}}
  \cup {OldPC(n * MB) : n \in {16, 32, 256}}
=============================================================================
