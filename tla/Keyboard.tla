------------------------------ MODULE Keyboard ------------------------------
(***************************************************************************)
(* device/keyboard.c: the interrupt handler that turns scan codes into     *)
(* characters for the queue of module IoQueue.  The keyboard sends a make  *)
(* code when a key goes down and a break code, the make code plus 0x80,    *)
(* when it comes up; some keys send the byte 0xe0 first.  The handler is   *)
(* called once for each byte, with interrupts disabled, on the stack of    *)
(* the thread it interrupts.                                               *)
(***************************************************************************)
EXTENDS IoQueue

CONSTANT Keys    \* the keys that are pressed

VARIABLES
  held,           \* the keys that are down
  wire,           \* bytes the keyboard has sent and the kernel not read
  ctrl_status, shift_status, alt_status, caps_lock_status, ext_scancode,
  irq             \* the thread whose stack the handler is on, or NULL

modifiers == <<ctrl_status, shift_status, alt_status, caps_lock_status, ext_scancode>>
kbvars    == <<iovars, held, wire, modifiers, irq>>

\* Make codes: those of the modifiers, of the key 'a' and of the key '1'.
ctrl_make == 29
shift_l_make == 42
shift_r_make == 54
alt_make == 56
caps_lock_make == 58

BreakBit == 128
Prefix == 224

Code(key) ==
  CASE key \in {"ctrl_l", "ctrl_r"} -> ctrl_make
    [] key = "shift_l" -> shift_l_make
    [] key = "shift_r" -> shift_r_make
    [] key \in {"alt_l", "alt_r"} -> alt_make
    [] key = "caps_lock" -> caps_lock_make
    [] key = "a" -> 30
    [] key = "1" -> 2

Bytes(key, code) == IF key \in {"ctrl_r", "alt_r"} THEN <<Prefix, code>> ELSE <<code>>

\* keymap: what each make code is without and with shift; NULL is no character.
keymap(index, shift) ==
  CASE index = 30 -> IF shift THEN "A" ELSE "a"
    [] index = 2 -> IF shift THEN "!" ELSE "1"
    [] OTHER -> NULL

\* The codes of digits and punctuation marks, for which caps lock is ignored.
NoCaps == 1 .. 13 \cup {26, 27, 39, 40, 41, 43, 51, 52, 53}

ASSUME KeyboardAssumption ==
  /\ Keys \subseteq {"ctrl_l", "ctrl_r", "shift_l", "shift_r", "alt_l", "alt_r",
                     "caps_lock", "a", "1"}
  /\ {"a", "A", "1", "!"} \subseteq Chars

keyboard_init ==
  /\ held = {}
  /\ wire = <<>>
  /\ ctrl_status = FALSE
  /\ shift_status = FALSE
  /\ alt_status = FALSE
  /\ caps_lock_status = FALSE
  /\ ext_scancode = FALSE
  /\ irq = NULL

KbInit == IoInit /\ keyboard_init

-----------------------------------------------------------------------------
\* The user's hands.  A key that is held down may repeat its make code.
Press(key) ==
  /\ wire = <<>>
  /\ held' = held \cup {key}
  /\ wire' = Bytes(key, Code(key))
  /\ UNCHANGED <<iovars, modifiers, irq>>

Release_key(key) ==
  /\ wire = <<>>
  /\ key \in held
  /\ held' = held \ {key}
  /\ wire' = Bytes(key, Code(key) + BreakBit)
  /\ UNCHANGED <<iovars, modifiers, irq>>

-----------------------------------------------------------------------------
(***************************************************************************)
(* The cases of intr_keyboard_handler for the byte scancode.               *)
(***************************************************************************)
prefix_byte(scancode) ==
  /\ scancode = Prefix
  /\ ext_scancode' = TRUE
  /\ UNCHANGED <<iovars, ctrl_status, shift_status, alt_status, caps_lock_status, irq>>

\* Mutant of break_byte: codes that follow the prefix are skipped.
break_byte_not_extended(scancode) ==
  LET make_code == scancode - BreakBit IN
  /\ scancode # Prefix /\ scancode >= BreakBit
  /\ ctrl_status' = (ctrl_status /\ (ext_scancode \/ make_code # ctrl_make))
  /\ shift_status' = (shift_status /\ make_code \notin {shift_l_make, shift_r_make})
  /\ alt_status' = (alt_status /\ (ext_scancode \/ make_code # alt_make))
  /\ UNCHANGED <<iovars, caps_lock_status, ext_scancode, irq>>

break_byte(scancode) ==
  LET make_code == scancode - BreakBit IN
  /\ scancode # Prefix /\ scancode >= BreakBit
  /\ ctrl_status' = (ctrl_status /\ make_code # ctrl_make)
  /\ shift_status' = (shift_status /\ make_code \notin {shift_l_make, shift_r_make})
  /\ alt_status' = (alt_status /\ make_code # alt_make)
  /\ UNCHANGED <<iovars, caps_lock_status, ext_scancode, irq>>

\* Whether a key gives its second character.
shift(scancode) ==
  IF scancode \in NoCaps THEN shift_status ELSE shift_status # caps_lock_status

\* Mutant of char_byte: the handler does not look whether there is room.
char_byte_always(scancode) ==
  LET cur_char == keymap(scancode, shift(scancode)) IN
  /\ scancode < BreakBit
  /\ cur_char # NULL
  /\ ioq_putchar(cur_char)
  /\ irq' = cur
  /\ UNCHANGED modifiers

\* A character goes into the queue if there is room; otherwise it is lost.
char_byte(scancode) ==
  LET cur_char == keymap(scancode, shift(scancode)) IN
  /\ scancode < BreakBit
  /\ cur_char # NULL
  /\ IF ioq_full THEN UNCHANGED <<iovars, irq>> ELSE ioq_putchar(cur_char) /\ irq' = cur
  /\ UNCHANGED modifiers

modifier_byte(scancode) ==
  /\ scancode < BreakBit
  /\ keymap(scancode, shift(scancode)) = NULL
  /\ ctrl_status' = (ctrl_status \/ scancode = ctrl_make)
  /\ shift_status' = (shift_status \/ scancode \in {shift_l_make, shift_r_make})
  /\ alt_status' = (alt_status \/ scancode = alt_make)
  /\ caps_lock_status' = (caps_lock_status # (scancode = caps_lock_make))
  /\ UNCHANGED <<iovars, ext_scancode, irq>>

intr_keyboard_handler ==
  /\ Interruptible /\ pc[cur] # "waiting"
  /\ wire # <<>>
  /\ wire' = Tail(wire)
  /\ \/ prefix_byte(Head(wire))
     \/ break_byte(Head(wire))
     \/ char_byte(Head(wire))
     \/ modifier_byte(Head(wire))
  /\ held' = held

\* The handler returns when the thread it is on leaves ioq_putchar.
Threads_step ==
  /\ IoStep
  /\ irq' = IF irq # NULL /\ io'[irq] = "idle" THEN NULL ELSE irq
  /\ UNCHANGED <<held, wire, modifiers>>

KbNext ==
  /\ panic = {}
  /\ \/ Threads_step
     \/ intr_keyboard_handler
     \/ \E key \in Keys : Press(key) \/ Release_key(key)

KbSpec == KbInit /\ [][KbNext]_kbvars

-----------------------------------------------------------------------------
(***************************************************************************)
(* The handler never sleeps: until it returns, the thread that it has      *)
(* interrupted keeps the CPU, even when the queue is full and others wait. *)
(***************************************************************************)
HandlerNeverSleeps == irq # NULL => cur = irq

(***************************************************************************)
(* No modifier sticks: when the bytes of all keys have been handled and no *)
(* Ctrl, Shift or Alt key is down, the handler thinks so too, although it  *)
(* forgets whether a byte followed the prefix 0xe0.                        *)
(***************************************************************************)
NoStuckModifier ==
  wire = <<>> =>
    /\ held \cap {"ctrl_l", "ctrl_r"} = {} => ~ctrl_status
    /\ held \cap {"shift_l", "shift_r"} = {} => ~shift_status
    /\ held \cap {"alt_l", "alt_r"} = {} => ~alt_status
=============================================================================
