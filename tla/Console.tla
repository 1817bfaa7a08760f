------------------------------ MODULE Console ------------------------------
(***************************************************************************)
(* device/console.c over lib/kernel/print.S, and printf of lib/stdio.c:    *)
(* threads that print strings and numbers on the text screen of the VGA    *)
(* adapter.  put_char reads the cursor from the adapter, writes to the     *)
(* video memory, scrolls when it must and writes the cursor back, and      *)
(* put_int uses a buffer that all threads share; the thread may be         *)
(* preempted in between, and only the lock of the console keeps others     *)
(* away.                                                                   *)
(*                                                                         *)
(* The screen is a function from positions to characters.  The cursor,     *)
(* which the code reads and writes in two halves, is one register.  The    *)
(* words of the machine have Nibbles hexadecimal digits.                   *)
(***************************************************************************)
EXTENDS Integers, Sequences, SequencesExt

CONSTANTS
  Printers,      \* the threads that print
  Strings, Chars, Numbers,   \* what they print
  Formats,       \* the calls of printf: see Items
  Nibbles,       \* 8
  Width, Height, \* 80 and 25
  MaxCalls,      \* bound on the calls
  NULL

LF == "LF"
CR == "CR"
BS == "BS"
Blank == " "

Word == 16 ^ Nibbles

ASSUME ConsoleAssumption ==
  /\ NULL \notin Printers
  /\ Nibbles \in Nat \ {0}
  /\ Numbers \subseteq 0 .. Word - 1
  /\ Width \in Nat \ {0} /\ Height \in Nat \ {0, 1}
  /\ MaxCalls \in Nat

VARIABLES
  console_lock,   \* its holder, or NULL (see module Mutex)
  put_int_buffer, \* the digits of a number, shared
  screen,         \* video memory
  cursor,         \* the cursor registers
  bx,             \* the register that holds the cursor in put_char
  rest,           \* what is left of the string each thread prints
  edi,            \* the next digit in put_int_buffer that it prints
  pc,             \* "idle", "store", "skip", "read", "draw", "set"
  fault,          \* an access outside the video segment
  printed         \* the calls, one after the other

int  == <<put_int_buffer, edi>>
vars == <<console_lock, int, screen, cursor, bx, rest, pc, fault, printed>>

Size  == Width * Height
Cells == 0 .. Size - 1

Init ==
  /\ console_lock = NULL
  /\ put_int_buffer = [i \in 1 .. Nibbles |-> "0"]
  /\ screen = [i \in Cells |-> Blank]
  /\ cursor = 0
  /\ bx = [t \in Printers |-> 0]
  /\ rest = [t \in Printers |-> <<>>]
  /\ edi = [t \in Printers |-> Nibbles]
  /\ pc = [t \in Printers |-> "idle"]
  /\ fault = FALSE
  /\ printed = <<>>

-----------------------------------------------------------------------------
(***************************************************************************)
(* Formatting.  A call of printf is a sequence of items: a character for   *)
(* itself, <<"lit", c>>, or a conversion with its argument, <<"x", 12>>.   *)
(* The format string and the arguments are what a caller writes for it.    *)
(***************************************************************************)
Digits == <<"0", "1", "2", "3", "4", "5", "6", "7", "8", "9",
            "A", "B", "C", "D", "E", "F">>
Digit(m) == Digits[m + 1]

itoa(value, base) ==
  LET text[v \in 0 .. Word - 1] ==
        (IF v \div base = 0 THEN <<>> ELSE text[v \div base]) \o <<Digit(v % base)>>
  IN  text[value]

\* An int is negative when its first bit is set; 0 - INT_MIN is INT_MIN.
Signed(value) ==
  IF value < Word \div 2 THEN itoa(value, 10)
  ELSE <<"-">> \o itoa((Word - value) % Word, 10)

\* A character that no case of the switch knows is taken for itself, without its %.
vsprintf(format, args) ==
  LET Put(s, text)  == [s EXCEPT !.str = @ \o text, !.percent = FALSE]
      Take(s, text) == [Put(s, text) EXCEPT !.args = Tail(@)]
      Scan(s, c) ==
        CASE c = "%"              -> [s EXCEPT !.percent = TRUE]
          [] c = "s" /\ s.percent -> Take(s, Head(s.args))
          [] c = "x" /\ s.percent -> Take(s, itoa(Head(s.args), 16))
          [] c = "d" /\ s.percent -> Take(s, Signed(Head(s.args)))
          [] c = "c" /\ s.percent -> Take(s, <<Head(s.args)>>)
          [] OTHER                -> Put(s, <<c>>)
  IN  FoldLeft(Scan, [str |-> <<>>, args |-> args, percent |-> FALSE], format).str

Literal(item) == item[1] = "lit"
Format(items) ==
  FlattenSeq([i \in DOMAIN items |-> IF Literal(items[i]) THEN <<items[i][2]>>
                                     ELSE <<"%", items[i][1]>>])
Args(items) ==
  LET conversions == SelectSeq(items, LAMBDA item : ~Literal(item))
  IN  [i \in DOMAIN conversions |-> conversions[i][2]]

-----------------------------------------------------------------------------
\* Mutant of console_acquire: the lock is not taken.
console_acquire_unlocked(t, call) ==
  /\ pc[t] = "idle"
  /\ Len(printed) < MaxCalls
  /\ printed' = Append(printed, call)
  /\ UNCHANGED <<console_lock, int, screen, cursor, bx, fault>>

console_acquire(t, call) ==
  /\ pc[t] = "idle"
  /\ console_lock = NULL
  /\ Len(printed) < MaxCalls
  /\ console_lock' = t
  /\ printed' = Append(printed, call)
  /\ UNCHANGED <<int, screen, cursor, bx, fault>>

put_str(t, str) ==
  /\ rest' = [rest EXCEPT ![t] = str]
  /\ pc' = [pc EXCEPT ![t] = "read"]

console_put_str(t, str) == console_acquire(t, <<"str", str>>) /\ put_str(t, str)

console_put_char(t, chr) == console_acquire(t, <<"char", chr>>) /\ put_str(t, <<chr>>)

\* printf formats in the user program and calls write.
printf(t, items) ==
  /\ console_acquire(t, <<"printf", items>>)
  /\ put_str(t, vsprintf(Format(items), Args(items)))

\* put_int: the digits, from the last to the first.
put_int(t, num) ==
  /\ rest' = [rest EXCEPT ![t] = [i \in 1 .. Nibbles |->
                                    Digit((num \div 16 ^ (Nibbles - i)) % 16)]]
  /\ pc' = [pc EXCEPT ![t] = "store"]

console_put_int(t, num) == console_acquire(t, <<"int", num>>) /\ put_int(t, num)

store(t) ==
  /\ pc[t] = "store"
  /\ put_int_buffer' = rest[t]
  /\ pc' = [pc EXCEPT ![t] = "skip"]
  /\ UNCHANGED <<console_lock, screen, cursor, bx, rest, edi, fault, printed>>

\* Of a number that is all zeros one is printed.
skip_prefix_0(t) ==
  /\ pc[t] = "skip"
  /\ LET i == SelectInSeq(put_int_buffer, LAMBDA c : c # "0")
     IN  edi' = [edi EXCEPT ![t] = IF i = 0 THEN Nibbles ELSE i - 1]
  /\ rest' = [rest EXCEPT ![t] = IF edi'[t] = Nibbles THEN <<"0">> ELSE <<>>]
  /\ pc' = [pc EXCEPT ![t] = "read"]
  /\ UNCHANGED <<console_lock, put_int_buffer, screen, cursor, bx, fault, printed>>

\* put_str has reached the end of its string, put_int that of its buffer.
str_over(t) == rest[t] = <<>> /\ edi[t] = Nibbles

Char(t) == IF edi[t] < Nibbles THEN put_int_buffer[edi[t] + 1] ELSE Head(rest[t])

console_release(t) ==
  /\ pc[t] = "read" /\ str_over(t)
  /\ console_lock' = NULL
  /\ pc' = [pc EXCEPT ![t] = "idle"]
  /\ UNCHANGED <<int, screen, cursor, bx, rest, fault, printed>>

-----------------------------------------------------------------------------
\* put_char: the cursor is read.
get_cursor(t) ==
  /\ pc[t] = "read" /\ ~str_over(t)
  /\ bx' = [bx EXCEPT ![t] = cursor]
  /\ pc' = [pc EXCEPT ![t] = "draw"]
  /\ UNCHANGED <<console_lock, int, screen, cursor, rest, fault, printed>>

\* Mutant of roll_screen: the last row is not cleared.
roll_screen_uncleared(cells) ==
  [i \in Cells |-> IF i + Width \in Cells THEN cells[i + Width] ELSE cells[i]]

\* Mutant of LastRow: the row below the screen.
LastRow_below == Size

\* roll_screen moves every row up by one and clears the last.
roll_screen(cells) ==
  [i \in Cells |-> IF i + Width \in Cells THEN cells[i + Width] ELSE Blank]

LastRow == Size - Width

\* The position of the next line, which may be below the screen.
line_start(pos) == (pos - (pos % Width)) + Width

\* Drawing a character leaves the cells and a position, or scrolls.
Draw(t, cells, pos) ==
  /\ screen' = IF pos < Size THEN cells ELSE roll_screen(cells)
  /\ bx' = [bx EXCEPT ![t] = IF pos < Size THEN pos ELSE LastRow]
  /\ pc' = [pc EXCEPT ![t] = "set"]
  /\ UNCHANGED <<console_lock, int, cursor, rest, printed>>

is_line_feed(t) ==
  /\ pc[t] = "draw" /\ Char(t) \in {LF, CR}
  /\ Draw(t, screen, line_start(bx[t]))
  /\ UNCHANGED fault

\* At position 0 the decrement leaves 65535, outside the segment.
is_backspace(t) ==
  /\ pc[t] = "draw" /\ Char(t) = BS
  /\ fault' = (bx[t] = 0)
  /\ IF bx[t] = 0 THEN Draw(t, screen, 0)
     ELSE Draw(t, [screen EXCEPT ![bx[t] - 1] = Blank], bx[t] - 1)

\* A character past the last cell starts a new line as well.
put_other(t) ==
  LET cells == [screen EXCEPT ![bx[t]] = Char(t)]
      pos   == bx[t] + 1
  IN
  /\ pc[t] = "draw" /\ Char(t) \notin {LF, CR, BS}
  /\ Draw(t, cells, IF pos < Size THEN pos ELSE line_start(pos))
  /\ UNCHANGED fault

set_cursor(t) ==
  /\ pc[t] = "set"
  /\ cursor' = bx[t]
  /\ IF edi[t] < Nibbles
     THEN edi' = [edi EXCEPT ![t] = @ + 1] /\ UNCHANGED rest
     ELSE rest' = [rest EXCEPT ![t] = Tail(@)] /\ UNCHANGED edi
  /\ pc' = [pc EXCEPT ![t] = "read"]
  /\ UNCHANGED <<console_lock, put_int_buffer, screen, bx, fault, printed>>

Next ==
  /\ ~fault
  /\ \E t \in Printers :
       \/ \E str \in Strings : console_put_str(t, str)
       \/ \E chr \in Chars : console_put_char(t, chr)
       \/ \E num \in Numbers : console_put_int(t, num)
       \/ \E items \in Formats : printf(t, items)
       \/ store(t) \/ skip_prefix_0(t) \/ console_release(t)
       \/ get_cursor(t) \/ is_line_feed(t) \/ is_backspace(t) \/ put_other(t)
       \/ set_cursor(t)

Spec == Init /\ [][Next]_vars

-----------------------------------------------------------------------------

ConsoleTypeOK ==
  /\ console_lock \in Printers \cup {NULL}
  /\ DOMAIN screen = Cells
  /\ cursor \in Cells
  /\ bx \in [Printers -> Cells]
  /\ edi \in [Printers -> 0 .. Nibbles]
  /\ pc \in [Printers -> {"idle", "store", "skip", "read", "draw", "set"}]

(***************************************************************************)
(* The reference.  A number has as many digits as it needs and at least    *)
(* one, each the coefficient of its power of the base.                     *)
(***************************************************************************)
Numeral(value, base) ==
  LET len == CHOOSE n \in 1 .. 4 * Nibbles :
               value < base ^ n /\ (n = 1 \/ base ^ (n - 1) <= value)
  IN  [i \in 1 .. len |-> Digit((value \div base ^ (len - i)) % base)]

TextOf(item) ==
  CASE item[1] = "s" -> item[2]
    [] item[1] = "x" -> Numeral(item[2], 16)
    [] item[1] = "d" -> IF item[2] < Word \div 2 THEN Numeral(item[2], 10)
                        ELSE <<"-">> \o Numeral(Word - item[2], 10)
    [] OTHER         -> <<item[2]>>

Calls == ({"str"} \X Strings) \cup ({"char"} \X Chars) \cup ({"int"} \X Numbers)
         \cup ({"printf"} \X Formats)

Text == [call \in Calls |->
           CASE call[1] = "str"  -> call[2]
             [] call[1] = "char" -> <<call[2]>>
             [] call[1] = "int"  -> Numeral(call[2], 16)
             [] OTHER            -> FlattenSeq([i \in DOMAIN call[2] |-> TextOf(call[2][i])])]

(***************************************************************************)
(* It goes to an endless tape of rows, on which nothing ever scrolls.  A   *)
(* screen shows the last Height rows that the cursor has reached.          *)
(***************************************************************************)
MaxText == 5
Tape == 0 .. (MaxText * MaxCalls + 1) * Width

EmptyTape == [cells |-> [i \in Tape |-> Blank], pos |-> 0, row |-> 0]

Move(tape, cells, pos) ==
  [cells |-> cells, pos |-> pos,
   row |-> IF pos \div Width > tape.row THEN pos \div Width ELSE tape.row]

Type(tape, c) ==
  CASE c \in {LF, CR} -> Move(tape, tape.cells, (tape.pos \div Width + 1) * Width)
    [] c = BS -> Move(tape, [tape.cells EXCEPT ![tape.pos - 1] = Blank], tape.pos - 1)
    [] OTHER  -> Move(tape, [tape.cells EXCEPT ![tape.pos] = c], tape.pos + 1)

\* The first cell of the tape that the screen still shows.
Top(tape) == IF tape.row < Height THEN 0 ELSE (tape.row - Height + 1) * Width

\* All that the calls so far ask for.
Output == FlattenSeq([i \in DOMAIN printed |-> Text[printed[i]]])

(***************************************************************************)
(* While nobody prints, the screen shows the strings and numbers that were *)
(* printed, one after the other and none mixed with another, as a terminal *)
(* would.                                                                  *)
(***************************************************************************)
ScreenShowsStrings ==
  console_lock = NULL =>
    LET tape == FoldLeft(Type, EmptyTape, Output)
    IN  /\ cursor = tape.pos - Top(tape)
        /\ \A i \in Cells : screen[i] = tape.cells[Top(tape) + i]

\* The text has a backspace for the cell before the first one on the screen.
ErasesPastTop(text) ==
  \E i \in DOMAIN text :
    LET tape == FoldLeft(Type, EmptyTape, SubSeq(text, 1, i - 1))
    IN  text[i] = BS /\ tape.pos = Top(tape)

(***************************************************************************)
(* put_char does not look where the cursor is before it erases, and in the *)
(* first cell of the screen it writes outside the video memory.  Nothing   *)
(* else leads there: unless the text itself goes back past the first cell, *)
(* no scrolling and no other thread takes the cursor to where it would.    *)
(***************************************************************************)
FaultOnlyPastTop == fault => ErasesPastTop(Output)
=============================================================================
