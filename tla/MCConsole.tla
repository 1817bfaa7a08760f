----------------------------- MODULE MCConsole -----------------------------
(***************************************************************************)
(* Instance of Console for TLC.                                            *)
(***************************************************************************)
EXTENDS Console

\* A string longer than a row, a line, a character that is erased, and a string
\* that erases more than is there or has scrolled away, if little was printed.
Texts == {<<"y", "z", "y">>, <<"z", LF>>, <<"y", BS>>, <<BS, BS, BS>>}

\* Words of two digits: zero, a letter, a zero at the end, all bits.
Values == {0, 10, 240, 255}

\* The addresses that the programs in main.c print, and the ends of the ints.
Printfs ==
  {<<<<"lit", "x">>, <<"x", 26>>, <<"c", LF>>>>,
   <<<<"d", 128>>, <<"lit", "d">>>>,
   <<<<"s", <<"x", "s">>>>, <<"d", 100>>>>}
=============================================================================
