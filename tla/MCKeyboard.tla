----------------------------- MODULE MCKeyboard -----------------------------
(***************************************************************************)
(* Instance of Keyboard for TLC.                                           *)
(***************************************************************************)
EXTENDS Keyboard, TLC

Symmetry == Permutations(Producers)
=============================================================================
