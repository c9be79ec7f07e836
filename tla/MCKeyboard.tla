----------------------------- MODULE MCKeyboard -----------------------------
(* The keyboard with a short buffer and counters that wrap soon.           *)
EXTENDS Keyboard, TLC

ProcessSymmetry == Permutations(Processes)
=============================================================================
