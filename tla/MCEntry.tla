------------------------------ MODULE MCEntry ------------------------------
(* Three tasks; timer, keyboard, a line without callback and two of        *)
(* the second controller; a divide error, an overflow, which has no        *)
(* handler, and the three faults that end a process.                       *)
EXTENDS Entry

TaskSymmetry == Permutations(Tasks)
=============================================================================
