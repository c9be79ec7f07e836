----------------------------- MODULE MCConsole -----------------------------
(* The shell and two more programs.  No symmetry: the run checks liveness. *)
EXTENDS Console
=============================================================================
