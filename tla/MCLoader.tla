----------------------------- MODULE MCLoader -----------------------------
(* One file of every sort: a program, a flat binary, a program with a      *)
(* header that is not PT_LOAD, one whose segment wraps, and a program of   *)
(* more than one cluster.                                                  *)
EXTENDS Loader

CONSTANTS Prog, Flat, Other, Wrap, Long, Absent

Header(f) == [valid |-> f # Flat,
              types |-> IF f = Other THEN {"PT_LOAD", "PT_NOTE"} ELSE {"PT_LOAD"},
              wraps |-> f = Wrap]
MCDisk ==
    [root |-> <<Prog, Flat, Other, Wrap, Long, End>>,
     chain |-> [f \in Files |-> CASE f = Prog -> <<2>> [] f = Flat -> <<3>> [] f = Other -> <<4>>
                                  [] f = Wrap -> <<5>> [] f = Long -> <<6, 7>> [] OTHER -> <<8>>],
     size |-> [f \in Files |-> IF f = Long THEN 6 ELSE 3],
     runon |-> {}, dirs |-> {}, signed |-> TRUE,
     header |-> [f \in Files |-> Header(f)]]
MCVolumes == {MCDisk}
MCPrograms == {[valid |-> TRUE, drive |-> 0, parts |-> <<f>>] : f \in Files}
=============================================================================
