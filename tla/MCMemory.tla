------------------------------ MODULE MCMemory ------------------------------
(* The heap under its callers in the kernel, and the memory processes get  *)
(* from it, on a small table.  A behaviour is one of the two: the other    *)
(* module stays in its initial state.                                      *)
EXTENDS Heap, UserMemory, TLC

MemoryInit == Init /\ UserInit

MemoryNext ==
    \/ UserInit /\ Next /\ UNCHANGED userVars
    \/ Init /\ UserNext /\ UNCHANGED vars

MemorySpec == MemoryInit /\ [][MemoryNext]_<<vars, userVars>>

Perms == Permutations(Clients) \cup Permutations(Processes)
=============================================================================
