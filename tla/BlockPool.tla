----------------------------- MODULE BlockPool -----------------------------
(***************************************************************************)
(* What the kernel heap promises its callers: a pool of blocks from which  *)
(* a caller takes a run of blocks nobody owns and later gives exactly that *)
(* run back.  The promise holds up to the first request the pool cannot    *)
(* meet; from then on it is void.                                          *)
(***************************************************************************)
EXTENDS Integers

CONSTANTS
    Blocks,     \* the blocks of the pool, an interval of integers
    Clients,    \* the callers, each holding at most one run
    Nobody      \* the owner of a free block

VARIABLES
    owner,      \* who owns each block
    void        \* a request could not be met: no promise any more

poolVars == <<owner, void>>

Owned(c) == {i \in Blocks : owner[i] = c}

Init == owner = [i \in Blocks |-> Nobody] /\ void = FALSE

(* c gets a run of blocks nobody owns.                                     *)
Take(c) ==
    \E lo, hi \in Blocks :
        /\ ~void /\ Owned(c) = {} /\ lo <= hi
        /\ \A i \in lo .. hi : owner[i] = Nobody
        /\ owner' = [i \in Blocks |-> IF i \in lo .. hi THEN c ELSE owner[i]]
        /\ UNCHANGED void

(* c gives its run back.                                                   *)
Give(c) ==
    /\ ~void /\ Owned(c) # {}
    /\ owner' = [i \in Blocks |-> IF owner[i] = c THEN Nobody ELSE owner[i]]
    /\ UNCHANGED void

Default ==
    /\ ~void
    /\ void' = TRUE
    /\ owner' = [i \in Blocks |-> Nobody]

Next == (\E c \in Clients : Take(c) \/ Give(c)) \/ Default

Spec == Init /\ [][Next]_poolVars
=============================================================================
