------------------------------ MODULE MCFiles ------------------------------
(* A disk of three clusters with two files and small sectors.              *)
EXTENDS Files

CONSTANTS A, B, C

(* A has two clusters, anywhere; B has one; C is on the disk or not.       *)
Chains ==
    {c \in [Files -> {<<x>> : x \in 2 .. 4} \cup {<<x, y>> : x \in 2 .. 4, y \in 2 .. 4}] :
        /\ Len(c[A]) = 2 /\ c[A][1] # c[A][2]
        /\ Len(c[B]) = 1
        /\ ToSet(c[A]) \cap ToSet(c[B]) = {}
        /\ c[C] = <<2>>}

Disk(root, chain, runon, dirs, signed) ==
    [root |-> root, chain |-> chain, size |-> [f \in Files |-> IF f = A THEN 7 ELSE 3],
     runon |-> runon, dirs |-> dirs, signed |-> signed]

Contiguously == CHOOSE c \in Chains : c[A] = <<3, 4>> /\ c[B] = <<2>>

(* For reads: every placement of the two files.                            *)
ReadDisks == {Disk(<<A, B, End, End>>, c, {}, {}, TRUE) : c \in Chains}

(* For opens: every order of the entries, deleted entries among them, a    *)
(* name that runs on, a subdirectory, and a disk without file system.      *)
Roots == {r \in [1 .. 4 -> {A, B, Deleted, End}] :
            /\ r[4] = End
            /\ \A i, j \in 1 .. 4 : i < j => (r[i] = End => r[j] = End) /\ (r[i] \in Files => r[i] # r[j])}
OpenDisks ==
    {Disk(r, Contiguously, {}, {}, TRUE) : r \in Roots}
    \cup {Disk(<<A, B, End, End>>, Contiguously, u, v, s) : u \in {{}, {A}}, v \in {{}, {B}}, s \in BOOLEAN}

MCDisks == ReadDisks \cup OpenDisks

Path(valid, drive, parts) == [valid |-> valid, drive |-> drive, parts |-> parts]
ReadPaths == {Path(TRUE, 0, <<A>>), Path(TRUE, 0, <<B>>)}
OpenPaths == ReadPaths \cup {Path(FALSE, 0, <<>>), Path(TRUE, 0, <<>>), Path(TRUE, 1, <<A>>),
                             Path(TRUE, 0, <<B, A>>), Path(TRUE, 0, <<C>>)}
=============================================================================
