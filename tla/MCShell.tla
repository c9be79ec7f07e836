------------------------------- MODULE MCShell -------------------------------
(***************************************************************************)
(* Instances of the shell for TLC: one program on the disk, called a.      *)
(***************************************************************************)
EXTENDS Shell

MCPrograms == {<<"a">>}

MCChars == {"a", "b", "#", "B", "$", "o", "f", Blank, NL, CR, BS, TAB}

(* What lies behind the character of sys_putchar: a zero; or bytes left by *)
(* an earlier system call, which begin with a carriage return.             *)
MCJunk == {<<>>, <<CR, "#">>}
=============================================================================
