------------------------------ MODULE MCPosix -------------------------------
(* An instance of Posix: what is written.  Nothing tells the names apart.  *)
EXTENDS Posix, TLC

Written == {<<CR>>, <<LF, 1, BS>>}

(* An end of line across the end of a sector, one before it, and one that  *)
(* ends the file.                                                          *)
Lines == {<<1, CR, LF, CR>>, <<LF, CR, CR, LF>>}

SameNames == Permutations(Names)
=============================================================================
