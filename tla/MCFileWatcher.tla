--------------------------- MODULE MCFileWatcher ---------------------------
(***************************************************************************)
(* An instance of FileWatcher for TLC: two files and, between them in the  *)
(* listing, a link to a directory.                                         *)
(***************************************************************************)
EXTENDS FileWatcher, TLC

ls == <<"ls">>
link == <<"opt">>
ps == <<"ps", "sh">>

MCFiles == {ls, ps}
MCLinks == {link}

\* ls is rewritten in place at times, ps always replaced.
MCInPlace == {ls}
MCRank == (ls :> 1) @@ (link :> 2) @@ (ps :> 3)
============================================================================
