----------------------------- MODULE MCSidecar -----------------------------
(***************************************************************************)
(* Instances of Sidecar for TLC.                                           *)
(***************************************************************************)
EXTENDS Sidecar

ScriptA == [dir |-> "", file |-> <<"a", "sh">>]
ScriptB == [dir |-> "lib", file |-> <<"b">>]

BinLs == [dir |-> "/bin", file |-> <<"ls">>]
UsrBinLsSh == [dir |-> "/usr/bin", file |-> <<"ls", "sh">>]
BinPs == [dir |-> "/bin", file |-> <<"ps">>]

To(script, target) == [script |-> script, target |-> target]

MCScripts == {ScriptA, ScriptB}
MCTargets == {BinLs, UsrBinLsSh, BinPs}
\* Edits replace a.sh and rewrite b where it is.
MCInPlace == {ScriptB}
MCRank == [r \in {ScriptA, ScriptB} |-> IF r = ScriptA THEN 1 ELSE 2]

\* One command; two commands; one command named twice, once through
\* a path whose extension is stripped.
LsOnly == <<To(ScriptA, BinLs)>>
LsAndPs == <<To(ScriptB, BinLs), To(ScriptA, BinPs)>>
LsTwice == <<To(ScriptA, BinLs), To(ScriptB, UsrBinLsSh)>>

TwoSpecs == {LsOnly, LsAndPs}
ThreeSpecs == {LsOnly, LsAndPs, LsTwice}
OneSpec == {LsOnly}
============================================================================
