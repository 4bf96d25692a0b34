----------------------------- MODULE StubPaths -----------------------------
(***************************************************************************)
(* The path arithmetic of the sidecar (path/filepath as cmd/sidecar uses   *)
(* it).  A path is a record [dir, file]; a file name is the sequence of    *)
(* its dot-separated parts, so that "python3.9" is <<"python3", "9">> and  *)
(* the name of the temporary file next to it would be                      *)
(* <<"python3", "9", "tmp">>.                                              *)
(***************************************************************************)
EXTENDS Sequences, Integers

\* filepath.Base: the last element of a path.
Base(path) == path.file

\* name[:len(name)-len(filepath.Ext(name))]: everything before the last dot.
StripExt(file) ==
    IF Len(file) > 1 THEN SubSeq(file, 1, Len(file) - 1) ELSE file

\* The command name syncBehaviorScript derives from a behavior's targetPath.
TargetCommand(target) == StripExt(Base(target))
============================================================================
