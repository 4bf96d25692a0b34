---------------------------- MODULE FileWatcher ----------------------------
(***************************************************************************)
(* The polling copy of a script directory (internal/sidecar/watcher.go and *)
(* copier.go): at every tick the FileWatcher copies the files whose        *)
(* modification time is not the one it has recorded; CopyAll copies every  *)
(* file and stops at the first error.  One goroutine, against users who    *)
(* edit the files, failing system calls and the end of the process.        *)
(*                                                                         *)
(* A version stands for the contents and the modification time of a file:  *)
(* every write changes both (see README, "Bounds and assumptions").        *)
(***************************************************************************)
EXTENDS Integers, Sequences, FiniteSets

CONSTANTS
    Files,      \* names of files in the source directory, as their parts
    DirLinks,   \* entries that are links to directories: no IsDir, no data
    Rank,       \* [entries -> Nat]: the order in which ReadDir lists
    Absent,     \* no such file, or nothing recorded
    InPlace,    \* the files that may be rewritten in place
    MaxEdits, MaxFaults, MaxCrashes     \* bounds on users, errors, process ends

Entries == Files \union DirLinks

ASSUME EntriesAssumption ==
    /\ Files \intersect DirLinks = {} /\ Rank \in [Entries -> Nat]
    /\ \A e, f \in Entries : Rank[e] = Rank[f] => e = f
    /\ InPlace \subseteq Files

\* A name is the sequence of its parts between dots (as in StubPaths), and
\* dst + ".tmp" is the name of no other entry: the temporary files can be
\* kept apart from the files that CopyAll and sync put beside them.
ASSUME NamesAssumption == \A e \in Entries : Append(e, "tmp") \notin Entries

\* A copy of version ver of file from; "whole" unless the read was torn.
File == [from : Entries, ver : Nat, has : SUBSET {"whole", "exec"}]

ASSUME AbsentAssumption == Absent \notin Nat /\ Absent \notin File

ASSUME BoundsAssumption ==
    MaxEdits \in Nat /\ MaxFaults \in Nat /\ MaxCrashes \in Nat

VARIABLES
    present,    \* the entries that exist in the source directory
    version,    \* [Entries -> Nat]
    rewriting,  \* files somebody is in the middle of rewriting
    shared,     \* [Entries -> file or Absent]: the output directory
    tmp,        \* [Entries -> file or Absent]: the .tmp files in it
    hashes,     \* fileHashes: [Entries -> version or Absent]
    pc,         \* where the goroutine is
    todo,       \* the entries the loop has still to visit
    stat,       \* the modification time Stat returned, Absent in CopyAll
    listed,     \* history: [Entries -> version or Absent], as CopyAll listed them
    result,     \* what CopyAll returned
    edits, faults, crashes      \* counters for the bounds

userVars == <<present, version, rewriting, edits>>
copyVars == <<shared, tmp>>
loopVars == <<pc, todo, stat, listed, result>>
vars == <<present, version, rewriting, shared, tmp, hashes, pc, todo, stat, listed, result,
          edits, faults, crashes>>

Dir == INSTANCE StubDir WITH
    Scripts <- Entries, Names <- Entries, Absent <- Absent, InPlace <- InPlace,
    present <- present, version <- version, shared <- shared

Nothing == [e \in Entries |-> Absent]

Init ==
    /\ present \in SUBSET Entries
    /\ version = [e \in Entries |-> 0] /\ rewriting = {}
    /\ shared = Nothing /\ tmp = Nothing /\ hashes = Nothing
    /\ pc = "new" /\ todo = {} /\ stat = Absent /\ listed = Nothing /\ result = "none"
    /\ edits = 0 /\ faults = 0 /\ crashes = 0

----------------------------------------------------------------------------
(* Users.                                                                  *)

Edit == edits < MaxEdits /\ edits' = edits + 1

NewVersion(f) == version' = [version EXCEPT ![f] = version[f] + 1]

\* A file is replaced (mv), or somebody begins to rewrite it in place.
Write(f, inPlace) ==
    /\ Edit /\ f \notin rewriting /\ (inPlace => f \in InPlace)
    /\ present' = present \union {f} /\ NewVersion(f)
    /\ rewriting' = IF inPlace THEN rewriting \union {f} ELSE rewriting
    /\ UNCHANGED <<copyVars, hashes, loopVars, faults, crashes>>

EndRewrite(f) ==
    /\ f \in rewriting
    /\ rewriting' = rewriting \ {f} /\ NewVersion(f)
    /\ UNCHANGED <<present, edits, copyVars, hashes, loopVars, faults, crashes>>

Remove(f) ==
    /\ Edit /\ f \in present \ rewriting
    /\ present' = present \ {f}
    /\ UNCHANGED <<version, rewriting, copyVars, hashes, loopVars, faults, crashes>>

----------------------------------------------------------------------------
(* The loops of sync and CopyAll.                                          *)

Fault == faults < MaxFaults /\ faults' = faults + 1

\* The program copies everything before it starts the watcher.
CallCopyAll ==
    /\ pc = "new"
    /\ todo' = present /\ stat' = Absent /\ pc' = "open" /\ result' = "none"
    /\ listed' = [e \in Entries |-> IF e \in present THEN version[e] ELSE Absent]
    /\ UNCHANGED <<userVars, copyVars, hashes, faults, crashes>>

\* Start calls sync at once and at every tick: ReadDir lists the entries.
Tick ==
    /\ pc \in {"new", "copied", "idle"}
    /\ todo' = present /\ pc' = "stat"
    /\ stat' = Absent /\ listed' = Nothing /\ result' = "none"
    /\ UNCHANGED <<userVars, copyVars, hashes, faults, crashes>>

\* ReadDir fails: CopyAll returns the error, sync's is logged.
ReadDirFails ==
    /\ Fault
    /\ \/ pc = "new" /\ pc' = "copied" /\ result' = "error"
       \/ pc \in {"new", "copied", "idle"} /\ pc' = "idle" /\ result' = "none"
    /\ listed' = Nothing
    /\ UNCHANGED <<userVars, copyVars, hashes, todo, stat, crashes>>

\* The entry the loop is at.
Current == CHOOSE e \in todo : \A f \in todo : Rank[e] <= Rank[f]

InCopyAll == pc # "stat" /\ stat = Absent

\* The loop goes on to the following entry.
Advance ==
    /\ todo' = todo \ {Current} /\ stat' = Absent
    /\ pc' = IF InCopyAll THEN "open" ELSE "stat"

\* os.Stat: the file is gone (or Stat fails), is unchanged, or is to be copied.
Stat ==
    /\ pc = "stat" /\ todo # {}
    /\ \/ /\ Current \notin present \/ hashes[Current] = version[Current]
          /\ Advance /\ UNCHANGED faults
       \/ Fault /\ Advance
       \/ /\ Current \in present /\ hashes[Current] # version[Current]
          /\ stat' = version[Current] /\ pc' = "open"
          /\ UNCHANGED <<todo, faults>>
    /\ UNCHANGED <<userVars, copyVars, hashes, listed, result, crashes>>

\* The loop of sync, or of CopyAll, is through.
LoopDone ==
    /\ todo = {}
    /\ \/ pc = "stat" /\ pc' = "idle" /\ UNCHANGED result
       \/ pc = "open" /\ pc' = "copied" /\ result' = "ok"
    /\ UNCHANGED <<userVars, copyVars, hashes, todo, stat, listed, faults, crashes>>

----------------------------------------------------------------------------
(* atomicCopy.                                                             *)

\* os.Open and os.Create, which truncates what an earlier process has left.
Open ==
    /\ pc = "open" /\ todo # {} /\ Current \in present
    /\ tmp' = [tmp EXCEPT ![Current] = [from |-> Current, ver |-> version[Current], has |-> {}]]
    /\ pc' = "copy"
    /\ UNCHANGED <<userVars, shared, hashes, todo, stat, listed, result, faults, crashes>>

\* What io.Copy gets: the version opened, or, if the file is being rewritten
\* in place, any later or torn one.
Copies ==
    LET old == tmp[Current].ver
        last == IF Current \in InPlace THEN version[Current] ELSE old
    IN [from : {Current}, ver : old..last,
        has : {{"whole", "exec"}} \union
              (IF old = last /\ Current \notin rewriting THEN {} ELSE {{"exec"}})]

\* Mutant: without the chmod.
CopyContentUnchmoded ==
    /\ pc = "copy" /\ Current \in Files
    /\ \E c \in Copies : tmp' = [tmp EXCEPT ![Current] = [c EXCEPT !.has = @ \ {"exec"}]]
    /\ pc' = "rename"
    /\ UNCHANGED <<userVars, shared, hashes, todo, stat, listed, result, faults, crashes>>

\* io.Copy, Close and Chmod.  A directory cannot be read.
CopyContent ==
    /\ pc = "copy" /\ Current \in Files
    /\ \E c \in Copies : tmp' = [tmp EXCEPT ![Current] = c]
    /\ pc' = "rename"
    /\ UNCHANGED <<userVars, shared, hashes, todo, stat, listed, result, faults, crashes>>

\* Mutant: the modification time is read again after the copy.
RenameStatLater ==
    /\ pc = "rename"
    /\ shared' = [shared EXCEPT ![Current] = tmp[Current]]
    /\ tmp' = [tmp EXCEPT ![Current] = Absent]
    /\ hashes' = IF InCopyAll THEN hashes ELSE [hashes EXCEPT ![Current] = version[Current]]
    /\ Advance
    /\ UNCHANGED <<userVars, listed, result, faults, crashes>>

\* os.Rename; sync then records the time it read before the copy.
Rename ==
    /\ pc = "rename"
    /\ shared' = [shared EXCEPT ![Current] = tmp[Current]]
    /\ tmp' = [tmp EXCEPT ![Current] = Absent]
    /\ hashes' = IF InCopyAll THEN hashes ELSE [hashes EXCEPT ![Current] = stat]
    /\ Advance
    /\ UNCHANGED <<userVars, listed, result, faults, crashes>>

\* Mutant: sync returns at the first error, as CopyAll does.
CopyErrorReturned ==
    /\ pc' = IF InCopyAll THEN "copied" ELSE "idle"
    /\ result' = IF InCopyAll THEN "error" ELSE result
    /\ todo' = {} /\ stat' = Absent /\ UNCHANGED hashes

\* Mutant: CopyAll goes on after an error.
CopyErrorPassed == Advance /\ UNCHANGED <<result, hashes>>

\* Copy returned an error: CopyAll returns it, sync goes on with the next.
CopyError ==
    IF InCopyAll
    THEN pc' = "copied" /\ result' = "error" /\ todo' = {} /\ UNCHANGED <<stat, hashes>>
    ELSE Advance /\ UNCHANGED <<result, hashes>>

\* The file is gone, or one of the two files cannot be opened.
OpenFails ==
    /\ pc = "open" /\ todo # {}
    /\ (Current \notin present /\ UNCHANGED faults) \/ Fault
    /\ CopyError
    /\ UNCHANGED <<userVars, copyVars, listed, crashes>>

\* Mutant: the return after an error is missing.
CopyFailsGoingOn ==
    /\ pc = "copy" /\ Fault
    /\ tmp' = [tmp EXCEPT ![Current] = Absent] /\ pc' = "rename"
    /\ UNCHANGED <<userVars, shared, hashes, todo, stat, listed, result, crashes>>

\* A later call fails: the temporary file is removed, or stays when os.Remove,
\* whose result nobody looks at, fails too.
CopyFails ==
    /\ LET Removed == tmp' = [tmp EXCEPT ![Current] = Absent] IN
          \/ pc = "copy" /\ Current \in DirLinks /\ Removed /\ UNCHANGED faults
          \/ pc \in {"copy", "rename"} /\ Fault /\ (Removed \/ UNCHANGED tmp)
    /\ CopyError
    /\ UNCHANGED <<userVars, shared, listed, crashes>>

\* The process ends, anywhere, and another one begins: fileHashes is empty.
Crash ==
    /\ crashes < MaxCrashes /\ crashes' = crashes + 1
    /\ hashes' = Nothing /\ listed' = Nothing
    /\ pc' = "new" /\ todo' = {} /\ stat' = Absent /\ result' = "none"
    /\ UNCHANGED <<userVars, copyVars, faults>>

----------------------------------------------------------------------------

User == \E f \in Files : EndRewrite(f) \/ Remove(f) \/ \E inPlace \in BOOLEAN : Write(f, inPlace)

Step ==
    \/ Tick \/ Stat \/ LoopDone \/ Open \/ CopyContent \/ Rename \/ OpenFails \/ CopyFails

Next == User \/ CallCopyAll \/ ReadDirFails \/ Step \/ Crash

Spec == Init /\ [][Next]_vars

\* The ticker ticks and the goroutine goes on.
FairSpec == Spec /\ WF_vars(Step)

----------------------------------------------------------------------------
(* Properties.                                                             *)

FileOrNot == File \union {Absent}
VersionOrNot == Nat \union {Absent}

\* Type invariant; a copy in progress has an entry and a temporary file.
TypeOK ==
    /\ present \in SUBSET Entries
    /\ version \in [Entries -> Nat] /\ rewriting \in SUBSET Files
    /\ shared \in [Entries -> FileOrNot] /\ tmp \in [Entries -> FileOrNot]
    /\ hashes \in [Entries -> VersionOrNot] /\ listed \in [Entries -> VersionOrNot]
    /\ pc \in {"new", "copied", "idle", "stat", "open", "copy", "rename"}
    /\ todo \in SUBSET Entries /\ stat \in VersionOrNot
    /\ pc \in {"copy", "rename"} => todo # {} /\ tmp[Current] # Absent
    /\ result \in {"none", "ok", "error"}
    /\ edits \in 0..MaxEdits /\ faults \in 0..MaxFaults /\ crashes \in 0..MaxCrashes

\* The output directory is one that StubDir allows, whichever of sync and
\* CopyAll fills it (atomicCopy's temporary file and rename).
ImplementsStubDir == Dir!DirSpec

Latest(f) == [from |-> f, ver |-> version[f], has |-> {"whole", "exec"}]

\* sync's change detection is sound: a file whose recorded modification time
\* is the present one, so that no later tick will look at it, is served in
\* its latest version and whole, however its edits fell between Stat, Open
\* and the copy.
RecordedIsServed ==
    \A f \in present \ rewriting : hashes[f] = version[f] => shared[f] = Latest(f)

\* If CopyAll returned no error, everything it listed is there, at least as
\* new as when it was listed.
CopyAllComplete ==
    result = "ok" =>
        \A e \in Entries : listed[e] # Absent => shared[e] # Absent /\ listed[e] <= shared[e].ver

\* Once users and errors leave the directory alone, every file that nobody
\* is rewriting is served in its latest version: a failed copy is tried again
\* at the next tick.
EventuallyServed ==
    \A f \in Files : <>[](f \in present \ rewriting => shared[f] = Latest(f))
============================================================================
