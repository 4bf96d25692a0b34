------------------------------ MODULE StubDir ------------------------------
(***************************************************************************)
(* What the sidecar promises to the business containers that have the     *)
(* shared directory (/dynastub/bin) first in their PATH: whatever happens  *)
(* to the sidecar, a command they look up there is an executable copy of a *)
(* version its source script really had, successive copies of one script   *)
(* never go back in time, and the directory changes one entry at a time.   *)
(* The copy is complete too, except for the scripts their owner rewrites   *)
(* in place: such a script can be read while it is half written, and       *)
(* nothing is promised of the content then.  Nothing is said here of how a *)
(* copy is made.                                                           *)
(***************************************************************************)
EXTENDS Integers

CONSTANTS
    Scripts,    \* paths of the user's scripts below the script volume
    Names,      \* file names that may appear in the shared directory
    Absent,     \* "no such directory entry"
    InPlace     \* the scripts that are rewritten in place, not replaced

VARIABLES
    present,    \* the scripts that exist in the script volume
    version,    \* [Scripts -> Nat]: their versions
    shared      \* [Names -> file or Absent]: the shared directory

dirVars == <<present, version, shared>>

\* A copy of version ver of script from; "whole" unless the read was torn.
File == [from : Scripts, ver : Nat, has : SUBSET {"whole", "exec"}]

DirInit ==
    /\ present \in SUBSET Scripts /\ version = [r \in Scripts |-> 0]
    /\ shared = [n \in Names |-> Absent]

\* The user changes (or creates) the content of a script, or removes it.
Rewrite(r) ==
    /\ present' = present \union {r}
    /\ version' = [version EXCEPT ![r] = version[r] + 1]
Unlink(r) == present' = present \ {r} /\ UNCHANGED version

\* One entry is put in place in one step.  The new file is executable, holds
\* a version the script really had, complete unless the script is rewritten
\* in place, and is not older than the copy of the same script it replaces.
Publish(n) ==
    LET f == shared'[n] IN
        /\ f \in File
        /\ "exec" \in f.has
        /\ "whole" \in f.has \/ f.from \in InPlace
        /\ f.ver <= version[f.from]
        /\ shared[n] # Absent /\ shared[n].from = f.from => shared[n].ver <= f.ver
        /\ shared' = [shared EXCEPT ![n] = f]

\* One entry is taken away.
Withdraw(n) == shared' = [shared EXCEPT ![n] = Absent]

DirNext ==
    \/ \E r \in Scripts : (Rewrite(r) \/ Unlink(r)) /\ UNCHANGED shared
    \/ \E n \in Names : Publish(n) /\ UNCHANGED <<present, version>>
    \/ \E n \in Names : Withdraw(n) /\ UNCHANGED <<present, version>>

DirSpec == DirInit /\ [][DirNext]_dirVars
============================================================================
