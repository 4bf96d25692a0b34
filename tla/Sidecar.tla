------------------------------ MODULE Sidecar ------------------------------
(***************************************************************************)
(* The sidecar that the webhook injects into a pod (cmd/sidecar/main.go):  *)
(* it copies the scripts named by its BehaviorStub from the script volume  *)
(* into the shared directory, marks itself ready, and then follows the     *)
(* BehaviorStub through a Kubernetes watch, or by polling when the watch   *)
(* cannot be opened.                                                       *)
(*                                                                         *)
(* Around it: the user who edits scripts and the BehaviorStub, the API     *)
(* server that serves Get and Watch, the controller whose status writes    *)
(* also produce Modified events, and the kubelet that (re)starts the       *)
(* container and starts the business container.                            *)
(***************************************************************************)
EXTENDS Integers, Sequences, FiniteSets, StubPaths

CONSTANTS
    Scripts,        \* script paths [dir, file], relative to the script volume
    TopDir,         \* the directory of scripts that lie directly in the volume
    Targets,        \* paths [dir, file] of commands a behavior may redirect
    Rank,           \* [Scripts -> Nat]: file name order, as os.ReadDir lists
    Specs,          \* sequences of behaviors a BehaviorStub may have
    NoStub,         \* the BehaviorStub does not exist
    Absent,         \* no such entry in the shared directory
    InPlace,        \* scripts an edit rewrites in place; it replaces the others
    Heartbeats,     \* TRUE: the controller keeps writing the stub's status
    MaxEdits,       \* bound on changes to scripts and to the stub
    MaxEvents,      \* bound on undelivered watch events
    MaxFaults,      \* bound on failing system and API calls
    MaxCrashes      \* bound on container exits

\* A behavior redirects the command at path target to script.
Behavior == [script : Scripts, target : Targets]

\* File names the sidecar can create in the shared directory: command names,
\* and the scripts' own names when the whole directory is copied.
Names == {TargetCommand(t) : t \in Targets} \union {Base(r) : r \in Scripts}

\* A copy of version ver of script from.  It has "whole" when its content is
\* complete and not torn, "exec" when its mode is 0755.
File == [from : Scripts, ver : Nat, has : SUBSET {"whole", "exec"}]

Job == [from : Scripts, to : Names]

ASSUME ScriptsAssumption ==
    /\ IsFiniteSet(Scripts)
    /\ Specs \subseteq Seq(Behavior)
    /\ NoStub \notin Specs
    /\ Absent \notin File
    /\ InPlace \subseteq Scripts /\ Heartbeats \in BOOLEAN

\* dst + ".tmp" never collides with a destination, and no command name is
\* empty: the temporary files can be kept apart from the published ones.
ASSUME NamesAssumption ==
    \A n \in Names : Len(n) > 0 /\ n # <<"">> /\ n[Len(n)] # "tmp"

ASSUME BoundsAssumption ==
    {MaxEdits, MaxEvents, MaxFaults, MaxCrashes} \subseteq Nat

VARIABLES
    present,    \* the scripts that exist in the script volume (hostPath)
    version,    \* [Scripts -> Nat]: their versions
    rewriting,  \* the scripts whose rewriting in place is under way
    stub,       \* the behaviors of the BehaviorStub at the API server
    watch,      \* "none", "open" or "closed": the watch connection
    events,     \* event types sent on the watch and not yet received
    shared,     \* [Names -> File or Absent]: the shared emptyDir
    tmp,        \* [Names -> File or Absent]: entry n + ".tmp" of that directory
    unremoved,  \* error paths of atomicCopy whose os.Remove has failed
    pc,         \* what the sidecar does next
    mode,       \* "boot", then "watch" or "poll"
    behaviors,  \* SidecarManager.behaviors
    plan,       \* jobs of the running (or last) sync, in order
    next,       \* index of the job in progress
    result,     \* outcome of the last sync or cleanup
    ready,      \* the ready marker exists
    app,        \* "waiting" or "running": the business container
    edits, faults, crashes      \* counters for the bounds

srcVars == <<present, version, rewriting>>
userVars == <<srcVars, stub, edits>>
apiVars == <<stub, watch, events>>
dirVars == <<shared, tmp, unremoved>>
syncVars == <<behaviors, plan, next, result>>
vars == <<present, version, rewriting, stub, watch, events, shared, tmp, unremoved, pc, mode,
          behaviors, plan, next, result, ready, app, edits, faults, crashes>>

Steps == {"down", "get", "mkdir", "readdir", "next", "opened", "written",
          "chmoded", "mark", "startwatch", "idle", "cleanup"}
Results == {"none", "ok", "partial", "fallback", "error", "cleaned"}

Init ==
    /\ present \in SUBSET Scripts /\ version = [r \in Scripts |-> 0]
    /\ rewriting = {}
    /\ stub \in Specs \union {NoStub}
    /\ watch = "none" /\ events = <<>>
    /\ shared = [n \in Names |-> Absent]
    /\ tmp = [n \in Names |-> Absent] /\ unremoved = 0
    /\ pc = "down" /\ mode = "boot"
    /\ behaviors = <<>> /\ plan = <<>> /\ next = 1 /\ result = "none"
    /\ ready = FALSE /\ app = "waiting"
    /\ edits = 0 /\ faults = 0 /\ crashes = 0

Fault == faults < MaxFaults /\ faults' = faults + 1

----------------------------------------------------------------------------
(* The user, the API server and the controller.                            *)

\* The API server sends an event to an open watch; nobody keeps it otherwise.
Deliver(e) ==
    IF watch = "open"
    THEN Len(events) < MaxEvents /\ events' = Append(events, e)
    ELSE events' = events

SetStub(sp) ==
    /\ edits < MaxEdits /\ edits' = edits + 1
    /\ sp # stub
    /\ stub' = sp
    /\ Deliver(IF stub = NoStub THEN "Added" ELSE "Modified")
    /\ UNCHANGED <<srcVars, watch, dirVars, pc, mode, syncVars, ready, app, faults, crashes>>

DeleteStub ==
    /\ edits < MaxEdits /\ edits' = edits + 1
    /\ stub # NoStub
    /\ stub' = NoStub
    /\ Deliver("Deleted")
    /\ UNCHANGED <<srcVars, watch, dirVars, pc, mode, syncVars, ready, app, faults, crashes>>

\* The controller's periodic status write: the spec is unchanged, and yet
\* every open watch sees a Modified event.
StatusHeartbeat ==
    /\ Heartbeats /\ stub # NoStub /\ watch = "open"
    /\ Deliver("Modified")
    /\ UNCHANGED <<userVars, watch, dirVars, pc, mode, syncVars, ready, app, faults, crashes>>

\* An edit of a script: a new file takes its place, or its content begins to
\* change where it is.
WriteScript(r) ==
    /\ edits < MaxEdits /\ edits' = edits + 1
    /\ r \notin rewriting
    /\ present' = present \union {r}
    /\ version' = [version EXCEPT ![r] = version[r] + 1]
    /\ rewriting' = IF r \in InPlace THEN rewriting \union {r} ELSE rewriting
    /\ UNCHANGED <<apiVars, dirVars, pc, mode, syncVars, ready, app, faults, crashes>>

\* The rewriting of a script in place ends, the second of the two changes it
\* counts as; the content is final.
EndRewrite(r) ==
    /\ edits < MaxEdits /\ edits' = edits + 1
    /\ r \in rewriting
    /\ version' = [version EXCEPT ![r] = version[r] + 1]
    /\ rewriting' = rewriting \ {r}
    /\ UNCHANGED <<present, apiVars, dirVars, pc, mode, syncVars, ready, app, faults, crashes>>

RemoveScript(r) ==
    /\ edits < MaxEdits /\ edits' = edits + 1
    /\ r \in present \ rewriting
    /\ present' = present \ {r}
    /\ UNCHANGED <<version, rewriting, apiVars, dirVars, pc, mode, syncVars, ready, app, faults, crashes>>

\* The API server or the network ends the watch (it is never unlimited).
\* What had been sent is received in part, maybe followed by an Error event.
WatchBreaks ==
    /\ watch = "open" /\ Fault
    /\ watch' = "closed"
    /\ \E k \in 0..Len(events) :
          \/ events' = SubSeq(events, 1, k)
          \/ events' = Append(SubSeq(events, 1, k), "Error")
    /\ UNCHANGED <<userVars, dirVars, pc, mode, syncVars, ready, app, crashes>>

\* The kubelet starts the business container once the sidecar container
\* runs: the injected container has no startup probe to wait for.
StartBusiness ==
    /\ app = "waiting" /\ pc # "down"
    /\ app' = "running"
    /\ UNCHANGED <<userVars, watch, events, dirVars, pc, mode, syncVars, ready, faults, crashes>>

----------------------------------------------------------------------------
(* Start and end of the process.                                           *)

\* The kubelet starts the container (restartPolicy Always); main runs up to
\* the first SyncAllScripts.
StartSidecar ==
    /\ pc = "down"
    /\ pc' = "get"
    /\ UNCHANGED <<srcVars, apiVars, dirVars, mode, syncVars, ready, app, edits, faults, crashes>>

\* The process ends: its memory, its watch and the container's own file
\* system (the ready marker in /tmp) are gone, the shared emptyDir stays.
Exit ==
    /\ crashes < MaxCrashes /\ crashes' = crashes + 1
    /\ pc' = "down" /\ mode' = "boot"
    /\ watch' = "none" /\ events' = <<>>
    /\ behaviors' = <<>> /\ plan' = <<>> /\ next' = 1 /\ result' = "none"
    /\ ready' = FALSE
    /\ UNCHANGED <<userVars, dirVars, app>>

\* Killed, evicted, panicked, or log.Fatalf in createDynamicClient: at any
\* point, a copy in progress included.
Crash == pc # "down" /\ Exit /\ UNCHANGED faults

\* SIGTERM once main waits for signals; the other goroutine is not joined.
Terminate == mode # "boot" /\ Exit /\ UNCHANGED faults

\* log.Fatalf after a failed first sync or a failed markReady.
Fatal == Fault /\ Exit

----------------------------------------------------------------------------
(* SyncAllScripts.                                                         *)

JobOf(b) == [from |-> b.script, to |-> TargetCommand(b.target)]

\* Get succeeds: s.behaviors is replaced and every behavior becomes a job.
GetBehaviorStub ==
    /\ pc = "get" /\ stub # NoStub
    /\ behaviors' = stub
    /\ plan' = [i \in 1..Len(stub) |-> JobOf(stub[i])]
    /\ next' = 1 /\ result' = "ok"
    /\ pc' = "mkdir"
    /\ UNCHANGED <<userVars, watch, events, dirVars, mode, ready, app, faults, crashes>>

\* Get fails, because there is no stub or for any other reason: the fallback
\* takes over and s.behaviors keeps its value.
GetFails ==
    /\ pc = "get"
    /\ IF stub = NoStub THEN faults' = faults ELSE Fault
    /\ result' = "fallback"
    /\ pc' = "readdir"
    /\ UNCHANGED <<userVars, watch, events, dirVars, mode, behaviors, plan, next, ready, app, crashes>>

\* The shared directory is there (MkdirAll).
MakeSharedDir ==
    /\ pc = "mkdir"
    /\ pc' = "next"
    /\ UNCHANGED <<userVars, watch, events, dirVars, mode, syncVars, ready, app, faults, crashes>>

\* The scripts that lie directly in the volume, in the order of their names.
Listing(S) ==
    {l \in [1..Cardinality(S) -> S] : \A i, j \in DOMAIN l : i < j => Rank[l[i]] < Rank[l[j]]}

\* syncAllFromDirectory lists the files of the script volume.
ReadSourceDir ==
    /\ pc = "readdir"
    /\ \E l \in Listing({r \in present : r.dir = TopDir}) :
          plan' = [i \in 1..Len(l) |-> [from |-> l[i], to |-> Base(l[i])]]
    /\ next' = 1 /\ pc' = "next"
    /\ UNCHANGED <<userVars, watch, events, dirVars, mode, behaviors, result, ready, app, faults,
                   crashes>>

\* MkdirAll or ReadDir fails: SyncAllScripts returns an error, which is fatal
\* during boot and only logged later.
SyncFails ==
    /\ pc \in {"mkdir", "readdir"}
    /\ \/ mode = "boot" /\ Fatal
       \/ /\ mode # "boot" /\ Fault
          /\ pc' = "idle" /\ result' = "error"
          /\ UNCHANGED <<userVars, watch, events, dirVars, mode, behaviors, plan, next, ready, app,
                         crashes>>

\* Mutant: a failing behavior is counted as copied.
JobFailedCounted ==
    /\ next' = next + 1 /\ pc' = "next"
    /\ UNCHANGED <<userVars, watch, events, shared, mode, behaviors, plan, result, ready, app, crashes>>

\* One job ends without a published file; the loop goes on with the next.
JobFailed ==
    /\ next' = next + 1 /\ pc' = "next"
    /\ result' = IF result = "ok" THEN "partial" ELSE result
    /\ UNCHANGED <<userVars, watch, events, shared, mode, behaviors, plan, ready, app, crashes>>

\* os.Stat, os.Open and os.Create: the source is open at its present version
\* and the temporary file is empty.  A leftover keeps its mode when truncated.
OpenAndCreate ==
    /\ pc = "next" /\ next <= Len(plan)
    /\ LET job == plan[next] IN
          /\ job.from \in present
          /\ tmp' = [tmp EXCEPT ![job.to] =
                        [from |-> job.from, ver |-> version[job.from],
                         has |-> IF tmp[job.to] = Absent THEN {} ELSE tmp[job.to].has \ {"whole"}]]
    /\ pc' = "opened"
    /\ UNCHANGED <<userVars, watch, events, shared, unremoved, mode, syncVars, ready, app, faults,
                   crashes>>

\* The script is not there, or Open or Create fails.
OpenFails ==
    /\ pc = "next" /\ next <= Len(plan)
    /\ IF plan[next].from \in present THEN Fault ELSE faults' = faults
    /\ JobFailed
    /\ UNCHANGED <<tmp, unremoved>>

\* What a read of r that began at version old and ended at version new has
\* obtained: perhaps a torn script, if its content changed meanwhile.
Contents(r, old, new) ==
    IF old = new /\ r \notin rewriting THEN {{"whole"}} ELSE {{"whole"}, {}}

\* io.Copy and Close.  The open file still is the version opened unless the
\* script is rewritten in place: then the copy may be newer, or torn.
CopyContent ==
    /\ pc = "opened"
    /\ LET job == plan[next]
           old == tmp[job.to].ver
           new == IF job.from \in InPlace THEN version[job.from] ELSE old
       IN \E v \in old..new, c \in Contents(job.from, old, new) :
             tmp' = [tmp EXCEPT ![job.to] =
                        [from |-> job.from, ver |-> v, has |-> tmp[job.to].has \union c]]
    /\ pc' = "written"
    /\ UNCHANGED <<userVars, watch, events, shared, unremoved, mode, syncVars, ready, app, faults,
                   crashes>>

\* os.Chmod(tmp, 0755)
Chmod ==
    /\ pc = "written"
    /\ LET to == plan[next].to IN
          tmp' = [tmp EXCEPT ![to] =
                    [from |-> tmp[to].from, ver |-> tmp[to].ver, has |-> tmp[to].has \union {"exec"}]]
    /\ pc' = "chmoded"
    /\ UNCHANGED <<userVars, watch, events, shared, unremoved, mode, syncVars, ready, app, faults,
                   crashes>>

\* Mutant: the file is renamed without the chmod.
RenameUnchmoded ==
    /\ pc = "written"
    /\ shared' = [shared EXCEPT ![plan[next].to] = tmp[plan[next].to]]
    /\ tmp' = [tmp EXCEPT ![plan[next].to] = Absent]
    /\ next' = next + 1 /\ pc' = "next"
    /\ UNCHANGED <<userVars, watch, events, unremoved, mode, behaviors, plan, result, ready, app,
                   faults, crashes>>

\* os.Rename(tmp, dst): the entry is replaced in one step.
Rename ==
    /\ pc = "chmoded"
    /\ shared' = [shared EXCEPT ![plan[next].to] = tmp[plan[next].to]]
    /\ tmp' = [tmp EXCEPT ![plan[next].to] = Absent]
    /\ next' = next + 1 /\ pc' = "next"
    /\ UNCHANGED <<userVars, watch, events, unremoved, mode, behaviors, plan, result, ready, app,
                   faults, crashes>>

\* Mutant: an error path forgets to remove the temporary file.
CopyFailsLeaving ==
    /\ pc \in {"opened", "written", "chmoded"}
    /\ Fault
    /\ UNCHANGED <<tmp, unremoved>>
    /\ JobFailed

\* Mutant: the error path of io.Copy forgets to return.
CopyFailsGoingOn ==
    /\ pc = "opened"
    /\ Fault
    /\ tmp' = [tmp EXCEPT ![plan[next].to] = Absent]
    /\ pc' = "written"
    /\ UNCHANGED <<userVars, watch, events, shared, unremoved, mode, syncVars, ready, app, crashes>>

\* io.Copy, Close, Chmod or Rename fails: the temporary file is removed, or
\* stays when whatever made the call fail makes os.Remove fail too (nobody
\* looks at its result).
CopyFails ==
    /\ pc \in {"opened", "written", "chmoded"}
    /\ Fault
    /\ \/ tmp' = [tmp EXCEPT ![plan[next].to] = Absent] /\ UNCHANGED unremoved
       \/ unremoved' = unremoved + 1 /\ UNCHANGED tmp
    /\ JobFailed

\* Mutant: the first sync is not followed by markReady.
SyncDoneUnmarked ==
    /\ pc = "next" /\ next > Len(plan)
    /\ pc' = IF mode = "boot" THEN "startwatch" ELSE "idle"
    /\ UNCHANGED <<userVars, watch, events, dirVars, mode, syncVars, ready, app, faults, crashes>>

\* The loop is over; SyncAllScripts returns nil whatever the jobs did.
SyncDone ==
    /\ pc = "next" /\ next > Len(plan)
    /\ pc' = IF mode = "boot" THEN "mark" ELSE "idle"
    /\ UNCHANGED <<userVars, watch, events, dirVars, mode, syncVars, ready, app, faults, crashes>>

----------------------------------------------------------------------------
(* The rest of main, and WatchBehaviorStub and WatchScripts.               *)

MarkReady ==
    /\ pc = "mark"
    /\ \/ /\ ready' = TRUE /\ pc' = "startwatch"
          /\ UNCHANGED <<userVars, watch, events, dirVars, mode, syncVars, app, faults, crashes>>
       \/ Fatal

\* Mutant: the watch starts at the present resource version.
NoFirstEvents == <<>>

\* A watch without a resource version begins with an Added event for the
\* object if it exists.
FirstEvents == IF stub = NoStub THEN <<>> ELSE <<"Added">>

StartWatch ==
    /\ pc = "startwatch"
    /\ watch' = "open" /\ events' = FirstEvents
    /\ mode' = "watch" /\ pc' = "idle"
    /\ UNCHANGED <<userVars, dirVars, syncVars, ready, app, faults, crashes>>

\* The watch cannot be opened: WatchScripts polls from now on.
StartPolling ==
    /\ pc = "startwatch" /\ Fault
    /\ mode' = "poll" /\ pc' = "idle"
    /\ UNCHANGED <<userVars, watch, events, dirVars, syncVars, ready, app, crashes>>

PollTick ==
    /\ pc = "idle" /\ mode = "poll"
    /\ pc' = "get"
    /\ UNCHANGED <<userVars, watch, events, dirVars, mode, syncVars, ready, app, faults, crashes>>

\* Mutant: only Added leads to a sync.
ReactionToAdded(e) ==
    CASE e = "Added" -> "get"
      [] e = "Deleted" -> "cleanup"
      [] OTHER -> "idle"

\* What the receive loop does on an event.
Reaction(e) ==
    CASE e \in {"Added", "Modified"} -> "get"
      [] e = "Deleted" -> "cleanup"
      [] OTHER -> "idle"

HandleEvent ==
    /\ pc = "idle" /\ mode = "watch" /\ events # <<>>
    /\ pc' = Reaction(Head(events))
    /\ events' = Tail(events)
    /\ UNCHANGED <<userVars, watch, dirVars, mode, syncVars, ready, app, faults, crashes>>

\* A closed channel yields zero events without end; each is only logged.
ReceiveFromClosed ==
    /\ pc = "idle" /\ mode = "watch" /\ watch = "closed" /\ events = <<>>
    /\ UNCHANGED vars

\* os.RemoveAll(SharedDir) unlinks the entries one by one.
CleanupEntry ==
    /\ pc = "cleanup"
    /\ \E n \in Names :
          \/ /\ shared[n] # Absent
             /\ shared' = [shared EXCEPT ![n] = Absent] /\ UNCHANGED tmp
          \/ /\ tmp[n] # Absent
             /\ tmp' = [tmp EXCEPT ![n] = Absent] /\ UNCHANGED shared
    /\ UNCHANGED <<userVars, watch, events, unremoved, pc, mode, syncVars, ready, app, faults,
                   crashes>>

\* Nothing is left, or what is left cannot be removed (only logged).
CleanupDone ==
    /\ pc = "cleanup"
    /\ IF \A n \in Names : shared[n] = Absent /\ tmp[n] = Absent
       THEN result' = "cleaned" /\ faults' = faults
       ELSE result' = "error" /\ Fault
    /\ pc' = "idle"
    /\ UNCHANGED <<userVars, watch, events, dirVars, mode, behaviors, plan, next, ready, app, crashes>>

----------------------------------------------------------------------------

User ==
    \/ \E sp \in Specs : SetStub(sp)
    \/ DeleteStub
    \/ \E r \in Scripts : WriteScript(r) \/ EndRewrite(r) \/ RemoveScript(r)

Sync ==
    \/ GetBehaviorStub \/ GetFails \/ MakeSharedDir \/ ReadSourceDir \/ SyncFails
    \/ OpenAndCreate \/ OpenFails \/ CopyContent \/ Chmod \/ Rename \/ CopyFails
    \/ SyncDone

Follow ==
    \/ MarkReady \/ StartWatch \/ StartPolling \/ PollTick
    \/ HandleEvent \/ ReceiveFromClosed \/ CleanupEntry \/ CleanupDone

\* The steps of the sidecar process itself, and the kubelet's restart of it.
SidecarStep == StartSidecar \/ Sync \/ Follow

Next ==
    \/ User \/ StatusHeartbeat \/ WatchBreaks \/ StartBusiness
    \/ SidecarStep \/ Crash \/ Terminate

Spec == Init /\ [][Next]_vars

\* The kubelet restarts the container, the goroutine that follows the stub
\* never blocks for ever while it has something to do, and the controller
\* keeps requeueing.  Users, faults and crashes are under no obligation.
FairSpec == Spec /\ WF_vars(SidecarStep) /\ WF_vars(StatusHeartbeat)

----------------------------------------------------------------------------
(* Properties.                                                             *)

Copying == pc \in {"opened", "written", "chmoded"}

FileOrAbsent == File \union {Absent}

EventTypes == {"Added", "Modified", "Deleted", "Error"}

ApiTypeOK ==
    /\ present \in SUBSET Scripts /\ version \in [Scripts -> Nat]
    /\ rewriting \in SUBSET (present \intersect InPlace)
    /\ stub \in Specs \union {NoStub}
    /\ watch \in {"none", "open", "closed"}
    /\ events \in Seq(EventTypes)

DirTypeOK == shared \in [Names -> FileOrAbsent] /\ tmp \in [Names -> FileOrAbsent]

SyncTypeOK ==
    /\ behaviors \in Specs \union {<<>>}
    /\ plan \in Seq(Job)
    /\ next \in 1..(Len(plan) + 1)
    /\ Copying => next <= Len(plan) /\ tmp[plan[next].to] \in File
    /\ result \in Results

ProcTypeOK ==
    /\ pc \in Steps /\ mode \in {"boot", "watch", "poll"}
    /\ app \in {"waiting", "running"}
    /\ edits \in 0..MaxEdits /\ faults \in 0..MaxFaults /\ crashes \in 0..MaxCrashes
    /\ unremoved \in Nat

\* Type invariant; a copy in progress is the job plan[next], and has its
\* temporary file.
TypeOK == ApiTypeOK /\ DirTypeOK /\ SyncTypeOK /\ ProcTypeOK /\ ready \in BOOLEAN

Dir == INSTANCE StubDir WITH
    Scripts <- Scripts, Names <- Names, Absent <- Absent, InPlace <- InPlace,
    present <- present, version <- version, shared <- shared

\* Whatever is interleaved with the sidecar, the business container sees the
\* shared directory that StubDir promises (atomicCopy's temp file and rename,
\* cleanupScripts): entries change one at a time, each new one is an
\* executable copy, complete unless its script is one that is rewritten in
\* place, and a script's copies never go back to an older version.
ImplementsStubDir == Dir!DirSpec

\* The last of the jobs 1..k that write name n decides what n serves.
LastWriter(p, k, i) == \A j \in (i + 1)..k : p[j].to # p[i].to

Serves(n, r) == shared[n] # Absent /\ shared[n].from = r

\* After a sync that reported every behavior as copied, each command is
\* served from the script of the last behavior that names it, until the stub
\* is deleted: SyncAllScripts and syncBehaviorScript keep their promise even
\* when users edit, remove and re-create scripts and the stub meanwhile.
SyncedServed ==
    pc = "idle" /\ result = "ok" =>
        \A i \in 1..Len(behaviors) :
            LET b == behaviors[i] IN
            (\A j \in (i + 1)..Len(behaviors) :
                TargetCommand(behaviors[j].target) # TargetCommand(b.target))
            => Serves(TargetCommand(b.target), b.script)

\* The sidecar has nothing left to do about its stub.
Settled == pc = "idle" /\ watch = "open" /\ events = <<>>

\* No change of the stub is lost, however it falls with respect to the first
\* sync, the start of the watch, a running sync or a cleanup: a sidecar that
\* has settled with a stub in place has synced exactly that stub (and has not
\* been left with a cleaned directory by a delete that was followed by a
\* re-creation), unless its last Get or its directory calls failed.
NoMissedUpdate ==
    Settled /\ stub # NoStub /\ result \notin {"fallback", "error"} =>
        result \in {"ok", "partial"} /\ behaviors = stub

StaleTmp == {n \in Names : tmp[n] # Absent /\ ~(Copying /\ n = plan[next].to)}

\* Temporary files pile up for two reasons only, a process exit in the middle
\* of a copy and an error path whose os.Remove fails itself, and each leaves
\* at most one: every error path of atomicCopy tries to remove its file, and
\* a later copy to the same name takes a leftover over.
TmpLeakBounded == Cardinality(StaleTmp) <= crashes + unremoved

\* Once the user leaves them alone, every behavior of the stub whose script
\* exists, and is not half written, is served in the script's latest version.
Current ==
    stub # NoStub =>
        \A i \in 1..Len(stub) :
            LET b == stub[i] IN
            (/\ \A j \in (i + 1)..Len(stub) :
                   TargetCommand(stub[j].target) # TargetCommand(b.target)
             /\ b.script \in present \ rewriting)
            => shared[TargetCommand(b.target)] =
                  [from |-> b.script, ver |-> version[b.script], has |-> {"whole", "exec"}]

\* Script and stub edits reach the business container without a restart
\* (hot reload), as long as the watch does not stay closed.
HotReload == (<>[](watch # "closed")) => <>[]Current

\* The sidecar eventually is, and stays, ready: boot is retried until it
\* succeeds.
EventuallyReady == <>[]ready

\* The business container is started only after the first sync
\* (docs/architecture.md:440).
BusinessAfterSync == [][app' # app => ready]_app

\* When the watch fails, the sidecar falls back to polling (main.go:128).
WatchLossRecovered == (watch = "closed") ~> (mode = "poll" \/ pc = "down")

\* When the stub is deleted, the scripts copied for it are cleaned up
\* (main.go:558-560).
DeletedIsWithdrawn ==
    (stub = NoStub /\ behaviors # <<>>)
        ~> (stub # NoStub \/ pc = "down" \/ \A n \in Names : shared[n] = Absent)

----------------------------------------------------------------------------
(* The inductive invariant behind the safety properties.                   *)

\* Versions in the directory are versions the scripts have had.
VersionsExist ==
    \A n \in Names : shared[n] # Absent => shared[n].ver <= version[shared[n].from]

\* The temporary file of the job in progress can be published once renamed.
CopyInProgress ==
    Copying =>
        LET f == tmp[plan[next].to] IN
            /\ f # Absent
            /\ f.from = plan[next].from
            /\ f.ver <= version[f.from]
            /\ Serves(plan[next].to, f.from) => shared[plan[next].to].ver <= f.ver
            /\ pc \in {"written", "chmoded"} => "whole" \in f.has \/ f.from \in InPlace
            /\ pc = "chmoded" => "exec" \in f.has

\* While every job so far has succeeded, the jobs done are served.
JobsDone ==
    result = "ok" =>
        /\ pc \notin {"down", "readdir"}
        /\ plan = [i \in 1..Len(behaviors) |-> JobOf(behaviors[i])]
        /\ pc # "cleanup" =>
              \A i \in 1..(next - 1) :
                  LastWriter(plan, next - 1, i) => Serves(plan[i].to, plan[i].from)
        /\ pc \in {"mark", "startwatch", "idle", "get"} => next = Len(plan) + 1

SyncEvent == {"Added", "Modified"}
SyncPending == \E i \in 1..Len(events) : events[i] \in SyncEvent

\* A stub that exists was (re)created after every deletion still queued.
DeletionsSuperseded ==
    watch = "open" /\ stub # NoStub =>
        \A i \in 1..Len(events) : events[i] = "Deleted" =>
            \E j \in (i + 1)..Len(events) : events[j] \in SyncEvent

\* The stub is synced, or will be: an event is queued or a Get is next.
StubFollowed ==
    watch = "open" /\ stub # NoStub /\ ~SyncPending =>
        /\ pc # "cleanup"
        /\ \/ pc = "get"
           \/ result \in {"fallback", "error"}
           \/ result \in {"ok", "partial"} /\ behaviors = stub

\* The watch exists only in the loop that receives from it.
WatchInLoop ==
    /\ watch # "none" => mode = "watch"
    /\ mode = "watch" => pc \notin {"down", "mark", "startwatch"}

Inv ==
    /\ TypeOK /\ VersionsExist /\ CopyInProgress /\ JobsDone
    /\ DeletionsSuperseded /\ StubFollowed /\ WatchInLoop
============================================================================
