--------------------------- MODULE SidecarProofs ---------------------------
(***************************************************************************)
(* Proofs about Sidecar, for every set of scripts and stubs and every      *)
(* bound.                                                                  *)
(***************************************************************************)
EXTENDS Sidecar, SequenceTheorems, FiniteSetTheorems, TLAPS

----------------------------------------------------------------------------
(* Type correctness.                                                       *)

\* Every behavior of a stub is a job the type invariant admits.
LEMMA SpecJobs ==
    ASSUME NEW sp \in Specs
    PROVE  /\ Len(sp) \in Nat
           /\ \A i \in 1..Len(sp) : JobOf(sp[i]) \in Job
           /\ [i \in 1..Len(sp) |-> JobOf(sp[i])] \in Seq(Job)
           /\ Len([i \in 1..Len(sp) |-> JobOf(sp[i])]) = Len(sp)
<1>1. sp \in Seq(Behavior)
  BY ScriptsAssumption
<1>2. Len(sp) \in Nat
  BY <1>1
<1>3. ASSUME NEW i \in 1..Len(sp) PROVE JobOf(sp[i]) \in Job
  <2>1. sp[i] \in Behavior
    BY <1>1
  <2>2. sp[i].script \in Scripts /\ TargetCommand(sp[i].target) \in Names
    BY <2>1 DEF Behavior, Names
  <2> QED BY <2>2 DEF JobOf, Job
<1> DEFINE p == [i \in 1..Len(sp) |-> JobOf(sp[i])]
<1>4. p \in Seq(Job) /\ Len(p) = Len(sp)
  BY <1>2, <1>3, IsASeq DEF JobOf
<1> QED BY <1>2, <1>3, <1>4

\* The plan of the fallback is a sequence of jobs too.
LEMMA ListingJobs ==
    ASSUME NEW S, S \subseteq Scripts, NEW l \in Listing(S)
    PROVE  [i \in 1..Len(l) |-> [from |-> l[i], to |-> Base(l[i])]] \in Seq(Job)
<1>1. Cardinality(S) \in Nat
  BY ScriptsAssumption, FS_Subset, FS_CardinalityType
<1>2. l \in [1..Cardinality(S) -> S]
  BY DEF Listing
<1>3. Len(l) = Cardinality(S)
  BY <1>1, <1>2
<1>4. ASSUME NEW i \in 1..Len(l) PROVE [from |-> l[i], to |-> Base(l[i])] \in Job
  BY <1>2, <1>3 DEF Job, Names
<1> QED BY <1>1, <1>3, <1>4, IsASeq

\* The bounds are natural numbers.
LEMMA Bounds == MaxEdits \in Nat /\ MaxEvents \in Nat /\ MaxFaults \in Nat /\ MaxCrashes \in Nat
  BY BoundsAssumption

\* A queue or a plan may be empty.
LEMMA EmptyTyped == <<>> \in Seq(EventTypes) /\ <<>> \in Seq(Job) /\ Len(<<>>) = 0
  BY EmptySeq

\* The initial states are well typed.
LEMMA InitTypeOK == Init => TypeOK
<1> SUFFICES ASSUME Init PROVE TypeOK
  OBVIOUS
<1> USE Bounds, EmptyTyped DEF Init
<1>1. ApiTypeOK
  BY DEF ApiTypeOK
<1>2. DirTypeOK
  BY DEF DirTypeOK, FileOrAbsent
<1>3. SyncTypeOK
  BY DEF SyncTypeOK, Copying, Results
<1>4. ProcTypeOK
  BY DEF ProcTypeOK, Steps
<1> QED BY <1>1, <1>2, <1>3, <1>4 DEF TypeOK

\* Event types the API server sends.
LEMMA EventsTyped == \A e \in {"Added", "Modified", "Deleted", "Error"} : e \in EventTypes
  BY DEF EventTypes

\* Delivering an event keeps the queue well typed.
LEMMA DeliverTyped ==
    ASSUME NEW e \in EventTypes, events \in Seq(EventTypes), Deliver(e)
    PROVE  events' \in Seq(EventTypes)
  BY DEF Deliver

\* Scripts, stub and watch: every action that touches them.
LEMMA NextApiTypeOK == TypeOK /\ [Next]_vars => ApiTypeOK'
<1> SUFFICES ASSUME TypeOK, [Next]_vars PROVE ApiTypeOK'
  OBVIOUS
<1> USE DEF TypeOK, ApiTypeOK, srcVars, userVars, apiVars
<1>1. ASSUME NEW sp \in Specs, SetStub(sp) PROVE ApiTypeOK'
  BY <1>1, EventsTyped, DeliverTyped DEF SetStub
<1>2. CASE DeleteStub
  BY <1>2, EventsTyped, DeliverTyped DEF DeleteStub
<1>3. CASE StatusHeartbeat
  BY <1>3, EventsTyped, DeliverTyped DEF StatusHeartbeat
<1>4. ASSUME NEW r \in Scripts, WriteScript(r) \/ EndRewrite(r) \/ RemoveScript(r) PROVE ApiTypeOK'
  BY <1>4 DEF WriteScript, EndRewrite, RemoveScript
<1>5. CASE WatchBreaks
  <2>1. events' \in Seq(EventTypes)
    BY <1>5, EventsTyped DEF WatchBreaks
  <2> QED BY <1>5, <2>1 DEF WatchBreaks
<1>6. CASE Exit
  BY <1>6, EmptyTyped DEF Exit
<1>7. CASE StartWatch
  <2>1. FirstEvents \in Seq(EventTypes)
    <3>1. <<"Added">> \in Seq(EventTypes)
      BY EventsTyped
    <3> QED BY <3>1, EmptyTyped DEF FirstEvents
  <2> QED BY <1>7, <2>1 DEF StartWatch
<1>8. CASE HandleEvent
  BY <1>8 DEF HandleEvent
<1>9. CASE UNCHANGED <<srcVars, apiVars>>
  BY <1>9
<1> QED
  BY <1>1, <1>2, <1>3, <1>4, <1>5, <1>6, <1>7, <1>8, <1>9
  DEF Next, User, SidecarStep, Sync, Follow, StartBusiness, StartSidecar, Crash, Terminate, Fatal,
      GetBehaviorStub, GetFails, MakeSharedDir, ReadSourceDir, SyncFails, JobFailed, OpenAndCreate,
      OpenFails, CopyContent, Chmod, Rename, CopyFails, SyncDone, MarkReady, StartPolling, PollTick,
      ReceiveFromClosed, CleanupEntry, CleanupDone, vars

\* The process variables and the counters.
LEMMA NextProcTypeOK == TypeOK /\ [Next]_vars => ProcTypeOK'
<1> SUFFICES ASSUME TypeOK, [Next]_vars PROVE ProcTypeOK'
  OBVIOUS
<1> USE Bounds DEF TypeOK, ProcTypeOK, Steps, userVars, dirVars, Fault
<1>1. ASSUME NEW sp \in Specs, SetStub(sp) PROVE ProcTypeOK'
  BY <1>1 DEF SetStub
<1>2. ASSUME NEW r \in Scripts, WriteScript(r) \/ EndRewrite(r) \/ RemoveScript(r) PROVE ProcTypeOK'
  BY <1>2 DEF WriteScript, EndRewrite, RemoveScript
<1>3. CASE DeleteStub \/ StatusHeartbeat \/ WatchBreaks \/ StartBusiness
  BY <1>3 DEF DeleteStub, StatusHeartbeat, WatchBreaks, StartBusiness
<1>4. ASSUME Exit, Fault \/ UNCHANGED faults PROVE ProcTypeOK'
  BY <1>4 DEF Exit
<1>5. CASE Crash \/ Terminate
  BY <1>4, <1>5 DEF Crash, Terminate
<1>6. CASE StartSidecar \/ GetBehaviorStub \/ GetFails \/ MakeSharedDir \/ ReadSourceDir
  BY <1>6 DEF StartSidecar, GetBehaviorStub, GetFails, MakeSharedDir, ReadSourceDir
<1>7. CASE SyncFails
  BY <1>4, <1>7 DEF SyncFails, Fatal
<1>8. CASE OpenAndCreate \/ OpenFails \/ CopyContent \/ Chmod \/ Rename \/ CopyFails \/ SyncDone
  BY <1>8 DEF OpenAndCreate, OpenFails, CopyContent, Chmod, Rename, CopyFails, JobFailed, SyncDone
<1>9. CASE MarkReady
  <2>1. (pc' = "startwatch" /\ UNCHANGED <<mode, app, edits, faults, crashes, unremoved>>) \/ Fatal
    BY <1>9 DEF MarkReady
  <2> QED BY <1>4, <2>1 DEF Fatal
<1>10. CASE StartWatch \/ StartPolling \/ PollTick \/ ReceiveFromClosed
  BY <1>10 DEF StartWatch, StartPolling, PollTick, ReceiveFromClosed, vars
<1>11. CASE HandleEvent \/ CleanupEntry \/ CleanupDone
  BY <1>11 DEF HandleEvent, Reaction, CleanupEntry, CleanupDone
<1>12. CASE UNCHANGED vars
  BY <1>12 DEF vars
<1> QED
  BY <1>1, <1>2, <1>3, <1>5, <1>6, <1>7, <1>8, <1>9, <1>10, <1>11, <1>12
  DEF Next, User, SidecarStep, Sync, Follow

\* The ready marker.
LEMMA NextReadyTypeOK == TypeOK /\ [Next]_vars => ready' \in BOOLEAN
<1> SUFFICES ASSUME ready \in BOOLEAN, [Next]_vars PROVE ready' \in BOOLEAN
  BY DEF TypeOK
<1>1. UNCHANGED ready \/ ready' = TRUE \/ ready' = FALSE
  BY DEF Next, User, SidecarStep, Sync, Follow, SetStub, DeleteStub, StatusHeartbeat, WriteScript,
      EndRewrite, RemoveScript, WatchBreaks, StartBusiness, StartSidecar, Crash, Terminate, Exit, Fatal,
      GetBehaviorStub, GetFails, MakeSharedDir, ReadSourceDir, SyncFails, JobFailed, OpenAndCreate,
      OpenFails, CopyContent, Chmod, Rename, CopyFails, SyncDone, MarkReady, StartWatch, StartPolling,
      PollTick, HandleEvent, ReceiveFromClosed, CleanupEntry, CleanupDone, vars
<1> QED BY <1>1

\* The job in progress.
LEMMA JobTyped ==
    ASSUME TypeOK, next <= Len(plan)
    PROVE  /\ next \in 1..Len(plan)
           /\ plan[next].from \in Scripts /\ plan[next].to \in Names
<1>1. next \in 1..Len(plan) /\ plan[next] \in Job
  BY DEF TypeOK, SyncTypeOK
<1> QED BY <1>1 DEF Job

\* The file os.Create leaves.
LEMMA OpenedFile ==
    ASSUME TypeOK, OpenAndCreate
    PROVE  \E f \in File :
              /\ tmp' = [tmp EXCEPT ![plan[next].to] = f]
              /\ tmp'[plan[next].to] = f
              /\ f.from = plan[next].from /\ f.ver = version[plan[next].from]
<1>1. plan[next].from \in Scripts /\ plan[next].to \in Names
  BY JobTyped DEF OpenAndCreate
<1> DEFINE t == tmp[plan[next].to]
           h == IF t = Absent THEN {} ELSE t.has \ {"whole"}
           f == [from |-> plan[next].from, ver |-> version[plan[next].from], has |-> h]
<1>2. t = Absent \/ t.has \in SUBSET {"whole", "exec"}
  BY <1>1 DEF File, TypeOK, DirTypeOK, FileOrAbsent
<1>3. f \in File
  BY <1>1, <1>2 DEF File, TypeOK, ApiTypeOK
<1>4. tmp' = [tmp EXCEPT ![plan[next].to] = f]
  BY DEF OpenAndCreate
<1>5. tmp'[plan[next].to] = f
  BY <1>1, <1>4 DEF TypeOK, DirTypeOK
<1> QED BY <1>3, <1>4, <1>5

\* While a copy is in progress, its temporary file is a file.
LEMMA TmpTyped ==
    ASSUME TypeOK, Copying
    PROVE  LET t == tmp[plan[next].to] IN
              /\ plan[next].from \in Scripts /\ plan[next].to \in Names
              /\ t \in File
              /\ t.from \in Scripts /\ t.ver \in Nat /\ t.has \in SUBSET {"whole", "exec"}
<1>1. next <= Len(plan) /\ tmp[plan[next].to] \in File
  BY DEF TypeOK, SyncTypeOK
<1> QED BY <1>1, JobTyped DEF File

\* The file that io.Copy leaves: not older than the version opened, not newer
\* than the script, and whole unless the script is rewritten in place.
LEMMA CopiedFile ==
    ASSUME TypeOK, CopyContent
    PROVE  LET t == tmp[plan[next].to] IN
           \E f \in File :
              /\ tmp' = [tmp EXCEPT ![plan[next].to] = f]
              /\ tmp'[plan[next].to] = f
              /\ f.from = plan[next].from
              /\ t.ver <= f.ver
              /\ f.ver <= t.ver \/ f.ver <= version[f.from]
              /\ "whole" \in f.has \/ f.from \in InPlace
<1> DEFINE t == tmp[plan[next].to]
           new == IF plan[next].from \in InPlace THEN version[plan[next].from] ELSE t.ver
<1>1. /\ plan[next].from \in Scripts /\ plan[next].to \in Names
      /\ t.ver \in Nat /\ t.has \in SUBSET {"whole", "exec"}
  BY TmpTyped DEF Copying, CopyContent
<1>2. new \in Nat /\ (new = t.ver \/ (plan[next].from \in InPlace /\ new = version[plan[next].from]))
  BY <1>1, ScriptsAssumption DEF TypeOK, ApiTypeOK
<1>3. PICK v \in t.ver..new, c \in Contents(plan[next].from, t.ver, new) :
         tmp' = [tmp EXCEPT ![plan[next].to] =
                    [from |-> plan[next].from, ver |-> v, has |-> t.has \union c]]
  BY DEF CopyContent
<1> DEFINE f == [from |-> plan[next].from, ver |-> v, has |-> t.has \union c]
<1>4. v \in Nat /\ t.ver <= v /\ v <= new
  BY <1>1, <1>2
<1>5. c \in SUBSET {"whole", "exec"} /\ ("whole" \in c \/ plan[next].from \in InPlace)
  BY <1>2 DEF Contents, TypeOK, ApiTypeOK
<1>6. f \in File
  BY <1>1, <1>4, <1>5 DEF File
<1>7. tmp'[plan[next].to] = f
  BY <1>1, <1>3 DEF TypeOK, DirTypeOK
<1>8. "whole" \in f.has \/ f.from \in InPlace
  BY <1>2, <1>5
<1>9. f.ver <= t.ver \/ f.ver <= version[f.from]
  BY <1>1, <1>2, <1>4
<1> HIDE DEF f
<1>10. f.from = plan[next].from /\ f.ver = v
  BY DEF f
<1> QED BY <1>3, <1>4, <1>6, <1>7, <1>8, <1>9, <1>10 DEF f

\* The file that os.Chmod leaves.
LEMMA ChmodFile ==
    ASSUME TypeOK, Chmod
    PROVE  LET t == tmp[plan[next].to] IN
           \E f \in File :
              /\ tmp' = [tmp EXCEPT ![plan[next].to] = f]
              /\ tmp'[plan[next].to] = f
              /\ f.from = t.from /\ f.ver = t.ver
              /\ "whole" \in t.has => "whole" \in f.has
              /\ "exec" \in f.has
<1> DEFINE t == tmp[plan[next].to]
           f == [from |-> t.from, ver |-> t.ver, has |-> t.has \union {"exec"}]
<1>1. /\ plan[next].to \in Names
      /\ t.from \in Scripts /\ t.ver \in Nat /\ t.has \in SUBSET {"whole", "exec"}
  BY TmpTyped DEF Copying, Chmod
<1>2. f \in File
  BY <1>1 DEF File
<1>3. tmp' = [tmp EXCEPT ![plan[next].to] = f]
  BY DEF Chmod
<1>4. tmp'[plan[next].to] = f
  BY <1>1, <1>3 DEF TypeOK, DirTypeOK
<1> QED BY <1>2, <1>3, <1>4

\* The shared directory: published and temporary files.
LEMMA NextDirTypeOK == TypeOK /\ [Next]_vars => DirTypeOK'
<1> SUFFICES ASSUME TypeOK, [Next]_vars PROVE DirTypeOK'
  OBVIOUS
<1> USE DEF TypeOK, DirTypeOK, dirVars, FileOrAbsent
<1>1. CASE OpenAndCreate
  BY <1>1, OpenedFile DEF OpenAndCreate
<1>2. CASE CopyContent
  BY <1>2, CopiedFile DEF CopyContent
<1>7. CASE Chmod
  BY <1>7, ChmodFile DEF Chmod
<1>3. CASE Rename
  <2>1. plan[next].to \in Names
    BY <1>3, JobTyped DEF Rename, SyncTypeOK, Copying
  <2> QED BY <1>3, <2>1 DEF Rename
<1>4. CASE CopyFails
  BY <1>4 DEF CopyFails, JobFailed
<1>5. CASE CleanupEntry
  BY <1>5 DEF CleanupEntry
<1>6. CASE UNCHANGED dirVars
  BY <1>6
<1> QED
  BY <1>1, <1>2, <1>3, <1>4, <1>5, <1>6, <1>7
  DEF Next, User, SidecarStep, Sync, Follow, SetStub, DeleteStub, StatusHeartbeat, WriteScript,
      EndRewrite, RemoveScript, WatchBreaks, StartBusiness, StartSidecar, Crash, Terminate, Exit, Fatal,
      GetBehaviorStub, GetFails, MakeSharedDir, ReadSourceDir, SyncFails, JobFailed, OpenFails,
      SyncDone, MarkReady, StartWatch, StartPolling, PollTick, HandleEvent, ReceiveFromClosed,
      CleanupDone, vars

\* The running sync: every action that touches its variables, or that puts
\* the process into (or keeps it in) a copy.
LEMMA NextSyncTypeOK == TypeOK /\ [Next]_vars => SyncTypeOK'
<1> SUFFICES ASSUME TypeOK, [Next]_vars PROVE SyncTypeOK'
  OBVIOUS
<1> USE DEF TypeOK, SyncTypeOK, syncVars, dirVars, Copying, Results
<1>1. CASE Exit
  BY <1>1, EmptyTyped DEF Exit
<1>2. CASE GetBehaviorStub
  <2>1. stub \in Specs /\ behaviors' = stub /\ next' = 1 /\ result' = "ok" /\ pc' = "mkdir"
    BY <1>2 DEF GetBehaviorStub, ApiTypeOK
  <2>2. plan' \in Seq(Job) /\ Len(plan') \in Nat
    BY <1>2, <2>1, SpecJobs DEF GetBehaviorStub
  <2> QED BY <2>1, <2>2
<1>3. CASE GetFails
  BY <1>3, EmptyTyped DEF GetFails
<1>4. CASE ReadSourceDir
  <2>1. PICK l \in Listing({r \in present : r.dir = TopDir}) :
           plan' = [i \in 1..Len(l) |-> [from |-> l[i], to |-> Base(l[i])]]
    BY <1>4 DEF ReadSourceDir
  <2>2. plan' \in Seq(Job)
    BY <2>1, ListingJobs DEF ApiTypeOK
  <2>3. next' = 1
    BY <1>4 DEF ReadSourceDir
  <2> QED BY <1>4, <2>2, <2>3 DEF ReadSourceDir
<1>5. CASE SyncFails
  BY <1>1, <1>5 DEF SyncFails, Fatal
<1>6. CASE OpenAndCreate
  <2>1. next <= Len(plan) /\ plan[next].to \in Names /\ plan[next].from \in Scripts
    BY <1>6, JobTyped DEF OpenAndCreate
  <2>2. tmp'[plan[next].to] \in File
    BY <1>6, <2>1, OpenedFile
  <2> QED BY <1>6, <2>1, <2>2 DEF OpenAndCreate
<1>7. CASE CopyContent
  BY <1>7, CopiedFile DEF CopyContent
<1>13. CASE Chmod
  BY <1>13, ChmodFile DEF Chmod
<1>8. CASE OpenFails \/ Rename \/ CopyFails
  BY <1>8 DEF OpenFails, Rename, CopyFails, JobFailed
<1>9. CASE MarkReady
  BY <1>1, <1>9 DEF MarkReady, Fatal
<1>10. CASE HandleEvent
  BY <1>10 DEF HandleEvent, Reaction
<1>11. CASE CleanupEntry \/ CleanupDone
  BY <1>11 DEF CleanupEntry, CleanupDone
<1>12. CASE UNCHANGED <<syncVars, tmp>> /\ (Copying' => UNCHANGED pc)
  BY <1>12
<1> QED
  BY <1>1, <1>2, <1>3, <1>4, <1>5, <1>6, <1>7, <1>8, <1>9, <1>10, <1>11, <1>12,
     <1>13
  DEF Next, User, SidecarStep, Sync, Follow, SetStub, DeleteStub, StatusHeartbeat, WriteScript,
      EndRewrite, RemoveScript, WatchBreaks, StartBusiness, StartSidecar, Crash, Terminate, MakeSharedDir,
      SyncDone, StartWatch, StartPolling, PollTick, ReceiveFromClosed, vars

\* No step leaves the type invariant.
LEMMA NextTypeOK == TypeOK /\ [Next]_vars => TypeOK'
  BY NextApiTypeOK, NextDirTypeOK, NextSyncTypeOK, NextProcTypeOK, NextReadyTypeOK DEF TypeOK

\* Every reachable state of the sidecar, its script volume and its shared
\* directory is well typed; a copy in progress always has its job and its
\* temporary file.
THEOREM TypeCorrect == Spec => []TypeOK
  BY InitTypeOK, NextTypeOK, PTL DEF Spec

----------------------------------------------------------------------------
(* The shared directory keeps the promise of StubDir.                      *)

\* What is published, and what is about to be, are versions the scripts had.
CopyInv == VersionsExist /\ CopyInProgress

\* Nothing is published or being copied at first.
LEMMA InitCopyInv == Init => CopyInv
  BY DEF Init, CopyInv, VersionsExist, CopyInProgress, Copying

\* An entry of the shared directory.
LEMMA EntryTyped ==
    ASSUME TypeOK, NEW n \in Names, shared[n] # Absent
    PROVE  shared[n] \in File /\ shared[n].from \in Scripts /\ shared[n].ver \in Nat
<1>1. shared[n] \in File
  BY DEF TypeOK, DirTypeOK, FileOrAbsent
<1> QED BY <1>1 DEF File

\* Scripts only get newer, and a script being copied is in its open version
\* at least: no action invalidates a copy.
LEMMA NextCopyInv == TypeOK /\ CopyInv /\ [Next]_vars => CopyInv'
<1> SUFFICES ASSUME TypeOK, CopyInv, [Next]_vars PROVE CopyInv'
  OBVIOUS
<1> USE DEF CopyInv
<1>1. ASSUME NEW r \in Scripts, WriteScript(r) \/ EndRewrite(r) PROVE CopyInv'
  <2>1. /\ UNCHANGED <<shared, tmp, pc, plan, next>>
        /\ \A q \in Scripts : version[q] \in Nat /\ version'[q] \in Nat /\ version[q] <= version'[q]
    BY <1>1 DEF WriteScript, EndRewrite, TypeOK, ApiTypeOK, dirVars, syncVars
  <2>2. VersionsExist'
    BY <2>1, EntryTyped DEF VersionsExist
  <2>3. CopyInProgress'
    <3>1. CASE Copying
      BY <2>1, <3>1, TmpTyped DEF CopyInProgress, Serves, Copying
    <3> QED BY <2>1, <3>1 DEF CopyInProgress, Copying
  <2> QED BY <2>2, <2>3
<1>2. CASE OpenAndCreate
  <2>1. PICK f \in File :
           /\ tmp'[plan[next].to] = f
           /\ f.from = plan[next].from /\ f.ver = version[plan[next].from]
    BY <1>2, OpenedFile
  <2>2. UNCHANGED <<shared, version, plan, next>> /\ pc' = "opened"
    BY <1>2 DEF OpenAndCreate, userVars, srcVars, syncVars
  <2>3. f.from \in Scripts /\ f.ver \in Nat /\ f # Absent /\ plan[next].to \in Names
    BY <1>2, <2>1, JobTyped, ScriptsAssumption DEF OpenAndCreate, File
  <2>4. Serves(plan[next].to, f.from) => shared[plan[next].to].ver <= f.ver
    BY <2>1, <2>3 DEF VersionsExist, Serves
  <2>5. CopyInProgress'
    BY <2>1, <2>2, <2>3, <2>4 DEF CopyInProgress, Copying, Serves
  <2> QED BY <2>2, <2>5 DEF VersionsExist
<1>3. CASE CopyContent
  <2> DEFINE t == tmp[plan[next].to]
  <2>1. PICK f \in File :
           /\ tmp'[plan[next].to] = f
           /\ f.from = plan[next].from
           /\ t.ver <= f.ver
           /\ f.ver <= t.ver \/ f.ver <= version[f.from]
           /\ "whole" \in f.has \/ f.from \in InPlace
    BY <1>3, CopiedFile
  <2>2. UNCHANGED <<shared, version, plan, next>> /\ pc' = "written" /\ Copying
    BY <1>3 DEF CopyContent, userVars, srcVars, syncVars, Copying
  <2>3. /\ f.from \in Scripts /\ f.ver \in Nat /\ t.ver \in Nat /\ version[f.from] \in Nat
        /\ f # Absent /\ plan[next].to \in Names
    BY <2>1, <2>2, TmpTyped, ScriptsAssumption DEF File, TypeOK, ApiTypeOK
  <2>4. t.from = plan[next].from /\ t.ver <= version[t.from]
        /\ (Serves(plan[next].to, t.from) => shared[plan[next].to].ver <= t.ver)
    BY <2>2 DEF CopyInProgress
  <2>5. f.ver <= version[f.from]
    BY <2>1, <2>3, <2>4
  <2>6. Serves(plan[next].to, f.from) => shared[plan[next].to].ver <= f.ver
    BY <2>1, <2>3, <2>4, EntryTyped DEF Serves
  <2>7. CopyInProgress'
    BY <2>1, <2>2, <2>3, <2>5, <2>6 DEF CopyInProgress, Copying, Serves
  <2> QED BY <2>2, <2>7 DEF VersionsExist
<1>4. CASE Chmod
  <2> DEFINE t == tmp[plan[next].to]
  <2>1. PICK f \in File :
           /\ tmp'[plan[next].to] = f
           /\ f.from = t.from /\ f.ver = t.ver
           /\ "whole" \in t.has => "whole" \in f.has
           /\ "exec" \in f.has
    BY <1>4, ChmodFile
  <2>2. UNCHANGED <<shared, version, plan, next>> /\ pc = "written" /\ pc' = "chmoded"
    BY <1>4 DEF Chmod, userVars, srcVars, syncVars
  <2>3. f # Absent
    BY ScriptsAssumption
  <2>4. CopyInProgress'
    BY <2>1, <2>2, <2>3 DEF CopyInProgress, Copying, Serves
  <2> QED BY <2>2, <2>4 DEF VersionsExist
<1>5. CASE Rename
  <2>1. UNCHANGED version /\ ~Copying' /\ Copying
    BY <1>5 DEF Rename, userVars, srcVars, Copying
  <2>2. shared' = [shared EXCEPT ![plan[next].to] = tmp[plan[next].to]]
    BY <1>5 DEF Rename
  <2>3. VersionsExist'
    BY <2>1, <2>2, TmpTyped DEF VersionsExist, CopyInProgress, TypeOK, DirTypeOK
  <2> QED BY <2>1, <2>3 DEF CopyInProgress
<1>6. CASE CleanupEntry
  <2>1. UNCHANGED version /\ ~Copying'
    BY <1>6 DEF CleanupEntry, userVars, srcVars, Copying
  <2>2. \A n \in Names : shared'[n] # Absent => shared'[n] = shared[n]
    BY <1>6 DEF CleanupEntry, TypeOK, DirTypeOK
  <2> QED BY <2>1, <2>2 DEF VersionsExist, CopyInProgress
<1>7. ASSUME UNCHANGED <<shared, version>>, ~Copying' \/ UNCHANGED <<pc, tmp, plan, next>>
      PROVE  CopyInv'
  BY <1>7 DEF VersionsExist, CopyInProgress, Copying, Serves
<1> QED
  BY <1>1, <1>2, <1>3, <1>4, <1>5, <1>6, <1>7
  DEF Next, User, SidecarStep, Sync, Follow, SetStub, DeleteStub, StatusHeartbeat,
      RemoveScript, WatchBreaks, StartBusiness, StartSidecar, Crash, Terminate, Exit, Fatal,
      GetBehaviorStub, GetFails, MakeSharedDir, ReadSourceDir, SyncFails, JobFailed, OpenFails,
      CopyFails, SyncDone, MarkReady, StartWatch, StartPolling, PollTick, HandleEvent, Reaction,
      ReceiveFromClosed, CleanupDone, vars, userVars, srcVars, dirVars, syncVars, Copying

\* Every step of the sidecar and of its environment is a step of StubDir, or
\* leaves the script volume and the shared directory alone.
LEMMA StepsRefine == TypeOK /\ CopyInv /\ [Next]_vars => [Dir!DirNext]_(Dir!dirVars)
<1> SUFFICES ASSUME TypeOK, CopyInv, [Next]_vars PROVE [Dir!DirNext]_(Dir!dirVars)
  OBVIOUS
<1> USE DEF Dir!DirNext, Dir!dirVars
<1>1. ASSUME NEW r \in Scripts, WriteScript(r) \/ EndRewrite(r) PROVE Dir!DirNext
  BY <1>1 DEF WriteScript, EndRewrite, Dir!Rewrite, dirVars, TypeOK, ApiTypeOK
<1>2. ASSUME NEW r \in Scripts, RemoveScript(r) PROVE Dir!DirNext
  BY <1>2 DEF RemoveScript, Dir!Unlink, dirVars
<1>3. CASE Rename
  <2> DEFINE n == plan[next].to
             f == tmp[n]
  <2>1. n \in Names /\ f \in File /\ f.from \in Scripts
    BY <1>3, TmpTyped DEF Rename, Copying
  <2>2. shared' = [shared EXCEPT ![n] = f] /\ shared'[n] = f
    BY <1>3, <2>1 DEF Rename, TypeOK, DirTypeOK
  <2>3. /\ "exec" \in f.has
        /\ "whole" \in f.has \/ f.from \in InPlace
        /\ f.ver <= version[f.from]
        /\ shared[n] # Absent /\ shared[n].from = f.from => shared[n].ver <= f.ver
    BY <1>3 DEF Rename, CopyInv, CopyInProgress, Copying, Serves
  <2>4. Dir!Publish(n)
    BY <2>1, <2>2, <2>3 DEF Dir!Publish, Dir!File, File
  <2>5. UNCHANGED <<present, version>>
    BY <1>3 DEF Rename, userVars, srcVars
  <2> QED BY <2>1, <2>4, <2>5
<1>4. CASE CleanupEntry
  BY <1>4 DEF CleanupEntry, Dir!Withdraw, userVars, srcVars
<1>5. CASE UNCHANGED <<srcVars, shared>>
  BY <1>5 DEF srcVars
<1> QED
  BY <1>1, <1>2, <1>3, <1>4, <1>5
  DEF Next, User, SidecarStep, Sync, Follow, SetStub, DeleteStub, StatusHeartbeat, WatchBreaks,
      StartBusiness, StartSidecar, Crash, Terminate, Exit, Fatal, GetBehaviorStub, GetFails,
      MakeSharedDir, ReadSourceDir, SyncFails, JobFailed, OpenAndCreate, OpenFails, CopyContent,
      Chmod, CopyFails, SyncDone, MarkReady, StartWatch, StartPolling, PollTick, HandleEvent,
      ReceiveFromClosed, CleanupDone, vars, userVars, dirVars

\* For all scripts, stubs and bounds, and whatever fails or is interleaved:
\* the shared directory behaves as StubDir promises to the business container.
THEOREM SidecarImplementsStubDir == Spec => ImplementsStubDir
<1>1. Init => Dir!DirInit
  BY DEF Init, Dir!DirInit
<1> QED
  BY <1>1, InitTypeOK, NextTypeOK, InitCopyInv, NextCopyInv, StepsRefine, PTL
  DEF Spec, ImplementsStubDir, Dir!DirSpec

----------------------------------------------------------------------------
(* No change of the stub is missed.                                        *)

FollowInv == WatchInLoop /\ DeletionsSuperseded /\ StubFollowed

\* There is no watch at first.
LEMMA InitFollowInv == Init => FollowInv
  BY DEF Init, FollowInv, WatchInLoop, DeletionsSuperseded, StubFollowed

\* An event that leads to a sync, appended, covers all that was queued.
LEMMA SyncEventCovers ==
    ASSUME NEW e \in SyncEvent, events \in Seq(EventTypes), events' = Append(events, e)
    PROVE  SyncPending' /\ DeletionsSuperseded'
<1>1. /\ Len(events) \in Nat /\ Len(events') = Len(events) + 1
      /\ events'[Len(events) + 1] = e
      /\ \A i \in 1..Len(events) : events'[i] = events[i]
  BY EventsTyped DEF SyncEvent
<1>2. SyncPending'
  BY <1>1 DEF SyncPending
<1>3. DeletionsSuperseded'
  <2> SUFFICES ASSUME NEW i \in 1..Len(events'), events'[i] = "Deleted"
               PROVE  \E j \in (i + 1)..Len(events') : events'[j] \in SyncEvent
    BY DEF DeletionsSuperseded
  <2>1. i # Len(events) + 1
    BY <1>1 DEF SyncEvent
  <2>2. Len(events) + 1 \in (i + 1)..Len(events')
    BY <1>1, <2>1
  <2> QED BY <1>1, <2>2
<1> QED BY <1>2, <1>3

\* Receiving an event keeps the order of the others.
LEMMA TailShifts ==
    ASSUME events \in Seq(EventTypes), events # <<>>, events' = Tail(events)
    PROVE  /\ Len(events) \in Nat /\ Len(events) > 0 /\ Len(events') = Len(events) - 1
           /\ \A i \in 1..Len(events') : events'[i] = events[i + 1]
           /\ Head(events) = events[1]
  OBVIOUS

\* Every step, of the user, the API server or the sidecar, keeps the stub
\* followed: what was not synced has an event queued or a Get to come.
LEMMA NextFollowInv == TypeOK /\ FollowInv /\ [Next]_vars => FollowInv'
<1> SUFFICES ASSUME TypeOK, FollowInv, [Next]_vars PROVE FollowInv'
  OBVIOUS
<1> USE DEF FollowInv, WatchInLoop
<1>0. events \in Seq(EventTypes)
  BY DEF TypeOK, ApiTypeOK
<1>1. ASSUME NEW e \in SyncEvent, Deliver(e), UNCHANGED <<watch, mode, pc>> PROVE FollowInv'
  <2>1. CASE watch = "open"
    BY <1>0, <1>1, <2>1, SyncEventCovers DEF Deliver, StubFollowed
  <2>2. CASE watch # "open"
    BY <1>1, <2>2 DEF DeletionsSuperseded, StubFollowed
  <2> QED BY <2>1, <2>2
<1>2. ASSUME NEW sp \in Specs, SetStub(sp) PROVE FollowInv'
  BY <1>1, <1>2 DEF SetStub, SyncEvent
<1>3. CASE StatusHeartbeat
  BY <1>1, <1>3 DEF StatusHeartbeat, SyncEvent
<1>4. CASE DeleteStub
  BY <1>4 DEF DeleteStub, DeletionsSuperseded, StubFollowed
<1>5. CASE WatchBreaks
  BY <1>5 DEF WatchBreaks, DeletionsSuperseded, StubFollowed
<1>6. CASE Exit
  BY <1>6 DEF Exit, DeletionsSuperseded, StubFollowed
<1>7. CASE StartWatch
  <2>1. CASE stub = NoStub
    BY <1>7, <2>1 DEF StartWatch, DeletionsSuperseded, StubFollowed, userVars
  <2>2. CASE stub # NoStub
    <3>1. events' = <<"Added">> /\ Len(events') = 1 /\ events'[1] = "Added"
      BY <1>7, <2>2 DEF StartWatch, FirstEvents
    <3>2. SyncPending'
      BY <3>1 DEF SyncPending, SyncEvent
    <3> QED BY <1>7, <3>1, <3>2 DEF StartWatch, DeletionsSuperseded, StubFollowed
  <2> QED BY <2>1, <2>2
<1>8. CASE HandleEvent
  <2>1. /\ pc = "idle" /\ events # <<>> /\ events' = Tail(events) /\ pc' = Reaction(Head(events))
        /\ UNCHANGED <<stub, watch, mode, result, behaviors>>
    BY <1>8 DEF HandleEvent, userVars, syncVars
  <2>2. /\ Len(events) \in Nat /\ Len(events) > 0 /\ Len(events') = Len(events) - 1
        /\ \A i \in 1..Len(events') : events'[i] = events[i + 1]
        /\ Head(events) = events[1]
    BY <1>0, <2>1, TailShifts
  <2>3. WatchInLoop'
    BY <2>1 DEF Reaction
  <2>4. DeletionsSuperseded'
    <3> SUFFICES ASSUME watch = "open", stub # NoStub,
                        NEW i \in 1..Len(events'), events'[i] = "Deleted"
                 PROVE  \E j \in (i + 1)..Len(events') : events'[j] \in SyncEvent
      BY <2>1 DEF DeletionsSuperseded
    <3>1. i + 1 \in 1..Len(events) /\ events[i + 1] = "Deleted"
      BY <2>2
    <3>2. PICK j \in (i + 2)..Len(events) : events[j] \in SyncEvent
      BY <3>1 DEF DeletionsSuperseded
    <3>3. j - 1 \in (i + 1)..Len(events') /\ events'[j - 1] = events[j]
      BY <2>2, <3>2
    <3> QED BY <3>2, <3>3
  <2>5. StubFollowed'
    <3> SUFFICES ASSUME watch = "open", stub # NoStub, ~SyncPending'
                 PROVE  /\ pc' # "cleanup"
                        /\ \/ pc' = "get"
                           \/ result \in {"fallback", "error"}
                           \/ result \in {"ok", "partial"} /\ behaviors = stub
      BY <2>1 DEF StubFollowed
    <3>1. \A j \in 2..Len(events) : events[j] \notin SyncEvent
      <4> SUFFICES ASSUME NEW j \in 2..Len(events), events[j] \in SyncEvent PROVE FALSE
        OBVIOUS
      <4>1. j - 1 \in 1..Len(events') /\ events'[j - 1] = events[j]
        BY <2>2
      <4> QED BY <4>1 DEF SyncPending
    <3>2. events[1] # "Deleted"
      BY <2>2, <3>1 DEF DeletionsSuperseded
    <3>3. CASE events[1] \in SyncEvent
      BY <2>1, <2>2, <3>3 DEF Reaction, SyncEvent
    <3>4. CASE events[1] \notin SyncEvent
      <4>1. ~SyncPending
        BY <2>2, <3>1, <3>4 DEF SyncPending
      <4>2. pc' = "idle"
        BY <2>1, <2>2, <3>2, <3>4 DEF Reaction, SyncEvent
      <4> QED BY <2>1, <4>1, <4>2 DEF StubFollowed
    <3> QED BY <3>3, <3>4
  <2> QED BY <2>3, <2>4, <2>5
<1>9. CASE GetBehaviorStub
  BY <1>9 DEF GetBehaviorStub, DeletionsSuperseded, StubFollowed, SyncPending, userVars
<1>10. CASE GetFails
  BY <1>10 DEF GetFails, DeletionsSuperseded, StubFollowed, SyncPending, userVars
<1>11. ASSUME JobFailed, pc \in {"next", "opened", "written", "chmoded"} PROVE FollowInv'
  BY <1>11 DEF JobFailed, DeletionsSuperseded, StubFollowed, SyncPending, userVars
<1>12. CASE SyncFails
  BY <1>6, <1>12 DEF SyncFails, Fatal, DeletionsSuperseded, StubFollowed, SyncPending, userVars
<1>13. CASE CleanupDone
  BY <1>13 DEF CleanupDone, DeletionsSuperseded, StubFollowed, SyncPending, userVars
<1>14. ASSUME UNCHANGED <<stub, watch, events, behaviors, result>>, WatchInLoop',
              watch = "open" => UNCHANGED pc \/ (pc \notin {"get", "cleanup"} /\ pc' # "cleanup")
       PROVE  FollowInv'
  BY <1>14 DEF DeletionsSuperseded, StubFollowed, SyncPending
<1>15. CASE StartSidecar \/ StartPolling \/ PollTick \/ SyncDone \/ MakeSharedDir \/ ReadSourceDir
  BY <1>14, <1>15
  DEF StartSidecar, StartPolling, PollTick, SyncDone, MakeSharedDir, ReadSourceDir, userVars,
      apiVars, syncVars
<1>16. CASE MarkReady
  BY <1>6, <1>14, <1>16 DEF MarkReady, Fatal, userVars, syncVars
<1>17. CASE OpenAndCreate \/ CopyContent \/ Chmod \/ Rename
  BY <1>14, <1>17 DEF OpenAndCreate, CopyContent, Chmod, Rename, userVars, syncVars
<1>18. CASE CleanupEntry \/ ReceiveFromClosed \/ StartBusiness \/ UNCHANGED vars
  BY <1>14, <1>18 DEF CleanupEntry, ReceiveFromClosed, StartBusiness, vars, userVars, syncVars
<1>19. ASSUME NEW r \in Scripts, WriteScript(r) \/ EndRewrite(r) \/ RemoveScript(r) PROVE FollowInv'
  BY <1>14, <1>19 DEF WriteScript, EndRewrite, RemoveScript, apiVars, syncVars
<1> QED
  BY <1>2, <1>3, <1>4, <1>5, <1>6, <1>7, <1>8, <1>9, <1>10, <1>11, <1>12, <1>13, <1>15, <1>16, <1>17,
     <1>18, <1>19
  DEF Next, User, SidecarStep, Sync, Follow, Crash, Terminate, OpenFails, CopyFails

\* A settled sidecar has synced the stub that exists now, whatever the order
\* of stub changes, first sync, start of the watch, syncs and cleanups was.
THEOREM UpdatesNotMissed == Spec => []NoMissedUpdate
<1>1. FollowInv => NoMissedUpdate
  BY EmptyTyped DEF FollowInv, StubFollowed, NoMissedUpdate, Settled, SyncPending
<1> QED BY <1>1, InitTypeOK, NextTypeOK, InitFollowInv, NextFollowInv, PTL DEF Spec

----------------------------------------------------------------------------
(* What a sync reports as copied is served.                                *)

\* No sync has reported anything at first.
LEMMA InitJobsDone == Init => JobsDone
  BY DEF Init, JobsDone

\* The jobs of a sync that has had no failure are served, in their order.
LEMMA NextJobsDone == TypeOK /\ CopyInv /\ JobsDone /\ [Next]_vars => JobsDone'
<1> SUFFICES ASSUME TypeOK, CopyInv, JobsDone, [Next]_vars PROVE JobsDone'
  OBVIOUS
<1>1. CASE GetBehaviorStub
  <2>1. /\ behaviors' = stub /\ next' = 1 /\ pc' = "mkdir"
        /\ plan' = [i \in 1..Len(behaviors') |-> JobOf(behaviors'[i])]
    BY <1>1 DEF GetBehaviorStub
  <2> QED BY <2>1 DEF JobsDone
<1>2. CASE Rename
  <2> DEFINE n == plan[next].to
  <2>1. /\ pc = "chmoded" /\ pc' = "next" /\ next' = next + 1
        /\ UNCHANGED <<behaviors, plan, result>>
        /\ shared' = [shared EXCEPT ![n] = tmp[n]]
    BY <1>2 DEF Rename
  <2>2. n \in Names /\ tmp[n] # Absent /\ tmp[n].from = plan[next].from
    BY <2>1, TmpTyped DEF Copying, CopyInv, CopyInProgress
  <2>3. next \in 1..Len(plan)
    BY <2>1, JobTyped DEF Copying, TypeOK, SyncTypeOK
  <2>4. \A m \in Names : shared'[m] = IF m = n THEN tmp[n] ELSE shared[m]
    BY <2>1 DEF TypeOK, DirTypeOK
  <2>5. ASSUME result = "ok", NEW i \in 1..next, LastWriter(plan, next, i)
        PROVE  Serves(plan[i].to, plan[i].from)'
    <3>1. plan[i].to \in Names
      <4>1. i \in 1..Len(plan)
        BY <2>3
      <4>2. plan[i] \in Job
        BY <4>1 DEF TypeOK, SyncTypeOK
      <4> QED BY <4>2 DEF Job
    <3>2. CASE i = next
      BY <2>1, <2>2, <2>4, <3>2 DEF Serves
    <3>3. CASE i # next
      <4>1. i \in 1..(next - 1) /\ LastWriter(plan, next - 1, i) /\ plan[i].to # n
        BY <2>3, <2>5, <3>3 DEF LastWriter
      <4>2. Serves(plan[i].to, plan[i].from)
        BY <2>1, <2>5, <4>1 DEF JobsDone
      <4> QED BY <2>1, <2>4, <3>1, <4>1, <4>2 DEF Serves
    <3> QED BY <3>2, <3>3
  <2>6. next' - 1 = next
    BY <2>1, <2>3
  <2> QED BY <2>1, <2>5, <2>6 DEF JobsDone
<1>3. CASE SyncDone
  <2>1. result = "ok" => next = Len(plan) + 1
    BY <1>3 DEF SyncDone, TypeOK, SyncTypeOK
  <2> QED BY <1>3, <2>1 DEF SyncDone, JobsDone, Serves, syncVars, dirVars
<1>4. CASE HandleEvent
  BY <1>4 DEF HandleEvent, Reaction, JobsDone, Serves, syncVars, dirVars
<1>5. CASE CleanupEntry
  BY <1>5 DEF CleanupEntry, JobsDone, syncVars
<1>6. ASSUME result' # "ok" PROVE JobsDone'
  BY <1>6 DEF JobsDone
<1>7. CASE Exit \/ GetFails \/ JobFailed \/ CleanupDone
  BY <1>6, <1>7 DEF Exit, GetFails, JobFailed, CleanupDone
<1>8. CASE SyncFails
  BY <1>6, <1>7, <1>8 DEF SyncFails, Fatal
<1>9. CASE MarkReady
  <2>1. pc = "mark" /\ (Exit \/ (pc' = "startwatch" /\ UNCHANGED <<shared, behaviors, plan, next, result>>))
    BY <1>9 DEF MarkReady, Fatal, dirVars, syncVars
  <2> QED BY <1>7, <2>1 DEF JobsDone, Serves
<1>10. CASE StartSidecar
  BY <1>6, <1>10 DEF StartSidecar, JobsDone, syncVars
<1>11. CASE ReadSourceDir
  <2>1. result # "ok"
    BY <1>11 DEF ReadSourceDir, JobsDone
  <2> QED BY <1>6, <1>11, <2>1 DEF ReadSourceDir
<1>12. CASE MakeSharedDir \/ OpenAndCreate \/ CopyContent \/ Chmod \/ StartWatch \/ StartPolling \/ PollTick
  BY <1>12
  DEF MakeSharedDir, OpenAndCreate, CopyContent, Chmod, StartWatch, StartPolling, PollTick,
      JobsDone, Serves, syncVars, dirVars
<1>13. CASE UNCHANGED <<shared, pc, behaviors, plan, next, result>>
  BY <1>13 DEF JobsDone, Serves
<1> QED
  BY <1>1, <1>2, <1>3, <1>4, <1>5, <1>7, <1>8, <1>9, <1>10, <1>11, <1>12, <1>13
  DEF Next, User, SidecarStep, Sync, Follow, SetStub, DeleteStub, StatusHeartbeat, WriteScript,
      EndRewrite, RemoveScript, WatchBreaks, StartBusiness, Crash, Terminate, OpenFails, CopyFails,
      ReceiveFromClosed, vars, syncVars, dirVars

\* After a sync without failures, every behavior's command is served from
\* the script of the last behavior that names the command.
THEOREM SyncedIsServed == Spec => []SyncedServed
<1>1. TypeOK /\ JobsDone => SyncedServed
  <2> SUFFICES ASSUME TypeOK, JobsDone, pc = "idle", result = "ok", NEW i \in 1..Len(behaviors),
                      \A j \in (i + 1)..Len(behaviors) :
                          TargetCommand(behaviors[j].target) # TargetCommand(behaviors[i].target)
               PROVE  Serves(TargetCommand(behaviors[i].target), behaviors[i].script)
    BY DEF SyncedServed
  <2>1. Len(behaviors) \in Nat
    BY SpecJobs, EmptyTyped DEF TypeOK, SyncTypeOK
  <2>2. /\ plan = [k \in 1..Len(behaviors) |-> JobOf(behaviors[k])]
        /\ next = Len(plan) + 1
        /\ \A k \in 1..(next - 1) : LastWriter(plan, next - 1, k) => Serves(plan[k].to, plan[k].from)
    BY DEF JobsDone
  <2>3. next - 1 = Len(behaviors)
    BY <2>1, <2>2
  <2>4. \A k \in 1..Len(behaviors) :
           /\ plan[k].to = TargetCommand(behaviors[k].target)
           /\ plan[k].from = behaviors[k].script
    BY <2>2 DEF JobOf
  <2>5. LastWriter(plan, next - 1, i)
    BY <2>1, <2>3, <2>4 DEF LastWriter
  <2> QED BY <2>2, <2>3, <2>4, <2>5
<1> QED
  BY <1>1, InitTypeOK, NextTypeOK, InitCopyInv, NextCopyInv, InitJobsDone, NextJobsDone, PTL DEF Spec

----------------------------------------------------------------------------
(* Leftover temporary files.                                               *)

\* One element more.
LEMMA AddedOne ==
    ASSUME NEW S, IsFiniteSet(S), NEW x
    PROVE  /\ IsFiniteSet(S \union {x})
           /\ Cardinality(S \union {x}) \in Nat
           /\ Cardinality(S \union {x}) <= Cardinality(S) + 1
<1>1. IsFiniteSet(S \union {x})
  BY FS_AddElement
<1>2. Cardinality(S) \in Nat /\ Cardinality(S \union {x}) \in Nat
  BY <1>1, FS_CardinalityType
<1>3. Cardinality(S \union {x}) = Cardinality(S) \/ Cardinality(S \union {x}) = Cardinality(S) + 1
  BY FS_AddElement
<1> QED BY <1>1, <1>2, <1>3

LeakInv == IsFiniteSet(StaleTmp) /\ Cardinality(StaleTmp) <= crashes + unremoved

\* There are none at first.
LEMMA InitLeakInv == Init => LeakInv
<1> SUFFICES ASSUME Init PROVE LeakInv
  OBVIOUS
<1>1. StaleTmp = {} /\ crashes = 0 /\ unremoved = 0
  BY DEF Init, StaleTmp
<1> QED BY <1>1, FS_EmptySet DEF LeakInv

\* Only an exit and a failing os.Remove turn the file of a copy in progress
\* into a leftover, and each is counted.
LEMMA NextLeakInv == TypeOK /\ LeakInv /\ [Next]_vars => LeakInv'
<1> SUFFICES ASSUME TypeOK, LeakInv, [Next]_vars PROVE LeakInv'
  OBVIOUS
<1>0. crashes \in Nat /\ unremoved \in Nat /\ Cardinality(StaleTmp) \in Nat
  BY FS_CardinalityType, Bounds DEF LeakInv, TypeOK, ProcTypeOK
<1>1. ASSUME StaleTmp' \subseteq StaleTmp, UNCHANGED <<crashes, unremoved>> PROVE LeakInv'
  BY <1>0, <1>1, FS_Subset, FS_CardinalityType DEF LeakInv
<1>2. ASSUME UNCHANGED tmp,
             \/ crashes' = crashes + 1 /\ UNCHANGED unremoved
             \/ unremoved' = unremoved + 1 /\ UNCHANGED crashes
      PROVE  LeakInv'
  <2> DEFINE more == StaleTmp \union {plan[next].to}
  <2>1. StaleTmp' \subseteq more
    BY <1>2 DEF StaleTmp
  <2>2. IsFiniteSet(more) /\ Cardinality(more) \in Nat /\ Cardinality(more) <= Cardinality(StaleTmp) + 1
    BY AddedOne DEF LeakInv
  <2>3. IsFiniteSet(StaleTmp') /\ Cardinality(StaleTmp') \in Nat
        /\ Cardinality(StaleTmp') <= Cardinality(more)
    BY <2>1, <2>2, FS_Subset, FS_CardinalityType
  <2> QED BY <1>0, <1>2, <2>2, <2>3 DEF LeakInv
<1>10. CASE Exit
  BY <1>2, <1>10 DEF Exit, dirVars
<1>3. ASSUME NEW n \in Names, NEW f, tmp' = [tmp EXCEPT ![n] = f],
             f = Absent \/ (Copying' /\ plan'[next'].to = n),
             UNCHANGED <<crashes, unremoved>>, Copying => n = plan[next].to
      PROVE  LeakInv'
  <2>1. \A m \in Names : tmp'[m] = IF m = n THEN f ELSE tmp[m]
    BY <1>3 DEF TypeOK, DirTypeOK
  <2>2. StaleTmp' \subseteq StaleTmp
    BY <1>3, <2>1 DEF StaleTmp
  <2> QED BY <1>1, <1>3, <2>2
<1>4. CASE OpenAndCreate
  <2>1. PICK f \in File : tmp' = [tmp EXCEPT ![plan[next].to] = f]
    BY <1>4, OpenedFile
  <2> QED BY <1>3, <1>4, <2>1, JobTyped DEF OpenAndCreate, Copying, syncVars
<1>5. CASE CopyContent
  <2>1. PICK f \in File : tmp' = [tmp EXCEPT ![plan[next].to] = f]
    BY <1>5, CopiedFile
  <2> QED BY <1>3, <1>5, <2>1, TmpTyped DEF CopyContent, Copying, syncVars
<1>6. CASE Chmod
  <2>1. PICK f \in File : tmp' = [tmp EXCEPT ![plan[next].to] = f]
    BY <1>6, ChmodFile
  <2> QED BY <1>3, <1>6, <2>1, TmpTyped DEF Chmod, Copying, syncVars
<1>7. CASE Rename \/ CopyFails
  <2>1. plan[next].to \in Names
    BY <1>7, TmpTyped DEF Rename, CopyFails, Copying
  <2>2. \/ tmp' = [tmp EXCEPT ![plan[next].to] = Absent] /\ UNCHANGED <<crashes, unremoved>>
        \/ unremoved' = unremoved + 1 /\ UNCHANGED <<tmp, crashes>>
    BY <1>7 DEF Rename, CopyFails, JobFailed
  <2> QED BY <1>2, <1>3, <2>1, <2>2
<1>8. CASE CleanupEntry
  <2>1. ~Copying /\ UNCHANGED <<crashes, unremoved>> /\ \A m \in Names : tmp'[m] # Absent => tmp[m] # Absent
    BY <1>8 DEF CleanupEntry, Copying, TypeOK, DirTypeOK
  <2>2. StaleTmp' \subseteq StaleTmp
    BY <2>1 DEF StaleTmp
  <2> QED BY <1>1, <2>1, <2>2
<1>9. ASSUME UNCHANGED <<tmp, crashes, unremoved>>, ~Copying \/ UNCHANGED <<pc, plan, next>> PROVE LeakInv'
  <2>1. StaleTmp' \subseteq StaleTmp
    BY <1>9 DEF StaleTmp, Copying
  <2> QED BY <1>1, <1>9, <2>1
<1> QED
  BY <1>4, <1>5, <1>6, <1>7, <1>8, <1>9, <1>10
  DEF Next, User, SidecarStep, Sync, Follow, SetStub, DeleteStub, StatusHeartbeat, WriteScript,
      EndRewrite, RemoveScript, WatchBreaks, StartBusiness, StartSidecar, Crash, Terminate, Fatal,
      GetBehaviorStub, GetFails, MakeSharedDir, ReadSourceDir, SyncFails, JobFailed, OpenFails,
      SyncDone, MarkReady, StartWatch, StartPolling, PollTick, HandleEvent, ReceiveFromClosed,
      CleanupDone, vars, dirVars, syncVars, Copying

\* A copy that fails leaves nothing behind unless the removal fails as well:
\* there is at most one leftover temporary file per exit of the process and
\* per failing os.Remove of atomicCopy.
THEOREM TmpLeakIsBounded == Spec => []TmpLeakBounded
<1>1. LeakInv => TmpLeakBounded
  BY DEF LeakInv, TmpLeakBounded
<1> QED BY <1>1, InitTypeOK, NextTypeOK, InitLeakInv, NextLeakInv, PTL DEF Spec
============================================================================
