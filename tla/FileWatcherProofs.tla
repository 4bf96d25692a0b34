------------------------- MODULE FileWatcherProofs -------------------------
(***************************************************************************)
(* Proofs about FileWatcher, for every directory (finite or not) and every *)
(* bound.                                                                  *)
(***************************************************************************)
EXTENDS FileWatcher, WellFoundedInduction, TLAPS

----------------------------------------------------------------------------
(* The inductive invariant.                                                *)

Copying == pc \in {"copy", "rename"}

\* The loop of CopyAll is running; with stat # Absent it is that of sync.
CopyingAll == pc \in {"open", "copy", "rename"} /\ stat = Absent

\* Nothing recorded, listed or served is newer than the file itself.
NothingNewer ==
    \A e \in Entries :
        /\ hashes[e] # Absent => hashes[e] <= version[e]
        /\ listed[e] # Absent => listed[e] <= version[e]
        /\ shared[e] # Absent => shared[e].from = e /\ shared[e].ver <= version[e]

\* What the goroutine knows at each point of its loops, and what users leave:
\* a file that is being rewritten exists.
LoopState ==
    /\ stat # Absent =>
          pc \in {"open", "copy", "rename"} /\ todo # {} /\ stat <= version[Current]
    /\ pc = "new" \/ CopyingAll => hashes = Nothing
    /\ result = "ok" => pc = "copied" /\ todo = {}
    /\ rewriting \subseteq present /\ rewriting \subseteq InPlace

\* The copy in progress is of a version between the one Stat, or the listing,
\* saw and the present one, and not older than what it replaces.
CopyInProgress ==
    Copying =>
        /\ tmp[Current].from = Current /\ tmp[Current].ver <= version[Current]
        /\ stat # Absent => stat <= tmp[Current].ver
        /\ listed[Current] # Absent => listed[Current] <= tmp[Current].ver
        /\ shared[Current] # Absent => shared[Current].ver <= tmp[Current].ver

\* A finished copy is executable, and it is the latest version if no edit
\* began since Stat.
CopyFinished ==
    pc = "rename" =>
        /\ "exec" \in tmp[Current].has /\ ("whole" \in tmp[Current].has \/ Current \in InPlace)
        /\ stat = version[Current] /\ Current \notin rewriting => tmp[Current] = Latest(Current)

\* RecordedIsServed, also for files that were removed.
Recorded == \A f \in Entries \ rewriting : hashes[f] = version[f] => shared[f] = Latest(f)

\* CopyAllComplete, for the entries CopyAll is through with.
CopiedSoFar ==
    CopyingAll \/ result = "ok" =>
        \A e \in Entries \ todo :
            listed[e] # Absent => shared[e] # Absent /\ listed[e] <= shared[e].ver

CopyInv ==
    /\ NothingNewer /\ LoopState /\ CopyInProgress /\ CopyFinished /\ Recorded /\ CopiedSoFar

----------------------------------------------------------------------------
(* Type correctness.                                                       *)

\* The entry the loop is at is one it has to visit: of any set of entries,
\* one is listed first.
LEMMA CurrentIsListed ==
    ASSUME todo \in SUBSET Entries, todo # {}
    PROVE  Current \in todo
<1> DEFINE T == {Rank[e] : e \in todo}
           R == OpToRel(<, Nat)
<1>1. T \subseteq Nat /\ T # {}
  BY EntriesAssumption
<1>2. PICK x \in T : \A y \in T : ~(<<y, x>> \in R)
  <2> HIDE DEF T, R
  <2>1. IsWellFoundedOn(R, Nat)
    BY NatLessThanWellFounded DEF R
  <2> QED BY <1>1, <2>1, WFMin
<1>3. \A y \in T : ~(y < x)
  BY <1>1, <1>2 DEF OpToRel
<1>4. PICK e \in todo : x = Rank[e]
  OBVIOUS
<1>5. \A f \in todo : Rank[e] <= Rank[f]
  <2> TAKE f \in todo
  <2>1. Rank[f] \in T /\ Rank[f] \in Nat /\ Rank[e] \in Nat
    BY <1>1
  <2> QED BY <1>3, <1>4, <2>1
<1> QED BY <1>5 DEF Current

\* While the list is the same, so is the entry.
LEMMA CurrentStays == todo' = todo => Current' = Current
  BY DEF Current

\* The initial states are well typed.
LEMMA InitTypeOK == Init => TypeOK
  BY BoundsAssumption DEF Init, TypeOK, Nothing, FileOrNot, VersionOrNot

\* The file io.Copy leaves: of a version between the one opened and the
\* present one, executable, and whole unless the file was written to.
LEMMA CopiedFile ==
    ASSUME TypeOK, CopyContent
    PROVE  \E c \in File :
              /\ tmp' = [tmp EXCEPT ![Current] = c] /\ tmp'[Current] = c
              /\ c.from = Current /\ tmp[Current].ver <= c.ver
              /\ c.ver <= tmp[Current].ver \/ c.ver <= version[Current]
              /\ "exec" \in c.has
              /\ \/ "whole" \in c.has
                 \/ Current \in InPlace /\ tmp[Current].ver # version[Current]
                 \/ Current \in rewriting
              /\ "whole" \in c.has => c.has = {"whole", "exec"}
<1>1. Current \in Entries /\ todo # {} /\ tmp[Current] # Absent
  BY CurrentIsListed DEF TypeOK, CopyContent
<1>2. tmp[Current] \in File
  BY <1>1 DEF TypeOK, FileOrNot
<1>3. tmp[Current].ver \in Nat /\ version[Current] \in Nat
  BY <1>1, <1>2 DEF File, TypeOK
<1>4. PICK c \in Copies : tmp' = [tmp EXCEPT ![Current] = c]
  BY DEF CopyContent
<1> DEFINE old == tmp[Current].ver
           last == IF Current \in InPlace THEN version[Current] ELSE old
<1>5. /\ c \in [from : {Current}, ver : old..last, has : {{"whole", "exec"}, {"exec"}}]
      /\ c.has = {"whole", "exec"} \/ (c.has = {"exec"} /\ ~(old = last /\ Current \notin rewriting))
  BY DEF Copies
<1>6. c.from = Current /\ c.ver \in old..last /\ c.has \in {{"whole", "exec"}, {"exec"}}
  BY <1>5
<1>7. old..last \subseteq Nat /\ (last = old \/ last = version[Current])
  BY <1>3, EntriesAssumption
<1>8. c \in File
  BY <1>1, <1>5, <1>7 DEF File
<1>9. tmp'[Current] = c
  BY <1>1, <1>4 DEF TypeOK
<1>10. /\ tmp[Current].ver <= c.ver
       /\ c.ver <= tmp[Current].ver \/ c.ver <= version[Current]
  BY <1>3, <1>6, <1>7
<1>11. "whole" \in c.has \/ (Current \in InPlace /\ old # version[Current]) \/ Current \in rewriting
  BY <1>5
<1> QED BY <1>4, <1>5, <1>6, <1>8, <1>9, <1>10, <1>11

\* No step leaves the type invariant.
LEMMA NextTypeOK == TypeOK /\ [Next]_vars => TypeOK'
<1> SUFFICES ASSUME TypeOK, [Next]_vars PROVE TypeOK'
  OBVIOUS
<1> USE BoundsAssumption DEF TypeOK, FileOrNot, VersionOrNot, Nothing, userVars, copyVars, loopVars,
        Edit, Fault
<1>1. todo # {} => Current \in Entries
  BY CurrentIsListed
<1>2. ASSUME NEW f \in Files, NEW inPlace \in BOOLEAN, Write(f, inPlace) PROVE TypeOK'
  BY <1>2, CurrentStays DEF Write, NewVersion, Entries
<1>3. ASSUME NEW f \in Files, EndRewrite(f) \/ Remove(f) PROVE TypeOK'
  BY <1>3, CurrentStays DEF EndRewrite, Remove, NewVersion, Entries
<1>4. CASE CallCopyAll \/ Tick \/ ReadDirFails
  BY <1>4 DEF CallCopyAll, Tick, ReadDirFails
<1>5. CASE Stat
  BY <1>1, <1>5 DEF Stat, Advance, InCopyAll
<1>6. CASE LoopDone
  BY <1>6 DEF LoopDone
<1>7. CASE Open
  <2> DEFINE c == [from |-> Current, ver |-> version[Current], has |-> {}]
  <2>1. c \in File /\ c # Absent
    BY <1>1, <1>7, AbsentAssumption DEF Open, File
  <2>2. tmp' = [tmp EXCEPT ![Current] = c]
    BY <1>7 DEF Open
  <2> HIDE DEF c
  <2> QED BY <1>1, <1>7, <2>1, <2>2, CurrentStays DEF Open
<1>8. CASE CopyContent
  <2>1. PICK c \in File : tmp' = [tmp EXCEPT ![Current] = c]
    BY <1>8, CopiedFile
  <2>2. c # Absent
    BY AbsentAssumption
  <2> QED BY <1>1, <1>8, <2>1, <2>2, CurrentStays DEF CopyContent
<1>9. CASE Rename
  BY <1>1, <1>9 DEF Rename, Advance, InCopyAll
<1>10. CASE OpenFails
  BY <1>10 DEF OpenFails, CopyError, Advance, InCopyAll
<1>11. CASE CopyFails
  BY <1>1, <1>11 DEF CopyFails, CopyError, Advance, InCopyAll
<1>12. CASE Crash
  BY <1>12 DEF Crash
<1>13. CASE UNCHANGED vars
  BY <1>13, CurrentStays DEF vars
<1> QED
  BY <1>2, <1>3, <1>4, <1>5, <1>6, <1>7, <1>8, <1>9, <1>10, <1>11, <1>12, <1>13 DEF Next, User, Step

\* Every reachable state of the watcher, its directories and its loops is well
\* typed; a copy in progress always has its entry and its temporary file.
THEOREM TypeCorrect == Spec => []TypeOK
  BY InitTypeOK, NextTypeOK, PTL DEF Spec

----------------------------------------------------------------------------
(* The copies keep their promises.                                         *)

\* Nothing is recorded, listed, served or being copied at first.
LEMMA InitCopyInv == Init => CopyInv
  BY AbsentAssumption
  DEF Init, CopyInv, NothingNewer, LoopState, CopyInProgress, CopyFinished, Recorded, CopiedSoFar,
      Copying, CopyingAll, Nothing

\* An entry of the output directory, and the temporary file in progress.
LEMMA FilesTyped ==
    ASSUME TypeOK
    PROVE  /\ \A e \in Entries : shared[e] # Absent => shared[e] \in File /\ shared[e].ver \in Nat
           /\ Copying => /\ todo # {} /\ Current \in Entries /\ tmp[Current] \in File
                         /\ tmp[Current].ver \in Nat /\ tmp[Current] # Absent
<1>1. \A e \in Entries : shared[e] # Absent => shared[e] \in File
  BY DEF TypeOK, FileOrNot
<1>2. Copying => /\ todo # {} /\ Current \in Entries /\ tmp[Current] \in File /\ tmp[Current] # Absent
  BY CurrentIsListed DEF TypeOK, FileOrNot, Copying
<1> QED BY <1>1, <1>2 DEF File

\* The versions are natural numbers and never go down.
LEMMA VersionsTyped ==
    ASSUME TypeOK
    PROVE  \A e \in Entries :
              /\ version[e] \in Nat
              /\ hashes[e] # Absent => hashes[e] \in Nat
              /\ listed[e] # Absent => listed[e] \in Nat
  BY DEF TypeOK, VersionOrNot

\* Users.  A file gets a new version when it is written and when a rewrite
\* ends, so that whatever was recorded or read of it before is out of date.
LEMMA UserKeepsCopyInv ==
    ASSUME TypeOK, CopyInv, NEW f \in Files,
           EndRewrite(f) \/ Remove(f) \/ \E inPlace \in BOOLEAN : Write(f, inPlace)
    PROVE  CopyInv'
<1>1. UNCHANGED <<copyVars, hashes, loopVars>> /\ Current' = Current
  BY CurrentStays DEF EndRewrite, Remove, Write, loopVars
<1>2. \A e \in Entries :
         /\ version'[e] \in Nat /\ version[e] <= version'[e]
         /\ version'[e] = version[e] /\ e \notin rewriting' => e \notin rewriting
  BY VersionsTyped DEF EndRewrite, Remove, Write, NewVersion, TypeOK, Entries
<1>3. rewriting' \subseteq present' /\ rewriting' \subseteq InPlace
  BY DEF EndRewrite, Remove, Write, CopyInv, LoopState
<1>4. \A e \in Entries : version'[e] = version[e] => Latest(e)' = Latest(e)
  BY DEF Latest
<1> USE <1>1 DEF CopyInv, copyVars, loopVars
<1>5. NothingNewer'
  BY <1>2, VersionsTyped, FilesTyped DEF NothingNewer
<1>6. LoopState'
  <2>1. stat # Absent => stat \in Nat /\ Current \in Entries
    BY CurrentIsListed DEF TypeOK, VersionOrNot, LoopState
  <2> QED BY <1>2, <1>3, <2>1, VersionsTyped DEF LoopState, CopyingAll, Nothing
<1>7. CopyInProgress'
  BY <1>2, VersionsTyped, FilesTyped DEF CopyInProgress, Copying
<1>8. CopyFinished'
  <2>1. pc = "rename" => Current \in Entries
    BY FilesTyped DEF Copying
  <2>2. pc = "rename" /\ stat = version'[Current] => version'[Current] = version[Current]
    BY <1>2, <2>1, VersionsTyped, AbsentAssumption DEF LoopState
  <2> QED BY <1>2, <1>4, <2>1, <2>2 DEF CopyFinished
<1>9. Recorded'
  <2>1. ASSUME NEW e \in Entries, hashes[e] = version'[e] PROVE version'[e] = version[e]
    BY <1>2, <2>1, VersionsTyped, AbsentAssumption DEF NothingNewer
  <2> QED BY <1>2, <1>4, <2>1 DEF Recorded
<1>10. CopiedSoFar'
  BY DEF CopiedSoFar, CopyingAll
<1> QED BY <1>5, <1>6, <1>7, <1>8, <1>9, <1>10

\* A step between two copies: it changes neither the files nor what is
\* recorded, or it is the end of the process.
LEMMA LoopKeepsCopyInv ==
    ASSUME TypeOK, CopyInv,
           CallCopyAll \/ Tick \/ ReadDirFails \/ Stat \/ LoopDone \/ OpenFails \/ CopyFails \/ Crash
    PROVE  CopyInv'
<1> USE DEF CopyInv, userVars, copyVars
<1>1. UNCHANGED <<present, version, rewriting, shared>> /\ (UNCHANGED hashes \/ hashes' = Nothing)
  BY DEF CallCopyAll, Tick, ReadDirFails, Stat, LoopDone, OpenFails, CopyFails, CopyError, Crash
<1>2. UNCHANGED listed \/ listed' = Nothing \/ CallCopyAll
  BY DEF Tick, ReadDirFails, Stat, LoopDone, OpenFails, CopyFails, CopyError, Crash
<1>3. ~Copying'
  BY DEF CallCopyAll, Tick, ReadDirFails, Stat, LoopDone, OpenFails, CopyFails, CopyError, Advance,
         Crash, Copying
<1>4. \A e \in Entries : Latest(e)' = Latest(e)
  BY <1>1 DEF Latest
<1>5. NothingNewer'
  BY <1>1, <1>2, VersionsTyped DEF NothingNewer, Nothing, CallCopyAll
<1>6. CopyInProgress' /\ CopyFinished'
  BY <1>3 DEF CopyInProgress, CopyFinished, Copying
<1>7. Recorded'
  BY <1>1, <1>4, VersionsTyped, AbsentAssumption DEF Recorded, Nothing
<1>8. LoopState'
  <2>1. CASE Stat
    <3>1. todo # {} /\ Current \in Entries
      BY <2>1, CurrentIsListed DEF Stat, TypeOK
    <3>2. CASE pc' = "stat" /\ stat' = Absent
      BY <1>1, <2>1, <3>2 DEF Stat, LoopState, CopyingAll
    <3>3. CASE pc' = "open" /\ stat' = version[Current] /\ UNCHANGED todo
      <4>1. stat' \in Nat /\ Current' = Current
        BY <3>1, <3>3, VersionsTyped, CurrentStays
      <4> QED BY <1>1, <2>1, <3>1, <3>3, <4>1, AbsentAssumption DEF Stat, LoopState, CopyingAll
    <3> QED BY <2>1, <3>2, <3>3 DEF Stat, Advance, InCopyAll
  <2>2. CASE CallCopyAll \/ Tick \/ ReadDirFails \/ Crash
    BY <1>1, <2>2 DEF CallCopyAll, Tick, ReadDirFails, Crash, LoopState, CopyingAll
  <2>3. CASE LoopDone
    BY <1>1, <2>3 DEF LoopDone, LoopState, CopyingAll
  <2>4. CASE OpenFails \/ CopyFails
    BY <1>1, <2>4 DEF OpenFails, CopyFails, CopyError, Advance, InCopyAll, LoopState, CopyingAll
  <2> QED BY <2>1, <2>2, <2>3, <2>4
<1>9. CopiedSoFar'
  <2>1. CASE Stat
    BY <2>1, VersionsTyped, CurrentIsListed, AbsentAssumption
    DEF Stat, Advance, InCopyAll, CopiedSoFar, CopyingAll, LoopState, TypeOK
  <2>2. CASE CallCopyAll \/ Tick \/ ReadDirFails \/ Crash
    BY <2>2 DEF CallCopyAll, Tick, ReadDirFails, Crash, CopiedSoFar, CopyingAll
  <2>3. CASE LoopDone
    BY <1>1, <2>3 DEF LoopDone, CopiedSoFar, CopyingAll, LoopState
  <2>4. CASE OpenFails \/ CopyFails
    BY <2>4 DEF OpenFails, CopyFails, CopyError, Advance, InCopyAll, CopiedSoFar, CopyingAll, LoopState
  <2> QED BY <2>1, <2>2, <2>3, <2>4
<1> QED BY <1>5, <1>6, <1>7, <1>8, <1>9

\* A file is opened in its present version.
LEMMA OpenKeepsCopyInv ==
    ASSUME TypeOK, CopyInv, Open
    PROVE  CopyInv'
<1> USE DEF CopyInv, userVars
<1>1. Current \in Entries /\ Current' = Current
  BY CurrentIsListed, CurrentStays DEF Open, TypeOK
<1>2. UNCHANGED <<present, version, rewriting, shared, hashes, todo, stat, listed, result>>
      /\ pc = "open" /\ pc' = "copy" /\ todo # {}
  BY DEF Open
<1> DEFINE c == [from |-> Current, ver |-> version[Current], has |-> {}]
<1>3. tmp'[Current] = c
  BY <1>1 DEF Open, TypeOK
<1>4. NothingNewer' /\ Recorded'
  BY <1>2 DEF NothingNewer, Recorded, Latest
<1>5. LoopState' /\ CopiedSoFar' /\ CopyFinished'
  BY <1>1, <1>2 DEF LoopState, CopiedSoFar, CopyFinished, CopyingAll, Nothing
<1>6. CopyInProgress'
  BY <1>1, <1>2, <1>3, VersionsTyped DEF CopyInProgress, NothingNewer, LoopState
<1> QED BY <1>4, <1>5, <1>6

\* The contents are copied: if the file is not being rewritten, and has still
\* the time that Stat saw, they are its latest.
LEMMA CopyKeepsCopyInv ==
    ASSUME TypeOK, CopyInv, CopyContent
    PROVE  CopyInv'
<1> USE DEF CopyInv, userVars
<1>1. UNCHANGED <<present, version, rewriting, shared, hashes, todo, stat, listed, result>>
      /\ pc = "copy" /\ pc' = "rename" /\ Current' = Current
  BY CurrentStays DEF CopyContent
<1>2. /\ todo # {} /\ Current \in Entries /\ tmp[Current].ver \in Nat
  BY <1>1, FilesTyped DEF Copying
<1>3. PICK c \in File :
         /\ tmp'[Current] = c
         /\ c.from = Current /\ tmp[Current].ver <= c.ver
         /\ c.ver <= tmp[Current].ver \/ c.ver <= version[Current]
         /\ "exec" \in c.has
         /\ \/ "whole" \in c.has
            \/ Current \in InPlace /\ tmp[Current].ver # version[Current]
            \/ Current \in rewriting
         /\ "whole" \in c.has => c.has = {"whole", "exec"}
  BY CopiedFile
<1>4. c.ver \in Nat /\ version[Current] \in Nat /\ c = [from |-> c.from, ver |-> c.ver, has |-> c.has]
  BY <1>2, <1>3, VersionsTyped DEF File
<1>5. tmp[Current].ver <= version[Current] /\ (stat # Absent => stat \in Nat /\ stat <= tmp[Current].ver)
      /\ (listed[Current] # Absent => listed[Current] <= tmp[Current].ver)
      /\ (shared[Current] # Absent => shared[Current].ver <= tmp[Current].ver)
  BY <1>1 DEF CopyInProgress, Copying, TypeOK, VersionOrNot
<1>6. c.ver <= version[Current]
  BY <1>2, <1>3, <1>4, <1>5
<1>7. NothingNewer' /\ Recorded'
  BY <1>1 DEF NothingNewer, Recorded, Latest
<1>8. LoopState' /\ CopiedSoFar'
  BY <1>1 DEF LoopState, CopiedSoFar, CopyingAll, Nothing
<1>9. CopyInProgress'
  BY <1>1, <1>2, <1>3, <1>4, <1>5, <1>6, VersionsTyped, FilesTyped DEF CopyInProgress
<1>10. CopyFinished'
  <2>1. "exec" \in c.has /\ ("whole" \in c.has \/ Current \in InPlace)
    BY <1>3 DEF LoopState
  <2>2. ASSUME stat = version[Current], Current \notin rewriting PROVE c = Latest(Current)
    <3>1. c.ver = version[Current] /\ tmp[Current].ver = version[Current]
      BY <1>2, <1>3, <1>4, <1>5, <1>6, <2>2, AbsentAssumption
    <3>2. c.has = {"whole", "exec"}
      BY <1>3, <2>2, <3>1
    <3> QED BY <1>3, <1>4, <3>1, <3>2 DEF Latest
  <2> QED BY <1>1, <1>3, <2>1, <2>2 DEF CopyFinished, Latest
<1> QED BY <1>7, <1>8, <1>9, <1>10

\* The copy is put in place, and sync records the time it had read before.
LEMMA RenameKeepsCopyInv ==
    ASSUME TypeOK, CopyInv, Rename
    PROVE  CopyInv'
<1> USE DEF CopyInv, userVars
<1> DEFINE n == Current
<1>1. /\ n \in todo /\ n \in Entries /\ tmp[n] \in File /\ tmp[n] # Absent /\ tmp[n].ver \in Nat
      /\ version[n] \in Nat
  BY FilesTyped, CurrentIsListed, VersionsTyped DEF Copying, Rename, TypeOK
<1>2. /\ UNCHANGED <<present, version, rewriting, listed, result>> /\ pc = "rename"
      /\ todo' = todo \ {n} /\ stat' = Absent /\ pc' = IF stat = Absent THEN "open" ELSE "stat"
      /\ shared'[n] = tmp[n] /\ \A e \in Entries \ {n} : shared'[e] = shared[e]
  BY <1>1 DEF Rename, Advance, InCopyAll, TypeOK
<1>3. IF stat = Absent THEN hashes' = hashes ELSE hashes' = [hashes EXCEPT ![n] = stat]
  BY DEF Rename, InCopyAll
<1>4. /\ tmp[n].from = n /\ tmp[n].ver <= version[n]
      /\ listed[n] # Absent => listed[n] <= tmp[n].ver
  BY <1>2 DEF CopyInProgress, Copying
<1>5. stat # Absent => stat \in Nat /\ stat <= version[n]
  BY DEF LoopState, TypeOK, VersionOrNot
<1>6. \A e \in Entries : Latest(e)' = Latest(e)
  BY <1>2 DEF Latest
<1> HIDE DEF n
<1>7. NothingNewer'
  BY <1>1, <1>2, <1>3, <1>4, <1>5 DEF NothingNewer, TypeOK
<1>8. LoopState'
  BY <1>2, <1>3 DEF LoopState, CopyingAll, Nothing
<1>9. CopyInProgress' /\ CopyFinished'
  BY <1>2 DEF CopyInProgress, CopyFinished, Copying
<1>10. Recorded'
  <2>1. CASE stat = Absent
    <3>1. \A e \in Entries : hashes'[e] = Absent /\ version'[e] # Absent
      BY <1>2, <1>3, <2>1, VersionsTyped, AbsentAssumption DEF LoopState, CopyingAll, Nothing
    <3> QED BY <3>1 DEF Recorded
  <2>2. CASE stat # Absent
    <3>1. stat = version[n] /\ n \notin rewriting => shared'[n] = Latest(n)
      BY <1>2 DEF CopyFinished, n
    <3>2. hashes'[n] = stat /\ \A e \in Entries \ {n} : hashes'[e] = hashes[e]
      BY <1>1, <1>3, <2>2 DEF TypeOK
    <3> QED BY <1>2, <1>6, <3>1, <3>2 DEF Recorded
  <2> QED BY <2>1, <2>2
<1>11. CopiedSoFar'
  BY <1>1, <1>2, <1>4 DEF CopiedSoFar, CopyingAll, LoopState
<1> QED BY <1>7, <1>8, <1>9, <1>10, <1>11

\* The invariant is inductive.
LEMMA NextCopyInv == TypeOK /\ CopyInv /\ [Next]_vars => CopyInv'
<1> SUFFICES ASSUME TypeOK, CopyInv, [Next]_vars PROVE CopyInv'
  OBVIOUS
<1>1. CASE UNCHANGED vars
  BY <1>1, CurrentStays
  DEF vars, CopyInv, NothingNewer, LoopState, CopyInProgress, CopyFinished, Recorded, CopiedSoFar,
      Copying, CopyingAll, Latest, Nothing
<1> QED
  BY <1>1, UserKeepsCopyInv, LoopKeepsCopyInv, OpenKeepsCopyInv, CopyKeepsCopyInv, RenameKeepsCopyInv
  DEF Next, User, Step

\* The two together are an invariant.
LEMMA CopyInvHolds == Spec => [](TypeOK /\ CopyInv)
<1>1. TypeOK /\ CopyInv /\ [Next]_vars => (TypeOK /\ CopyInv)'
  BY NextTypeOK, NextCopyInv
<1> QED BY <1>1, InitTypeOK, InitCopyInv, PTL DEF Spec

\* Whatever users, errors and crashes come between Stat, Open and the copy: a
\* file that no later tick of sync will look at is served in its latest version.
THEOREM ChangeDetectionSound == Spec => []RecordedIsServed
<1>1. TypeOK /\ CopyInv => RecordedIsServed
  BY DEF CopyInv, Recorded, RecordedIsServed, TypeOK
<1> QED BY <1>1, CopyInvHolds, PTL

\* A CopyAll that returned no error left a copy of every entry it had listed,
\* not older than the listing, in a directory of any size.
THEOREM CopyAllIsComplete == Spec => []CopyAllComplete
<1>1. TypeOK /\ CopyInv => CopyAllComplete
  BY DEF CopyInv, CopiedSoFar, LoopState, CopyAllComplete
<1> QED BY <1>1, CopyInvHolds, PTL

----------------------------------------------------------------------------
(* The output directory is a StubDir.                                      *)

\* A rename publishes, users' edits are edits, and all else stutters.
LEMMA StepsRefine == TypeOK /\ CopyInv /\ [Next]_vars => [Dir!DirNext]_(Dir!dirVars)
<1> SUFFICES ASSUME TypeOK, CopyInv, [Next]_vars PROVE [Dir!DirNext]_(Dir!dirVars)
  OBVIOUS
<1> USE DEF Dir!DirNext, Dir!dirVars, userVars, copyVars
<1>1. ASSUME NEW f \in Files, NEW inPlace \in BOOLEAN, Write(f, inPlace) PROVE Dir!DirNext
  BY <1>1 DEF Write, NewVersion, Dir!Rewrite, Entries
<1>2. ASSUME NEW f \in Files, EndRewrite(f) PROVE Dir!DirNext
  <2>1. present' = present \union {f}
    BY <1>2 DEF EndRewrite, CopyInv, LoopState
  <2> QED BY <1>2, <2>1 DEF EndRewrite, NewVersion, Dir!Rewrite, Entries
<1>3. ASSUME NEW f \in Files, Remove(f) PROVE Dir!DirNext
  BY <1>3 DEF Remove, Dir!Unlink, Entries
<1>4. CASE Rename
  <2> DEFINE n == Current
             f == tmp[n]
  <2>1. pc = "rename" /\ n \in Entries /\ f \in File
    BY <1>4, FilesTyped DEF Rename, Copying
  <2>2. shared' = [shared EXCEPT ![n] = f] /\ shared'[n] = f
    BY <1>4, <2>1 DEF Rename, TypeOK
  <2>3. /\ "exec" \in f.has /\ ("whole" \in f.has \/ n \in InPlace)
        /\ f.from = n /\ f.ver <= version[n]
        /\ shared[n] # Absent => shared[n].ver <= f.ver
    BY <2>1 DEF CopyInv, CopyInProgress, CopyFinished, Copying
  <2>4. Dir!Publish(n)
    BY <2>1, <2>2, <2>3 DEF Dir!Publish, Dir!File, File
  <2>5. UNCHANGED <<present, version>>
    BY <1>4 DEF Rename
  <2> QED BY <2>1, <2>4, <2>5
<1>5. CASE UNCHANGED <<present, version, shared>>
  BY <1>5
<1> QED
  BY <1>1, <1>2, <1>3, <1>4, <1>5
  DEF Next, User, Step, CallCopyAll, Tick, ReadDirFails, Stat, LoopDone, Open, CopyContent, OpenFails,
      CopyFails, Crash, vars

\* For every directory, every bound, and however the process fails: atomicCopy
\* keeps the promise of StubDir, as the sidecar's own copies do.
THEOREM WatcherImplementsStubDir == Spec => ImplementsStubDir
<1>1. Init => Dir!DirInit
  BY DEF Init, Dir!DirInit, Nothing
<1> QED BY <1>1, StepsRefine, CopyInvHolds, PTL DEF Spec, ImplementsStubDir, Dir!DirSpec
============================================================================
