-------------------------- MODULE ReconcilerProofs --------------------------
(***************************************************************************)
(* Proofs about Reconciler, for every set of stubs, pods and selectors,    *)
(* every number of attempts and every bound.                               *)
(***************************************************************************)
EXTENDS Reconciler, SequenceTheorems, FiniteSetTheorems, TLAPS

----------------------------------------------------------------------------
(* Type correctness.                                                       *)

\* The computed counts are counts.
LEMMA StatusForTyped ==
    ASSUME NEW x \in Selectors, NEW view
    PROVE  StatusFor(x, view) \in Counts
<1> DEFINE selected == {p \in Matches[x] : view[p] # "none"}
           injected == {p \in selected : view[p] = "injected"}
<1>1. IsFiniteSet(Matches[x])
  BY PodsAssumption, FS_Subset
<1>2. IsFiniteSet(selected) /\ IsFiniteSet(injected)
  BY <1>1, FS_Subset
<1>3. Cardinality(selected) \in Nat /\ Cardinality(injected) \in Nat
  BY <1>2, FS_CardinalityType
<1>4. Phase(Cardinality(injected), Cardinality(selected)) \in Phases
  BY DEF Phase, Phases
<1> QED BY <1>3, <1>4 DEF StatusFor, Counts

\* The stubs the initial list of a restarted manager finds.
Existing == {s \in Stubs : sel[s] # NoStub}

(* Finitely many stubs exist, so a restart can enqueue them all.             *)
LEMMA ExistingFinite == Cardinality(Existing) \in Nat
  BY PodsAssumption, FS_Subset, FS_CardinalityType DEF Existing

\* Appending a key keeps the queue a queue of stubs, and holds the key.
LEMMA EnqueueKeeps ==
    ASSUME queue \in Seq(Stubs), NEW s \in Stubs, Enqueue(s)
    PROVE  queue' \in Seq(Stubs) /\ Queued' = Queued \union {s}
<1>1. CASE s \in Queued
  BY <1>1 DEF Enqueue, Queued
<1>2. CASE s \notin Queued
  <2>1. /\ queue' = Append(queue, s) /\ queue' \in Seq(Stubs)
        /\ Len(queue) \in Nat /\ Len(queue') = Len(queue) + 1
        /\ queue'[Len(queue) + 1] = s
        /\ \A i \in 1..Len(queue) : queue'[i] = queue[i]
    BY <1>2 DEF Enqueue
  <2>2. Queued' \subseteq Queued \union {s}
    <3> SUFFICES ASSUME NEW i \in 1..Len(queue') PROVE queue'[i] \in Queued \union {s}
      BY DEF Queued
    <3>1. i \in 1..Len(queue) \/ i = Len(queue) + 1
      BY <2>1
    <3> QED BY <2>1, <3>1 DEF Queued
  <2>3. Queued \union {s} \subseteq Queued'
    BY <2>1 DEF Queued
  <2> QED BY <2>1, <2>2, <2>3
<1> QED BY <1>1, <1>2

\* Taking the first key removes at most that key.
LEMMA DequeueKeeps ==
    ASSUME queue \in Seq(Stubs), queue # <<>>, queue' = Tail(queue)
    PROVE  /\ queue' \in Seq(Stubs) /\ Head(queue) \in Stubs
           /\ Queued \subseteq Queued' \union {Head(queue)}
<1>1. /\ queue' \in Seq(Stubs) /\ Head(queue) = queue[1] /\ queue[1] \in Stubs
      /\ Len(queue) \in Nat /\ Len(queue) > 0 /\ Len(queue') = Len(queue) - 1
      /\ \A i \in 1..Len(queue') : queue'[i] = queue[i + 1]
  OBVIOUS
<1>2. Queued \subseteq Queued' \union {Head(queue)}
  <2> SUFFICES ASSUME NEW i \in 1..Len(queue), i # 1 PROVE queue[i] \in Queued'
    BY <1>1 DEF Queued
  <2>1. i - 1 \in 1..Len(queue') /\ queue'[i - 1] = queue[i]
    BY <1>1
  <2> QED BY <2>1 DEF Queued
<1> QED BY <1>1, <1>2

\* The initial states are well typed.
LEMMA InitTypeOK == Init => TypeOK
<1> SUFFICES ASSUME Init PROVE TypeOK
  OBVIOUS
<1>1. <<>> \in Seq(Stubs)
  BY EmptySeq
<1>2. CacheTypeOK
  BY <1>1, PodsAssumption DEF Init, CacheTypeOK
<1>3. ApiTypeOK
  BY PodsAssumption DEF Init, ApiTypeOK
<1>4. WorkTypeOK
  BY DEF Init, WorkTypeOK
<1>5. CountersOK
  BY BoundsAssumption DEF Init, CountersOK
<1> QED BY <1>2, <1>3, <1>4, <1>5 DEF TypeOK

\* A write of counts leaves a status behind.
LEMMA AcceptedTyped ==
    ASSUME ApiTypeOK, key \in Stubs, NEW st \in Counts, Accepted(st)
    PROVE  status' \in [Stubs -> Status \union {NoStatus}] /\ fresh' \in SUBSET Stubs
<1>1. [counts |-> st, observed |-> sel[key]] \in Status
  BY DEF Accepted, ApiTypeOK, Status
<1> QED BY <1>1 DEF Accepted, ApiTypeOK

\* What is stored at the API server.
LEMMA NextApiTypeOK == TypeOK /\ [Next]_vars => ApiTypeOK'
<1> SUFFICES ASSUME TypeOK, [Next]_vars PROVE ApiTypeOK'
  OBVIOUS
<1> USE DEF TypeOK, ApiTypeOK, apiVars
<1>1. ASSUME NEW s \in Stubs, NEW x \in Selectors, WriteStub(s, x) PROVE ApiTypeOK'
  BY <1>1 DEF WriteStub
<1>2. ASSUME NEW s \in Stubs, DeleteStub(s) PROVE ApiTypeOK'
  BY <1>2 DEF DeleteStub
<1>3. ASSUME NEW p \in Pods, NEW k \in PodKinds, SetPod(p, k) PROVE ApiTypeOK'
  BY <1>3 DEF SetPod
<1>4. CASE MarkFailed
  <2>1. [phase |-> "Failed", injected |-> 0, total |-> 0] \in Counts
    BY DEF Counts, Phases
  <2>2. key \in Stubs
    BY <1>4 DEF MarkFailed, WorkTypeOK
  <2>3. CASE Accepted([phase |-> "Failed", injected |-> 0, total |-> 0])
    BY <1>4, <2>1, <2>2, <2>3, AcceptedTyped DEF MarkFailed
  <2> QED BY <1>4, <2>3 DEF MarkFailed
<1>5. CASE WriteStatus
  <2>1. key \in Stubs /\ counted \in Counts
    BY <1>5 DEF WriteStatus, WorkTypeOK
  <2> QED BY <1>5, <2>1, AcceptedTyped DEF WriteStatus
<1>6. ASSUME NEW s \in Stubs, OtherManager(s) PROVE ApiTypeOK'
  <2>1. PICK x \in Selectors, view \in {pods, seenPods} :
           status' = [status EXCEPT ![s] = [counts |-> StatusFor(x, view), observed |-> sel[s]]]
    BY <1>6 DEF OtherManager
  <2>2. [counts |-> StatusFor(x, view), observed |-> sel[s]] \in Status
    BY <1>6, StatusForTyped DEF OtherManager, Status
  <2> QED BY <1>6, <2>1, <2>2 DEF OtherManager
<1>7. CASE Tick
  BY <1>7 DEF Tick
<1>8. CASE UNCHANGED apiVars
  BY <1>8
<1> QED
  BY <1>1, <1>2, <1>3, <1>4, <1>5, <1>6, <1>7, <1>8
  DEF Next, User, Worker, Dequeue, GetStub, ListPods, ReadForUpdate, Conflict, WriteNotFound, ApiError,
      Restart, ObserveStub, TimerFires, ObservePod, vars

\* Caches and queue.
LEMMA NextCacheTypeOK == TypeOK /\ [Next]_vars => CacheTypeOK'
<1> SUFFICES ASSUME TypeOK, [Next]_vars PROVE CacheTypeOK'
  OBVIOUS
<1> USE DEF TypeOK, CacheTypeOK, cacheVars, queueVars
<1>1. ASSUME NEW s \in Stubs, NEW x \in Selectors, WriteStub(s, x) PROVE CacheTypeOK'
  BY <1>1 DEF WriteStub, Touch
<1>2. ASSUME NEW s \in Stubs, DeleteStub(s) PROVE CacheTypeOK'
  BY <1>2 DEF DeleteStub, Touch
<1>3. ASSUME NEW s \in Stubs, ObserveStub(s) PROVE CacheTypeOK'
  BY <1>3, EnqueueKeeps DEF ObserveStub, ApiTypeOK
<1>4. ASSUME NEW s \in Stubs, TimerFires(s) PROVE CacheTypeOK'
  BY <1>4, EnqueueKeeps DEF TimerFires
<1>5. ASSUME NEW p \in Pods, ObservePod(p) PROVE CacheTypeOK'
  BY <1>5 DEF ObservePod, ApiTypeOK
<1>6. CASE Dequeue
  BY <1>6, DequeueKeeps DEF Dequeue
<1>7. ASSUME key \in Stubs, UNCHANGED <<cacheVars, queue>>,
             stale' = stale \/ stale' = stale \union {key},
             delayed' = delayed \/ delayed' = delayed \union {key}
      PROVE  CacheTypeOK'
  BY <1>7
<1>8. CASE GetStub \/ MarkFailed \/ ListPods \/ ReadForUpdate \/ WriteStatus \/ Conflict \/ WriteNotFound
           \/ ApiError
  BY <1>7, <1>8
  DEF GetStub, MarkFailed, ListPods, ReadForUpdate, WriteStatus, Conflict, WriteNotFound, ApiError,
      Accepted, Requeue, WorkTypeOK
<1>9. CASE Restart
  <2>1. PICK q \in [1..Cardinality(Existing) -> Existing] : queue' = q
    BY <1>9 DEF Restart, Existing
  <2>2. q \in Seq(Existing)
    BY ExistingFinite, SeqDef
  <2>3. queue' \in Seq(Stubs)
    BY <2>1, <2>2 DEF Existing
  <2> QED BY <1>9, <2>3 DEF Restart, ApiTypeOK
<1>10. ASSUME NEW s \in Stubs, OtherManager(s) PROVE CacheTypeOK'
  BY <1>10 DEF OtherManager, Touch
<1>11. CASE UNCHANGED <<cacheVars, stale, queueVars>>
  BY <1>11
<1> QED
  BY <1>1, <1>2, <1>3, <1>4, <1>5, <1>6, <1>8, <1>9, <1>10, <1>11
  DEF Next, User, Worker, SetPod, Tick, vars

\* What Reconcile has read so far.
LEMMA NextWorkTypeOK == TypeOK /\ [Next]_vars => WorkTypeOK'
<1> SUFFICES ASSUME TypeOK, [Next]_vars PROVE WorkTypeOK'
  OBVIOUS
<1> USE DEF TypeOK, WorkTypeOK, workVars
<1>1. ASSUME NEW s \in Stubs, NEW x \in Selectors, WriteStub(s, x) PROVE WorkTypeOK'
  BY <1>1 DEF WriteStub, Touch
<1>2. ASSUME NEW s \in Stubs, DeleteStub(s) PROVE WorkTypeOK'
  BY <1>2 DEF DeleteStub, Touch
<1>3. CASE Dequeue
  BY <1>3, DequeueKeeps DEF Dequeue, CacheTypeOK
<1>4. CASE Return
  BY <1>4 DEF Return
<1>5. CASE GetStub
  BY <1>4, <1>5 DEF GetStub, CopyRead
<1>6. CASE ListPods
  BY <1>6, StatusForTyped DEF ListPods
<1>7. CASE ReadForUpdate
  BY <1>4, <1>7 DEF ReadForUpdate, Requeue, CopyRead
<1>8. CASE Conflict
  BY <1>4, <1>8 DEF Conflict, Requeue
<1>9. ASSUME NEW s \in Stubs, OtherManager(s) PROVE WorkTypeOK'
  BY <1>9 DEF OtherManager, Touch
<1>10. CASE UNCHANGED workVars
  BY <1>10
<1> QED
  BY <1>1, <1>2, <1>3, <1>4, <1>5, <1>6, <1>7, <1>8, <1>9, <1>10
  DEF Next, User, Worker, SetPod, MarkFailed, WriteStatus, WriteNotFound, ApiError, Requeue, Restart,
      ObserveStub, TimerFires, ObservePod, Tick, vars

\* Attempts never exceed the limit of updateStatusWithRetry.
LEMMA NextCountersOK == TypeOK /\ [Next]_vars => CountersOK'
<1> SUFFICES ASSUME TypeOK, [Next]_vars PROVE CountersOK'
  OBVIOUS
<1> USE BoundsAssumption DEF TypeOK, CountersOK, workVars, Fault, Change, Return, Requeue
<1>1. ASSUME NEW s \in Stubs, NEW x \in Selectors, WriteStub(s, x) PROVE CountersOK'
  BY <1>1 DEF WriteStub
<1>2. ASSUME NEW s \in Stubs, DeleteStub(s) \/ ObserveStub(s) \/ TimerFires(s) \/ OtherManager(s)
      PROVE  CountersOK'
  BY <1>2 DEF DeleteStub, ObserveStub, TimerFires, OtherManager
<1>3. ASSUME NEW p \in Pods, NEW k, SetPod(p, k) \/ ObservePod(p) PROVE CountersOK'
  BY <1>3 DEF SetPod, ObservePod
<1>4. CASE Dequeue \/ GetStub \/ MarkFailed \/ ListPods \/ ReadForUpdate
  BY <1>4 DEF Dequeue, GetStub, MarkFailed, ListPods, ReadForUpdate
<1>5. CASE WriteStatus \/ Conflict \/ WriteNotFound \/ ApiError \/ Restart \/ Tick
  BY <1>5 DEF WriteStatus, Conflict, WriteNotFound, ApiError, Restart, Tick
<1>6. CASE UNCHANGED vars
  BY <1>6 DEF vars
<1> QED
  BY <1>1, <1>2, <1>3, <1>4, <1>5, <1>6 DEF Next, User, Worker

\* No step leaves the type invariant.
LEMMA NextTypeOK == TypeOK /\ [Next]_vars => TypeOK'
  BY NextApiTypeOK, NextCacheTypeOK, NextWorkTypeOK, NextCountersOK DEF TypeOK

\* Every reachable state of the controller is well typed; in particular no
\* status update makes more than MaxAttempts attempts.
THEOREM TypeCorrect == Spec => []TypeOK
  BY InitTypeOK, NextTypeOK, PTL DEF Spec

----------------------------------------------------------------------------
(* No stub is forgotten.                                                   *)

KeyInv == CacheRight /\ NeverForgotten

\* There are no stubs at first.
LEMMA InitKeyInv == Init => KeyInv
  BY DEF Init, KeyInv, CacheRight, NeverForgotten

\* A key is given up only when the cache knows that the stub is gone, and
\* then either it is gone or an event is on its way.
LEMMA NextKeyInv == TypeOK /\ KeyInv /\ [Next]_vars => KeyInv'
<1> SUFFICES ASSUME TypeOK, KeyInv, [Next]_vars PROVE KeyInv'
  OBVIOUS
<1> USE DEF KeyInv, CacheRight, NeverForgotten
<1>0. /\ queue \in Seq(Stubs) /\ sel \in [Stubs -> Selectors \union {NoStub}]
      /\ seenSel \in [Stubs -> Selectors \union {NoStub}]
  BY DEF TypeOK, CacheTypeOK, ApiTypeOK
<1>1. ASSUME NEW s \in Stubs, NEW x \in Selectors, WriteStub(s, x) PROVE KeyInv'
  BY <1>0, <1>1 DEF WriteStub, Touch, cacheVars, queueVars, Queued
<1>2. ASSUME NEW s \in Stubs, DeleteStub(s) PROVE KeyInv'
  BY <1>0, <1>2 DEF DeleteStub, Touch, cacheVars, queueVars, Queued
<1>3. ASSUME NEW s \in Stubs, ObserveStub(s) PROVE KeyInv'
  <2>1. Queued' = Queued \union {s}
    BY <1>0, <1>3, EnqueueKeeps DEF ObserveStub
  <2> QED BY <1>0, <1>3, <2>1 DEF ObserveStub, apiVars, workVars
<1>4. ASSUME NEW s \in Stubs, TimerFires(s) PROVE KeyInv'
  <2>1. Queued' = Queued \union {s}
    BY <1>0, <1>4, EnqueueKeeps DEF TimerFires
  <2> QED BY <1>4, <2>1 DEF TimerFires, apiVars, cacheVars, workVars
<1>5. CASE Dequeue
  <2>1. Queued \subseteq Queued' \union {key'}
    BY <1>0, <1>5, DequeueKeeps DEF Dequeue
  <2>2. key = NoKey
    BY <1>5 DEF Dequeue, TypeOK, WorkTypeOK
  <2> QED BY <1>5, <2>1, <2>2, SelectorsAssumption DEF Dequeue, apiVars, cacheVars
<1>6. CASE GetStub
  <2>1. key \in Stubs
    BY <1>6 DEF GetStub, TypeOK, WorkTypeOK
  <2> QED BY <1>6, <2>1 DEF GetStub, Return, apiVars, cacheVars, Queued
<1>7. ASSUME UNCHANGED <<sel, cacheVars, queue>>, stale \subseteq stale', delayed \subseteq delayed',
             UNCHANGED key \/ key \in delayed'
      PROVE  KeyInv'
  BY <1>7 DEF cacheVars, Queued
<1>8. CASE MarkFailed \/ ListPods \/ ReadForUpdate \/ WriteStatus \/ Conflict \/ WriteNotFound \/ ApiError
  BY <1>7, <1>8
  DEF MarkFailed, ListPods, ReadForUpdate, WriteStatus, Conflict, WriteNotFound, ApiError, Accepted,
      Requeue, apiVars, queueVars
<1>9. CASE Restart
  <2>1. \A s \in Stubs : sel[s] # NoStub => s \in Queued'
    <3>1. PICK q \in [1..Cardinality(Existing) -> Existing] :
             /\ queue' = q
             /\ \A s \in Stubs : sel[s] # NoStub => \E i \in DOMAIN q : q[i] = s
      BY <1>9 DEF Restart, Existing
    <3>2. Len(queue') = Cardinality(Existing)
      BY <3>1, ExistingFinite
    <3> QED BY <3>1, <3>2 DEF Queued
  <2> QED BY <1>9, <2>1 DEF Restart, apiVars
<1>10. ASSUME NEW s \in Stubs, OtherManager(s) PROVE KeyInv'
  BY <1>10 DEF OtherManager, Touch, cacheVars, queueVars, Queued
<1>11. CASE UNCHANGED <<sel, seenSel, stale, queueVars, key>>
  BY <1>11 DEF queueVars, Queued
<1> QED
  BY <1>1, <1>2, <1>3, <1>4, <1>5, <1>6, <1>8, <1>9, <1>10, <1>11
  DEF Next, User, Worker, SetPod, ObservePod, Tick, apiVars, cacheVars, queueVars, workVars, vars

\* For all stubs, pods and selectors: an existing stub always is queued, has
\* a timer, is being reconciled or has an event under way.
THEOREM StubsNeverForgotten == Spec => []NeverForgotten
<1>1. KeyInv => NeverForgotten
  BY DEF KeyInv
<1> QED BY <1>1, InitTypeOK, NextTypeOK, InitKeyInv, NextKeyInv, PTL DEF Spec
=============================================================================
