----------------------------- MODULE Reconciler -----------------------------
(***************************************************************************)
(* The controller of BehaviorStub objects                                  *)
(* (internal/controller/behavior_stub_controller.go): it counts the pods a *)
(* stub selects and those with a sidecar, writes the counts to the stub's  *)
(* status, and comes back every five seconds.  Those writes are also what  *)
(* makes the sidecars look at their scripts again (StatusHeartbeat in      *)
(* Sidecar).                                                               *)
(*                                                                         *)
(* Around it: the API server with optimistic concurrency, the informer     *)
(* caches that lag behind it and feed the work queue, the work queue       *)
(* itself (FIFO, one entry per key, delayed entries), users, and a second  *)
(* manager: leader election is off (scripts/entrypoint.sh), so that a      *)
(* rolling update runs the old and the new one side by side.               *)
(***************************************************************************)
EXTENDS Integers, Sequences, FiniteSets

CONSTANTS
    Stubs,          \* keys (names) of BehaviorStubs
    Pods,           \* names of pods
    StartPods,      \* what the pods may be like at first
    Selectors,      \* target selectors
    BadSelectors,   \* those LabelSelectorAsSelector rejects
    Matches,        \* [Selectors -> SUBSET Pods]: the pods a selector selects
    NoStub,         \* the stub does not exist
    NoStatus,       \* a status that was never written
    NoKey,          \* the worker holds no key
    MaxAttempts,    \* attempts of updateStatusWithRetry (3)
    MaxChanges,     \* bound on changes made by users
    MaxFaults       \* bound on API errors, restarts and other managers' writes

ASSUME SelectorsAssumption ==
    /\ BadSelectors \subseteq Selectors
    /\ NoStub \notin Selectors
    /\ NoKey \notin Stubs

PodKinds == {"none", "plain", "injected"}

ASSUME PodsAssumption ==
    /\ IsFiniteSet(Stubs) /\ IsFiniteSet(Pods)
    /\ Matches \in [Selectors -> SUBSET Pods] /\ StartPods \subseteq [Pods -> PodKinds]

ASSUME BoundsAssumption == MaxAttempts \in Nat \ {0} /\ MaxChanges \in Nat /\ MaxFaults \in Nat

VARIABLES
    sel,        \* [Stubs -> Selectors or NoStub]: spec.targetSelector at the API
    status,     \* [Stubs -> status or NoStatus] at the API
    fresh,      \* stubs whose status has the present second as its time
    pods,       \* [Pods -> "none", "plain" or "injected"] at the API
    seenSel,    \* the stub cache
    seenPods,   \* the pod cache
    stale,      \* stubs whose cached resourceVersion is not the API's
    queue,      \* the work queue
    delayed,    \* keys that a timer will put into the queue
    key,        \* the key being reconciled
    pc,         \* where Reconcile is
    want,       \* the selector Reconcile read
    counted,    \* the status it computed
    copy,       \* "none", or "current" / "outdated": the object read for the update
    attempt,    \* attempts made
    changes, faults     \* counters for the bounds

apiVars == <<sel, status, fresh, pods>>
cacheVars == <<seenSel, seenPods>>
queueVars == <<queue, delayed>>
workVars == <<key, pc, want, counted, copy, attempt>>
vars == <<sel, status, fresh, pods, seenSel, seenPods, stale, queue, delayed, key, pc, want, counted, copy,
          attempt, changes, faults>>

Phases == {"Pending", "Running", "Partial", "Failed"}
Counts == [phase : Phases, injected : Nat, total : Nat]

\* The Ready condition names, as its observedGeneration, the generation of
\* the object it is written to: here, the selector of that generation.
Status == [counts : Counts, observed : Selectors]

Init ==
    /\ sel = [s \in Stubs |-> NoStub] /\ status = [s \in Stubs |-> NoStatus] /\ fresh = {}
    /\ pods \in StartPods
    /\ seenSel = sel /\ seenPods = pods /\ stale = {}
    /\ queue = <<>> /\ delayed = {}
    /\ key = NoKey /\ pc = "idle" /\ want = NoStub /\ counted = NoStatus
    /\ copy = "none" /\ attempt = 0
    /\ changes = 0 /\ faults = 0

Fault == faults < MaxFaults /\ faults' = faults + 1

Queued == {queue[i] : i \in 1..Len(queue)}

\* The work queue holds a key at most once.
Enqueue(s) == queue' = IF s \in Queued THEN queue ELSE Append(queue, s)

\* The object of s gets a new resourceVersion: the cache is behind, and so
\* is the copy an update in progress has read.
Touch(s) ==
    /\ stale' = stale \union {s}
    /\ copy' = IF key = s /\ copy = "current" THEN "outdated" ELSE copy

----------------------------------------------------------------------------
(* Users: stubs and pods come, change and go.                              *)

Change == changes < MaxChanges /\ changes' = changes + 1

WriteStub(s, x) ==
    /\ Change
    /\ x # sel[s]
    /\ sel' = [sel EXCEPT ![s] = x]
    /\ status' = [status EXCEPT ![s] = IF sel[s] = NoStub THEN NoStatus ELSE @]
    /\ Touch(s)
    /\ UNCHANGED <<fresh, pods, cacheVars, queueVars, key, pc, want, counted, attempt, faults>>

DeleteStub(s) ==
    /\ Change
    /\ sel[s] # NoStub
    /\ sel' = [sel EXCEPT ![s] = NoStub]
    /\ status' = [status EXCEPT ![s] = NoStatus] /\ fresh' = fresh \ {s}
    /\ Touch(s)
    /\ UNCHANGED <<pods, cacheVars, queueVars, key, pc, want, counted, attempt, faults>>

\* A pod is created, with a sidecar or (the webhook was down) without, or goes.
SetPod(p, k) ==
    /\ Change
    /\ (pods[p] = "none") # (k = "none")
    /\ pods' = [pods EXCEPT ![p] = k]
    /\ UNCHANGED <<sel, status, fresh, cacheVars, stale, queueVars, workVars, faults>>

----------------------------------------------------------------------------
(* Informers and timers.                                                   *)

\* An event reaches the stub cache; For() enqueues the key whatever changed,
\* status writes and deletions included.
ObserveStub(s) ==
    /\ s \in stale
    /\ seenSel' = [seenSel EXCEPT ![s] = sel[s]]
    /\ stale' = stale \ {s}
    /\ Enqueue(s)
    /\ UNCHANGED <<apiVars, seenPods, delayed, workVars, changes, faults>>

\* Owns() enqueues the owner of a pod, but no pod is owned by a stub.
ObservePod(p) ==
    /\ seenPods[p] # pods[p]
    /\ seenPods' = [seenPods EXCEPT ![p] = pods[p]]
    /\ UNCHANGED <<apiVars, seenSel, stale, queueVars, workVars, changes, faults>>

TimerFires(s) ==
    /\ s \in delayed
    /\ delayed' = delayed \ {s}
    /\ Enqueue(s)
    /\ UNCHANGED <<apiVars, cacheVars, stale, workVars, changes, faults>>

----------------------------------------------------------------------------
(* Reconcile.                                                              *)

Dequeue ==
    /\ pc = "idle" /\ queue # <<>>
    /\ key' = Head(queue) /\ queue' = Tail(queue)
    /\ pc' = "get"
    /\ UNCHANGED <<apiVars, cacheVars, stale, delayed, want, counted, copy, attempt, changes, faults>>

\* Reconcile returns.
Return ==
    /\ key' = NoKey /\ pc' = "idle" /\ want' = NoStub /\ counted' = NoStatus
    /\ copy' = "none" /\ attempt' = 0

\* It returned an error (rate limited retry) or RequeueAfter.
Requeue == delayed' = delayed \union {key} /\ Return

CopyRead == IF key \in stale THEN "outdated" ELSE "current"

\* Mutant: NotFound is returned as an error.
GetStubRetrying ==
    /\ pc = "get"
    /\ \/ /\ seenSel[key] = NoStub
          /\ Requeue
       \/ /\ seenSel[key] \in BadSelectors
          /\ pc' = "failed" /\ copy' = CopyRead
          /\ UNCHANGED <<key, want, counted, attempt, delayed>>
       \/ /\ seenSel[key] \in Selectors \ BadSelectors
          /\ pc' = "list" /\ want' = seenSel[key]
          /\ UNCHANGED <<key, counted, copy, attempt, delayed>>
    /\ UNCHANGED <<apiVars, cacheVars, stale, queue, changes, faults>>

\* r.Get from the cache: the stub is gone, has a bad selector, or is fine.
GetStub ==
    /\ pc = "get"
    /\ \/ /\ seenSel[key] = NoStub
          /\ Return /\ UNCHANGED delayed
       \/ /\ seenSel[key] \in BadSelectors
          /\ pc' = "failed" /\ copy' = CopyRead
          /\ UNCHANGED <<key, want, counted, attempt, delayed>>
       \/ /\ seenSel[key] \in Selectors \ BadSelectors
          /\ pc' = "list" /\ want' = seenSel[key]
          /\ UNCHANGED <<key, counted, copy, attempt, delayed>>
    /\ UNCHANGED <<apiVars, cacheVars, stale, queue, changes, faults>>

\* Mutant: a status that would say the same is not written again.
AcceptedIfNews(st) ==
    /\ sel[key] # NoStub /\ copy = "current"
    /\ LET new == [counts |-> st, observed |-> sel[key]] IN
          /\ status' = [status EXCEPT ![key] = new]
          /\ IF status[key] = new
             THEN UNCHANGED <<fresh, stale>>
             ELSE fresh' = fresh \union {key} /\ stale' = stale \union {key}

\* Status().Update with the copy read: a conflict unless nobody wrote since.
\* The write is a new resourceVersion, and an event for every watch, unless
\* it changes nothing: times have a resolution of one second.
Accepted(st) ==
    /\ sel[key] # NoStub /\ copy = "current"
    /\ LET new == [counts |-> st, observed |-> sel[key]] IN
          /\ status' = [status EXCEPT ![key] = new]
          /\ IF status[key] = new /\ key \in fresh
             THEN UNCHANGED <<fresh, stale>>
             ELSE fresh' = fresh \union {key} /\ stale' = stale \union {key}

\* An invalid selector: Failed is written once, errors are ignored, and the
\* error of the selector is returned.
MarkFailed ==
    /\ pc = "failed"
    /\ \/ Accepted([phase |-> "Failed", injected |-> 0, total |-> 0]) /\ UNCHANGED faults
       \/ (sel[key] = NoStub \/ copy = "outdated") /\ UNCHANGED <<status, fresh, stale, faults>>
       \/ Fault /\ UNCHANGED <<status, fresh, stale>>
    /\ Requeue
    /\ UNCHANGED <<sel, pods, cacheVars, queue, changes>>

\* Where the numbers come from.
Phase(injected, total) ==
    CASE total = 0 \/ injected = 0 -> "Pending"
      [] injected = total -> "Running"
      [] OTHER -> "Partial"

StatusFor(x, view) ==
    LET selected == {p \in Matches[x] : view[p] # "none"}
        injected == {p \in selected : view[p] = "injected"}
    IN [phase |-> Phase(Cardinality(injected), Cardinality(selected)),
        injected |-> Cardinality(injected), total |-> Cardinality(selected)]

\* r.List from the cache, isPodInjected, and the phase.
ListPods ==
    /\ pc = "list"
    /\ counted' = StatusFor(want, seenPods)
    /\ pc' = "read" /\ attempt' = 1
    /\ UNCHANGED <<apiVars, cacheVars, stale, queueVars, key, want, copy, changes, faults>>

\* updateStatusWithRetry reads the object again, from the cache.
ReadForUpdate ==
    /\ pc = "read"
    /\ \/ /\ seenSel[key] = NoStub
          /\ Requeue
       \/ /\ seenSel[key] # NoStub
          /\ pc' = "write" /\ copy' = CopyRead
          /\ UNCHANGED <<key, want, counted, attempt, delayed>>
    /\ UNCHANGED <<apiVars, cacheVars, stale, queue, changes, faults>>

\* Mutant: no RequeueAfter once the status is written.
WriteStatusOnce ==
    /\ pc = "write" /\ Accepted(counted)
    /\ Return /\ UNCHANGED delayed
    /\ UNCHANGED <<sel, pods, cacheVars, queue, changes, faults>>

WriteStatus ==
    /\ pc = "write" /\ Accepted(counted)
    /\ Requeue
    /\ UNCHANGED <<sel, pods, cacheVars, queue, changes, faults>>

\* Mutant: one attempt too many.
ConflictOnceMore ==
    /\ pc = "write" /\ sel[key] # NoStub /\ copy = "outdated"
    /\ \/ /\ attempt <= MaxAttempts
          /\ attempt' = attempt + 1 /\ pc' = "read" /\ copy' = "none"
          /\ UNCHANGED <<key, want, counted, delayed>>
       \/ attempt > MaxAttempts /\ Requeue
    /\ UNCHANGED <<apiVars, cacheVars, stale, queue, changes, faults>>

\* A conflict: the loop reads again, at once, and gives up after the last
\* attempt.
Conflict ==
    /\ pc = "write" /\ sel[key] # NoStub /\ copy = "outdated"
    /\ \/ /\ attempt < MaxAttempts
          /\ attempt' = attempt + 1 /\ pc' = "read" /\ copy' = "none"
          /\ UNCHANGED <<key, want, counted, delayed>>
       \/ attempt = MaxAttempts /\ Requeue
    /\ UNCHANGED <<apiVars, cacheVars, stale, queue, changes, faults>>

\* The object is gone at the API server: an error, no retry here.
WriteNotFound ==
    /\ pc = "write" /\ sel[key] = NoStub
    /\ Requeue
    /\ UNCHANGED <<apiVars, cacheVars, stale, queue, changes, faults>>

\* Mutant: an API error is logged and not returned.
ApiErrorDropped ==
    /\ pc \in {"get", "list", "read", "write"} /\ Fault
    /\ Return
    /\ UNCHANGED <<apiVars, cacheVars, stale, queueVars, changes>>

\* Any other error of Get, List or Update.
ApiError ==
    /\ pc \in {"get", "list", "read", "write"} /\ Fault
    /\ Requeue
    /\ UNCHANGED <<apiVars, cacheVars, stale, queue, changes>>

\* The manager restarts: its caches are filled before the workers start, and
\* every stub is enqueued by the initial list.
Restart ==
    /\ Fault
    /\ seenSel' = sel /\ seenPods' = pods /\ stale' = {} /\ delayed' = {}
    /\ \E q \in [1..Cardinality({s \in Stubs : sel[s] # NoStub}) -> {s \in Stubs : sel[s] # NoStub}] :
          /\ \A s \in Stubs : sel[s] # NoStub => \E i \in DOMAIN q : q[i] = s
          /\ queue' = q
    /\ Return
    /\ UNCHANGED <<apiVars, changes>>

\* Another manager writes a status, from pods and a selector it has seen at
\* some time.
OtherManager(s) ==
    /\ Fault
    /\ sel[s] # NoStub
    /\ \E x \in Selectors \ BadSelectors, view \in {pods, seenPods} :
          status' = [status EXCEPT ![s] = [counts |-> StatusFor(x, view), observed |-> sel[s]]]
    /\ fresh' = fresh \union {s}
    /\ Touch(s)
    /\ UNCHANGED <<sel, pods, cacheVars, queueVars, key, pc, want, counted, attempt, changes>>

\* A second passes.
Tick ==
    /\ fresh # {} /\ fresh' = {}
    /\ UNCHANGED <<sel, status, pods, cacheVars, stale, queueVars, workVars, changes, faults>>

----------------------------------------------------------------------------

User ==
    \/ \E s \in Stubs : DeleteStub(s) \/ \E x \in Selectors : WriteStub(s, x)
    \/ \E p \in Pods, k \in PodKinds : SetPod(p, k)

Worker ==
    \/ Dequeue \/ GetStub \/ MarkFailed \/ ListPods \/ ReadForUpdate \/ WriteStatus \/ Conflict
    \/ WriteNotFound \/ ApiError

Next ==
    \/ User \/ Worker \/ Restart \/ Tick
    \/ \E s \in Stubs : ObserveStub(s) \/ TimerFires(s) \/ OtherManager(s)
    \/ \E p \in Pods : ObservePod(p)

Spec == Init /\ [][Next]_vars

\* Informers deliver, timers fire, time passes, and the worker does not stop.
FairSpec ==
    /\ Spec
    /\ WF_vars(Worker) /\ WF_vars(Tick)
    /\ \A s \in Stubs : WF_vars(ObserveStub(s)) /\ WF_vars(TimerFires(s))
    /\ \A p \in Pods : WF_vars(ObservePod(p))

----------------------------------------------------------------------------
(* Properties.                                                             *)

ApiTypeOK ==
    /\ sel \in [Stubs -> Selectors \union {NoStub}]
    /\ status \in [Stubs -> Status \union {NoStatus}] /\ fresh \in SUBSET Stubs
    /\ pods \in [Pods -> PodKinds]

CacheTypeOK ==
    /\ seenSel \in [Stubs -> Selectors \union {NoStub}]
    /\ seenPods \in [Pods -> PodKinds]
    /\ stale \in SUBSET Stubs /\ delayed \in SUBSET Stubs
    /\ queue \in Seq(Stubs)

WorkTypeOK ==
    /\ pc \in {"idle", "get", "failed", "list", "read", "write"}
    /\ IF pc = "idle" THEN key = NoKey ELSE key \in Stubs
    /\ IF pc \in {"read", "write"} THEN counted \in Counts ELSE counted = NoStatus
    /\ IF pc \in {"list", "read", "write"} THEN want \in Selectors ELSE want = NoStub
    /\ copy \in {"none", "current", "outdated"}

CountersOK == attempt \in 0..MaxAttempts /\ changes \in 0..MaxChanges /\ faults \in 0..MaxFaults

\* Type invariant; what Reconcile has read belongs to where it is.
TypeOK == ApiTypeOK /\ CacheTypeOK /\ WorkTypeOK /\ CountersOK

\* The controller never loses an existing stub: whatever errors, conflicts,
\* deletions and re-creations happen, the stub is queued, waits for a timer,
\* is being reconciled, or has an event on its way.  So the five-second
\* rhythm that the sidecars' hot reload lives on cannot stop.
NeverForgotten ==
    \A s \in Stubs : sel[s] # NoStub =>
        s \in stale \/ s \in Queued \/ s \in delayed \/ key = s

\* What the status of s should say.
Truth(s) ==
    [counts |-> IF sel[s] \in BadSelectors THEN [phase |-> "Failed", injected |-> 0, total |-> 0]
                ELSE StatusFor(sel[s], pods),
     observed |-> sel[s]]

\* Once users leave stubs and pods alone, every status becomes and stays
\* right, although pod events never enqueue a stub and every read comes from
\* a cache that may be old.
StatusConverges == \A s \in Stubs : <>[](sel[s] # NoStub => status[s] = Truth(s))

\* Every existing stub is written to, and so sends an event to the watches of
\* its sidecars, again and again, also when its status has long been right:
\* Sidecar's hot reload rests on it (StatusHeartbeat there).
HeartbeatGoesOn == \A s \in Stubs : (<>[](sel[s] # NoStub)) => []<>(s \in fresh)

\* The key of a deleted stub leaves the queue and the timers for good.
DeletedDrains ==
    \A s \in Stubs :
        (<>[](sel[s] = NoStub)) => <>[](s \notin Queued /\ s \notin delayed /\ key # s)

\* A condition was set based upon the generation it names
\* (config/crd/bases/_behaviorstubs.yaml:234): the pods were counted for it.
ObservedIsCounted == [][WriteStatus => status'[key].observed = want]_vars

\* Where the cache has caught up, it has the selector of the API server.
CacheRight == \A s \in Stubs : s \notin stale => seenSel[s] = sel[s]
=============================================================================
