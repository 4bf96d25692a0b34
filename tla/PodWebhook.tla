----------------------------- MODULE PodWebhook -----------------------------
(***************************************************************************)
(* The mutating webhook for pods (internal/webhook/pod_webhook.go): it     *)
(* injects the sidecar, its volumes and the PATH prefix into pods that a   *)
(* BehaviorStub selects.                                                   *)
(*                                                                         *)
(* Around it, modelled from how it is registered (internal/certgen) and    *)
(* used: the API server, which sends it the creations and the updates of   *)
(* pods, goes on without it when the call fails (failurePolicy Ignore) and *)
(* validates what comes back, the cache the webhook reads stubs from, and  *)
(* users.  A pod has at most one request in flight.                        *)
(***************************************************************************)
EXTENDS Integers, Sequences, SequencesExt

CONSTANTS
    Stubs,          \* names of BehaviorStubs
    Specs,          \* specs of stubs (selector, script volume, image)
    BadSpecs,       \* those whose selector LabelSelectorAsSelector rejects
    Labels,         \* label sets of pods
    Selects,        \* [Specs -> SUBSET Labels]
    Pods,           \* names of pods
    Manifests,      \* pod objects users create
    SidecarName,    \* the container name dynastub-sidecar
    Bin,            \* the directory /dynastub/bin
    DefaultPath,    \* the PATH given to a container that sets none
    Dirs,           \* directories a PATH may name
    FromSource,     \* a PATH taken from valueFrom
    Both,           \* a PATH with value and valueFrom: not valid
    NoStub, NoPod, NoRequest,
    MaxChanges,     \* bound on changes of stubs
    MaxRequests,    \* bound on requests of users
    MaxFaults       \* bound on failed calls and failed lists

ASSUME SpecsAssumption ==
    BadSpecs \subseteq Specs /\ NoStub \notin Specs /\ Selects \in [Specs -> SUBSET Labels]

ASSUME BoundsAssumption == MaxChanges \in Nat /\ MaxRequests \in Nat /\ MaxFaults \in Nat

(* A pod object: its labels; how many volumes are called dynastub-shared;  *)
(* the stub specs its dynastub-scripts volumes take their hostPath from;   *)
(* its dynastub-sidecar init containers; and for every container how often *)
(* /dynastub/bin is mounted and its PATH variables, in order.              *)

Paths == Seq(Seq(Dirs) \union {FromSource, Both})
Containers == [mounts : Nat, path : Paths]
IsObject(o) ==
    /\ o \in [labels : Labels, shared : Nat, scripts : Seq(Specs),
              sidecars : Seq([stub : Stubs, spec : Specs]), containers : {o.containers}]
    /\ o.containers \in [DOMAIN o.containers -> Containers]

HasSidecar(o) == o.sidecars # <<>>

\* /dynastub/bin does not occur in the value of an entry.
BinFree(e) == e \in {FromSource, Both} \/ \A i \in 1..Len(e) : e[i] # Bin

\* The PATH in effect (of several with that name, the container gets the last)
\* has /dynastub/bin in front, and only there.
Hijacked(path) ==
    /\ path # <<>> /\ Last(path) \notin {<<>>, FromSource, Both}
    /\ Head(Last(path)) = Bin /\ BinFree(Tail(Last(path)))

\* Both volumes, the scripts of the very stub that the sidecar serves, the
\* mount in every container, and all containers look into /dynastub/bin
\* first, and once, but for those that set PATH twice: injectSidecar extends
\* the first of the two, which has no effect.
Whole(o) ==
    /\ o.shared = 1 /\ o.scripts = <<o.sidecars[1].spec>>
    /\ \A c \in DOMAIN o.containers :
          /\ o.containers[c].mounts = 1
          /\ Len(o.containers[c].path) <= 1 => Hijacked(o.containers[c].path)

\* No trace of an injection.
Untouched(o) ==
    /\ o.shared = 0 /\ o.scripts = <<>>
    /\ \A c \in DOMAIN o.containers : o.containers[c].mounts = 0

ASSUME PathsAssumption ==
    /\ Bin \in Dirs /\ DefaultPath \in Seq(Dirs) /\ BinFree(DefaultPath)
    /\ FromSource \notin Seq(Dirs) /\ Both \notin Seq(Dirs)

\* Users write pods that know nothing of the injection, or apply the manifest
\* of a pod that was injected.
ASSUME ManifestsAssumption ==
    /\ NoPod \notin Manifests
    /\ \A m \in Manifests :
          /\ IsObject(m)
          /\ IF HasSidecar(m) THEN Whole(m)
             ELSE Untouched(m) /\ \A c \in DOMAIN m.containers :
                     m.containers[c].path # <<>> => BinFree(m.containers[c].path[1])

VARIABLES
    api,        \* [Stubs -> Specs or NoStub]: the stubs at the API server
    seen,       \* the webhook's cache of them
    pods,       \* [Pods -> pod object or NoPod] at the API server
    request,    \* [Pods -> request or NoRequest]: admissions in flight
    asked,      \* history: the manifest a stored pod was created from
    granted,    \* history: <<s, l>> where stub s has selected the labels l
    changes, requests, faults       \* counters for the bounds

stubVars == <<api, seen, granted, changes>>
podVars == <<pods, asked>>
vars == <<api, seen, pods, request, asked, granted, changes, requests, faults>>

\* The labels a spec selects; none if its selector is not valid.
Targets(x) == IF x \in Specs \ BadSpecs THEN Selects[x] ELSE {}

Init ==
    /\ api \in [Stubs -> Specs \union {NoStub}] /\ seen = api
    /\ granted = UNION {{s} \X Targets(api[s]) : s \in Stubs}
    /\ pods = [p \in Pods |-> NoPod] /\ asked = [p \in Pods |-> NoPod]
    /\ request = [p \in Pods |-> NoRequest]
    /\ changes = 0 /\ requests = 0 /\ faults = 0

----------------------------------------------------------------------------
(* Stubs and the cache.                                                    *)

SetStub(s, x) ==
    /\ changes < MaxChanges /\ changes' = changes + 1
    /\ x # api[s]
    /\ api' = [api EXCEPT ![s] = x]
    /\ granted' = granted \union ({s} \X Targets(x))
    /\ UNCHANGED <<seen, podVars, request, requests, faults>>

ObserveStub(s) ==
    /\ seen[s] # api[s]
    /\ seen' = [seen EXCEPT ![s] = api[s]]
    /\ UNCHANGED <<api, granted, changes, podVars, request, requests, faults>>

----------------------------------------------------------------------------
(* Users and controllers ask for pods.                                     *)

Ask(p, op, o) ==
    /\ requests < MaxRequests /\ requests' = requests + 1
    /\ request[p] = NoRequest
    /\ request' = [request EXCEPT ![p] = [op |-> op, phase |-> "received", asked |-> o, object |-> o]]

Create(p, m) ==
    /\ pods[p] = NoPod
    /\ Ask(p, "create", m)
    /\ UNCHANGED <<stubVars, podVars, faults>>

\* Metadata of a pod changes: labels, annotations, finalizers.
Update(p, l) ==
    /\ pods[p] # NoPod
    /\ Ask(p, "update", [pods[p] EXCEPT !.labels = l])
    /\ UNCHANGED <<stubVars, podVars, faults>>

DeletePod(p) ==
    /\ pods[p] # NoPod /\ request[p] = NoRequest
    /\ pods' = [pods EXCEPT ![p] = NoPod]
    /\ asked' = [asked EXCEPT ![p] = NoPod]
    /\ UNCHANGED <<stubVars, request, requests, faults>>

----------------------------------------------------------------------------
(* The webhook.                                                            *)

\* Mutant: an invalid selector matches every pod.
MatchingInvalid(l) == {s \in Stubs : seen[s] # NoStub /\ (seen[s] \in BadSpecs \/ l \in Targets(seen[s]))}

\* Mutant: a stub that is gone counts as one whose selector matches all.
MatchingNone(l) == {s \in Stubs : seen[s] = NoStub \/ l \in Targets(seen[s])}

\* The cached stubs that select a pod with labels l.  The cache lists them
\* in no particular order and the webhook takes the first: any of them.
\* Stubs with an invalid selector are passed over.
Matching(l) == {s \in Stubs : seen[s] # NoStub /\ l \in Targets(seen[s])}

\* Mutant: /dynastub/bin comes last, as PATH="$PATH:/dynastub/bin".
PrefixedBehind(e) == IF e \in {FromSource, Both} THEN Both ELSE Append(e, Bin)

\* /dynastub/bin is put in front of the value of an entry, and a valueFrom stays.
Prefixed(e) == IF e \in {FromSource, Both} THEN Both ELSE <<Bin>> \o e

\* The first PATH entry is extended, or one is added.
HijackPath(path) ==
    IF path = <<>> THEN <<<<Bin>> \o DefaultPath>>
    ELSE [path EXCEPT ![1] = Prefixed(@)]

HijackContainer(c, container) ==
    IF c = SidecarName THEN container
    ELSE [mounts |-> container.mounts + 1, path |-> HijackPath(container.path)]

\* injectSidecar: both volumes, the sidecar, and every business container.
InjectSidecar(o, s, x) ==
    [o EXCEPT !.shared = @ + 1,
              !.scripts = Append(@, x),
              !.sidecars = Append(@, [stub |-> s, spec |-> x]),
              !.containers = [c \in DOMAIN @ |-> HijackContainer(c, @[c])]]

\* Mutant: a stub with an invalid selector ends the search.
HandleStoppingAtBad(p) ==
    /\ request[p] # NoRequest /\ request[p].phase = "received"
    /\ LET o == request[p].object
           found == IF \E s \in Stubs : seen[s] \in BadSpecs THEN {} ELSE Matching(o.labels)
       IN \/ found = {} /\ request' = [request EXCEPT ![p].phase = "reviewed"]
          \/ \E s \in found :
                request' = [request EXCEPT ![p].phase = "reviewed",
                                           ![p].object = InjectSidecar(o, s, seen[s])]
    /\ UNCHANGED <<stubVars, podVars, requests, faults>>

\* Mutant: the sidecar is told the name of another stub of the list.
HandleMixingUp(p) ==
    /\ request[p] # NoRequest /\ request[p].phase = "received"
    /\ LET o == request[p].object
       IN \/ Matching(o.labels) = {} /\ request' = [request EXCEPT ![p].phase = "reviewed"]
          \/ \E s \in Matching(o.labels), t \in {t \in Stubs : seen[t] # NoStub} :
                request' = [request EXCEPT ![p].phase = "reviewed",
                                           ![p].object = InjectSidecar(o, t, seen[s])]
    /\ UNCHANGED <<stubVars, podVars, requests, faults>>

\* Handle does not look at the operation, nor for an earlier injection.
Handle(p) ==
    /\ request[p] # NoRequest /\ request[p].phase = "received"
    /\ LET o == request[p].object
       IN \/ Matching(o.labels) = {} /\ request' = [request EXCEPT ![p].phase = "reviewed"]
          \/ \E s \in Matching(o.labels) :
                request' = [request EXCEPT ![p].phase = "reviewed",
                                           ![p].object = InjectSidecar(o, s, seen[s])]
    /\ UNCHANGED <<stubVars, podVars, requests, faults>>

Fault == faults < MaxFaults /\ faults' = faults + 1

\* The stubs cannot be listed, or two first requests race for the unguarded
\* Decoder and one sees it half written (a panic, recovered): the webhook
\* answers with an error, which denies the request whatever the policy.
HandleErrs(p) ==
    /\ request[p] # NoRequest /\ request[p].phase = "received" /\ Fault
    /\ request' = [request EXCEPT ![p] = NoRequest]
    /\ UNCHANGED <<stubVars, podVars, requests>>

----------------------------------------------------------------------------
(* The API server.                                                         *)

\* The webhook cannot be reached (it is down, or its certificate is not
\* trusted): under failurePolicy Ignore the request goes on as it is.
CallFails(p) ==
    /\ request[p] # NoRequest /\ request[p].phase = "received" /\ Fault
    /\ request' = [request EXCEPT ![p].phase = "reviewed"]
    /\ UNCHANGED <<stubVars, podVars, requests>>

\* Names of volumes and containers and mount paths are unique, mounted
\* volumes exist, and an environment variable has one source.
WellFormed(o) ==
    /\ o.shared <= 1 /\ Len(o.scripts) <= 1 /\ Len(o.sidecars) <= 1
    /\ o.sidecars # <<>> => SidecarName \notin DOMAIN o.containers
    /\ \A c \in DOMAIN o.containers :
          /\ o.containers[c].mounts <= o.shared
          /\ ~Contains(o.containers[c].path, Both)

\* The spec of a stored pod cannot be changed.
Valid(p) ==
    LET o == request[p].object IN
    /\ WellFormed(o)
    /\ request[p].op = "update" => o = [pods[p] EXCEPT !.labels = o.labels]

Admit(p) ==
    /\ request[p] # NoRequest /\ request[p].phase = "reviewed" /\ Valid(p)
    /\ pods' = [pods EXCEPT ![p] = request[p].object]
    /\ asked' = [asked EXCEPT ![p] = IF request[p].op = "create" THEN request[p].asked ELSE @]
    /\ request' = [request EXCEPT ![p] = NoRequest]
    /\ UNCHANGED <<stubVars, requests, faults>>

Reject(p) ==
    /\ request[p] # NoRequest /\ request[p].phase = "reviewed" /\ ~Valid(p)
    /\ request' = [request EXCEPT ![p] = NoRequest]
    /\ UNCHANGED <<stubVars, podVars, requests, faults>>

----------------------------------------------------------------------------

Next ==
    \/ \E s \in Stubs : ObserveStub(s) \/ \E x \in Specs \union {NoStub} : SetStub(s, x)
    \/ \E p \in Pods :
          \/ \E m \in Manifests : Create(p, m)
          \/ \E l \in Labels : Update(p, l)
          \/ DeletePod(p) \/ Handle(p) \/ HandleErrs(p) \/ CallFails(p) \/ Admit(p) \/ Reject(p)

Spec == Init /\ [][Next]_vars

----------------------------------------------------------------------------
(* Properties.                                                             *)

IsRequest(r) ==
    /\ r \in [op : {"create", "update"}, phase : {"received", "reviewed"},
              asked : {r.asked}, object : {r.object}]
    /\ IsObject(r.asked) /\ IsObject(r.object)

\* f is a function of the pods.
OfPods(f) == f = [p \in Pods |-> f[p]]

\* Type invariant; what is stored is well-formed, what is in flight may not be.
TypeOK ==
    /\ api \in [Stubs -> Specs \union {NoStub}] /\ seen \in [Stubs -> Specs \union {NoStub}]
    /\ OfPods(pods) /\ OfPods(request) /\ asked \in [Pods -> Manifests \union {NoPod}]
    /\ \A p \in Pods :
          /\ pods[p] # NoPod => IsObject(pods[p]) /\ WellFormed(pods[p]) /\ asked[p] # NoPod
          /\ request[p] # NoRequest =>
                /\ IsRequest(request[p])
                /\ IF pods[p] = NoPod THEN request[p].op = "create" /\ request[p].asked \in Manifests
                   ELSE request[p].op = "update"
    /\ granted \subseteq Stubs \X Labels
    /\ changes \in 0..MaxChanges /\ requests \in 0..MaxRequests /\ faults \in 0..MaxFaults

\* Injection is all or nothing: a stored pod with a sidecar has all of it (the
\* volumes, the mounts, and /dynastub/bin in front of the PATH that every
\* container with one PATH or none will see), a pod without has no trace of
\* it.  This holds across updates, re-created manifests of injected pods, and
\* stubs that change while a request is in flight.
InjectedWhole ==
    \A p \in Pods : pods[p] # NoPod =>
        IF HasSidecar(pods[p]) THEN Whole(pods[p]) ELSE Untouched(pods[p])

\* The stubs that have ever selected the labels l.
GrantedTo(l) == {s \in Stubs : <<s, l>> \in granted}

\* A pod whose labels no stub has ever selected is stored as its user wrote
\* it, however late the webhook's cache is.
OthersUntouched ==
    \A p \in Pods : pods[p] # NoPod /\ GrantedTo(asked[p].labels) = {} =>
        pods[p] = [asked[p] EXCEPT !.labels = pods[p].labels]

Selected(l) == \E s \in Stubs : l \in Targets(api[s])

\* With stubs that were there before and a webhook that answers, no pod that
\* a stub selects runs without a sidecar: it was injected when it was
\* created, and an update cannot give a plain pod such labels.
InjectedIfReachable ==
    changes = 0 /\ faults = 0 =>
        \A p \in Pods : pods[p] # NoPod /\ Selected(pods[p].labels) => HasSidecar(pods[p])

\* The webhook is about the creation of pods (pod_webhook.go:30): an update
\* that is valid as the user sent it is carried out.
UpdatesPass ==
    [][\A p \in Pods :
          request[p] # NoRequest /\ request'[p] = NoRequest /\ request[p].op = "update"
          => pods'[p] = request[p].asked]_vars

\* isPodInjected of the controller: any container of that name counts.
IsPodInjected(o) == HasSidecar(o) \/ SidecarName \in DOMAIN o.containers

\* What the controller counts as injected for a stub is served by that stub,
\* if no other stub has ever selected the labels the pod was created with and
\* its manifest brought no container of the sidecar's name: across changes of
\* the stub, late caches, relabelled pods and updates past the webhook.
CountedIsServed ==
    \A p \in Pods, s \in Stubs :
        /\ pods[p] # NoPod /\ pods[p].labels \in Targets(api[s]) /\ IsPodInjected(pods[p])
        /\ GrantedTo(asked[p].labels) = {s} /\ ~IsPodInjected(asked[p])
        => pods[p].sidecars[1].stub = s
=============================================================================
