-------------------------- MODULE PodWebhookProofs --------------------------
(***************************************************************************)
(* Proofs about PodWebhook, for all stubs, selectors, pods and manifests   *)
(* and every bound.                                                        *)
(***************************************************************************)
EXTENDS PodWebhook, SequenceTheorems, TLAPS

----------------------------------------------------------------------------
(* The inductive invariant.                                                *)

\* Object o is what became of manifest m, but for later changes of its labels:
\* the manifest itself, or the manifest with the sidecar of one stub that has
\* selected it (according to the grants g) injected once.
CameFrom(o, m, g) ==
    \/ o = [m EXCEPT !.labels = o.labels]
    \/ \E s \in Stubs, x \in Specs :
          <<s, m.labels>> \in g /\ o = [InjectSidecar(m, s, x) EXCEPT !.labels = o.labels]

\* What the API server and the webhook's cache select has been granted.
SelectedIsGranted ==
    \A s \in Stubs : {s} \X (Targets(api[s]) \union Targets(seen[s])) \subseteq granted

\* Every stored pod came from its manifest, and every creation in flight comes
\* from what its user asked for, which the webhook has not touched before.
Origins ==
    \A p \in Pods :
        /\ pods[p] # NoPod => CameFrom(pods[p], asked[p], granted)
        /\ request[p] # NoRequest /\ request[p].op = "create" =>
              /\ request[p].object.labels = request[p].asked.labels
              /\ CameFrom(request[p].object, request[p].asked, granted)
        /\ request[p] # NoRequest /\ request[p].phase = "received" =>
              request[p].object = request[p].asked

OriginInv == SelectedIsGranted /\ Origins

\* Without changes of stubs the cache is up to date, and without faults what
\* the webhook has reviewed has its sidecar.
ReachInv ==
    changes = 0 =>
        /\ seen = api
        /\ faults = 0 => \A p \in Pods :
              /\ pods[p] # NoPod /\ Selected(pods[p].labels) => HasSidecar(pods[p])
              /\ request[p] # NoRequest /\ request[p].phase = "reviewed"
                    /\ Selected(request[p].object.labels) => HasSidecar(request[p].object)

----------------------------------------------------------------------------
(* The operators of the webhook.                                           *)

\* The fields of a pod object.
LEMMA ObjectFields ==
    ASSUME NEW o, IsObject(o)
    PROVE  /\ o = [labels |-> o.labels, shared |-> o.shared, scripts |-> o.scripts,
                   sidecars |-> o.sidecars, containers |-> o.containers]
           /\ o.labels \in Labels /\ o.shared \in Nat /\ o.scripts \in Seq(Specs)
           /\ o.sidecars \in Seq([stub : Stubs, spec : Specs])
           /\ o.containers \in [DOMAIN o.containers -> Containers]
  BY DEF IsObject

\* A record with well-typed fields is a pod object.
LEMMA ObjectFromFields ==
    ASSUME NEW l \in Labels, NEW n \in Nat, NEW x \in Seq(Specs), NEW y \in Seq([stub : Stubs, spec : Specs]),
           NEW C, NEW c \in [C -> Containers]
    PROVE  IsObject([labels |-> l, shared |-> n, scripts |-> x, sidecars |-> y, containers |-> c])
  BY DEF IsObject

\* What a change of labels leaves of an object.
LEMMA Relabelled ==
    ASSUME NEW o, IsObject(o), NEW l \in Labels
    PROVE  LET n == [o EXCEPT !.labels = l] IN
           /\ IsObject(n)
           /\ n = [labels |-> l, shared |-> o.shared, scripts |-> o.scripts,
                   sidecars |-> o.sidecars, containers |-> o.containers]
<1> DEFINE n == [o EXCEPT !.labels = l]
<1>1. n = [labels |-> l, shared |-> o.shared, scripts |-> o.scripts,
           sidecars |-> o.sidecars, containers |-> o.containers]
  BY ObjectFields
<1>2. IsObject([labels |-> l, shared |-> o.shared, scripts |-> o.scripts,
                sidecars |-> o.sidecars, containers |-> o.containers])
  BY ObjectFields, ObjectFromFields
<1> HIDE DEF n
<1>3. IsObject(n)
  BY <1>1, <1>2
<1> QED BY <1>1, <1>3 DEF n

\* The first PATH keeps its type, and is a list with /dynastub/bin in front
\* unless a valueFrom is in the way.
LEMMA HijackedPath ==
    ASSUME NEW path \in Paths
    PROVE  /\ HijackPath(path) \in Paths /\ HijackPath(path) # <<>>
           /\ \/ HijackPath(path)[1] = Both
              \/ /\ path = <<>> /\ HijackPath(path)[1] = <<Bin>> \o DefaultPath
              \/ /\ path # <<>> /\ path[1] \in Seq(Dirs)
                 /\ HijackPath(path)[1] = <<Bin>> \o path[1]
<1> DEFINE Entry == Seq(Dirs) \union {FromSource, Both}
<1>1. CASE path = <<>>
  <2> DEFINE e == <<Bin>> \o DefaultPath
  <2>1. e \in Entry
    BY PathsAssumption
  <2>2. HijackPath(path) = <<e>>
    BY <1>1 DEF HijackPath
  <2> HIDE DEF e
  <2>3. <<e>> \in Seq(Entry) /\ <<e>> # <<>> /\ <<e>>[1] = e
    BY <2>1
  <2> QED BY <1>1, <2>2, <2>3 DEF Paths, e
<1>2. CASE path # <<>>
  <2> DEFINE e == Prefixed(path[1])
  <2>1. path \in Seq(Entry) /\ Len(path) \in Nat /\ Len(path) >= 1 /\ path[1] \in Entry
    BY <1>2 DEF Paths
  <2>2. e \in Entry /\ (e = Both \/ (path[1] \in Seq(Dirs) /\ e = <<Bin>> \o path[1]))
    <3>1. CASE path[1] \in {FromSource, Both}
      BY <3>1 DEF Prefixed
    <3>2. CASE path[1] \notin {FromSource, Both}
      <4>1. path[1] \in Seq(Dirs) /\ e = <<Bin>> \o path[1]
        BY <2>1, <3>2 DEF Prefixed
      <4> QED BY <4>1, PathsAssumption
    <3> QED BY <3>1, <3>2
  <2>3. HijackPath(path) = [path EXCEPT ![1] = e]
    BY <1>2 DEF HijackPath
  <2> HIDE DEF e, Entry
  <2>4. [path EXCEPT ![1] = e] \in Seq(Entry) /\ [path EXCEPT ![1] = e][1] = e
        /\ [path EXCEPT ![1] = e] # <<>>
    BY <2>1, <2>2
  <2> QED BY <1>2, <2>2, <2>3, <2>4 DEF Paths, Entry
<1> QED BY <1>1, <1>2

\* A container keeps its type.
LEMMA HijackedContainerTyped ==
    ASSUME NEW c, NEW container \in Containers
    PROVE  HijackContainer(c, container) \in Containers
  BY HijackedPath DEF HijackContainer, Containers

\* The fields of an object after injectSidecar.
LEMMA Injected ==
    ASSUME NEW o, IsObject(o), NEW s \in Stubs, NEW x \in Specs
    PROVE  LET n == InjectSidecar(o, s, x) IN
           /\ IsObject(n)
           /\ n = [labels |-> o.labels, shared |-> o.shared + 1, scripts |-> Append(o.scripts, x),
                   sidecars |-> Append(o.sidecars, [stub |-> s, spec |-> x]),
                   containers |-> [c \in DOMAIN o.containers |-> HijackContainer(c, o.containers[c])]]
<1> DEFINE cs == [c \in DOMAIN o.containers |-> HijackContainer(c, o.containers[c])]
           n == InjectSidecar(o, s, x)
           y == Append(o.sidecars, [stub |-> s, spec |-> x])
<1>1. cs \in [DOMAIN o.containers -> Containers]
  BY ObjectFields, HijackedContainerTyped
<1>2. n = [labels |-> o.labels, shared |-> o.shared + 1, scripts |-> Append(o.scripts, x),
           sidecars |-> y, containers |-> cs]
  <2> HIDE DEF cs, y
  <2>1. n = [o EXCEPT !.shared = o.shared + 1, !.scripts = Append(o.scripts, x), !.sidecars = y, !.containers = cs]
    BY DEF InjectSidecar, cs, y
  <2> QED BY <2>1, ObjectFields
<1>3. o.shared + 1 \in Nat /\ Append(o.scripts, x) \in Seq(Specs)
  BY ObjectFields
<1>4. y \in Seq([stub : Stubs, spec : Specs])
  <2> DEFINE r == [stub |-> s, spec |-> x]
             R == [stub : Stubs, spec : Specs]
  <2>1. r \in R /\ o.sidecars \in Seq(R)
    BY ObjectFields
  <2> HIDE DEF r, R
  <2>2. Append(o.sidecars, r) \in Seq(R)
    BY <2>1
  <2> QED BY <2>2 DEF r, R
<1> HIDE DEF cs, n, y
<1>5. IsObject(n)
  BY <1>1, <1>2, <1>3, <1>4, ObjectFields, ObjectFromFields
<1> QED BY <1>2, <1>5 DEF cs, n, y

\* The same, field by field.
LEMMA InjectedFields ==
    ASSUME NEW o, IsObject(o), NEW s \in Stubs, NEW x \in Specs
    PROVE  LET n == InjectSidecar(o, s, x) IN
           /\ n.labels = o.labels /\ n.shared = o.shared + 1 /\ n.scripts = Append(o.scripts, x)
           /\ n.sidecars = Append(o.sidecars, [stub |-> s, spec |-> x])
           /\ n.containers = [c \in DOMAIN o.containers |-> HijackContainer(c, o.containers[c])]
<1> DEFINE n == InjectSidecar(o, s, x)
           cs == [c \in DOMAIN o.containers |-> HijackContainer(c, o.containers[c])]
           y == Append(o.sidecars, [stub |-> s, spec |-> x])
           z == Append(o.scripts, x)
<1>1. n = [labels |-> o.labels, shared |-> o.shared + 1, scripts |-> z, sidecars |-> y, containers |-> cs]
  BY Injected
<1> HIDE DEF n, cs, y, z
<1>2. n.labels = o.labels /\ n.shared = o.shared + 1 /\ n.scripts = z /\ n.sidecars = y /\ n.containers = cs
  BY <1>1
<1> QED BY <1>2 DEF n, cs, y, z

\* The labels stay.
LEMMA InjectedLabels ==
    ASSUME NEW o, IsObject(o), NEW s \in Stubs, NEW x \in Specs
    PROVE  InjectSidecar(o, s, x).labels = o.labels
  BY InjectedFields

\* The fields of a request.
LEMMA RequestFields ==
    ASSUME NEW r, IsRequest(r)
    PROVE  /\ r = [op |-> r.op, phase |-> r.phase, asked |-> r.asked, object |-> r.object]
           /\ r.op \in {"create", "update"} /\ r.phase \in {"received", "reviewed"}
           /\ IsObject(r.asked) /\ IsObject(r.object)
  BY DEF IsRequest

\* A record with such fields is a request.
LEMMA RequestFromFields ==
    ASSUME NEW op \in {"create", "update"}, NEW phase \in {"received", "reviewed"},
           NEW a, IsObject(a), NEW o, IsObject(o)
    PROVE  IsRequest([op |-> op, phase |-> phase, asked |-> a, object |-> o])
  BY DEF IsRequest

\* A valid selector selects label sets; NoStub selects none.
LEMMA TargetsTyped ==
    ASSUME NEW x
    PROVE  Targets(x) \subseteq Labels /\ (Targets(x) # {} => x \in Specs)
  BY SpecsAssumption DEF Targets

\* Request r, after the webhook has answered with object o.
Reviewed(r, o) == [op |-> r.op, phase |-> "reviewed", asked |-> r.asked, object |-> o]

\* The answer changes the phase, and perhaps the object, of a request.
LEMMA AnswerTyped ==
    ASSUME NEW p, IsRequest(request[p]), NEW o
    PROVE  /\ [request EXCEPT ![p].phase = "reviewed"] =
                 [request EXCEPT ![p] = Reviewed(request[p], request[p].object)]
           /\ [request EXCEPT ![p].phase = "reviewed", ![p].object = o] =
                 [request EXCEPT ![p] = Reviewed(request[p], o)]
<1> DEFINE r == request[p]
<1>1. r = [op |-> r.op, phase |-> r.phase, asked |-> r.asked, object |-> r.object]
  BY RequestFields
<1>2. [r EXCEPT !.phase = "reviewed"] = Reviewed(r, r.object)
  BY <1>1 DEF Reviewed
<1>3. [r EXCEPT !.phase = "reviewed", !.object = o] = Reviewed(r, o)
  <2>1. [r EXCEPT !.phase = "reviewed", !.object = o] = [[r EXCEPT !.phase = "reviewed"] EXCEPT !.object = o]
    OBVIOUS
  <2>2. [Reviewed(r, r.object) EXCEPT !.object = o] = Reviewed(r, o)
    BY DEF Reviewed
  <2> QED BY <1>2, <2>1, <2>2
<1> HIDE DEF Reviewed
<1>4. [request EXCEPT ![p].phase = "reviewed"] = [request EXCEPT ![p] = Reviewed(r, r.object)]
  BY <1>2
<1>5. [request EXCEPT ![p].phase = "reviewed", ![p].object = o] = [request EXCEPT ![p] = Reviewed(r, o)]
  BY <1>3
<1> QED BY <1>4, <1>5

\* A request goes on to validation with an object that is the one received, or
\* that one with the sidecar of a selecting stub.
LEMMA HandledRequest ==
    ASSUME TypeOK, NEW p \in Pods, Handle(p)
    PROVE  LET r == request[p] IN
           \E o : /\ IsObject(o) /\ IsRequest(Reviewed(r, o))
                 /\ request' = [request EXCEPT ![p] = Reviewed(r, o)]
                 /\ \/ Matching(r.object.labels) = {} /\ o = r.object
                    \/ \E s \in Matching(r.object.labels) :
                          seen[s] \in Specs /\ o = InjectSidecar(r.object, s, seen[s])
<1> DEFINE r == request[p]
<1>1. IsRequest(r) /\ r # NoRequest
  BY DEF TypeOK, Handle
<1>2. /\ r = [op |-> r.op, phase |-> r.phase, asked |-> r.asked, object |-> r.object]
      /\ r.op \in {"create", "update"} /\ IsObject(r.asked) /\ IsObject(r.object)
  BY <1>1, RequestFields
<1>3. \A o : IsObject(o) => IsRequest(Reviewed(r, o))
  BY <1>2, RequestFromFields DEF Reviewed
<1>5. CASE Matching(r.object.labels) = {} /\ request' = [request EXCEPT ![p].phase = "reviewed"]
  <2>1. request' = [request EXCEPT ![p] = Reviewed(r, r.object)]
    BY <1>1, <1>5, AnswerTyped
  <2> QED BY <1>2, <1>3, <1>5, <2>1
<1>6. ASSUME NEW s \in Matching(r.object.labels),
             request' = [request EXCEPT ![p].phase = "reviewed",
                                        ![p].object = InjectSidecar(r.object, s, seen[s])]
      PROVE  \E o : /\ IsObject(o) /\ request' = [request EXCEPT ![p] = Reviewed(r, o)]
                   /\ seen[s] \in Specs /\ o = InjectSidecar(r.object, s, seen[s])
  <2>1. s \in Stubs /\ seen[s] \in Specs
    BY TargetsTyped DEF Matching
  <2> DEFINE o == InjectSidecar(r.object, s, seen[s])
  <2>2. IsObject(o)
    BY <1>2, <2>1, Injected
  <2> HIDE DEF o
  <2>3. request' = [request EXCEPT ![p] = Reviewed(r, o)]
    BY <1>1, <1>6, AnswerTyped DEF o
  <2> QED BY <2>1, <2>2, <2>3 DEF o
<1>7. \/ Matching(r.object.labels) = {} /\ request' = [request EXCEPT ![p].phase = "reviewed"]
      \/ \E s \in Matching(r.object.labels) :
            request' = [request EXCEPT ![p].phase = "reviewed",
                                       ![p].object = InjectSidecar(r.object, s, seen[s])]
  BY DEF Handle
<1> QED BY <1>3, <1>5, <1>6, <1>7

\* So does a request that the webhook never saw.
LEMMA SkippedRequest ==
    ASSUME TypeOK, NEW p \in Pods, CallFails(p)
    PROVE  LET r == request[p] IN
           /\ IsRequest(Reviewed(r, r.object))
           /\ request' = [request EXCEPT ![p] = Reviewed(r, r.object)]
<1> DEFINE r == request[p]
<1>1. IsRequest(r) /\ r # NoRequest
  BY DEF TypeOK, CallFails
<1>2. /\ r = [op |-> r.op, phase |-> r.phase, asked |-> r.asked, object |-> r.object]
      /\ r.op \in {"create", "update"} /\ IsObject(r.asked) /\ IsObject(r.object)
  BY <1>1, RequestFields
<1>3. request' = [request EXCEPT ![p] = Reviewed(r, r.object)]
  BY <1>1, AnswerTyped DEF CallFails
<1> QED BY <1>2, <1>3, RequestFromFields DEF Reviewed

----------------------------------------------------------------------------
(* Type correctness.                                                       *)

\* The initial states are well typed.
LEMMA InitTypeOK == Init => TypeOK
<1> SUFFICES ASSUME Init PROVE TypeOK
  OBVIOUS
<1>1. granted \subseteq Stubs \X Labels
  BY TargetsTyped DEF Init
<1> QED BY <1>1, BoundsAssumption DEF Init, TypeOK, OfPods

\* A user's request is one.
LEMMA AskTyped ==
    ASSUME TypeOK, NEW p \in Pods, NEW op \in {"create", "update"}, NEW o, IsObject(o), Ask(p, op, o)
    PROVE  LET r == [op |-> op, phase |-> "received", asked |-> o, object |-> o] IN
           /\ IsRequest(r) /\ request' = [request EXCEPT ![p] = r]
           /\ requests' \in 0..MaxRequests
  BY RequestFromFields, BoundsAssumption DEF Ask, TypeOK

\* No step leaves the type invariant.
LEMMA NextTypeOK == TypeOK /\ [Next]_vars => TypeOK'
<1> SUFFICES ASSUME TypeOK, [Next]_vars PROVE TypeOK'
  OBVIOUS
<1> USE BoundsAssumption DEF stubVars, podVars
<1>1. ASSUME NEW s \in Stubs, NEW x \in Specs \union {NoStub}, SetStub(s, x) PROVE TypeOK'
  <2>1. granted' \subseteq Stubs \X Labels
    BY <1>1, TargetsTyped DEF SetStub, TypeOK
  <2> QED BY <1>1, <2>1 DEF SetStub, TypeOK
<1>2. ASSUME NEW s \in Stubs, ObserveStub(s) PROVE TypeOK'
  BY <1>2 DEF ObserveStub, TypeOK
<1>3. ASSUME NEW p \in Pods, NEW m \in Manifests, Create(p, m) PROVE TypeOK'
  <2> DEFINE r == [op |-> "create", phase |-> "received", asked |-> m, object |-> m]
  <2>1. IsObject(m) /\ Ask(p, "create", m)
    BY <1>3, ManifestsAssumption DEF Create
  <2>2. IsRequest(r) /\ request' = [request EXCEPT ![p] = r] /\ requests' \in 0..MaxRequests
        /\ r.op = "create" /\ r.asked = m
    BY <2>1, AskTyped
  <2> HIDE DEF r
  <2> QED BY <1>3, <2>2 DEF Create, TypeOK, OfPods
<1>4. ASSUME NEW p \in Pods, NEW l \in Labels, Update(p, l) PROVE TypeOK'
  <2> DEFINE o == [pods[p] EXCEPT !.labels = l]
             r == [op |-> "update", phase |-> "received", asked |-> o, object |-> o]
  <2>1. IsObject(pods[p]) /\ Ask(p, "update", o)
    BY <1>4 DEF Update, TypeOK
  <2>2. IsObject(o)
    BY <2>1, Relabelled
  <2> HIDE DEF o
  <2>3. IsRequest(r) /\ request' = [request EXCEPT ![p] = r] /\ requests' \in 0..MaxRequests /\ r.op = "update"
    BY <2>1, <2>2, AskTyped
  <2> HIDE DEF r
  <2> QED BY <1>4, <2>3 DEF Update, TypeOK, OfPods
<1>5. ASSUME NEW p \in Pods, DeletePod(p) PROVE TypeOK'
  BY <1>5 DEF DeletePod, TypeOK, OfPods
<1>6. ASSUME NEW p \in Pods, Handle(p) PROVE TypeOK'
  <2>1. PICK o : IsRequest(Reviewed(request[p], o)) /\ request' = [request EXCEPT ![p] = Reviewed(request[p], o)]
    BY <1>6, HandledRequest
  <2>2. Reviewed(request[p], o).op = request[p].op /\ Reviewed(request[p], o).asked = request[p].asked
    BY DEF Reviewed
  <2> QED BY <1>6, <2>1, <2>2 DEF Handle, TypeOK, OfPods
<1>7. ASSUME NEW p \in Pods, CallFails(p) PROVE TypeOK'
  <2> DEFINE r == Reviewed(request[p], request[p].object)
  <2>1. IsRequest(r) /\ request' = [request EXCEPT ![p] = r] /\ r.op = request[p].op
        /\ r.asked = request[p].asked
    BY <1>7, SkippedRequest DEF Reviewed
  <2> HIDE DEF r
  <2> QED BY <1>7, <2>1 DEF CallFails, Fault, TypeOK, OfPods
<1>8. ASSUME NEW p \in Pods, HandleErrs(p) \/ Reject(p) PROVE TypeOK'
  BY <1>8 DEF HandleErrs, Reject, Fault, TypeOK, OfPods
<1>9. ASSUME NEW p \in Pods, Admit(p) PROVE TypeOK'
  <2>1. IsObject(request[p].object) /\ WellFormed(request[p].object)
    BY <1>9, RequestFields DEF Admit, Valid, TypeOK
  <2>2. asked' \in [Pods -> Manifests \union {NoPod}] /\ asked'[p] # NoPod
    BY <1>9, ManifestsAssumption DEF Admit, TypeOK
  <2> QED BY <1>9, <2>1, <2>2 DEF Admit, TypeOK, OfPods
<1>10. CASE UNCHANGED vars
  BY <1>10 DEF vars, TypeOK, OfPods
<1> QED
  BY <1>1, <1>2, <1>3, <1>4, <1>5, <1>6, <1>7, <1>8, <1>9, <1>10 DEF Next

\* Every reachable state is well typed: what the API server stores is a valid
\* pod, what is in flight belongs to the request its user made.
THEOREM TypeCorrect == Spec => []TypeOK
  BY InitTypeOK, NextTypeOK, PTL DEF Spec

----------------------------------------------------------------------------
(* Where a pod comes from.                                                 *)

\* Labels may be overwritten, with what they are and again.
LEMMA LabelsOverwritten ==
    ASSUME NEW o, IsObject(o), NEW l \in Labels, NEW k \in Labels
    PROVE  /\ o = [o EXCEPT !.labels = o.labels]
           /\ [[o EXCEPT !.labels = l] EXCEPT !.labels = k] = [o EXCEPT !.labels = k]
           /\ [o EXCEPT !.labels = l].labels = l
<1> DEFINE r(x) == [labels |-> x, shared |-> o.shared, scripts |-> o.scripts,
                    sidecars |-> o.sidecars, containers |-> o.containers]
           n == [o EXCEPT !.labels = l]
<1>1. o = r(o.labels) /\ o.labels \in Labels
  BY ObjectFields
<1>2. [o EXCEPT !.labels = o.labels] = r(o.labels) /\ n = r(l) /\ [o EXCEPT !.labels = k] = r(k) /\ IsObject(n)
  BY <1>1, Relabelled
<1>3. [n EXCEPT !.labels = k] = [labels |-> k, shared |-> n.shared, scripts |-> n.scripts,
                                 sidecars |-> n.sidecars, containers |-> n.containers]
  <2> HIDE DEF n
  <2> QED BY <1>2, Relabelled
<1>4. n.shared = o.shared /\ n.scripts = o.scripts /\ n.sidecars = o.sidecars /\ n.containers = o.containers
      /\ n.labels = l
  <2> HIDE DEF n
  <2> QED BY <1>2
<1>5. [n EXCEPT !.labels = k] = r(k)
  <2> HIDE DEF n
  <2> QED BY <1>3, <1>4
<1> HIDE DEF r, n
<1> QED BY <1>1, <1>2, <1>4, <1>5 DEF n

\* More grants take nothing away.
LEMMA OriginKept ==
    ASSUME NEW o, NEW m, NEW g, NEW h, g \subseteq h, CameFrom(o, m, g)
    PROVE  CameFrom(o, m, h)
  BY DEF CameFrom

\* Nor does a change of labels.
LEMMA OriginRelabelled ==
    ASSUME NEW o, NEW m, IsObject(m), NEW g, CameFrom(o, m, g), IsObject(o),
           NEW n, n = [o EXCEPT !.labels = n.labels], n.labels \in Labels
    PROVE  CameFrom(n, m, g)
<1>1. o.labels \in Labels
  BY ObjectFields
<1>2. CASE o = [m EXCEPT !.labels = o.labels]
  <2>1. n = [[m EXCEPT !.labels = o.labels] EXCEPT !.labels = n.labels]
    BY <1>2
  <2>2. n = [m EXCEPT !.labels = n.labels]
    BY <1>1, <2>1, LabelsOverwritten
  <2> QED BY <2>2 DEF CameFrom
<1>3. ASSUME NEW s \in Stubs, NEW x \in Specs, <<s, m.labels>> \in g,
             o = [InjectSidecar(m, s, x) EXCEPT !.labels = o.labels]
      PROVE  CameFrom(n, m, g)
  <2> DEFINE i == InjectSidecar(m, s, x)
  <2>1. IsObject(i)
    BY Injected
  <2> HIDE DEF i
  <2>2. n = [[i EXCEPT !.labels = o.labels] EXCEPT !.labels = n.labels]
    BY <1>3 DEF i
  <2>3. n = [i EXCEPT !.labels = n.labels]
    BY <1>1, <2>1, <2>2, LabelsOverwritten
  <2> QED BY <1>3, <2>3 DEF CameFrom, i
<1> QED BY <1>2, <1>3 DEF CameFrom

\* Nothing is stored or in flight at first.
LEMMA InitOriginInv == Init => OriginInv
<1> SUFFICES ASSUME Init PROVE OriginInv
  OBVIOUS
<1>1. SelectedIsGranted
  BY DEF Init, SelectedIsGranted
<1> QED BY <1>1 DEF Init, OriginInv, Origins

\* The object of a creation comes from what its user asked for.
LEMMA HandledOrigin ==
    ASSUME TypeOK, OriginInv, NEW p \in Pods, Handle(p), request[p].op = "create"
    PROVE  \E o : /\ request' = [request EXCEPT ![p] = Reviewed(request[p], o)]
                 /\ o.labels = request[p].asked.labels
                 /\ CameFrom(o, request[p].asked, granted)
<1> DEFINE a == request[p].asked
<1>1. request[p].object = a /\ IsObject(a) /\ a.labels \in Labels
  <2>1. request[p] # NoRequest /\ request[p].phase = "received"
    BY DEF Handle
  <2> QED BY <2>1, RequestFields, ObjectFields DEF OriginInv, Origins, TypeOK
<1> HIDE DEF a
<1>2. PICK o :
         /\ IsObject(o) /\ request' = [request EXCEPT ![p] = Reviewed(request[p], o)]
         /\ \/ o = a
            \/ \E s \in Matching(a.labels) : seen[s] \in Specs /\ o = InjectSidecar(a, s, seen[s])
  BY <1>1, HandledRequest
<1>3. CASE o = a
  BY <1>1, <1>2, <1>3, LabelsOverwritten DEF CameFrom, a
<1>4. ASSUME NEW s \in Matching(a.labels), seen[s] \in Specs, o = InjectSidecar(a, s, seen[s])
      PROVE  o.labels = a.labels /\ CameFrom(o, a, granted)
  <2>1. s \in Stubs /\ <<s, a.labels>> \in granted
    BY DEF Matching, OriginInv, SelectedIsGranted
  <2>2. o.labels = a.labels
    BY <1>1, <1>4, <2>1, InjectedLabels
  <2>3. o = [InjectSidecar(a, s, seen[s]) EXCEPT !.labels = o.labels]
    BY <1>1, <1>2, <1>4, <2>2, LabelsOverwritten
  <2> QED BY <1>4, <2>1, <2>2, <2>3 DEF CameFrom
<1> QED BY <1>2, <1>3, <1>4 DEF a

\* The invariant is inductive.
LEMMA NextOriginInv == TypeOK /\ OriginInv /\ [Next]_vars => OriginInv'
<1> SUFFICES ASSUME TypeOK, OriginInv, [Next]_vars PROVE OriginInv'
  OBVIOUS
<1> USE DEF OriginInv, stubVars, podVars
<1>1. ASSUME NEW s \in Stubs, NEW x \in Specs \union {NoStub}, SetStub(s, x) PROVE OriginInv'
  <2>1. SelectedIsGranted'
    BY <1>1, TargetsTyped DEF SetStub, SelectedIsGranted, TypeOK, Targets
  <2>2. granted \subseteq granted'
    BY <1>1 DEF SetStub
  <2>3. Origins'
    BY <1>1, <2>2, OriginKept DEF SetStub, Origins
  <2> QED BY <2>1, <2>3
<1>2. ASSUME NEW s \in Stubs, ObserveStub(s) PROVE OriginInv'
  <2>1. SelectedIsGranted'
    BY <1>2 DEF ObserveStub, SelectedIsGranted, TypeOK, Targets
  <2> QED BY <1>2, <2>1 DEF ObserveStub, Origins
<1>3. ASSUME UNCHANGED stubVars PROVE SelectedIsGranted'
  BY <1>3 DEF SelectedIsGranted, Targets
<1>4. ASSUME NEW p \in Pods, NEW m \in Manifests, Create(p, m) PROVE OriginInv'
  <2> DEFINE r == [op |-> "create", phase |-> "received", asked |-> m, object |-> m]
  <2>1. IsObject(m) /\ m = [m EXCEPT !.labels = m.labels]
    BY ManifestsAssumption, ObjectFields, LabelsOverwritten
  <2>2. request' = [request EXCEPT ![p] = r] /\ UNCHANGED <<stubVars, podVars>>
    BY <1>4 DEF Create, Ask
  <2>3. CameFrom(r.object, r.asked, granted) /\ r.object.labels = r.asked.labels /\ r.object = r.asked
    BY <2>1 DEF CameFrom
  <2> HIDE DEF r
  <2> QED BY <1>3, <2>2, <2>3 DEF Origins, TypeOK, OfPods
<1>5. ASSUME NEW p \in Pods, NEW l \in Labels, Update(p, l) PROVE OriginInv'
  <2> DEFINE o == [pods[p] EXCEPT !.labels = l]
             r == [op |-> "update", phase |-> "received", asked |-> o, object |-> o]
  <2>1. request' = [request EXCEPT ![p] = r] /\ UNCHANGED <<stubVars, podVars>>
    BY <1>5 DEF Update, Ask
  <2>2. r.op # "create" /\ r.object = r.asked
    OBVIOUS
  <2> HIDE DEF r
  <2> QED BY <1>3, <2>1, <2>2 DEF Origins, TypeOK, OfPods
<1>6. ASSUME NEW p \in Pods, DeletePod(p) PROVE OriginInv'
  BY <1>3, <1>6 DEF DeletePod, Origins, TypeOK, OfPods
<1>7. ASSUME NEW p \in Pods, Handle(p) PROVE OriginInv'
  <2>1. UNCHANGED <<stubVars, podVars>>
    BY <1>7 DEF Handle
  <2>2. PICK o : /\ request' = [request EXCEPT ![p] = Reviewed(request[p], o)]
                 /\ request[p].op = "create" =>
                       o.labels = request[p].asked.labels /\ CameFrom(o, request[p].asked, granted)
    BY <1>7, HandledRequest, HandledOrigin
  <2> DEFINE r == Reviewed(request[p], o)
  <2>3. r.op = request[p].op /\ r.asked = request[p].asked /\ r.object = o /\ r.phase # "received"
    BY DEF Reviewed
  <2>4. request' = [request EXCEPT ![p] = r]
    BY <2>2
  <2> HIDE DEF r
  <2> QED BY <1>3, <2>1, <2>2, <2>3, <2>4 DEF Origins, TypeOK, OfPods
<1>8. ASSUME NEW p \in Pods, CallFails(p) PROVE OriginInv'
  <2> DEFINE r == Reviewed(request[p], request[p].object)
  <2>1. request' = [request EXCEPT ![p] = r] /\ UNCHANGED <<stubVars, podVars>> /\ request[p] # NoRequest
    BY <1>8, SkippedRequest DEF CallFails
  <2>2. r.op = request[p].op /\ r.asked = request[p].asked /\ r.object = request[p].object /\ r.phase # "received"
    BY DEF Reviewed
  <2> HIDE DEF r
  <2> QED BY <1>3, <2>1, <2>2 DEF Origins, TypeOK, OfPods
<1>9. ASSUME NEW p \in Pods, HandleErrs(p) \/ Reject(p) PROVE OriginInv'
  BY <1>3, <1>9 DEF HandleErrs, Reject, Origins, TypeOK, OfPods
<1>10. ASSUME NEW p \in Pods, Admit(p) PROVE OriginInv'
  <2> DEFINE r == request[p]
             o == r.object
  <2>1. /\ pods' = [pods EXCEPT ![p] = o] /\ request' = [request EXCEPT ![p] = NoRequest]
        /\ asked' = [asked EXCEPT ![p] = IF r.op = "create" THEN r.asked ELSE asked[p]]
        /\ UNCHANGED stubVars /\ r # NoRequest
        /\ r.op = "update" => o = [pods[p] EXCEPT !.labels = o.labels]
    BY <1>10 DEF Admit, Valid
  <2>2. IsObject(o) /\ o.labels \in Labels
    BY <2>1, RequestFields, ObjectFields DEF TypeOK
  <2>3. CASE r.op = "create"
    <3>1. CameFrom(o, r.asked, granted)
      BY <2>1, <2>3 DEF Origins
    <3> HIDE DEF r, o
    <3> QED BY <1>3, <2>1, <2>3, <3>1 DEF Origins, TypeOK, OfPods
  <2>4. CASE r.op = "update"
    <3>1. pods[p] # NoPod /\ IsObject(pods[p]) /\ IsObject(asked[p]) /\ CameFrom(pods[p], asked[p], granted)
      BY <2>1, <2>4, ManifestsAssumption DEF TypeOK, Origins
    <3>2. CameFrom(o, asked[p], granted)
      BY <2>1, <2>2, <2>4, <3>1, OriginRelabelled
    <3> HIDE DEF r, o
    <3> QED BY <1>3, <2>1, <2>4, <3>2 DEF Origins, TypeOK, OfPods
  <2> QED BY <2>1, <2>3, <2>4, RequestFields DEF TypeOK
<1>11. CASE UNCHANGED vars
  BY <1>3, <1>11 DEF vars, Origins
<1> QED
  BY <1>1, <1>2, <1>4, <1>5, <1>6, <1>7, <1>8, <1>9, <1>10, <1>11 DEF Next

\* The two together are an invariant.
LEMMA OriginInvHolds == Spec => [](TypeOK /\ OriginInv)
<1>1. TypeOK /\ OriginInv /\ [Next]_vars => (TypeOK /\ OriginInv)'
  BY NextTypeOK, NextOriginInv
<1> QED BY <1>1, InitTypeOK, InitOriginInv, PTL DEF Spec

----------------------------------------------------------------------------
(* What follows for the pods the API server stores.                        *)

\* A list of directories with /dynastub/bin in front.
LEMMA BinInFront ==
    ASSUME NEW d \in Seq(Dirs), BinFree(d)
    PROVE  LET e == <<Bin>> \o d IN
           e \notin {<<>>, FromSource, Both} /\ Head(e) = Bin /\ BinFree(Tail(e))
<1> DEFINE e == <<Bin>> \o d
<1>1. e \in Seq(Dirs) /\ Len(e) = Len(d) + 1 /\ Len(d) \in Nat /\ e[1] = Bin
  BY PathsAssumption
<1>2. e # <<>> /\ Head(e) = e[1]
  BY <1>1
<1>3. Tail(e) = d
  <2>1. Tail(e) \in Seq(Dirs) /\ Len(Tail(e)) = Len(d)
    BY <1>1, <1>2
  <2>2. \A i \in 1..Len(d) : Tail(e)[i] = d[i]
    BY <1>1, <1>2, PathsAssumption
  <2> QED BY <2>1, <2>2, SeqEqual
<1> QED BY <1>1, <1>2, <1>3, PathsAssumption

\* A business container that was not touched before is hijacked, unless its
\* PATH comes from a source, which the API server rejects, or is set twice.
LEMMA ContainerHijacked ==
    ASSUME NEW c, c # SidecarName, NEW container \in Containers, container.mounts = 0,
           container.path # <<>> => BinFree(container.path[1]),
           ~Contains(HijackContainer(c, container).path, Both)
    PROVE  LET h == HijackContainer(c, container) IN
           h.mounts = 1 /\ (Len(h.path) <= 1 => Hijacked(h.path))
<1> DEFINE path == container.path
           new == HijackPath(path)
           h == HijackContainer(c, container)
<1>1. h.mounts = 1 /\ h.path = new /\ path \in Paths
  BY DEF HijackContainer, Containers
<1>2. new \in Paths /\ new # <<>>
  BY <1>1, HijackedPath
<1>3. new[1] # Both
  <2>1. 1 \in 1..Len(new)
    BY <1>2 DEF Paths
  <2> HIDE DEF new, h
  <2> QED BY <1>1, <2>1 DEF Contains, h
<1>4. PICK d \in Seq(Dirs) : BinFree(d) /\ new[1] = <<Bin>> \o d
  BY <1>1, <1>3, HijackedPath, PathsAssumption
<1> HIDE DEF new, h, path
<1>5. h.path[1] \notin {<<>>, FromSource, Both} /\ Head(h.path[1]) = Bin /\ BinFree(Tail(h.path[1]))
  BY <1>1, <1>4, BinInFront
<1>6. Len(h.path) <= 1 => Last(h.path) = h.path[1] /\ h.path # <<>>
  BY <1>1, <1>2 DEF Last, Paths
<1>7. h.mounts = 1 /\ (Len(h.path) <= 1 => Hijacked(h.path))
  BY <1>1, <1>5, <1>6 DEF Hijacked
<1> QED BY <1>7 DEF h

\* The parts of a relabelled object.
LEMMA RelabelledFields ==
    ASSUME NEW i, IsObject(i), NEW o, o.labels \in Labels, o = [i EXCEPT !.labels = o.labels]
    PROVE  o.shared = i.shared /\ o.scripts = i.scripts /\ o.sidecars = i.sidecars
           /\ o.containers = i.containers
  BY ObjectFields

\* A stored pod is its manifest, or a manifest without sidecar that was
\* injected once.
LEMMA StoredPod ==
    ASSUME TypeOK, OriginInv, NEW p \in Pods, pods[p] # NoPod
    PROVE  LET o == pods[p]
               m == asked[p]
           IN /\ m \in Manifests /\ IsObject(m) /\ IsObject(o) /\ WellFormed(o) /\ o.labels \in Labels
              /\ \/ o = [m EXCEPT !.labels = o.labels]
                 \/ \E s \in Stubs, x \in Specs :
                       /\ <<s, m.labels>> \in granted
                       /\ o.shared = m.shared + 1 /\ o.scripts = Append(m.scripts, x)
                       /\ o.sidecars = Append(m.sidecars, [stub |-> s, spec |-> x])
                       /\ o.containers = [c \in DOMAIN m.containers |-> HijackContainer(c, m.containers[c])]
<1> DEFINE o == pods[p]
           m == asked[p]
<1>1. m \in Manifests /\ IsObject(m) /\ IsObject(o) /\ WellFormed(o) /\ o.labels \in Labels
  BY ManifestsAssumption, ObjectFields DEF TypeOK
<1>2. CameFrom(o, m, granted)
  BY DEF OriginInv, Origins
<1> HIDE DEF o, m
<1>3. ASSUME NEW s \in Stubs, NEW x \in Specs, <<s, m.labels>> \in granted,
             o = [InjectSidecar(m, s, x) EXCEPT !.labels = o.labels]
      PROVE  /\ o.shared = m.shared + 1 /\ o.scripts = Append(m.scripts, x)
             /\ o.sidecars = Append(m.sidecars, [stub |-> s, spec |-> x])
             /\ o.containers = [c \in DOMAIN m.containers |-> HijackContainer(c, m.containers[c])]
  <2> DEFINE i == InjectSidecar(m, s, x)
  <2>1. IsObject(i)
    BY <1>1, Injected
  <2>2. /\ i.shared = m.shared + 1 /\ i.scripts = Append(m.scripts, x)
        /\ i.sidecars = Append(m.sidecars, [stub |-> s, spec |-> x])
        /\ i.containers = [c \in DOMAIN m.containers |-> HijackContainer(c, m.containers[c])]
    BY <1>1, InjectedFields
  <2>3. o = [i EXCEPT !.labels = o.labels]
    BY <1>3
  <2> HIDE DEF i
  <2>4. o.shared = i.shared /\ o.scripts = i.scripts /\ o.sidecars = i.sidecars /\ o.containers = i.containers
    BY <1>1, <2>1, <2>3, RelabelledFields
  <2> QED BY <2>2, <2>4
<1>4. \/ o = [m EXCEPT !.labels = o.labels]
      \/ \E s \in Stubs, x \in Specs :
            <<s, m.labels>> \in granted /\ o = [InjectSidecar(m, s, x) EXCEPT !.labels = o.labels]
  BY <1>2 DEF CameFrom
<1> QED BY <1>1, <1>3, <1>4 DEF o, m

\* Injected into a manifest once, a pod that passed validation is whole.
LEMMA StoredWhole ==
    ASSUME TypeOK, OriginInv, NEW p \in Pods, pods[p] # NoPod
    PROVE  IF HasSidecar(pods[p]) THEN Whole(pods[p]) ELSE Untouched(pods[p])
<1> DEFINE o == pods[p]
           m == asked[p]
<1>1. m \in Manifests /\ IsObject(m) /\ IsObject(o) /\ WellFormed(o) /\ o.labels \in Labels
  BY StoredPod
<1>2. /\ m.shared \in Nat /\ m.scripts \in Seq(Specs) /\ m.sidecars \in Seq([stub : Stubs, spec : Specs])
      /\ m.containers \in [DOMAIN m.containers -> Containers]
  BY <1>1, ObjectFields
<1>3. IF HasSidecar(m) THEN Whole(m)
      ELSE Untouched(m) /\ \A c \in DOMAIN m.containers :
              m.containers[c].path # <<>> => BinFree(m.containers[c].path[1])
  BY <1>1, ManifestsAssumption
<1>4. CASE o = [m EXCEPT !.labels = o.labels]
  <2>1. o.shared = m.shared /\ o.scripts = m.scripts /\ o.sidecars = m.sidecars /\ o.containers = m.containers
    BY <1>1, <1>4, RelabelledFields
  <2> HIDE DEF o, m
  <2>2. IF HasSidecar(o) THEN Whole(o) ELSE Untouched(o)
    BY <1>3, <2>1 DEF HasSidecar, Whole, Untouched
  <2> QED BY <2>2 DEF o
<1>5. ASSUME NEW s \in Stubs, NEW x \in Specs,
             o.shared = m.shared + 1, o.scripts = Append(m.scripts, x),
             o.sidecars = Append(m.sidecars, [stub |-> s, spec |-> x]),
             o.containers = [c \in DOMAIN m.containers |-> HijackContainer(c, m.containers[c])]
      PROVE  HasSidecar(o) /\ Whole(o)
  <2> HIDE DEF o, m
  <2>1. m.shared = 0
    BY <1>1, <1>2, <1>5 DEF WellFormed
  <2>2. ~HasSidecar(m) /\ Untouched(m)
    BY <1>3, <2>1 DEF Whole
  <2>3. m.scripts = <<>> /\ m.sidecars = <<>>
    BY <2>2 DEF HasSidecar, Untouched
  <2>4. o.scripts = <<x>> /\ o.shared = 1
    BY <1>5, <2>1, <2>3
  <2>5. o.sidecars = <<[stub |-> s, spec |-> x]>>
    BY <1>5, <2>3
  <2>6. o.sidecars # <<>> /\ o.sidecars[1].spec = x
    BY <2>5
  <2>7. ASSUME NEW c \in DOMAIN o.containers
        PROVE  /\ o.containers[c].mounts = 1
               /\ Len(o.containers[c].path) <= 1 => Hijacked(o.containers[c].path)
    <3>1. /\ c \in DOMAIN m.containers /\ o.containers[c] = HijackContainer(c, m.containers[c])
          /\ m.containers[c] \in Containers
      BY <1>2, <1>5
    <3>2. c # SidecarName /\ ~Contains(o.containers[c].path, Both)
      BY <1>1, <2>6 DEF WellFormed
    <3>3. m.containers[c].mounts = 0
          /\ (m.containers[c].path # <<>> => BinFree(m.containers[c].path[1]))
      BY <1>3, <2>2, <3>1 DEF Untouched
    <3> QED BY <3>1, <3>2, <3>3, ContainerHijacked
  <2> QED BY <2>4, <2>6, <2>7 DEF HasSidecar, Whole
<1> QED BY <1>4, <1>5, StoredPod

\* For all stubs, pods and manifests: injection is all or nothing, whatever is
\* updated, re-created from a dump, or changed while a request is in flight,
\* and it is in effect in every container that does not set PATH twice.
THEOREM InjectionIsWhole == Spec => []InjectedWhole
<1>1. TypeOK /\ OriginInv => InjectedWhole
  BY StoredWhole DEF InjectedWhole
<1> QED BY <1>1, OriginInvHolds, PTL

\* A pod that no stub has ever selected is stored as its user wrote it, with
\* any number of stubs and however late the webhook's cache is.
THEOREM OthersAreUntouched == Spec => []OthersUntouched
<1>1. TypeOK /\ OriginInv => OthersUntouched
  <2> SUFFICES ASSUME TypeOK, OriginInv, NEW p \in Pods, pods[p] # NoPod, GrantedTo(asked[p].labels) = {}
               PROVE  pods[p] = [asked[p] EXCEPT !.labels = pods[p].labels]
    BY DEF OthersUntouched
  <2>1. CameFrom(pods[p], asked[p], granted)
    BY DEF OriginInv, Origins
  <2> QED BY <2>1 DEF CameFrom, GrantedTo
<1> QED BY <1>1, OriginInvHolds, PTL

\* What the controller counts as injected for the only stub that has selected
\* a pod is served by that stub.
THEOREM CountedAreServed == Spec => []CountedIsServed
<1>1. TypeOK /\ OriginInv => CountedIsServed
  <2> SUFFICES ASSUME TypeOK, OriginInv, NEW p \in Pods, NEW s \in Stubs, pods[p] # NoPod,
                      IsPodInjected(pods[p]), GrantedTo(asked[p].labels) = {s}, ~IsPodInjected(asked[p])
               PROVE  pods[p].sidecars[1].stub = s
    BY DEF CountedIsServed
  <2> DEFINE o == pods[p]
             m == asked[p]
  <2>1. IsObject(m) /\ o.labels \in Labels
    BY StoredPod
  <2>2. o # [m EXCEPT !.labels = o.labels]
    BY <2>1, RelabelledFields DEF IsPodInjected, HasSidecar
  <2>3. PICK t \in Stubs, x \in Specs :
           <<t, m.labels>> \in granted /\ o.sidecars = Append(m.sidecars, [stub |-> t, spec |-> x])
    BY <2>2, StoredPod
  <2>4. t = s
    BY <2>3 DEF GrantedTo
  <2>5. m.sidecars = <<>>
    BY DEF IsPodInjected, HasSidecar
  <2>6. o.sidecars = <<[stub |-> s, spec |-> x]>>
    BY <2>3, <2>4, <2>5
  <2> HIDE DEF o
  <2>7. o.sidecars[1].stub = s
    BY <2>6
  <2> QED BY <2>7 DEF o
<1> QED BY <1>1, OriginInvHolds, PTL

----------------------------------------------------------------------------
(* Pods that a stub selects, when nothing fails.                           *)

\* The cache starts up to date.
LEMMA InitReachInv == Init => ReachInv
  BY DEF Init, ReachInv

\* An injected object has a sidecar.
LEMMA InjectedHasSidecar ==
    ASSUME NEW o, IsObject(o), NEW s \in Stubs, NEW x \in Specs
    PROVE  HasSidecar(InjectSidecar(o, s, x))
<1> DEFINE r == [stub |-> s, spec |-> x]
           R == [stub : Stubs, spec : Specs]
<1>1. InjectSidecar(o, s, x).sidecars = Append(o.sidecars, r) /\ o.sidecars \in Seq(R) /\ r \in R
  <2>1. InjectSidecar(o, s, x).sidecars = Append(o.sidecars, r)
    <3> DEFINE i == InjectSidecar(o, s, x)
    <3>1. /\ i.shared = o.shared + 1 /\ i.scripts = Append(o.scripts, x)
          /\ i.sidecars = Append(o.sidecars, [stub |-> s, spec |-> x])
          /\ i.containers = [c \in DOMAIN o.containers |-> HijackContainer(c, o.containers[c])]
      BY InjectedFields
    <3> QED BY <3>1
  <2>2. o.sidecars \in Seq(R)
    BY ObjectFields
  <2>3. r \in R
    OBVIOUS
  <2> QED BY <2>1, <2>2, <2>3
<1> HIDE DEF r, R
<1> QED BY <1>1 DEF HasSidecar

\* The invariant is inductive: what the webhook reviews gets a sidecar if the
\* stubs it knows, which are those there are, select it.
LEMMA NextReachInv == TypeOK /\ ReachInv /\ [Next]_vars => ReachInv'
<1> SUFFICES ASSUME TypeOK, ReachInv, [Next]_vars, changes' = 0 PROVE ReachInv'
  BY DEF ReachInv
<1> USE DEF stubVars, podVars
<1>1. UNCHANGED <<api, changes>> /\ changes = 0 /\ seen = api
  <2>1. changes' = changes + 1 \/ UNCHANGED <<api, changes>>
    BY DEF Next, SetStub, ObserveStub, Create, Update, DeletePod, Handle, HandleErrs, CallFails, Admit,
           Reject, vars
  <2>2. changes \in Nat
    BY BoundsAssumption DEF TypeOK
  <2>3. UNCHANGED <<api, changes>> /\ changes = 0
    BY <2>1, <2>2
  <2> QED BY <2>3 DEF ReachInv
<1>2. seen' = api'
  BY <1>1
  DEF Next, SetStub, ObserveStub, Create, Update, DeletePod, Handle, HandleErrs, CallFails, Admit, Reject, vars
<1>3. \A l : Selected(l)' <=> Selected(l)
  BY <1>1 DEF Selected, Targets
<1> SUFFICES ASSUME faults' = 0, NEW q \in Pods
             PROVE  /\ pods'[q] # NoPod /\ Selected(pods'[q].labels) => HasSidecar(pods'[q])
                    /\ request'[q] # NoRequest /\ request'[q].phase = "reviewed"
                          /\ Selected(request'[q].object.labels) => HasSidecar(request'[q].object)
  BY <1>2, <1>3 DEF ReachInv, Selected, Targets
<1>4. faults = 0
  <2>1. faults' = faults \/ faults' = faults + 1
    BY DEF Next, SetStub, ObserveStub, Create, Update, DeletePod, Handle, HandleErrs, CallFails, Admit,
           Reject, Fault, vars
  <2>2. faults \in Nat
    BY BoundsAssumption DEF TypeOK
  <2> QED BY <2>1, <2>2
<1>5. /\ pods[q] # NoPod /\ Selected(pods[q].labels) => HasSidecar(pods[q])
      /\ request[q] # NoRequest /\ request[q].phase = "reviewed"
            /\ Selected(request[q].object.labels) => HasSidecar(request[q].object)
  BY <1>1, <1>4 DEF ReachInv
<1>6. ASSUME NEW p \in Pods, Handle(p)
      PROVE  request'[q] # NoRequest /\ request'[q].phase = "reviewed"
                /\ Selected(request'[q].object.labels) => HasSidecar(request'[q].object)
  <2> DEFINE r == request[p]
  <2>1. PICK o : /\ request' = [request EXCEPT ![p] = Reviewed(r, o)]
                 /\ \/ Matching(r.object.labels) = {} /\ o = r.object
                    \/ \E s \in Matching(r.object.labels) :
                          seen[s] \in Specs /\ o = InjectSidecar(r.object, s, seen[s])
    BY <1>6, HandledRequest
  <2>2. IsObject(r.object)
    BY <1>6, RequestFields DEF Handle, TypeOK
  <2>3. Selected(o.labels) => HasSidecar(o)
    <3>1. CASE Matching(r.object.labels) = {} /\ o = r.object
      <4>1. ~Selected(o.labels)
        BY <1>1, <3>1, TargetsTyped, SpecsAssumption DEF Matching, Selected
      <4> QED BY <4>1
    <3>2. ASSUME NEW s \in Matching(r.object.labels), seen[s] \in Specs,
                 o = InjectSidecar(r.object, s, seen[s])
          PROVE  HasSidecar(o)
      <4>1. s \in Stubs
        BY DEF Matching
      <4> QED BY <2>2, <3>2, <4>1, InjectedHasSidecar
    <3> QED BY <2>1, <3>1, <3>2
  <2>4. Reviewed(r, o).object = o
    BY DEF Reviewed
  <2> HIDE DEF r
  <2> QED BY <1>5, <2>1, <2>3, <2>4 DEF TypeOK, OfPods
<1>7. ASSUME NEW p \in Pods, NEW m \in Manifests, Create(p, m)
      PROVE  request'[q] # NoRequest /\ request'[q].phase = "reviewed"
                /\ Selected(request'[q].object.labels) => HasSidecar(request'[q].object)
  BY <1>5, <1>7 DEF Create, Ask, TypeOK, OfPods
<1>8. ASSUME NEW p \in Pods, NEW l \in Labels, Update(p, l)
      PROVE  request'[q] # NoRequest /\ request'[q].phase = "reviewed"
                /\ Selected(request'[q].object.labels) => HasSidecar(request'[q].object)
  BY <1>5, <1>8 DEF Update, Ask, TypeOK, OfPods
<1>9. ASSUME NEW p \in Pods, HandleErrs(p) \/ Reject(p) \/ Admit(p)
      PROVE  request'[q] # NoRequest /\ request'[q].phase = "reviewed"
                /\ Selected(request'[q].object.labels) => HasSidecar(request'[q].object)
  BY <1>5, <1>9 DEF HandleErrs, Reject, Admit, TypeOK, OfPods
<1>10. ASSUME NEW p \in Pods PROVE ~CallFails(p)
  BY <1>4 DEF CallFails, Fault, TypeOK
<1>11. ASSUME NEW p \in Pods, Admit(p)
       PROVE  pods'[q] # NoPod /\ Selected(pods'[q].labels) => HasSidecar(pods'[q])
  <2>1. CASE q = p
    BY <1>5, <1>11, <2>1 DEF Admit, TypeOK, OfPods
  <2>2. CASE q # p
    BY <1>5, <1>11, <2>2 DEF Admit, TypeOK, OfPods
  <2> QED BY <2>1, <2>2
<1>12. ASSUME NEW p \in Pods, DeletePod(p)
       PROVE  pods'[q] # NoPod /\ Selected(pods'[q].labels) => HasSidecar(pods'[q])
  BY <1>5, <1>12 DEF DeletePod, TypeOK, OfPods
<1>13. ASSUME UNCHANGED <<pods, request>>
       PROVE  /\ pods'[q] # NoPod /\ Selected(pods'[q].labels) => HasSidecar(pods'[q])
              /\ request'[q] # NoRequest /\ request'[q].phase = "reviewed"
                    /\ Selected(request'[q].object.labels) => HasSidecar(request'[q].object)
  BY <1>5, <1>13
<1>14. ASSUME UNCHANGED pods PROVE pods'[q] # NoPod /\ Selected(pods'[q].labels) => HasSidecar(pods'[q])
  BY <1>5, <1>14
<1>15. ASSUME UNCHANGED request
       PROVE  request'[q] # NoRequest /\ request'[q].phase = "reviewed"
                 /\ Selected(request'[q].object.labels) => HasSidecar(request'[q].object)
  BY <1>5, <1>15
<1> QED
  BY <1>6, <1>7, <1>8, <1>9, <1>10, <1>11, <1>12, <1>13, <1>14, <1>15
  DEF Next, SetStub, ObserveStub, Create, Update, DeletePod, Handle, HandleErrs, Admit, Reject, vars

\* For all stubs and pods: with stubs that were there before and a webhook that
\* answers, no pod that a stub selects runs without a sidecar.
THEOREM SelectedAreInjected == Spec => []InjectedIfReachable
<1>1. TypeOK /\ ReachInv /\ [Next]_vars => (TypeOK /\ ReachInv)'
  BY NextTypeOK, NextReachInv
<1>2. ReachInv => InjectedIfReachable
  BY DEF ReachInv, InjectedIfReachable
<1> QED BY <1>1, <1>2, InitTypeOK, InitReachInv, PTL DEF Spec
=============================================================================
