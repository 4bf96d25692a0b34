---------------------------- MODULE StubObjects ----------------------------
(***************************************************************************)
(* BehaviorStub objects in the memory of the manager (api/v1).  The        *)
(* informer's cache, the reconciler and the webhook each hold one; slices, *)
(* maps and pointers of an object refer to memory that two objects would   *)
(* share if a copy were not deep.  The webhook reads while the reconciler  *)
(* edits the status (updateStatus), and nobody takes a lock.               *)
(***************************************************************************)
EXTENDS Integers, Sequences, SequencesExt

CONSTANTS
    Specs,      \* values of spec
    Ready,      \* the type of the controller's condition
    OtherTypes, \* types of conditions that others maintain
    Times,      \* values of the clock
    Nil,        \* a nil pointer or slice
    NoObject,   \* a variable that refers to no object
    MaxWrites   \* bound on the resource version

Owners == {"cache", "reconciler", "webhook"}

\* The parts of an object that are references: what spec refers to (selector,
\* resources, behaviors, advanced), the time, and the conditions.
Fields == {"spec", "lastUpdateTime", "conditions"}

\* Addresses: enough for every owner's object and one more of each field.
Slots == 1..4

Conditions == [type : OtherTypes \union {Ready}, generation : Nat, time : Times]
ObjectType == [at : [Fields -> Slots \union {Nil}], generation : Nat, version : Nat]

ASSUME TypesAssumption ==
    /\ Ready \notin OtherTypes /\ MaxWrites \in Nat \ {0}
    /\ Nil \notin Nat /\ Nil \notin Seq(Conditions) /\ NoObject \notin ObjectType

VARIABLES
    server,     \* the object at the API server: its value, generation and version
    heap,       \* [Fields -> [Slots -> value]]
    object,     \* [Owners -> object or NoObject]
    pc          \* where updateStatus is

vars == <<server, heap, object, pc>>

Init ==
    /\ \E x \in Specs :
          server = [spec |-> x, lastUpdateTime |-> Nil, conditions |-> Nil, generation |-> 1, version |-> 1]
    /\ heap = [f \in Fields |-> [i \in Slots |-> Nil]]
    /\ object = [o \in Owners |-> NoObject]
    /\ pc = "idle"

----------------------------------------------------------------------------
(* Memory.                                                                 *)

\* Some of the objects refers to address i in field f.
Used(objects, f, i) == \E o \in Owners : objects[o] # NoObject /\ objects[o].at[f] = i

New(f) == CHOOSE i \in Slots : ~Used(object, f, i)

\* A step leaves memory h behind and the garbage collector clears the rest.
Leave(h) ==
    heap' = [f \in Fields |-> [i \in Slots |-> IF Used(object', f, i) THEN h[f][i] ELSE Nil]]

\* What owner o reads in field f of its object.
Read(o, f) == IF object[o].at[f] = Nil THEN Nil ELSE heap[f][object[o].at[f]]

\* Field f of o's object comes to refer to new memory that holds value.
Assign(o, f, value) ==
    /\ object' = [object EXCEPT ![o].at[f] = New(f)]
    /\ Leave([heap EXCEPT ![f] = [heap[f] EXCEPT ![New(f)] = value]])

\* Owner o gets an object with the given generation and version, whose fields
\* are at the addresses at and hold value.
Place(o, at, value, from) ==
    /\ object' = [object EXCEPT ![o] = [at |-> at, generation |-> from.generation, version |-> from.version]]
    /\ Leave([f \in Fields |-> IF at[f] = Nil THEN heap[f] ELSE [heap[f] EXCEPT ![at[f]] = value[f]]])

\* Mutant: a nil field is not treated apart.
CopiedToAlways(f) == New(f)

\* Mutant: the generated code copies the conditions' slice header only.
CopiedToShallow(f) ==
    IF object["cache"].at[f] = Nil \/ f = "conditions" THEN object["cache"].at[f] ELSE New(f)

\* DeepCopyInto: scalars are assigned, nil stays nil, and whatever a field
\* refers to is copied to new memory.
CopiedTo(f) == IF object["cache"].at[f] = Nil THEN Nil ELSE New(f)

DeepCopy(o) ==
    Place(o, [f \in Fields |-> CopiedTo(f)], [f \in Fields |-> Read("cache", f)], object["cache"])

----------------------------------------------------------------------------
(* The API server and its other clients.                                   *)

Write == server.version < MaxWrites

UserWrites(x) ==
    /\ Write /\ x # server.spec
    /\ server' = [server EXCEPT !.spec = x, !.generation = @ + 1, !.version = @ + 1]
    /\ UNCHANGED <<heap, object, pc>>

List(conditions) == IF conditions = Nil THEN <<>> ELSE conditions

\* Mutant: the condition is appended also when there is one of its type.
MergedAppending(conditions, c) == Append(List(conditions), c)

\* Mutant: the list is made anew from the controller's own condition.
MergedAlone(conditions, c) == <<c>>

\* The condition of the type of c is replaced, or c is appended.
Merged(conditions, c) ==
    LET old == List(conditions)
        found == {i \in 1..Len(old) : old[i].type = c.type}
    IN IF found = {} THEN Append(old, c)
       ELSE [old EXCEPT ![CHOOSE i \in found : \A j \in found : i <= j] = c]

\* Another controller keeps a condition of its own in the status.
OtherWrites(t) ==
    /\ Write
    /\ \E c \in [type : {t}, generation : {server.generation}, time : Times] :
          server' = [server EXCEPT !.version = @ + 1, !.conditions = Merged(@, c)]
    /\ UNCHANGED <<heap, object, pc>>

\* The informer decodes an event into a new object and puts it in the cache.
Observe ==
    /\ object["cache"] # NoObject => object["cache"].version # server.version
    /\ Place("cache", [f \in Fields |-> IF server[f] = Nil THEN Nil ELSE New(f)], server, server)
    /\ UNCHANGED <<server, pc>>

----------------------------------------------------------------------------
(* The reconciler: r.Get and updateStatus.                                 *)

\* r.Get copies the cached object.
Get ==
    /\ pc = "idle" /\ object["cache"] # NoObject
    /\ DeepCopy("reconciler")
    /\ pc' = "time"
    /\ UNCHANGED server

\* Status.LastUpdateTime = &now
SetTime ==
    /\ pc = "time"
    /\ \E now \in Times : Assign("reconciler", "lastUpdateTime", now)
    /\ pc' = "condition"
    /\ UNCHANGED server

\* The Ready condition overwrites the old one where it is, in memory that the
\* copy had to make its own, or append makes a longer slice.
SetCondition ==
    LET old == List(Read("reconciler", "conditions"))
        new == Merged(old, [type |-> Ready, generation |-> object["reconciler"].generation,
                            time |-> Read("reconciler", "lastUpdateTime")])
        at == object["reconciler"].at["conditions"]
    IN
    /\ pc = "condition"
    /\ \/ /\ Len(new) = Len(old)
          /\ heap' = [heap EXCEPT !["conditions"] = [@ EXCEPT ![at] = new]]
          /\ UNCHANGED object
       \/ /\ Len(new) # Len(old)
          /\ Assign("reconciler", "conditions", new)
    /\ pc' = "update"
    /\ UNCHANGED server

\* Status().Update: stored if nobody has written since, else a conflict; or it
\* fails.  The object is not used again.
Update ==
    /\ pc = "update"
    /\ \/ /\ Write /\ object["reconciler"].version = server.version
          /\ server' = [server EXCEPT !.version = @ + 1,
                           !.lastUpdateTime = Read("reconciler", "lastUpdateTime"),
                           !.conditions = Read("reconciler", "conditions")]
       \/ UNCHANGED server
    /\ object' = [object EXCEPT !["reconciler"] = NoObject] /\ pc' = "idle"
    /\ Leave(heap)

----------------------------------------------------------------------------
(* The webhook lists stubs from the same cache and reads what it got.      *)

ListStubs ==
    /\ object["webhook"] = NoObject /\ object["cache"] # NoObject
    /\ DeepCopy("webhook")
    /\ UNCHANGED <<server, pc>>

Answer ==
    /\ object["webhook"] # NoObject
    /\ object' = [object EXCEPT !["webhook"] = NoObject]
    /\ Leave(heap)
    /\ UNCHANGED <<server, pc>>

----------------------------------------------------------------------------

Reconciler == Get \/ SetTime \/ SetCondition \/ Update
Webhook == ListStubs \/ Answer

Next ==
    \/ (\E x \in Specs : UserWrites(x)) \/ (\E t \in OtherTypes : OtherWrites(t))
    \/ Observe \/ Reconciler \/ Webhook

Spec == Init /\ [][Next]_vars

----------------------------------------------------------------------------
(* Properties.                                                             *)

Values == Specs \union Times \union Seq(Conditions) \union {Nil}

ValueOK(f, v) ==
    CASE f = "spec" -> v \in Specs
      [] f = "lastUpdateTime" -> v \in Times
      [] f = "conditions" -> v \in Seq(Conditions) /\ v # <<>>

\* Type invariant; every reference leads to a value of its field.
TypeOK ==
    /\ server \in [spec : Specs, lastUpdateTime : Times \union {Nil}, conditions : Values,
                   generation : Nat, version : 1..MaxWrites]
    /\ server.conditions = Nil \/ ValueOK("conditions", server.conditions)
    /\ server.generation \in 1..server.version
    /\ heap \in [Fields -> [Slots -> Values]]
    /\ object \in [Owners -> ObjectType \union {NoObject}]
    /\ pc \in {"idle", "time", "condition", "update"}
    /\ (object["reconciler"] = NoObject) = (pc = "idle")
    /\ \A o \in Owners : object[o] # NoObject =>
          /\ object[o].generation \in 1..object[o].version /\ object[o].version <= server.version
          /\ \A f \in Fields : object[o].at[f] # Nil => ValueOK(f, Read(o, f))

Contents(o) == IF object[o] = NoObject THEN NoObject ELSE [f \in Fields |-> Read(o, f)]

\* What an owner reads in its object changes by its own steps only: the
\* status the reconciler edits is neither the cache's, which every later Get
\* and List would see, nor the one a webhook request is reading.
OnlyOwnersWrite ==
    [][/\ Contents("cache")' # Contents("cache") => Observe
       /\ Contents("reconciler")' # Contents("reconciler") => Reconciler
       /\ Contents("webhook")' # Contents("webhook") => Webhook]_vars

\* However status writes, conflicts and other writers alternate, the status
\* has one condition of a type.
OneOfEachType ==
    server.conditions # Nil =>
        \A i, j \in 1..Len(server.conditions) :
            server.conditions[i].type = server.conditions[j].type => i = j

\* A status write of the controller loses no condition that another writer
\* has stored, not even one stored after the controller had read the object.
OthersConditionsKept ==
    [][\A c \in ToSet(List(server.conditions)) :
          Update /\ c.type # Ready => c \in ToSet(List(server'.conditions))]_vars
============================================================================
