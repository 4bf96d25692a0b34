------------------------- MODULE StubObjectsProofs -------------------------
(***************************************************************************)
(* Proofs about StubObjects, for all specs, condition types and clocks and *)
(* any number of writes.                                                   *)
(***************************************************************************)
EXTENDS StubObjects, SequenceTheorems, WellFoundedInduction, TLAPS

----------------------------------------------------------------------------
(* The inductive invariant.                                                *)

\* No two objects refer to the same memory: what every deep copy must ensure.
Separate ==
    \A o, q \in Owners, f \in Fields :
        o # q /\ object[o] # NoObject /\ object[q] # NoObject /\ object[o].at[f] # Nil
        => object[o].at[f] # object[q].at[f]

\* Once updateStatus has set the time, the object has one.
TimeSet == pc \in {"condition", "update"} => object["reconciler"].at["lastUpdateTime"] # Nil

\* At most one condition of a type.
Distinct(conditions) ==
    \A i, j \in 1..Len(List(conditions)) :
        List(conditions)[i].type = List(conditions)[j].type => i = j

AllDistinct ==
    /\ Distinct(server.conditions)
    /\ \A o \in Owners : object[o] # NoObject => Distinct(Read(o, "conditions"))

\* Every condition of others in list a is in list b.
OthersIn(a, b) == \A c \in ToSet(List(a)) : c.type # Ready => c \in ToSet(List(b))

\* An object of the server's version has the conditions of the server, those
\* of others also after the reconciler's edit: a write can only lose what came
\* later, and then it is a conflict.
UpToDate ==
    \A o \in {"cache", "reconciler"} :
        object[o] # NoObject /\ object[o].version = server.version =>
            OthersIn(server.conditions, Read(o, "conditions"))

----------------------------------------------------------------------------
(* Memory.                                                                 *)

\* Three objects leave one of four addresses free.
LEMMA NewIsFree ==
    ASSUME NEW f \in Fields
    PROVE  New(f) \in Slots /\ ~Used(object, f, New(f))
<1>1. \E i \in Slots : ~Used(object, f, i)
  <2> SUFFICES ASSUME \A i \in Slots : Used(object, f, i) PROVE FALSE
    OBVIOUS
  <2> DEFINE At(o) == object[o].at[f]
  <2>1. \A i \in Slots : At("cache") = i \/ At("reconciler") = i \/ At("webhook") = i
    BY DEF Used, Owners
  <2> HIDE DEF At
  <2>2. 1 \in Slots /\ 2 \in Slots /\ 3 \in Slots /\ 4 \in Slots
    BY DEF Slots
  <2> QED BY <2>1, <2>2
<1> QED BY <1>1 DEF New

\* The fields of an object.
LEMMA ObjectShape ==
    ASSUME TypeOK, NEW o \in Owners, object[o] # NoObject
    PROVE  /\ object[o] \in ObjectType
           /\ object[o].at \in [Fields -> Slots \union {Nil}]
           /\ object[o].generation \in Nat /\ object[o].version \in Nat
           /\ object[o] = [at |-> object[o].at, generation |-> object[o].generation,
                           version |-> object[o].version]
<1>1. object[o] \in ObjectType
  BY DEF TypeOK
<1> QED BY <1>1 DEF ObjectType

\* Nil is not an address.
LEMMA NilIsNoSlot == Nil \notin Slots
  BY TypesAssumption DEF Slots

\* What an object refers to is what the step has left there.
LEMMA LeftBehind ==
    ASSUME NEW STATE h, Leave(h), NEW q \in Owners, object'[q] # NoObject, NEW f \in Fields,
           object'[q].at[f] \in Slots
    PROVE  heap'[f][object'[q].at[f]] = h[f][object'[q].at[f]]
<1> DEFINE i == object'[q].at[f]
<1>1. Used(object', f, i)
  BY DEF Used
<1>2. heap'[f][i] = IF Used(object', f, i) THEN h[f][i] ELSE Nil
  BY DEF Leave
<1> QED BY <1>1, <1>2

\* The memory keeps its shape.
LEMMA LeaveTyped ==
    ASSUME NEW STATE h, Leave(h), \A f \in Fields, i \in Slots : h[f][i] \in Values
    PROVE  heap' \in [Fields -> [Slots -> Values]]
  BY DEF Leave, Values

\* A step of owner o leaves the objects of the others and their memory alone.
KeepsOthers(o) ==
    \A q \in Owners \ {o} :
        /\ object'[q] = object[q]
        /\ object[q] # NoObject =>
              \A f \in Fields : object[q].at[f] # Nil =>
                  heap'[f][object[q].at[f]] = heap[f][object[q].at[f]]

\* Then the others read what they read before.
LEMMA OthersRead ==
    ASSUME NEW o \in Owners, NEW q \in Owners \ {o}, KeepsOthers(o)
    PROVE  /\ object'[q] = object[q]
           /\ object[q] # NoObject => \A f \in Fields : Read(q, f)' = Read(q, f)
           /\ Contents(q)' = Contents(q)
<1>1. object'[q] = object[q]
  BY DEF KeepsOthers
<1>2. ASSUME object[q] # NoObject, NEW f \in Fields PROVE Read(q, f)' = Read(q, f)
  BY <1>1, <1>2 DEF Read, KeepsOthers
<1>3. Contents(q)' = Contents(q)
  BY <1>1, <1>2 DEF Contents
<1> QED BY <1>1, <1>2, <1>3

\* The owner of a new object: the fields are at addresses nobody uses.
LEMMA PlaceMemory ==
    ASSUME TypeOK, Separate, NEW o \in Owners, NEW STATE at, at \in [Fields -> Slots \union {Nil}],
           \A f \in Fields : at[f] = Nil \/ at[f] = New(f),
           NEW STATE value, \A f \in Fields : value[f] \in Values,
           NEW STATE from, from.generation \in Nat, from.version \in Nat,
           Place(o, at, value, from)
    PROVE  /\ KeepsOthers(o) /\ Separate'
           /\ heap' \in [Fields -> [Slots -> Values]] /\ object' \in [Owners -> ObjectType \union {NoObject}]
           /\ object'[o] = [at |-> at, generation |-> from.generation, version |-> from.version]
           /\ object'[o] # NoObject /\ object'[o].at = at
           /\ \A f \in Fields : Read(o, f)' = IF at[f] = Nil THEN Nil ELSE value[f]
<1> DEFINE new == [at |-> at, generation |-> from.generation, version |-> from.version]
           h == [f \in Fields |-> IF at[f] = Nil THEN heap[f] ELSE [heap[f] EXCEPT ![at[f]] = value[f]]]
<1>1. new \in ObjectType /\ new # NoObject /\ new.at = at
  BY TypesAssumption DEF ObjectType
<1>2. object' = [object EXCEPT ![o] = new] /\ Leave(h)
  BY DEF Place
<1> HIDE DEF new
<1>3. object'[o] = new /\ \A q \in Owners \ {o} : object'[q] = object[q]
  BY <1>2 DEF TypeOK
<1>4. object' \in [Owners -> ObjectType \union {NoObject}]
  BY <1>1, <1>2 DEF TypeOK
<1>5. \A f \in Fields, i \in Slots :
         /\ h[f][i] \in Values
         /\ at[f] = Nil => h[f][i] = heap[f][i]
         /\ at[f] # Nil => h[f][i] = IF i = at[f] THEN value[f] ELSE heap[f][i]
  BY DEF TypeOK
<1> HIDE DEF h
<1>6. heap' \in [Fields -> [Slots -> Values]]
  BY <1>2, <1>5, LeaveTyped
<1>7. ASSUME NEW q \in Owners \ {o}, object[q] # NoObject, NEW f \in Fields, object[q].at[f] # Nil
      PROVE  object[q].at[f] \in Slots /\ object[q].at[f] # at[f]
  <2>1. object[q].at[f] \in Slots
    BY <1>7, ObjectShape
  <2>2. Used(object, f, object[q].at[f])
    BY <1>7 DEF Used
  <2> QED BY <1>7, <2>1, <2>2, NewIsFree
<1>8. KeepsOthers(o)
  <2> SUFFICES ASSUME NEW q \in Owners \ {o}, object[q] # NoObject, NEW f \in Fields, object[q].at[f] # Nil
               PROVE  heap'[f][object[q].at[f]] = heap[f][object[q].at[f]]
    BY <1>3 DEF KeepsOthers
  <2> DEFINE i == object[q].at[f]
  <2>1. i \in Slots /\ i # at[f]
    BY <1>7
  <2>2. heap'[f][i] = h[f][i]
    BY <1>2, <1>3, <2>1, LeftBehind
  <2> QED BY <1>5, <2>1, <2>2
<1>9. ASSUME NEW f \in Fields PROVE Read(o, f)' = IF at[f] = Nil THEN Nil ELSE value[f]
  <2>1. CASE at[f] = Nil
    BY <1>1, <1>3, <2>1 DEF Read
  <2>2. CASE at[f] # Nil
    <3>1. at[f] \in Slots /\ object'[o].at[f] = at[f] /\ object'[o] # NoObject
      BY <1>1, <1>3, <2>2
    <3>2. heap'[f][at[f]] = h[f][at[f]]
      BY <1>2, <3>1, LeftBehind
    <3> QED BY <1>5, <2>2, <3>1, <3>2 DEF Read
  <2> QED BY <2>1, <2>2
<1>10. Separate'
  BY <1>1, <1>3, <1>7 DEF Separate
<1> QED BY <1>1, <1>3, <1>4, <1>6, <1>8, <1>9, <1>10 DEF new

\* An object that gets other references.
LEMMA ObjectWith ==
    ASSUME NEW r \in ObjectType, NEW at \in [Fields -> Slots \union {Nil}]
    PROVE  LET new == [r EXCEPT !.at = at]
           IN  /\ new \in ObjectType /\ new # NoObject /\ new.at = at
               /\ new.generation = r.generation /\ new.version = r.version
  BY TypesAssumption DEF ObjectType

\* A field that gets new memory: only its owner sees the difference.
LEMMA AssignMemory ==
    ASSUME TypeOK, Separate, NEW o \in Owners, object[o] # NoObject, NEW f \in Fields,
           NEW STATE value, value \in Values, Assign(o, f, value)
    PROVE  /\ KeepsOthers(o) /\ Separate'
           /\ heap' \in [Fields -> [Slots -> Values]] /\ object' \in [Owners -> ObjectType \union {NoObject}]
           /\ object'[o] # NoObject
           /\ object'[o].generation = object[o].generation /\ object'[o].version = object[o].version
           /\ object'[o].at[f] # Nil /\ Read(o, f)' = value
           /\ \A g \in Fields \ {f} : object'[o].at[g] = object[o].at[g] /\ Read(o, g)' = Read(o, g)
<1> DEFINE at == [object[o].at EXCEPT ![f] = New(f)]
           new == [object[o] EXCEPT !.at = at]
           h == [heap EXCEPT ![f] = [heap[f] EXCEPT ![New(f)] = value]]
<1>1. /\ at \in [Fields -> Slots \union {Nil}] /\ at[f] = New(f) /\ New(f) \in Slots /\ New(f) # Nil
      /\ \A g \in Fields \ {f} : at[g] = object[o].at[g]
  BY NewIsFree, NilIsNoSlot, ObjectShape
<1>2. object' = [object EXCEPT ![o] = new] /\ Leave(h)
  BY DEF Assign, TypeOK
<1> HIDE DEF at
<1>3. /\ new \in ObjectType /\ new # NoObject /\ new.at = at
      /\ new.generation = object[o].generation /\ new.version = object[o].version
  BY <1>1, ObjectShape, ObjectWith
<1> HIDE DEF new
<1>4. object'[o] = new /\ \A q \in Owners \ {o} : object'[q] = object[q]
  BY <1>2 DEF TypeOK
<1>5. object' \in [Owners -> ObjectType \union {NoObject}]
  BY <1>2, <1>3 DEF TypeOK
<1>6. \A g \in Fields, i \in Slots :
         /\ h[g][i] \in Values
         /\ h[g][i] = IF g = f /\ i = New(f) THEN value ELSE heap[g][i]
  BY <1>1 DEF TypeOK
<1> HIDE DEF h
<1>7. heap' \in [Fields -> [Slots -> Values]]
  BY <1>2, <1>6, LeaveTyped
<1>8. ASSUME NEW q \in Owners, object[q] # NoObject, NEW g \in Fields, object[q].at[g] # Nil
      PROVE  object[q].at[g] \in Slots /\ (g = f => object[q].at[g] # New(f))
  <2>1. object[q].at[g] \in Slots
    BY <1>8, ObjectShape
  <2>2. Used(object, g, object[q].at[g])
    BY <1>8 DEF Used
  <2> QED BY <2>1, <2>2, NewIsFree
<1>9. ASSUME NEW q \in Owners, object[q] # NoObject, NEW g \in Fields, object[q].at[g] # Nil,
             object'[q] # NoObject, object'[q].at[g] = object[q].at[g]
      PROVE  heap'[g][object[q].at[g]] = heap[g][object[q].at[g]]
  <2>1. object[q].at[g] \in Slots /\ (g = f => object[q].at[g] # New(f))
    BY <1>8, <1>9
  <2>2. heap'[g][object[q].at[g]] = h[g][object[q].at[g]]
    BY <1>2, <1>9, <2>1, LeftBehind
  <2> QED BY <1>6, <2>1, <2>2
<1>10. KeepsOthers(o)
  BY <1>4, <1>9 DEF KeepsOthers
<1>11. Read(o, f)' = value /\ object'[o].at[f] # Nil
  <2>1. object'[o].at[f] = New(f) /\ object'[o] # NoObject
    BY <1>1, <1>3, <1>4
  <2>2. heap'[f][New(f)] = h[f][New(f)]
    BY <1>1, <1>2, <2>1, LeftBehind
  <2> QED BY <1>1, <1>6, <2>1, <2>2 DEF Read
<1>12. ASSUME NEW g \in Fields \ {f}
       PROVE  object'[o].at[g] = object[o].at[g] /\ Read(o, g)' = Read(o, g)
  <2>1. object'[o].at[g] = object[o].at[g]
    BY <1>1, <1>3, <1>4
  <2> QED BY <1>3, <1>4, <1>9, <2>1 DEF Read
<1>13. Separate'
  <2> SUFFICES ASSUME NEW p \in Owners, NEW q \in Owners, NEW g \in Fields, p # q,
                      object'[p] # NoObject, object'[q] # NoObject, object'[p].at[g] # Nil
               PROVE  object'[p].at[g] # object'[q].at[g]
    BY DEF Separate
  <2>1. CASE g # f
    <3>1. object'[p].at[g] = object[p].at[g] /\ object'[q].at[g] = object[q].at[g]
      BY <1>4, <1>12, <2>1
    <3> QED BY <1>4, <3>1 DEF Separate
  <2>2. CASE g = f /\ p = o
    BY <1>1, <1>3, <1>4, <1>8, <2>2
  <2>3. CASE g = f /\ q = o
    BY <1>1, <1>3, <1>4, <1>8, <2>3
  <2>4. CASE p # o /\ q # o
    BY <1>4, <2>4 DEF Separate
  <2> QED BY <2>1, <2>2, <2>3, <2>4
<1> QED BY <1>3, <1>4, <1>5, <1>7, <1>10, <1>11, <1>12, <1>13

\* The memory of an object that is not used again.
LEMMA ReleaseMemory ==
    ASSUME TypeOK, Separate, NEW o \in Owners, object' = [object EXCEPT ![o] = NoObject], Leave(heap)
    PROVE  /\ KeepsOthers(o) /\ Separate'
           /\ heap' \in [Fields -> [Slots -> Values]] /\ object' \in [Owners -> ObjectType \union {NoObject}]
           /\ object'[o] = NoObject
<1>1. object'[o] = NoObject /\ \A q \in Owners \ {o} : object'[q] = object[q]
  BY DEF TypeOK
<1>2. object' \in [Owners -> ObjectType \union {NoObject}]
  BY DEF TypeOK
<1>3. heap' \in [Fields -> [Slots -> Values]]
  BY LeaveTyped DEF TypeOK
<1>4. KeepsOthers(o)
  <2> SUFFICES ASSUME NEW q \in Owners \ {o}, object[q] # NoObject, NEW f \in Fields, object[q].at[f] # Nil
               PROVE  heap'[f][object[q].at[f]] = heap[f][object[q].at[f]]
    BY <1>1 DEF KeepsOthers
  <2>1. object[q].at[f] \in Slots
    BY ObjectShape
  <2> QED BY <1>1, <2>1, LeftBehind
<1>5. Separate'
  BY <1>1 DEF Separate
<1> QED BY <1>1, <1>2, <1>3, <1>4, <1>5

\* A write in place: the memory is the owner's alone.
LEMMA OverwriteMemory ==
    ASSUME TypeOK, Separate, NEW o \in Owners, object[o] # NoObject, NEW f \in Fields,
           object[o].at[f] # Nil, NEW STATE value, value \in Values, UNCHANGED object,
           heap' = [heap EXCEPT ![f] = [heap[f] EXCEPT ![object[o].at[f]] = value]]
    PROVE  /\ KeepsOthers(o) /\ Separate'
           /\ heap' \in [Fields -> [Slots -> Values]]
           /\ Read(o, f)' = value
           /\ \A g \in Fields \ {f} : Read(o, g)' = Read(o, g)
<1>1. object[o].at[f] \in Slots
  BY ObjectShape
<1>2. heap' \in [Fields -> [Slots -> Values]]
  BY DEF TypeOK
<1>3. \A g \in Fields, i \in Slots :
         heap'[g][i] = IF g = f /\ i = object[o].at[f] THEN value ELSE heap[g][i]
  BY <1>1 DEF TypeOK
<1>4. KeepsOthers(o)
  <2> SUFFICES ASSUME NEW q \in Owners \ {o}, object[q] # NoObject, NEW g \in Fields, object[q].at[g] # Nil
               PROVE  heap'[g][object[q].at[g]] = heap[g][object[q].at[g]]
    BY DEF KeepsOthers
  <2>1. object[q].at[g] \in Slots
    BY ObjectShape
  <2>2. g = f => object[q].at[g] # object[o].at[f]
    BY DEF Separate
  <2> QED BY <1>3, <2>1, <2>2
<1>5. Read(o, f)' = value
  BY <1>1, <1>3 DEF Read
<1>6. ASSUME NEW g \in Fields \ {f} PROVE Read(o, g)' = Read(o, g)
  <2>1. object[o].at[g] # Nil => object[o].at[g] \in Slots
    BY ObjectShape
  <2> QED BY <1>3, <2>1 DEF Read
<1>7. Separate'
  BY DEF Separate
<1> QED BY <1>2, <1>4, <1>5, <1>6, <1>7

----------------------------------------------------------------------------
(* Lists of conditions.                                                    *)

\* A list that is not nil is itself.
LEMMA ListOfSeq ==
    ASSUME NEW a \in Seq(Conditions) \union {Nil}
    PROVE  /\ List(a) \in Seq(Conditions) /\ List(List(a)) = List(a)
           /\ a # Nil => List(a) = a
           /\ a = Nil => List(a) = <<>>
  BY TypesAssumption DEF List

\* Replacing or appending a condition: the list is one longer or one of its
\* conditions is replaced; it has the new condition, those of other types stay,
\* and there is still one of a type.
LEMMA MergedList ==
    ASSUME NEW a \in Seq(Conditions) \union {Nil}, NEW c \in Conditions
    PROVE  /\ Merged(a, c) \in Seq(Conditions) /\ Merged(a, c) # <<>>
           /\ Len(Merged(a, c)) = Len(List(a)) => a # Nil
           /\ Distinct(a) => Distinct(Merged(a, c))
           /\ \A d \in ToSet(List(a)) : d.type # c.type => d \in ToSet(Merged(a, c))
<1> DEFINE old == List(a)
           found == {i \in 1..Len(old) : old[i].type = c.type}
           new == Merged(a, c)
           k == CHOOSE i \in found : \A j \in found : i <= j
<1>1. old \in Seq(Conditions) /\ Len(old) \in Nat /\ (a = Nil => Len(old) = 0)
  BY ListOfSeq
<1>2. new = IF found = {} THEN Append(old, c) ELSE [old EXCEPT ![k] = c]
  BY DEF Merged
<1>3. Distinct(a) <=> \A i, j \in 1..Len(old) : old[i].type = old[j].type => i = j
  BY DEF Distinct
<1>4. ASSUME new \in Seq(Conditions)
      PROVE  Distinct(new) <=> \A i, j \in 1..Len(new) : new[i].type = new[j].type => i = j
  <2> HIDE DEF new
  <2>1. List(new) = new
    BY <1>4, TypesAssumption DEF List
  <2> QED BY <2>1 DEF Distinct
<1>5. \A d : d \in ToSet(old) <=> \E i \in 1..Len(old) : old[i] = d
  BY DEF ToSet
<1>6. \A d : d \in ToSet(new) <=> \E i \in 1..Len(new) : new[i] = d
  BY DEF ToSet
<1> HIDE DEF old, new
<1>7. CASE found = {}
  <2>1. new = Append(old, c)
    BY <1>2, <1>7
  <2>2. /\ new \in Seq(Conditions) /\ Len(new) = Len(old) + 1 /\ new[Len(new)] = c
        /\ \A i \in 1..Len(old) : new[i] = old[i]
    BY <1>1, <2>1
  <2>3. new # <<>> /\ Len(new) # Len(old)
    BY <1>1, <2>2
  <2>4. Distinct(a) => Distinct(new)
    <3>1. \A i \in 1..Len(old) : old[i].type # c.type
      BY <1>7
    <3>2. \A i \in 1..Len(new) : i \in 1..Len(old) \/ i = Len(new)
      BY <1>1, <2>2
    <3> HIDE DEF found
    <3> QED BY <1>3, <1>4, <2>2, <3>1, <3>2
  <2>5. \A d \in ToSet(old) : d \in ToSet(new)
    BY <1>1, <1>5, <1>6, <2>2
  <2> QED BY <2>2, <2>3, <2>4, <2>5 DEF old, new
<1>8. CASE found # {}
  <2>1. k \in found
    <3>1. found \subseteq Nat /\ found # {}
      BY <1>1, <1>8
    <3> DEFINE R == OpToRel(<, Nat)
    <3> HIDE DEF found
    <3>2. PICK i \in found : \A j \in found : ~(<<j, i>> \in R)
      <4> HIDE DEF R
      <4>1. IsWellFoundedOn(R, Nat)
        BY NatLessThanWellFounded DEF R
      <4> QED BY <3>1, <4>1, WFMin
    <3>3. \A j \in found : ~(j < i)
      BY <3>1, <3>2 DEF OpToRel
    <3>4. \A j \in found : i <= j
      <4> TAKE j \in found
      <4>1. i \in Nat /\ j \in Nat
        BY <3>1
      <4> QED BY <3>3, <4>1
    <3> QED BY <3>4
  <2> HIDE DEF k
  <2>2. k \in 1..Len(old) /\ old[k].type = c.type
    BY <2>1
  <2>3. new = [old EXCEPT ![k] = c]
    BY <1>2, <1>8
  <2>4. /\ new \in Seq(Conditions) /\ Len(new) = Len(old)
        /\ \A i \in 1..Len(old) : new[i] = IF i = k THEN c ELSE old[i]
    BY <1>1, <2>2, <2>3
  <2>5. new # <<>> /\ a # Nil
    BY <1>1, <2>2, <2>4
  <2>6. \A i \in 1..Len(old) : new[i].type = old[i].type
    BY <2>2, <2>4
  <2>7. Distinct(a) => Distinct(new)
    BY <1>3, <1>4, <2>4, <2>6
  <2>8. \A d \in ToSet(old) : d.type # c.type => d \in ToSet(new)
    BY <1>5, <1>6, <2>2, <2>4
  <2> QED BY <2>4, <2>5, <2>7, <2>8 DEF old, new
<1> QED BY <1>7, <1>8

----------------------------------------------------------------------------
(* What each step does to the objects.                                     *)

\* The parts of the type invariant that steps disturb.
ServerOK ==
    /\ server \in [spec : Specs, lastUpdateTime : Times \union {Nil}, conditions : Values,
                   generation : Nat, version : 1..MaxWrites]
    /\ server.conditions = Nil \/ ValueOK("conditions", server.conditions)
    /\ server.generation \in 1..server.version

ObjectOK(o) ==
    object[o] # NoObject =>
        /\ object[o].generation \in 1..object[o].version /\ object[o].version <= server.version
        /\ \A f \in Fields : object[o].at[f] # Nil => ValueOK(f, Read(o, f))

\* The memory is well formed after a step of owner o that has left the
\* others alone.
MemoryStep(o) ==
    /\ KeepsOthers(o) /\ Separate'
    /\ heap' \in [Fields -> [Slots -> Values]] /\ object' \in [Owners -> ObjectType \union {NoObject}]

LEMMA ValueIsValue ==
    ASSUME NEW f \in Fields, NEW v, ValueOK(f, v)
    PROVE  /\ v \in Values
           /\ f = "conditions" => v \in Seq(Conditions)
           /\ f = "lastUpdateTime" => v \in Times
  BY DEF Fields, ValueOK, Values

\* What is read is a value, and the conditions are a list or nil.
LEMMA ReadIsValue ==
    ASSUME TypeOK, NEW o \in Owners, object[o] # NoObject
    PROVE  /\ \A f \in Fields : Read(o, f) \in Values
           /\ Read(o, "conditions") \in Seq(Conditions) \union {Nil}
           /\ object[o].at["lastUpdateTime"] # Nil => Read(o, "lastUpdateTime") \in Times
<1>1. \A f \in Fields : object[o].at[f] # Nil => ValueOK(f, Read(o, f))
  BY DEF TypeOK
<1>2. \A f \in Fields : object[o].at[f] = Nil => Read(o, f) = Nil
  BY DEF Read
<1>3. Nil \in Values
  BY DEF Values
<1>4. "conditions" \in Fields /\ "lastUpdateTime" \in Fields
  BY DEF Fields
<1> QED BY <1>1, <1>2, <1>3, <1>4, ValueIsValue

\* The type invariant is made of those parts.
LEMMA TypeParts ==
    /\ TypeOK => ServerOK /\ \A o \in Owners : ObjectOK(o)
    /\ ServerOK' /\ heap' \in [Fields -> [Slots -> Values]]
       /\ object' \in [Owners -> ObjectType \union {NoObject}]
       /\ pc' \in {"idle", "time", "condition", "update"}
       /\ (object'["reconciler"] = NoObject) = (pc' = "idle")
       /\ (\A o \in Owners : ObjectOK(o)')
       => TypeOK'
  BY DEF TypeOK, ServerOK, ObjectOK

\* What a step of another owner does not touch stays well formed, also when
\* the server goes on to another version.
LEMMA OthersOK ==
    ASSUME TypeOK, NEW o \in Owners, KeepsOthers(o), ServerOK', server.version <= server'.version,
           NEW q \in Owners \ {o}
    PROVE  ObjectOK(q)'
<1> SUFFICES ASSUME object'[q] # NoObject
             PROVE  /\ object'[q].generation \in 1..object'[q].version
                    /\ object'[q].version <= server'.version
                    /\ \A f \in Fields : object'[q].at[f] # Nil => ValueOK(f, Read(q, f)')
  BY DEF ObjectOK, ValueOK
<1>1. object'[q] = object[q] /\ object[q] # NoObject /\ \A f \in Fields : Read(q, f)' = Read(q, f)
  BY OthersRead
<1>2. /\ object[q].generation \in 1..object[q].version /\ object[q].version <= server.version
      /\ \A f \in Fields : object[q].at[f] # Nil => ValueOK(f, Read(q, f))
  BY <1>1 DEF TypeOK
<1>3. object[q].version \in Nat /\ server.version \in Nat /\ server'.version \in Nat
  <2>1. object[q].version \in Nat
    BY <1>1, ObjectShape
  <2>2. server.version \in 1..MaxWrites /\ server'.version \in 1..MaxWrites
    BY DEF TypeOK, ServerOK
  <2> QED BY <2>1, <2>2, TypesAssumption
<1>4. object[q].version <= server'.version
  BY <1>2, <1>3
<1> QED BY <1>1, <1>2, <1>4

\* A copy of the cached object reads like it and shares nothing with it.
LEMMA DeepCopyStep ==
    ASSUME TypeOK, Separate, NEW o \in Owners \ {"cache"}, object["cache"] # NoObject, DeepCopy(o),
           UNCHANGED server
    PROVE  /\ MemoryStep(o) /\ ObjectOK(o)' /\ object'[o] # NoObject
           /\ object'[o].version = object["cache"].version
           /\ \A f \in Fields : Read(o, f)' = Read("cache", f)
<1> DEFINE from == object["cache"]
           at == [f \in Fields |-> CopiedTo(f)]
           value == [f \in Fields |-> Read("cache", f)]
<1> "cache" \in Owners
  BY DEF Owners
<1>1. from.generation \in Nat /\ from.version \in Nat
  BY ObjectShape
<1>2. /\ at \in [Fields -> Slots \union {Nil}]
      /\ \A f \in Fields : at[f] = Nil \/ at[f] = New(f)
      /\ \A f \in Fields : at[f] = Nil <=> from.at[f] = Nil
  BY NewIsFree, NilIsNoSlot DEF CopiedTo
<1>3. \A f \in Fields : value[f] \in Values
  BY ReadIsValue
<1>4. Place(o, at, value, from)
  BY DEF DeepCopy
<1>5. /\ \A f \in Fields : value[f] = Read("cache", f)
      /\ \A f \in Fields : from.at[f] = Nil => Read("cache", f) = Nil
      /\ \A f \in Fields : from.at[f] # Nil => ValueOK(f, Read("cache", f))
      /\ from.generation \in 1..from.version /\ from.version <= server.version
  BY DEF Read, TypeOK
<1> HIDE DEF from, at, value
<1>6. /\ KeepsOthers(o) /\ Separate'
      /\ heap' \in [Fields -> [Slots -> Values]] /\ object' \in [Owners -> ObjectType \union {NoObject}]
      /\ object'[o] = [at |-> at, generation |-> from.generation, version |-> from.version]
      /\ object'[o] # NoObject /\ object'[o].at = at
      /\ \A f \in Fields : Read(o, f)' = IF at[f] = Nil THEN Nil ELSE value[f]
  BY <1>1, <1>2, <1>3, <1>4, PlaceMemory
<1>7. object'[o].generation = from.generation /\ object'[o].version = from.version
  BY <1>6
<1>8. \A f \in Fields : Read(o, f)' = Read("cache", f)
  BY <1>2, <1>5, <1>6
<1>9. ObjectOK(o)'
  <2>1. object'[o].generation \in 1..object'[o].version /\ object'[o].version <= server'.version
    BY <1>5, <1>7
  <2>2. \A f \in Fields : object'[o].at[f] # Nil => ValueOK(f, Read(o, f)')
    BY <1>2, <1>5, <1>6, <1>8
  <2> QED BY <2>1, <2>2 DEF ObjectOK, ValueOK
<1> QED BY <1>6, <1>7, <1>8, <1>9 DEF MemoryStep, from

\* The cache's new object reads like the server's.
LEMMA ObserveStep ==
    ASSUME TypeOK, Separate, Observe
    PROVE  /\ MemoryStep("cache") /\ ObjectOK("cache")' /\ object'["cache"] # NoObject
           /\ Read("cache", "conditions")' = server.conditions
<1> DEFINE at == [f \in Fields |-> IF server[f] = Nil THEN Nil ELSE New(f)]
<1> "cache" \in Owners
  BY DEF Owners
<1>1. server.generation \in Nat /\ server.version \in Nat
  BY DEF TypeOK
<1>2. /\ at \in [Fields -> Slots \union {Nil}]
      /\ \A f \in Fields : at[f] = Nil \/ at[f] = New(f)
      /\ \A f \in Fields : at[f] = Nil <=> server[f] = Nil
  BY NewIsFree, NilIsNoSlot
<1>3. \A f \in Fields : server[f] \in Values /\ (server[f] # Nil => ValueOK(f, server[f]))
  BY DEF TypeOK, Fields, ValueOK, Values
<1>4. Place("cache", at, server, server) /\ UNCHANGED server
  BY DEF Observe
<1> HIDE DEF at
<1>6. /\ KeepsOthers("cache") /\ Separate'
      /\ heap' \in [Fields -> [Slots -> Values]] /\ object' \in [Owners -> ObjectType \union {NoObject}]
      /\ object'["cache"] = [at |-> at, generation |-> server.generation, version |-> server.version]
      /\ object'["cache"] # NoObject /\ object'["cache"].at = at
      /\ \A f \in Fields : Read("cache", f)' = IF at[f] = Nil THEN Nil ELSE server[f]
  BY <1>1, <1>2, <1>3, <1>4, PlaceMemory
<1>7. object'["cache"].generation = server.generation /\ object'["cache"].version = server.version
  BY <1>6
<1>8. \A f \in Fields : Read("cache", f)' = server[f]
  BY <1>2, <1>6
<1>9. ObjectOK("cache")'
  <2>1. /\ object'["cache"].generation \in 1..object'["cache"].version
        /\ object'["cache"].version <= server'.version
    BY <1>1, <1>4, <1>7 DEF TypeOK
  <2>2. \A f \in Fields : object'["cache"].at[f] # Nil => ValueOK(f, Read("cache", f)')
    BY <1>2, <1>3, <1>6, <1>8
  <2> QED BY <2>1, <2>2 DEF ObjectOK, ValueOK
<1>10. "conditions" \in Fields /\ server["conditions"] = server.conditions
  BY DEF Fields
<1> QED BY <1>6, <1>8, <1>9, <1>10 DEF MemoryStep

\* The time is new memory, and nothing else of the object changes.
LEMMA SetTimeStep ==
    ASSUME TypeOK, Separate, SetTime
    PROVE  /\ MemoryStep("reconciler") /\ ObjectOK("reconciler")' /\ object'["reconciler"] # NoObject
           /\ object'["reconciler"].at["lastUpdateTime"] # Nil
           /\ object'["reconciler"].version = object["reconciler"].version
           /\ Read("reconciler", "conditions")' = Read("reconciler", "conditions")
<1> DEFINE o == "reconciler"
           t == "lastUpdateTime"
<1>1. o \in Owners /\ t \in Fields /\ "conditions" \in Fields \ {t}
  BY DEF Owners, Fields
<1>2. object[o] # NoObject
  BY DEF TypeOK, SetTime
<1>3. PICK now \in Times : Assign(o, t, now)
  BY DEF SetTime
<1>4. now \in Values /\ ValueOK(t, now)
  BY DEF Values, ValueOK
<1>5. UNCHANGED server
  BY DEF SetTime
<1> HIDE DEF o, t
<1>6. /\ KeepsOthers(o) /\ Separate'
      /\ heap' \in [Fields -> [Slots -> Values]] /\ object' \in [Owners -> ObjectType \union {NoObject}]
      /\ object'[o] # NoObject
      /\ object'[o].generation = object[o].generation /\ object'[o].version = object[o].version
      /\ object'[o].at[t] # Nil /\ Read(o, t)' = now
      /\ \A g \in Fields \ {t} : object'[o].at[g] = object[o].at[g] /\ Read(o, g)' = Read(o, g)
  BY <1>1, <1>2, <1>3, <1>4, AssignMemory
<1>7. ObjectOK(o)'
  <2>1. ObjectOK(o)
    BY <1>1, TypeParts
  <2>2. object'[o].generation \in 1..object'[o].version /\ object'[o].version <= server'.version
    BY <1>2, <1>5, <1>6, <2>1 DEF ObjectOK
  <2>3. \A f \in Fields : object'[o].at[f] # Nil => ValueOK(f, Read(o, f)')
    BY <1>2, <1>4, <1>6, <2>1 DEF ObjectOK
  <2> QED BY <2>2, <2>3 DEF ObjectOK, ValueOK
<1> QED BY <1>1, <1>6, <1>7 DEF MemoryStep, o, t

\* The controller's condition.
ReadyCondition ==
    [type |-> Ready, generation |-> object["reconciler"].generation,
     time |-> Read("reconciler", "lastUpdateTime")]

\* In place or in a new slice, the conditions become the old ones with the
\* controller's merged in, in the reconciler's object only.
LEMMA SetConditionStep ==
    ASSUME TypeOK, Separate, TimeSet, SetCondition
    PROVE  /\ MemoryStep("reconciler") /\ ObjectOK("reconciler")' /\ object'["reconciler"] # NoObject
           /\ object'["reconciler"].at["lastUpdateTime"] # Nil
           /\ object'["reconciler"].version = object["reconciler"].version
           /\ ReadyCondition \in Conditions
           /\ Read("reconciler", "conditions")'
                = Merged(List(Read("reconciler", "conditions")), ReadyCondition)
<1> DEFINE o == "reconciler"
           t == "lastUpdateTime"
           cs == "conditions"
           old == List(Read(o, cs))
           new == Merged(old, ReadyCondition)
<1>1. o \in Owners /\ cs \in Fields /\ t \in Fields \ {cs}
  BY DEF Owners, Fields
<1>2. object[o] # NoObject /\ object[o].at[t] # Nil
  BY DEF TypeOK, TimeSet, SetCondition
<1>3. ReadyCondition \in Conditions
  <2>1. Read(o, t) \in Times
    BY <1>1, <1>2, ReadIsValue
  <2>2. object[o].generation \in Nat
    BY <1>1, <1>2, ObjectShape
  <2> QED BY <2>1, <2>2 DEF Conditions, ReadyCondition
<1>4. Read(o, cs) \in Seq(Conditions) \union {Nil}
  BY <1>1, <1>2, ReadIsValue
<1>5. old \in Seq(Conditions) /\ List(old) = old /\ (Read(o, cs) = Nil => old = <<>>)
  BY <1>4, ListOfSeq
<1>6. \/ /\ Len(new) = Len(old)
         /\ heap' = [heap EXCEPT ![cs] = [heap[cs] EXCEPT ![object[o].at[cs]] = new]]
         /\ UNCHANGED object
      \/ Assign(o, cs, new)
  <2>1. heap[cs] = heap["conditions"] /\ heap \in [Fields -> [Slots -> Values]]
    BY DEF TypeOK
  <2> QED BY <1>1, <2>1 DEF SetCondition, ReadyCondition
<1>7. UNCHANGED server
  BY DEF SetCondition
<1> HIDE DEF new
<1>8. new \in Seq(Conditions) /\ new # <<>>
  <2> HIDE DEF old
  <2> QED BY <1>3, <1>5, MergedList DEF new
<1>9. new \in Values /\ ValueOK(cs, new)
  BY <1>8 DEF Values, ValueOK
<1> HIDE DEF o, cs, t
<1>10. /\ KeepsOthers(o) /\ Separate'
       /\ heap' \in [Fields -> [Slots -> Values]] /\ object' \in [Owners -> ObjectType \union {NoObject}]
       /\ object'[o] # NoObject
       /\ object'[o].generation = object[o].generation /\ object'[o].version = object[o].version
       /\ Read(o, cs)' = new
       /\ \A g \in Fields \ {cs} : object'[o].at[g] = object[o].at[g] /\ Read(o, g)' = Read(o, g)
  <2>1. CASE Assign(o, cs, new)
    <3> HIDE DEF old
    <3> QED BY <1>1, <1>2, <1>9, <2>1, AssignMemory
  <2>2. CASE /\ Len(new) = Len(old) /\ UNCHANGED object
             /\ heap' = [heap EXCEPT ![cs] = [heap[cs] EXCEPT ![object[o].at[cs]] = new]]
    <3>1. old # <<>>
      <4> HIDE DEF old
      <4> QED BY <1>5, <1>8, <2>2
    <3>2. object[o].at[cs] # Nil
      BY <1>5, <3>1 DEF Read
    <3> HIDE DEF old
    <3>3. /\ KeepsOthers(o) /\ Separate'
          /\ heap' \in [Fields -> [Slots -> Values]]
          /\ Read(o, cs)' = new
          /\ \A g \in Fields \ {cs} : Read(o, g)' = Read(o, g)
      BY <1>1, <1>2, <1>9, <2>2, <3>2, OverwriteMemory
    <3>4. object' \in [Owners -> ObjectType \union {NoObject}]
      BY <2>2 DEF TypeOK
    <3> QED BY <1>2, <2>2, <3>3, <3>4
  <2> QED BY <1>6, <2>1, <2>2
<1>11. ObjectOK(o)'
  <2>1. ObjectOK(o)
    BY <1>1, TypeParts
  <2>2. object'[o].generation \in 1..object'[o].version /\ object'[o].version <= server'.version
    BY <1>2, <1>7, <1>10, <2>1 DEF ObjectOK
  <2>3. \A f \in Fields : object'[o].at[f] # Nil => ValueOK(f, Read(o, f)')
    BY <1>2, <1>9, <1>10, <2>1 DEF ObjectOK
  <2> QED BY <2>2, <2>3 DEF ObjectOK, ValueOK
<1>12. object'[o].at[t] # Nil
  BY <1>1, <1>2, <1>10
<1> QED BY <1>3, <1>10, <1>11, <1>12 DEF MemoryStep, new, o, cs, t

\* A status write, successful or not, and the object is gone.
LEMMA UpdateStep ==
    ASSUME TypeOK, Separate, TimeSet, Update
    PROVE  /\ MemoryStep("reconciler") /\ ServerOK' /\ object'["reconciler"] = NoObject
           /\ \/ UNCHANGED server
              \/ /\ object["reconciler"].version = server.version
                 /\ server'.version = server.version + 1
                 /\ server'.conditions = Read("reconciler", "conditions")
<1> DEFINE o == "reconciler"
           time == Read(o, "lastUpdateTime")
           list == Read(o, "conditions")
<1>1. o \in Owners /\ "conditions" \in Fields /\ "lastUpdateTime" \in Fields
  BY DEF Owners, Fields
<1>2. object[o] # NoObject /\ object[o].at["lastUpdateTime"] # Nil
  BY DEF TypeOK, TimeSet, Update
<1>3. time \in Times /\ list \in Values
  BY <1>1, <1>2, ReadIsValue
<1>4. list = Nil \/ ValueOK("conditions", list)
  BY <1>1, <1>2 DEF TypeOK, Read
<1>5. ServerOK
  BY TypeParts
<1>6. \/ UNCHANGED server
      \/ /\ server.version < MaxWrites /\ object[o].version = server.version
         /\ server' = [server EXCEPT !.version = @ + 1, !.lastUpdateTime = time, !.conditions = list]
  BY DEF Update, Write
<1> HIDE DEF time, list
<1>7. ASSUME UNCHANGED server PROVE ServerOK'
  BY <1>5, <1>7 DEF ServerOK
<1>8. ASSUME server.version < MaxWrites,
             server' = [server EXCEPT !.version = @ + 1, !.lastUpdateTime = time, !.conditions = list]
      PROVE  ServerOK'
  <2>1. /\ server'.version = server.version + 1 /\ server'.conditions = list
        /\ server'.generation = server.generation
    BY <1>5, <1>8 DEF ServerOK
  <2>2. server'.version \in 1..MaxWrites
    BY <1>5, <1>8, <2>1, TypesAssumption DEF ServerOK
  <2>3. server' \in [spec : Specs, lastUpdateTime : Times \union {Nil}, conditions : Values,
                     generation : Nat, version : 1..MaxWrites]
    BY <1>3, <1>5, <1>8, <2>1, <2>2 DEF ServerOK
  <2>4. server'.generation \in 1..server'.version
    BY <1>5, <2>1, TypesAssumption DEF ServerOK
  <2> QED BY <1>4, <2>1, <2>3, <2>4 DEF ServerOK, ValueOK
<1>9. object' = [object EXCEPT ![o] = NoObject] /\ Leave(heap)
  BY DEF Update
<1>10. MemoryStep(o) /\ object'[o] = NoObject
  BY <1>1, <1>9, ReleaseMemory DEF MemoryStep
<1>11. ServerOK'
  BY <1>6, <1>7, <1>8
<1>12. \/ UNCHANGED server
       \/ /\ object[o].version = server.version /\ server'.version = server.version + 1
          /\ server'.conditions = list
  BY <1>5, <1>6 DEF ServerOK
<1> QED BY <1>10, <1>11, <1>12 DEF list

\* A write of another client: a new version, and the memory is as it was.
LEMMA ClientStep ==
    ASSUME TypeOK, \/ \E x \in Specs : UserWrites(x)
                   \/ \E u \in OtherTypes : OtherWrites(u)
    PROVE  /\ ServerOK' /\ server'.version = server.version + 1
           /\ UNCHANGED <<heap, object, pc>>
           /\ Distinct(server.conditions) => Distinct(server'.conditions)
<1>1. ServerOK
  BY TypeParts
<1>2. ASSUME NEW x \in Specs, UserWrites(x)
      PROVE  /\ ServerOK' /\ server'.version = server.version + 1
             /\ server'.conditions = server.conditions /\ UNCHANGED <<heap, object, pc>>
  <2>1. /\ server.version < MaxWrites /\ UNCHANGED <<heap, object, pc>>
        /\ server' = [server EXCEPT !.spec = x, !.generation = @ + 1, !.version = @ + 1]
    BY <1>2 DEF UserWrites, Write
  <2>2. /\ server'.version = server.version + 1 /\ server'.generation = server.generation + 1
        /\ server'.conditions = server.conditions
    BY <1>1, <2>1 DEF ServerOK
  <2>3. /\ server'.version \in 1..MaxWrites /\ server'.generation \in 1..server'.version
        /\ server.generation + 1 \in Nat /\ server.version + 1 \in 1..MaxWrites
    BY <1>1, <2>1, <2>2, TypesAssumption DEF ServerOK
  <2>4. server' \in [spec : Specs, lastUpdateTime : Times \union {Nil}, conditions : Values,
                     generation : Nat, version : 1..MaxWrites]
    BY <1>1, <2>1, <2>2, <2>3 DEF ServerOK
  <2> QED BY <1>1, <2>1, <2>2, <2>3, <2>4 DEF ServerOK, ValueOK
<1>3. ASSUME NEW u \in OtherTypes, OtherWrites(u)
      PROVE  /\ ServerOK' /\ server'.version = server.version + 1 /\ UNCHANGED <<heap, object, pc>>
             /\ Distinct(server.conditions) => Distinct(server'.conditions)
  <2>1. PICK c \in [type : {u}, generation : {server.generation}, time : Times] :
            server' = [server EXCEPT !.version = @ + 1, !.conditions = Merged(@, c)]
    BY <1>3 DEF OtherWrites
  <2>2. server.version < MaxWrites /\ UNCHANGED <<heap, object, pc>>
    BY <1>3 DEF OtherWrites, Write
  <2>3. c \in Conditions
    BY <1>1, <2>1 DEF Conditions, ServerOK
  <2>4. server.conditions \in Seq(Conditions) \union {Nil}
    BY <1>1 DEF ServerOK, ValueOK
  <2> DEFINE list == Merged(server.conditions, c)
  <2>5. /\ list \in Seq(Conditions) /\ list # <<>>
        /\ Distinct(server.conditions) => Distinct(list)
    BY <2>3, <2>4, MergedList
  <2>6. server' = [server EXCEPT !.version = @ + 1, !.conditions = list]
    BY <1>1, <2>1 DEF ServerOK
  <2> HIDE DEF list
  <2>7. list \in Values /\ ValueOK("conditions", list)
    BY <2>5 DEF Values, ValueOK
  <2>8. /\ server'.version = server.version + 1 /\ server'.generation = server.generation
        /\ server'.conditions = list
    BY <1>1, <2>6 DEF ServerOK
  <2>9. server'.version \in 1..MaxWrites /\ server'.generation \in 1..server'.version
    BY <1>1, <2>2, <2>8, TypesAssumption DEF ServerOK
  <2>10. server' \in [spec : Specs, lastUpdateTime : Times \union {Nil}, conditions : Values,
                      generation : Nat, version : 1..MaxWrites]
    BY <1>1, <2>6, <2>7, <2>8, <2>9 DEF ServerOK
  <2> QED BY <2>2, <2>5, <2>7, <2>8, <2>9, <2>10 DEF ServerOK, ValueOK
<1> QED BY <1>2, <1>3

----------------------------------------------------------------------------
(* Type correctness, and who writes what.                                  *)

StateInv == TypeOK /\ Separate /\ TimeSet

LEMMA InitState == Init => StateInv
<1> SUFFICES ASSUME Init PROVE StateInv
  OBVIOUS
<1>1. PICK x \in Specs :
        server = [spec |-> x, lastUpdateTime |-> Nil, conditions |-> Nil, generation |-> 1, version |-> 1]
  BY DEF Init
<1>2. heap \in [Fields -> [Slots -> Values]]
  BY DEF Init, Values
<1>3. object \in [Owners -> ObjectType \union {NoObject}] /\ \A o \in Owners : object[o] = NoObject
  BY DEF Init
<1>4. Nil \in Values /\ 1 \in 1..MaxWrites
  BY TypesAssumption DEF Values
<1>5. "reconciler" \in Owners
  BY DEF Owners
<1>6. TypeOK
  BY <1>1, <1>2, <1>3, <1>4, <1>5 DEF TypeOK, Init
<1> QED BY <1>3, <1>6 DEF StateInv, Separate, TimeSet, Init

\* After a step of owner o that leaves the others alone, the state is well
\* formed if the server's object and the owner's are.
LEMMA MemoryStepState ==
    ASSUME StateInv, NEW o \in Owners, MemoryStep(o), ServerOK', server.version <= server'.version,
           ObjectOK(o)', pc' \in {"idle", "time", "condition", "update"},
           (object'["reconciler"] = NoObject) = (pc' = "idle"), TimeSet'
    PROVE  StateInv'
<1>1. \A q \in Owners : ObjectOK(q)'
  <2> TAKE q \in Owners
  <2>1. CASE q = o
    BY <2>1
  <2>2. CASE q # o
    BY <2>2, OthersOK DEF StateInv, MemoryStep
  <2> QED BY <2>1, <2>2
<1>2. TypeOK'
  BY <1>1, TypeParts DEF MemoryStep
<1> QED BY <1>2 DEF StateInv, MemoryStep

\* Every action keeps the state well formed.
LEMMA NextState == StateInv /\ [Next]_vars => StateInv'
<1> SUFFICES ASSUME StateInv, [Next]_vars PROVE StateInv'
  OBVIOUS
<1>1. TypeOK /\ Separate /\ TimeSet /\ ServerOK
  BY TypeParts DEF StateInv
<1>2. "cache" \in Owners /\ "reconciler" \in Owners /\ "webhook" \in Owners
  BY DEF Owners
<1>3. /\ pc \in {"idle", "time", "condition", "update"}
      /\ (object["reconciler"] = NoObject) = (pc = "idle")
      /\ server.version \in Nat
  BY <1>1, TypesAssumption DEF TypeOK
<1>4. UNCHANGED server => ServerOK' /\ server.version <= server'.version
  BY <1>1, <1>3 DEF ServerOK
<1>5. ASSUME NEW o \in Owners \ {"reconciler"}, MemoryStep(o), UNCHANGED <<server, pc>>, ObjectOK(o)'
      PROVE  StateInv'
  <2>1. object'["reconciler"] = object["reconciler"]
    BY <1>2, <1>5 DEF MemoryStep, KeepsOthers
  <2>2. TimeSet'
    BY <1>1, <1>5, <2>1 DEF TimeSet
  <2> QED BY <1>3, <1>4, <1>5, <2>1, <2>2, MemoryStepState
<1>6. CASE (\E x \in Specs : UserWrites(x)) \/ (\E t \in OtherTypes : OtherWrites(t))
  <2>1. /\ ServerOK' /\ server'.version = server.version + 1
        /\ heap' = heap /\ object' = object /\ pc' = pc
    BY <1>1, <1>6, ClientStep
  <2>2. server.version <= server'.version
    BY <1>3, <2>1
  <2>3. KeepsOthers("cache") /\ KeepsOthers("webhook")
    BY <2>1 DEF KeepsOthers
  <2>4. \A q \in Owners : ObjectOK(q)'
    BY <1>1, <1>2, <2>1, <2>2, <2>3, OthersOK
  <2>5. TypeOK'
    BY <1>1, <2>1, <2>4, TypeParts DEF TypeOK
  <2> QED BY <1>1, <2>1, <2>5 DEF StateInv, Separate, TimeSet
<1>7. CASE Observe
  BY <1>1, <1>2, <1>5, <1>7, ObserveStep DEF Observe
<1>8. CASE Get
  <2>1. object["cache"] # NoObject /\ DeepCopy("reconciler") /\ UNCHANGED server /\ pc' = "time"
    BY <1>8 DEF Get
  <2>2. MemoryStep("reconciler") /\ ObjectOK("reconciler")' /\ object'["reconciler"] # NoObject
    BY <1>1, <1>2, <2>1, DeepCopyStep
  <2>3. TimeSet'
    BY <2>1 DEF TimeSet
  <2> QED BY <1>2, <1>4, <2>1, <2>2, <2>3, MemoryStepState
<1>9. CASE SetTime
  <2>1. UNCHANGED server /\ pc' = "condition"
    BY <1>9 DEF SetTime
  <2>2. /\ MemoryStep("reconciler") /\ ObjectOK("reconciler")' /\ object'["reconciler"] # NoObject
        /\ object'["reconciler"].at["lastUpdateTime"] # Nil
    BY <1>1, <1>9, SetTimeStep
  <2>3. TimeSet'
    BY <2>2 DEF TimeSet
  <2> QED BY <1>2, <1>4, <2>1, <2>2, <2>3, MemoryStepState
<1>10. CASE SetCondition
  <2>1. UNCHANGED server /\ pc' = "update"
    BY <1>10 DEF SetCondition
  <2>2. /\ MemoryStep("reconciler") /\ ObjectOK("reconciler")' /\ object'["reconciler"] # NoObject
        /\ object'["reconciler"].at["lastUpdateTime"] # Nil
    BY <1>1, <1>10, SetConditionStep
  <2>3. TimeSet'
    BY <2>2 DEF TimeSet
  <2> QED BY <1>2, <1>4, <2>1, <2>2, <2>3, MemoryStepState
<1>11. CASE Update
  <2>1. pc' = "idle"
    BY <1>11 DEF Update
  <2>2. /\ MemoryStep("reconciler") /\ ServerOK' /\ object'["reconciler"] = NoObject
        /\ UNCHANGED server \/ server'.version = server.version + 1
    BY <1>1, <1>11, UpdateStep
  <2>3. server.version <= server'.version
    BY <1>3, <2>2
  <2>4. TimeSet' /\ ObjectOK("reconciler")'
    BY <2>1, <2>2 DEF TimeSet, ObjectOK
  <2> QED BY <1>2, <2>1, <2>2, <2>3, <2>4, MemoryStepState
<1>12. CASE ListStubs
  BY <1>1, <1>2, <1>5, <1>12, DeepCopyStep DEF ListStubs
<1>13. CASE Answer
  <2>1. MemoryStep("webhook") /\ object'["webhook"] = NoObject
    BY <1>1, <1>2, <1>13, ReleaseMemory DEF Answer, MemoryStep
  <2>2. ObjectOK("webhook")'
    BY <2>1 DEF ObjectOK
  <2> QED BY <1>2, <1>5, <1>13, <2>1, <2>2 DEF Answer
<1>14. CASE UNCHANGED vars
  BY <1>14 DEF vars, StateInv, TypeOK, Separate, TimeSet, Read, ValueOK
<1> QED BY <1>6, <1>7, <1>8, <1>9, <1>10, <1>11, <1>12, <1>13, <1>14 DEF Next, Reconciler, Webhook

LEMMA StateInvariant == Spec => []StateInv
<1>1. StateInv /\ [Next]_vars => StateInv'
  BY NextState
<1> QED BY <1>1, InitState, PTL DEF Spec

\* The server's object, the memory and every object of the cache, the
\* reconciler and the webhook are well formed in every state, and every
\* reference leads to a value of its field: DeepCopyInto, the decoding of an
\* event and updateStatus leave no field pointing at nothing.
THEOREM TypeCorrect == Spec => []TypeOK
<1>1. StateInv => TypeOK
  BY DEF StateInv
<1> QED BY <1>1, StateInvariant, PTL

\* What the cache, the reconciler or a webhook request reads in its object
\* changes by its own steps only, whoever runs in between: updateStatus sets
\* the time and overwrites a condition in memory nobody else refers to.
THEOREM NobodySharesMemory == Spec => OnlyOwnersWrite
<1> DEFINE Alone ==
      /\ Contents("cache")' # Contents("cache") => Observe
      /\ Contents("reconciler")' # Contents("reconciler") => Reconciler
      /\ Contents("webhook")' # Contents("webhook") => Webhook
<1>1. StateInv /\ [Next]_vars => [Alone]_vars
  <2> SUFFICES ASSUME StateInv, Next PROVE Alone
    OBVIOUS
  <2>1. TypeOK /\ Separate /\ TimeSet
    BY DEF StateInv
  <2>2. "cache" \in Owners /\ "reconciler" \in Owners /\ "webhook" \in Owners
    BY DEF Owners
  <2>3. ASSUME NEW o \in Owners, NEW q \in Owners \ {o}, MemoryStep(o)
        PROVE  Contents(q)' = Contents(q)
    BY <2>3, OthersRead DEF MemoryStep
  <2>4. CASE (\E x \in Specs : UserWrites(x)) \/ (\E t \in OtherTypes : OtherWrites(t))
    <3>1. UNCHANGED <<heap, object>>
      BY <2>1, <2>4, ClientStep
    <3> QED BY <3>1 DEF Contents, Read
  <2>5. CASE Observe
    BY <2>1, <2>2, <2>3, <2>5, ObserveStep
  <2>6. CASE Reconciler
    <3>1. Get => MemoryStep("reconciler")
      BY <2>1, <2>2, DeepCopyStep DEF Get
    <3>2. MemoryStep("reconciler")
      BY <2>1, <2>6, <3>1, SetTimeStep, SetConditionStep, UpdateStep DEF Reconciler
    <3> QED BY <2>2, <2>3, <2>6, <3>2
  <2>7. CASE Webhook
    <3>1. ListStubs => MemoryStep("webhook")
      BY <2>1, <2>2, DeepCopyStep DEF ListStubs
    <3>2. Answer => MemoryStep("webhook")
      BY <2>1, <2>2, ReleaseMemory DEF Answer, MemoryStep
    <3>3. MemoryStep("webhook")
      BY <2>7, <3>1, <3>2 DEF Webhook
    <3> QED BY <2>2, <2>3, <2>7, <3>3
  <2> QED BY <2>4, <2>5, <2>6, <2>7 DEF Next
<1>2. OnlyOwnersWrite <=> [][Alone]_vars
  BY DEF OnlyOwnersWrite
<1> QED BY <1>1, <1>2, StateInvariant, PTL DEF Spec

----------------------------------------------------------------------------
(* The conditions.                                                         *)

ConditionsInv == AllDistinct /\ UpToDate

LEMMA InitConditions == Init => ConditionsInv
  BY DEF Init, ConditionsInv, AllDistinct, UpToDate, Distinct, List, Owners

\* A step of owner o that leaves the others and the server alone.
LEMMA OthersConditions ==
    ASSUME StateInv, ConditionsInv, NEW o \in Owners, MemoryStep(o), UNCHANGED server,
           object'[o] # NoObject =>
              /\ Distinct(Read(o, "conditions"))'
              /\ o \in {"cache", "reconciler"} /\ object'[o].version = server.version
                    => OthersIn(server.conditions, Read(o, "conditions")')
    PROVE  ConditionsInv'
<1>1. "conditions" \in Fields
  BY DEF Fields
<1>2. ASSUME NEW q \in Owners \ {o}, object'[q] # NoObject
      PROVE  object'[q] = object[q] /\ Read(q, "conditions")' = Read(q, "conditions")
  BY <1>1, <1>2, OthersRead DEF MemoryStep
<1>3. AllDistinct'
  <2>1. Distinct(server'.conditions)
    BY DEF ConditionsInv, AllDistinct
  <2>2. ASSUME NEW q \in Owners, object'[q] # NoObject PROVE Distinct(Read(q, "conditions"))'
    BY <1>2, <2>2 DEF ConditionsInv, AllDistinct, Distinct
  <2> QED BY <2>1, <2>2 DEF AllDistinct, Distinct
<1>4. UpToDate'
  <2> SUFFICES ASSUME NEW q \in {"cache", "reconciler"}, object'[q] # NoObject,
                      object'[q].version = server'.version
               PROVE  OthersIn(server.conditions, Read(q, "conditions")')
    BY DEF UpToDate, OthersIn
  <2>1. q \in Owners
    BY DEF Owners
  <2>2. CASE q = o
    BY <2>2
  <2>3. CASE q # o
    BY <1>2, <2>1, <2>3 DEF ConditionsInv, UpToDate
  <2> QED BY <2>2, <2>3
<1> QED BY <1>3, <1>4 DEF ConditionsInv

\* A write at the server leaves every object behind its version.
LEMMA LateObjects ==
    ASSUME StateInv, server'.version = server.version + 1, NEW q \in Owners,
           object'[q] = object[q], object[q] # NoObject
    PROVE  object'[q].version # server'.version
<1>1. object[q].version <= server.version /\ server.version \in Nat
  BY TypesAssumption DEF StateInv, TypeOK
<1>2. object[q].version \in Nat
  BY ObjectShape DEF StateInv
<1> QED BY <1>1, <1>2

\* The conditions stay distinct and up to date.
LEMMA NextConditions == StateInv /\ ConditionsInv /\ [Next]_vars => ConditionsInv'
<1> SUFFICES ASSUME StateInv, ConditionsInv, [Next]_vars PROVE ConditionsInv'
  OBVIOUS
<1>1. TypeOK /\ Separate /\ TimeSet /\ AllDistinct /\ UpToDate
  BY DEF StateInv, ConditionsInv
<1>2. /\ "cache" \in Owners /\ "reconciler" \in Owners /\ "webhook" \in Owners
      /\ "conditions" \in Fields
  BY DEF Owners, Fields
<1>3. CASE (\E x \in Specs : UserWrites(x)) \/ (\E t \in OtherTypes : OtherWrites(t))
  <2>1. /\ server'.version = server.version + 1 /\ heap' = heap /\ object' = object
        /\ Distinct(server.conditions) => Distinct(server'.conditions)
    BY <1>1, <1>3, ClientStep
  <2>2. UpToDate'
    BY <1>2, <2>1, LateObjects DEF UpToDate
  <2>3. \A o \in Owners : object'[o] # NoObject => Distinct(Read(o, "conditions"))'
    BY <1>1, <2>1 DEF AllDistinct, Distinct, Read
  <2>4. AllDistinct'
    BY <1>1, <2>1, <2>3 DEF AllDistinct, Distinct
  <2> QED BY <2>2, <2>4 DEF ConditionsInv
<1>4. CASE Observe
  <2>1. /\ MemoryStep("cache") /\ Read("cache", "conditions")' = server.conditions
        /\ UNCHANGED server
    BY <1>1, <1>4, ObserveStep DEF Observe
  <2>2. Distinct(Read("cache", "conditions"))'
    BY <1>1, <2>1 DEF AllDistinct, Distinct
  <2>3. OthersIn(server.conditions, Read("cache", "conditions")')
    BY <2>1 DEF OthersIn
  <2> QED BY <1>2, <2>1, <2>2, <2>3, OthersConditions
<1>5. ASSUME NEW o \in Owners \ {"cache"}, object["cache"] # NoObject, DeepCopy(o), UNCHANGED server
      PROVE  ConditionsInv'
  <2>1. /\ MemoryStep(o) /\ object'[o].version = object["cache"].version
        /\ Read(o, "conditions")' = Read("cache", "conditions")
    BY <1>1, <1>2, <1>5, DeepCopyStep
  <2>2. Distinct(Read(o, "conditions"))'
    BY <1>1, <1>2, <1>5, <2>1 DEF AllDistinct, Distinct
  <2>3. object'[o].version = server.version => OthersIn(server.conditions, Read(o, "conditions")')
    BY <1>1, <1>5, <2>1 DEF UpToDate
  <2> QED BY <1>5, <2>1, <2>2, <2>3, OthersConditions
<1>6. CASE SetTime
  <2>1. /\ MemoryStep("reconciler") /\ object'["reconciler"].version = object["reconciler"].version
        /\ Read("reconciler", "conditions")' = Read("reconciler", "conditions")
        /\ UNCHANGED server
    BY <1>1, <1>6, SetTimeStep DEF SetTime
  <2>2. object["reconciler"] # NoObject
    BY <1>1, <1>6 DEF TypeOK, SetTime
  <2>3. Distinct(Read("reconciler", "conditions"))'
    BY <1>1, <1>2, <2>1, <2>2 DEF AllDistinct, Distinct
  <2>4. object'["reconciler"].version = server.version
           => OthersIn(server.conditions, Read("reconciler", "conditions")')
    BY <1>1, <2>1, <2>2 DEF UpToDate
  <2> QED BY <1>2, <2>1, <2>3, <2>4, OthersConditions
<1>7. CASE SetCondition
  <2> DEFINE old == Read("reconciler", "conditions")
             new == Merged(List(old), ReadyCondition)
  <2>1. /\ MemoryStep("reconciler") /\ object'["reconciler"].version = object["reconciler"].version
        /\ ReadyCondition \in Conditions
        /\ Read("reconciler", "conditions")' = new /\ UNCHANGED server
    BY <1>1, <1>7, SetConditionStep DEF SetCondition
  <2>2. object["reconciler"] # NoObject
    BY <1>1, <1>7 DEF TypeOK, SetCondition
  <2>3. old \in Seq(Conditions) \union {Nil}
    BY <1>1, <1>2, <2>2, ReadIsValue
  <2>4. Distinct(old)
    BY <1>1, <1>2, <2>2 DEF AllDistinct
  <2>5. object["reconciler"].version = server.version => OthersIn(server.conditions, old)
    BY <1>1, <2>2 DEF UpToDate
  <2>6. ReadyCondition.type = Ready
    BY DEF ReadyCondition
  <2> HIDE DEF old
  <2>7. List(old) \in Seq(Conditions) /\ List(List(old)) = List(old) /\ Distinct(List(old))
    <3>1. List(old) \in Seq(Conditions) /\ List(List(old)) = List(old)
      BY <2>3, ListOfSeq
    <3> QED BY <2>4, <3>1 DEF Distinct
  <2>8. /\ new \in Seq(Conditions)
        /\ Distinct(List(old)) => Distinct(new)
        /\ \A d \in ToSet(List(List(old))) : d.type # ReadyCondition.type => d \in ToSet(new)
    BY <2>1, <2>7, MergedList
  <2> HIDE DEF new
  <2>9. Distinct(Read("reconciler", "conditions"))'
    BY <2>1, <2>7, <2>8 DEF Distinct
  <2>10. List(new) = new
    BY <2>8, TypesAssumption DEF List
  <2>11. object'["reconciler"].version = server.version
            => OthersIn(server.conditions, Read("reconciler", "conditions")')
    BY <2>1, <2>5, <2>6, <2>7, <2>8, <2>10 DEF OthersIn
  <2> QED BY <1>2, <2>1, <2>9, <2>11, OthersConditions
<1>8. CASE Update
  <2>1. /\ MemoryStep("reconciler") /\ object'["reconciler"] = NoObject
        /\ \/ UNCHANGED server
           \/ /\ server'.version = server.version + 1
              /\ server'.conditions = Read("reconciler", "conditions")
    BY <1>1, <1>8, UpdateStep
  <2>2. CASE UNCHANGED server
    BY <1>2, <2>1, <2>2, OthersConditions
  <2>3. CASE /\ server'.version = server.version + 1
             /\ server'.conditions = Read("reconciler", "conditions")
    <3>1. ASSUME NEW q \in Owners, object'[q] # NoObject
          PROVE  object'[q] = object[q] /\ Read(q, "conditions")' = Read(q, "conditions")
      BY <1>2, <2>1, <3>1, OthersRead DEF MemoryStep
    <3>2. object["reconciler"] # NoObject
      BY <1>1, <1>8 DEF TypeOK, Update
    <3>3. Distinct(server'.conditions)
      BY <1>1, <1>2, <2>3, <3>2 DEF AllDistinct
    <3>4. \A q \in Owners : object'[q] # NoObject => Distinct(Read(q, "conditions"))'
      BY <1>1, <3>1 DEF AllDistinct, Distinct
    <3>5. AllDistinct'
      BY <3>3, <3>4 DEF AllDistinct, Distinct
    <3>6. UpToDate'
      BY <1>2, <2>3, <3>1, LateObjects DEF UpToDate
    <3> QED BY <3>5, <3>6 DEF ConditionsInv
  <2> QED BY <2>1, <2>2, <2>3
<1>9. CASE Answer
  <2>1. MemoryStep("webhook") /\ object'["webhook"] = NoObject /\ UNCHANGED server
    BY <1>1, <1>2, <1>9, ReleaseMemory DEF Answer, MemoryStep
  <2> QED BY <1>2, <2>1, OthersConditions
<1>10. CASE Get
  BY <1>2, <1>5, <1>10 DEF Get
<1>11. CASE ListStubs
  BY <1>2, <1>5, <1>11 DEF ListStubs
<1>12. CASE UNCHANGED vars
  BY <1>12 DEF vars, ConditionsInv, AllDistinct, UpToDate, Distinct, OthersIn, Read
<1> QED BY <1>3, <1>4, <1>6, <1>7, <1>8, <1>9, <1>10, <1>11, <1>12 DEF Next, Reconciler, Webhook

LEMMA ConditionsInvariant == Spec => [](StateInv /\ ConditionsInv)
<1>1. ConditionsInv /\ StateInv /\ [Next]_vars => ConditionsInv'
  BY NextConditions
<1> QED BY <1>1, InitConditions, StateInvariant, PTL DEF Spec

\* However status writes, conflicts and other writers alternate, the status
\* at the server has one condition of a type: the merge of updateStatus
\* replaces its own condition where it is, and works on a list that had one of
\* each type when it was read.
THEOREM ConditionsAreDistinct == Spec => []OneOfEachType
<1>1. ConditionsInv => OneOfEachType
  BY DEF ConditionsInv, AllDistinct, Distinct, List, OneOfEachType
<1> QED BY <1>1, ConditionsInvariant, PTL

\* A status write loses no condition of another writer, for any number of
\* writers: it is stored only at the version the object was read at, and then
\* the list it carries still has all that others have stored.
THEOREM NoConditionIsLost == Spec => OthersConditionsKept
<1> DEFINE Kept == \A c \in ToSet(List(server.conditions)) :
                      Update /\ c.type # Ready => c \in ToSet(List(server'.conditions))
<1>1. StateInv /\ ConditionsInv /\ [Next]_vars => [Kept]_vars
  <2> SUFFICES ASSUME StateInv, ConditionsInv, Update PROVE Kept
    OBVIOUS
  <2>1. TypeOK /\ Separate /\ TimeSet /\ UpToDate
    BY DEF StateInv, ConditionsInv
  <2>2. object["reconciler"] # NoObject
    BY <2>1 DEF TypeOK, Update
  <2>3. \/ UNCHANGED server
        \/ /\ object["reconciler"].version = server.version
           /\ server'.conditions = Read("reconciler", "conditions")
    BY <2>1, UpdateStep
  <2>4. object["reconciler"].version = server.version
           => OthersIn(server.conditions, Read("reconciler", "conditions"))
    BY <2>1, <2>2 DEF UpToDate
  <2> QED BY <2>3, <2>4 DEF OthersIn
<1>2. OthersConditionsKept <=> [][Kept]_vars
  BY DEF OthersConditionsKept
<1> QED BY <1>1, <1>2, ConditionsInvariant, PTL DEF Spec
============================================================================
