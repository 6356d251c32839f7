------------------------- MODULE GraphObjectsProofs -------------------------
(***************************************************************************)
(* Proofs about nodes and links with attributes, for every scheme, all     *)
(* names and values and any data that callers pass: what a call has        *)
(* returned or written is what the database holds, and setting a weight    *)
(* changes nothing else.                                                   *)
(***************************************************************************)
EXTENDS GraphObjects, SequenceTheorems, TLAPS

AnyValue == Value \union {NoValue}
AnyData == Value \union {NoValue, Bad}

Object == {Dropped} \union [type : Type, ends : Seq(Nat), attr : Maps(AnyValue)]

\* The scheme knows each type's weight, and what a Dao has read of the scheme
\* still holds under the names that are left of it.
SchemeInv ==
  /\ scheme \in [Type -> Maps(AnyValue)] /\ given \in [Type -> SUBSET Name]
  /\ names \in [Type -> Name] /\ defaults \in [Type -> Maps(Value)]
  /\ \A t \in Type :
       /\ DOMAIN scheme[t] \subseteq given[t] /\ DOMAIN defaults[t] \subseteq given[t]
       /\ names[t] \in DOMAIN scheme[t]
       /\ \A n \in Known(t, defaults[t]) : defaults[t][n] = scheme[t][n]

ObjectsInv ==
  /\ objects \in Seq(Object)
  /\ \A i \in DOMAIN objects : objects[i] = Dropped \/ ObjectOK(objects[i])

\* A copy in use is one of an object that is there, and of its type.
Held(c) ==
  /\ c = Copy(c.type, c.id, c.data)
  /\ c.type \in Type /\ c.id \in DOMAIN objects /\ c.data \in Maps(AnyData)
  /\ objects[c.id].type = c.type

CopyInv == copy = NoCopy \/ Held(copy)

\* The inductive invariant
IInv == SchemeInv /\ ObjectsInv /\ CopyInv

LEMMA IInvIsStronger == IInv => TypeOK
  BY DEF IInv, SchemeInv, ObjectsInv, CopyInv, Held, TypeOK, AnyValue, AnyData

---------------------------------------------------------------------------
(* Maps from names to values *)

LEMMA MapsAre ==
  ASSUME NEW V, NEW f
  PROVE  f \in Maps(V) <=> (DOMAIN f \subseteq Name /\ f \in [DOMAIN f -> V])
  BY DEF Maps

LEMMA OverIs ==
  ASSUME NEW V, NEW f \in Maps(V), NEW g \in Maps(V)
  PROVE  /\ Over(f, g) \in Maps(V)
         /\ DOMAIN Over(f, g) = DOMAIN f \union DOMAIN g
<1>1. /\ DOMAIN f \subseteq Name /\ f \in [DOMAIN f -> V]
      /\ DOMAIN g \subseteq Name /\ g \in [DOMAIN g -> V]
  BY MapsAre
<1>2. /\ DOMAIN Over(f, g) = DOMAIN f \union DOMAIN g
      /\ Over(f, g) \in [DOMAIN f \union DOMAIN g -> V]
  BY <1>1 DEF Over
<1> QED BY <1>1, <1>2, MapsAre

LEMMA OnlyIs ==
  ASSUME NEW V, NEW n \in Name, NEW v \in V
  PROVE  Only(n, v) \in Maps(V)
<1>1. DOMAIN Only(n, v) = {n} /\ Only(n, v) \in [{n} -> V]
  BY DEF Only
<1> QED BY <1>1, MapsAre

LEMMA MapsGrow ==
  ASSUME NEW V, NEW U, V \subseteq U
  PROVE  Maps(V) \subseteq Maps(U)
<1> SUFFICES ASSUME NEW f \in Maps(V) PROVE f \in Maps(U)
  OBVIOUS
<1> QED BY MapsAre

\* GetAttributes never lists a NULL.
LEMMA ValuesIs ==
  ASSUME NEW f \in Maps(AnyValue)
  PROVE  /\ Values(f) \in Maps(Value)
         /\ DOMAIN Values(f) \subseteq DOMAIN f
         /\ \A n \in DOMAIN Values(f) : Values(f)[n] = f[n]
<1>1. DOMAIN f \subseteq Name /\ f \in [DOMAIN f -> AnyValue]
  BY MapsAre
<1>2. /\ DOMAIN Values(f) \subseteq DOMAIN f
      /\ Values(f) \in [DOMAIN Values(f) -> Value]
      /\ \A n \in DOMAIN Values(f) : Values(f)[n] = f[n]
  BY <1>1 DEF Values, AnyValue
<1> QED BY <1>1, <1>2, MapsAre

LEMMA RenamedIs ==
  ASSUME NEW f \in Maps(AnyValue), NEW old \in DOMAIN f, NEW new \in Name \ DOMAIN f
  PROVE  /\ Renamed(f, old, new) \in Maps(AnyValue)
         /\ DOMAIN Renamed(f, old, new) = (DOMAIN f \ {old}) \union {new}
         /\ \A n \in DOMAIN f \ {old} : Renamed(f, old, new)[n] = f[n]
<1>1. DOMAIN f \subseteq Name /\ f \in [DOMAIN f -> AnyValue]
  BY MapsAre
<1>2. /\ DOMAIN Renamed(f, old, new) = (DOMAIN f \ {old}) \union {new}
      /\ Renamed(f, old, new) \in [(DOMAIN f \ {old}) \union {new} -> AnyValue]
      /\ \A n \in DOMAIN f \ {old} : Renamed(f, old, new)[n] = f[n]
  BY <1>1 DEF Renamed
<1> QED BY <1>1, <1>2, MapsAre

\* What updateAttrMap writes is of the right data type.
LEMMA WrittenIs ==
  ASSUME NEW t, NEW attr \in Maps(AnyValue), DOMAIN attr = DOMAIN scheme[t],
         NEW data \in Maps(AnyData), NEW W \in SUBSET Known(t, data),
         \A n \in W : data[n] # Bad
  PROVE  /\ Written(attr, data, W) \in Maps(AnyValue)
         /\ DOMAIN Written(attr, data, W) = DOMAIN attr
         /\ \A n \in W : Written(attr, data, W)[n] = data[n]
<1>1. /\ DOMAIN attr \subseteq Name /\ attr \in [DOMAIN attr -> AnyValue]
      /\ DOMAIN data \subseteq Name /\ data \in [DOMAIN data -> AnyData]
  BY MapsAre
<1>2. \A n \in W : n \in DOMAIN data /\ n \in DOMAIN attr /\ data[n] \in AnyValue
  BY <1>1 DEF Known, AnyData, AnyValue
<1>3. /\ DOMAIN Written(attr, data, W) = DOMAIN attr
      /\ Written(attr, data, W) \in [DOMAIN attr -> AnyValue]
      /\ \A n \in W : Written(attr, data, W)[n] = data[n]
  BY <1>1, <1>2 DEF Written
<1> QED BY <1>1, <1>3, MapsAre

\* It leaves out nothing that the type knows when it returns true.
LEMMA WritesAre ==
  ASSUME NEW t, NEW data, NEW W, NEW ok \in BOOLEAN, UpdateAttrMap(t, data, W, ok)
  PROVE  /\ W \in SUBSET Known(t, data) /\ \A n \in W : data[n] # Bad
         /\ ok => W = Known(t, data)
  BY DEF UpdateAttrMap

---------------------------------------------------------------------------
(* What steps leave alone *)

LEMMA SchemeStays ==
  ASSUME SchemeInv, UNCHANGED <<scheme, given, names, defaults>>
  PROVE  SchemeInv'
  BY DEF SchemeInv, Known

LEMMA CopyStays ==
  ASSUME CopyInv, copy' = copy, DOMAIN objects \subseteq DOMAIN objects',
         \A i \in DOMAIN objects : objects'[i].type = objects[i].type
  PROVE  CopyInv'
  BY DEF CopyInv, Held

\* An object of some type has not been dropped.
LEMMA ObjectIs ==
  ASSUME ObjectsInv, SchemeInv, NEW i \in DOMAIN objects, objects[i].type \in Type
  PROVE  /\ ObjectOK(objects[i])
         /\ objects[i] = [type |-> objects[i].type, ends |-> objects[i].ends,
                          attr |-> objects[i].attr]
         /\ objects[i].ends \in Seq(Nat)
         /\ objects[i].attr \in Maps(AnyValue)
         /\ DOMAIN objects[i].attr = DOMAIN scheme[objects[i].type]
<1>1. objects[i] # Dropped
  BY ConstantsAssumption DEF Dropped, Type
<1>2. ObjectOK(objects[i]) /\ objects[i] \in Object
  BY <1>1 DEF ObjectsInv
<1> QED BY <1>1, <1>2 DEF Object, ObjectOK

\* What the promise of a call is worth when it returns or has written a copy.
LEMMA Kept ==
  ASSUME NEW t \in Type, NEW i, NEW data, call' = Agrees(Copy(t, i, data)),
         i \in DOMAIN objects', objects'[i].type = t,
         \A n \in Known(t, data)' : objects'[i].attr[n] = data[n]
  PROVE  AnswersAgree'
<1>1. objects'[i] # Dropped
  BY ConstantsAssumption DEF Dropped, Type
<1> QED BY <1>1 DEF AnswersAgree, Agrees, Copy, Alive, Known

\* Where a call sets a weight by an id, the step of WeightAlone.
WeightStep ==
  call'.kind = "weight" =>
    LET i == call'.id IN
    objects' = [objects EXCEPT ![i].attr =
                  [@ EXCEPT ![names[objects[i].type]] = call'.value]]
    /\ names[objects[i].type] \in DOMAIN objects[i].attr

Good == IInv' /\ AnswersAgree' /\ WeightStep

LEMMA NothingPromised ==
  ASSUME IInv', call' = NoPromise PROVE Good
  BY DEF Good, NoPromise, AnswersAgree, WeightStep

LEMMA OnlyACopy ==
  ASSUME IInv', NEW c, call' = Agrees(c), AnswersAgree' PROVE Good
  BY DEF Good, Agrees, WeightStep

---------------------------------------------------------------------------
(* Names and types of attributes *)

LEMMA SetGraphIsGood == ASSUME IInv, SetGraph PROVE Good
<1>1. \A t \in Type : /\ Values(scheme[t]) \in Maps(Value)
                      /\ DOMAIN Values(scheme[t]) \subseteq DOMAIN scheme[t]
                      /\ \A n \in DOMAIN Values(scheme[t]) : Values(scheme[t])[n] = scheme[t][n]
  BY ValuesIs DEF IInv, SchemeInv
<1>2. SchemeInv'
  BY <1>1 DEF IInv, SchemeInv, SetGraph, Known
<1>3. ObjectsInv' /\ CopyInv'
  BY DEF IInv, ObjectsInv, ObjectOK, CopyInv, Held, SetGraph
<1> QED BY <1>2, <1>3, NothingPromised DEF SetGraph, IInv

\* Steps that change nothing of objects but attributes, to those of the scheme.
LEMMA AttributesChange ==
  ASSUME IInv, SchemeInv', copy' = copy,
         objects' = [i \in DOMAIN objects |-> objects'[i]],
         \A i \in DOMAIN objects :
           IF objects[i] = Dropped THEN objects'[i] = Dropped
           ELSE \E a \in Maps(AnyValue) :
                  /\ DOMAIN a = DOMAIN scheme'[objects[i].type]
                  /\ objects'[i] = [objects[i] EXCEPT !.attr = a]
  PROVE  ObjectsInv' /\ CopyInv'
<1>1. objects \in Seq(Object) /\ DOMAIN objects = 1..Len(objects) /\ Len(objects) \in Nat
  BY DEF IInv, ObjectsInv
<1>2. ASSUME NEW i \in DOMAIN objects, objects[i] # Dropped
      PROVE  /\ objects[i] \in [type : Type, ends : Seq(Nat), attr : Maps(AnyValue)]
             /\ ObjectOK(objects[i])
  BY <1>2 DEF IInv, ObjectsInv, Object
<1>3. ASSUME NEW i \in DOMAIN objects
      PROVE  /\ objects'[i] \in Object
             /\ objects'[i].type = objects[i].type
             /\ objects[i] # Dropped => objects'[i].ends = objects[i].ends
  <2>1. CASE objects[i] = Dropped
    BY <2>1 DEF Object
  <2>2. CASE objects[i] # Dropped
    <3>1. PICK a \in Maps(AnyValue) : objects'[i] = [objects[i] EXCEPT !.attr = a]
      BY <2>2
    <3> QED BY <1>2, <2>2, <3>1 DEF Object
  <2> QED BY <2>1, <2>2
<1>4. objects' \in Seq(Object)
  BY <1>1, <1>3
<1>5. ASSUME NEW i \in DOMAIN objects, objects[i] # Dropped
      PROVE  ObjectOK(objects[i])'
  <2>1. PICK a \in Maps(AnyValue) : /\ DOMAIN a = DOMAIN scheme'[objects[i].type]
                                    /\ objects'[i] = [objects[i] EXCEPT !.attr = a]
    BY <1>5
  <2>2. objects'[i].attr = a /\ objects'[i].type = objects[i].type /\ objects[i].type \in Type
    BY <1>2, <1>5, <2>1
  <2>3. a \in [DOMAIN a -> AnyValue]
    BY MapsAre
  <2>4. {j \in DOMAIN objects' : objects'[j].type = "node"}
          = {j \in DOMAIN objects : objects[j].type = "node"}
    BY <1>3
  <2>5. IF objects[i].type = "node" THEN objects'[i].ends = << >>
        ELSE objects'[i].ends \in {<<a1, b1>> : a1, b1 \in
                                     {j \in DOMAIN objects' : objects'[j].type = "node"}}
    BY <1>2, <1>3, <1>5, <2>4 DEF ObjectOK
  <2> QED BY <2>1, <2>2, <2>3, <2>5 DEF ObjectOK, AnyValue
<1>6. DOMAIN objects' = DOMAIN objects
  <2>1. DOMAIN [i \in DOMAIN objects |-> objects'[i]] = DOMAIN objects
    OBVIOUS
  <2> QED BY <2>1
<1>7. ObjectsInv'
  BY <1>4, <1>5, <1>6 DEF ObjectsInv
<1>8. CopyInv'
  BY <1>3, <1>6, CopyStays DEF IInv
<1> QED BY <1>7, <1>8

LEMMA AddAttrIsGood ==
  ASSUME IInv, NEW t \in Type, NEW n \in Name, NEW v \in AnyValue, NewName(t, n), AddAttr(t, n, v)
  PROVE  Good
<1>1. scheme[t] \in Maps(AnyValue) /\ Only(n, v) \in Maps(AnyValue)
  BY OnlyIs DEF IInv, SchemeInv
<1>2. /\ Over(Only(n, v), scheme[t]) \in Maps(AnyValue)
      /\ DOMAIN Over(Only(n, v), scheme[t]) = DOMAIN scheme[t] \union {n}
      /\ \A m \in DOMAIN scheme[t] : Over(Only(n, v), scheme[t])[m] = scheme[t][m]
  BY <1>1, OverIs DEF Over, Only, AddAttr
<1>3. SchemeInv'
  BY <1>2 DEF IInv, SchemeInv, AddAttr, NewName, Known
<1>4. ASSUME NEW i \in DOMAIN objects
      PROVE IF objects[i] = Dropped THEN objects'[i] = Dropped
            ELSE \E a \in Maps(AnyValue) :
                  /\ DOMAIN a = DOMAIN scheme'[objects[i].type]
                  /\ objects'[i] = [objects[i] EXCEPT !.attr = a]
  <2>1. CASE objects[i] = Dropped
    BY <2>1, ConstantsAssumption DEF AddAttr, Dropped, Type
  <2>2. CASE objects[i] # Dropped
    <3>1. objects[i].type \in Type
      BY <2>2 DEF IInv, ObjectsInv, ObjectOK
    <3>2. objects[i].attr \in Maps(AnyValue) /\ DOMAIN objects[i].attr = DOMAIN scheme[objects[i].type]
      BY <3>1, ObjectIs DEF IInv
    <3>3. CASE objects[i].type # t
      <4>1. objects'[i] = [objects[i] EXCEPT !.attr = objects[i].attr]
        BY <3>1, <3>3, ObjectIs DEF IInv, AddAttr
      <4>2. scheme'[objects[i].type] = scheme[objects[i].type]
        BY <3>1, <3>3 DEF AddAttr, IInv, SchemeInv
      <4> QED BY <2>2, <3>2, <4>1, <4>2
    <3>4. CASE objects[i].type = t
      <4> DEFINE a == Over(Only(n, NoValue), objects[i].attr)
      <4>1. Only(n, NoValue) \in Maps(AnyValue) /\ DOMAIN Only(n, NoValue) = {n}
        BY OnlyIs DEF AnyValue, Only
      <4>2. a \in Maps(AnyValue) /\ DOMAIN a = DOMAIN scheme[t] \union {n}
        BY <3>2, <3>4, <4>1, OverIs
      <4>3. DOMAIN scheme'[t] = DOMAIN scheme[t] \union {n}
        BY <1>2 DEF AddAttr, IInv, SchemeInv
      <4>4. objects'[i] = [objects[i] EXCEPT !.attr = a]
        BY <3>4 DEF AddAttr
      <4> QED BY <2>2, <3>4, <4>2, <4>3, <4>4
    <3> QED BY <3>3, <3>4
  <2> QED BY <2>1, <2>2
<1>5. objects' = [i \in DOMAIN objects |-> objects'[i]]
  BY DEF AddAttr
<1>6. ObjectsInv' /\ CopyInv'
  BY <1>3, <1>4, <1>5, AttributesChange DEF AddAttr
<1> QED BY <1>3, <1>6, NothingPromised DEF AddAttr, IInv

LEMMA RenameIsGood ==
  ASSUME IInv, NEW t \in Type, NEW new \in Name, NewName(t, new), RenameDefaultAttribute(t, new)
  PROVE  Good
<1>1. scheme[t] \in Maps(AnyValue) /\ names[t] \in DOMAIN scheme[t] /\ new \notin DOMAIN scheme[t]
  BY DEF IInv, SchemeInv, RenameDefaultAttribute
<1>2. /\ Renamed(scheme[t], names[t], new) \in Maps(AnyValue)
      /\ DOMAIN Renamed(scheme[t], names[t], new) = (DOMAIN scheme[t] \ {names[t]}) \union {new}
      /\ \A m \in DOMAIN scheme[t] \ {names[t]} :
           Renamed(scheme[t], names[t], new)[m] = scheme[t][m]
  <2>1. \A f, old : /\ f \in Maps(AnyValue) /\ old \in DOMAIN f /\ new \notin DOMAIN f
                    => /\ Renamed(f, old, new) \in Maps(AnyValue)
                       /\ DOMAIN Renamed(f, old, new) = (DOMAIN f \ {old}) \union {new}
                       /\ \A m \in DOMAIN f \ {old} : Renamed(f, old, new)[m] = f[m]
    BY RenamedIs
  <2> QED BY <1>1, <2>1
<1>3. SchemeInv'
  BY <1>1, <1>2 DEF IInv, SchemeInv, RenameDefaultAttribute, NewName, Known
<1>4. ASSUME NEW f \in Maps(AnyValue), names[t] \in DOMAIN f, new \notin DOMAIN f
      PROVE  /\ Renamed(f, names[t], new) \in Maps(AnyValue)
             /\ DOMAIN Renamed(f, names[t], new) = (DOMAIN f \ {names[t]}) \union {new}
  BY <1>4, RenamedIs, SMTT(30)
<1>5. ASSUME NEW i \in DOMAIN objects
      PROVE IF objects[i] = Dropped THEN objects'[i] = Dropped
            ELSE \E a \in Maps(AnyValue) :
                  /\ DOMAIN a = DOMAIN scheme'[objects[i].type]
                  /\ objects'[i] = [objects[i] EXCEPT !.attr = a]
  <2>1. CASE objects[i] = Dropped
    BY <2>1, ConstantsAssumption DEF RenameDefaultAttribute, Dropped, Type
  <2>2. CASE objects[i] # Dropped
    <3>1. objects[i].type \in Type
      BY <2>2 DEF IInv, ObjectsInv, ObjectOK
    <3>2. objects[i].attr \in Maps(AnyValue) /\ DOMAIN objects[i].attr = DOMAIN scheme[objects[i].type]
      BY <3>1, ObjectIs DEF IInv
    <3>3. CASE objects[i].type # t
      <4>1. objects'[i] = [objects[i] EXCEPT !.attr = objects[i].attr]
        BY <3>1, <3>3, ObjectIs DEF IInv, RenameDefaultAttribute
      <4>2. scheme'[objects[i].type] = scheme[objects[i].type]
        BY <3>1, <3>3 DEF RenameDefaultAttribute, IInv, SchemeInv
      <4> QED BY <2>2, <3>2, <4>1, <4>2
    <3>4. CASE objects[i].type = t
      <4> DEFINE a == Renamed(objects[i].attr, names[t], new)
      <4>0. names[t] \in DOMAIN objects[i].attr /\ new \notin DOMAIN objects[i].attr
        BY <1>1, <3>2, <3>4
      <4>1. a \in Maps(AnyValue) /\ DOMAIN a = (DOMAIN objects[i].attr \ {names[t]}) \union {new}
        BY <1>4, <3>2, <4>0
      <4>2. DOMAIN scheme'[t] = (DOMAIN scheme[t] \ {names[t]}) \union {new}
        BY <1>2 DEF RenameDefaultAttribute, IInv, SchemeInv
      <4>3. objects'[i] = [objects[i] EXCEPT !.attr = a]
        BY <3>4 DEF RenameDefaultAttribute
      <4> QED BY <2>2, <3>2, <3>4, <4>1, <4>2, <4>3
    <3> QED BY <3>3, <3>4
  <2> QED BY <2>1, <2>2
<1>6. objects' = [i \in DOMAIN objects |-> objects'[i]]
  BY DEF RenameDefaultAttribute
<1>7. ObjectsInv' /\ CopyInv'
  BY <1>3, <1>5, <1>6, AttributesChange DEF RenameDefaultAttribute
<1> QED BY <1>3, <1>7, NothingPromised DEF RenameDefaultAttribute, IInv

---------------------------------------------------------------------------
(* Objects are made, read and dropped *)

\* A new node, or a new link between two nodes, leaves the others as they are.
LEMMA ObjectAdded ==
  ASSUME IInv, UNCHANGED <<scheme, given, names, defaults>>,
         NEW t \in Type, NEW ends, NEW attr \in Maps(AnyValue),
         DOMAIN attr = DOMAIN scheme[t],
         IF t = "node" THEN ends = << >> ELSE \E a, b \in Nodes : ends = <<a, b>>,
         objects' = New(t, ends, attr)
  PROVE  /\ SchemeInv' /\ ObjectsInv'
         /\ DOMAIN objects \subseteq DOMAIN objects' /\ NextId \in DOMAIN objects'
         /\ \A i \in DOMAIN objects : objects'[i] = objects[i]
         /\ objects'[NextId] = [type |-> t, ends |-> ends, attr |-> attr]
<1> DEFINE new == [type |-> t, ends |-> ends, attr |-> attr]
<1>1. objects \in Seq(Object) /\ Len(objects) \in Nat /\ DOMAIN objects = 1..Len(objects)
  BY DEF IInv, ObjectsInv
<1>2. ends \in Seq(Nat)
  <2>1. CASE t = "node"
    BY <2>1
  <2>2. CASE t # "node"
    <3>1. PICK a, b \in Nodes : ends = <<a, b>>
      BY <2>2
    <3>2. a \in Nat /\ b \in Nat
      BY <1>1 DEF Nodes
    <3> QED BY <3>1, <3>2
  <2> QED BY <2>1, <2>2
<1>3. new \in Object
  BY <1>2 DEF Object
<1>4. objects' = Append(objects, new)
  BY DEF New
<1>5. /\ objects' \in Seq(Object) /\ DOMAIN objects' = 1..(Len(objects) + 1)
      /\ \A i \in DOMAIN objects : objects'[i] = objects[i]
      /\ objects'[Len(objects) + 1] = new
  BY <1>1, <1>3, <1>4
<1>6. SchemeInv'
  BY SchemeStays DEF IInv
<1>7. Nodes \subseteq {i \in DOMAIN objects' : objects'[i].type = "node"}
  BY <1>1, <1>5 DEF Nodes
<1>8. ASSUME NEW i \in DOMAIN objects', objects'[i] # Dropped
      PROVE  ObjectOK(objects[i])'
  <2>1. CASE i \in DOMAIN objects
    <3>1. objects'[i] = objects[i] /\ ObjectOK(objects[i])
      BY <1>5, <1>8, <2>1 DEF IInv, ObjectsInv
    <3> QED BY <1>7, <3>1 DEF ObjectOK, Nodes
  <2>2. CASE i \notin DOMAIN objects
    <3>1. objects'[i] = new
      BY <1>1, <1>5, <2>2
    <3>2. attr \in [DOMAIN scheme[t] -> AnyValue]
      BY MapsAre
    <3> QED BY <1>7, <3>1, <3>2 DEF ObjectOK, AnyValue
  <2> QED BY <2>1, <2>2
<1>9. ObjectsInv'
  BY <1>5, <1>8 DEF ObjectsInv
<1> QED BY <1>1, <1>5, <1>6, <1>9 DEF NextId

\* The copy returned of a new object has what was written of it.
LEMMA NewCopy ==
  ASSUME IInv, UNCHANGED <<scheme, given, names, defaults>>,
         NEW t \in Type, NEW ends, NEW attr \in Maps(AnyValue), NEW data \in Maps(AnyData),
         DOMAIN attr = DOMAIN scheme[t],
         IF t = "node" THEN ends = << >> ELSE \E a, b \in Nodes : ends = <<a, b>>,
         objects' = New(t, ends, attr),
         Return(Copy(t, NextId, data)),
         \A n \in Known(t, data) : attr[n] = data[n]
  PROVE  Good
<1>1. /\ SchemeInv' /\ ObjectsInv' /\ NextId \in DOMAIN objects'
      /\ objects'[NextId] = [type |-> t, ends |-> ends, attr |-> attr]
  BY ObjectAdded
<1>2. CopyInv'
  BY <1>1 DEF Return, Copy, CopyInv, Held
<1>3. AnswersAgree'
  BY <1>1, Kept DEF Return, Known
<1> QED BY <1>1, <1>2, <1>3, OnlyACopy DEF IInv, Return

LEMMA AddDefaultIsGood ==
  ASSUME IInv, NEW t \in Type, NEW ends,
         IF t = "node" THEN ends = << >> ELSE \E a, b \in Nodes : ends = <<a, b>>,
         AddDefault(t, ends)
  PROVE  Good
<1>1. /\ scheme[t] \in Maps(AnyValue)
      /\ \A n \in Known(t, defaults[t]) : scheme[t][n] = defaults[t][n]
  BY DEF IInv, SchemeInv
<1>2. defaults[t] \in Maps(AnyData)
  BY MapsGrow DEF IInv, SchemeInv, AnyData
<1> QED BY <1>1, <1>2, NewCopy DEF AddDefault

LEMMA AddNodeIsGood ==
  ASSUME IInv, NEW data \in Maps(AnyData), Accepted(data), AddNode(data)
  PROVE  Good
<1> DEFINE all == Over(data, defaults["node"])
<1>1. "node" \in Type /\ scheme["node"] \in Maps(AnyValue) /\ defaults["node"] \in Maps(Value)
  BY DEF Type, IInv, SchemeInv
<1>2. defaults["node"] \in Maps(AnyData) /\ defaults["node"] \in [DOMAIN defaults["node"] -> Value]
  BY <1>1, MapsAre, MapsGrow DEF AnyData
<1>3. all \in Maps(AnyData) /\ DOMAIN all = DOMAIN data \union DOMAIN defaults["node"]
  BY <1>2, OverIs
<1>4. \A n \in DOMAIN all : all[n] # Bad
  BY <1>2, ConstantsAssumption DEF Over, Accepted
<1> HIDE DEF all
<1>5. PICK ok \in BOOLEAN, W \in SUBSET Name :
        /\ UpdateAttrMap("node", all, W, ok)
        /\ objects' = New("node", << >>, Written(scheme["node"], all, W))
        /\ Return(Copy("node", NextId, all))
        /\ UNCHANGED <<scheme, given, names, defaults>>
  BY DEF AddNode, all
<1>6. ok = TRUE
  BY <1>4, <1>5 DEF UpdateAttrMap, Known
<1>7. /\ Written(scheme["node"], all, W) \in Maps(AnyValue)
      /\ DOMAIN Written(scheme["node"], all, W) = DOMAIN scheme["node"]
      /\ \A n \in Known("node", all) : Written(scheme["node"], all, W)[n] = all[n]
  <2>1. W \in SUBSET Known("node", all) /\ \A n \in W : all[n] # Bad
    BY <1>5, WritesAre
  <2>2. W = Known("node", all)
    BY <1>5, <1>6, WritesAre
  <2>3. /\ Written(scheme["node"], all, W) \in Maps(AnyValue)
        /\ DOMAIN Written(scheme["node"], all, W) = DOMAIN scheme["node"]
        /\ \A n \in W : Written(scheme["node"], all, W)[n] = all[n]
    <3>1. \A t, attr : /\ attr \in Maps(AnyValue) /\ DOMAIN attr = DOMAIN scheme[t]
                       /\ W \in SUBSET Known(t, all)
                       => /\ Written(attr, all, W) \in Maps(AnyValue)
                          /\ DOMAIN Written(attr, all, W) = DOMAIN attr
                          /\ \A n \in W : Written(attr, all, W)[n] = all[n]
      BY <1>3, <2>1, WrittenIs
    <3> QED BY <1>1, <2>1, <3>1
  <2> QED BY <2>2, <2>3
<1> QED BY <1>1, <1>3, <1>5, <1>7, NewCopy

LEMMA AddLinkIsGood ==
  ASSUME IInv, NEW t \in LinkType, NEW a \in Nodes, NEW b \in Nodes,
         NEW data \in Maps(AnyData), AddLink(t, <<a, b>>, data)
  PROVE  Good
<1>1. t \in Type /\ t # "node" /\ scheme[t] \in Maps(AnyValue)
  BY ConstantsAssumption DEF Type, IInv, SchemeInv
<1>2. PICK ok \in BOOLEAN, W \in SUBSET Name :
        /\ UpdateAttrMap(t, data, W, ok)
        /\ objects' = New(t, <<a, b>>, Written(scheme[t], data, W))
        /\ IF ok THEN Return(Copy(t, NextId, data)) ELSE copy' = NoCopy /\ call' = NoPromise
        /\ UNCHANGED <<scheme, given, names, defaults>>
  BY DEF AddLink
<1>3. /\ Written(scheme[t], data, W) \in Maps(AnyValue)
      /\ DOMAIN Written(scheme[t], data, W) = DOMAIN scheme[t]
      /\ ok => \A n \in Known(t, data) : Written(scheme[t], data, W)[n] = data[n]
  <2>1. /\ W \in SUBSET Known(t, data) /\ \A n \in W : data[n] # Bad
        /\ ok => W = Known(t, data)
    BY <1>2, WritesAre
  <2> QED BY <1>1, <2>1, WrittenIs
<1>4. CASE ok
  BY <1>1, <1>2, <1>3, <1>4, NewCopy
<1>5. CASE ~ok
  <2>1. SchemeInv' /\ ObjectsInv'
    BY <1>1, <1>2, <1>3, ObjectAdded
  <2>2. CopyInv'
    BY <1>2, <1>5 DEF CopyInv
  <2> QED BY <1>2, <1>5, <2>1, <2>2, NothingPromised DEF IInv
<1> QED BY <1>4, <1>5

LEMMA GetIsGood ==
  ASSUME IInv, NEW i \in DOMAIN objects, objects[i].type \in Type, Get(i)
  PROVE  Good
<1> DEFINE read == ReadAttrMap(i)
<1>1. objects[i].attr \in Maps(AnyValue)
  BY ObjectIs DEF IInv
<1>2. read \in Maps(Value) /\ \A n \in DOMAIN read : read[n] = objects[i].attr[n]
  BY <1>1, ValuesIs DEF ReadAttrMap
<1>3. read \in Maps(AnyData)
  BY <1>2, MapsGrow DEF AnyData
<1> HIDE DEF read
<1>4. /\ copy' = Copy(objects[i].type, i, read) /\ call' = Agrees(Copy(objects[i].type, i, read))
      /\ objects' = objects /\ UNCHANGED <<scheme, given, names, defaults>>
  BY DEF Get, Return, read
<1>5. SchemeInv' /\ ObjectsInv'
  BY <1>4, SchemeStays DEF IInv, ObjectsInv, ObjectOK
<1>6. CopyInv'
  BY <1>3, <1>4 DEF CopyInv, Held, Copy
<1>7. AnswersAgree'
  BY <1>2, <1>4, Kept DEF Known
<1> QED BY <1>4, <1>5, <1>6, <1>7, OnlyACopy DEF IInv

LEMMA RemoveIsGood == ASSUME IInv, NEW i \in DOMAIN objects, Remove(i) PROVE Good
<1> DEFINE gone == {j \in DOMAIN objects :
                      j = i \/ \E e \in DOMAIN objects[j].ends : objects[j].ends[e] = i}
<1>1. /\ objects' = [j \in DOMAIN objects |-> IF j \in gone THEN Dropped ELSE objects[j]]
      /\ copy' = IF copy.id \in gone THEN NoCopy ELSE copy
      /\ call' = NoPromise /\ UNCHANGED <<scheme, given, names, defaults>>
  BY DEF Remove
<1>2. objects \in Seq(Object) /\ Len(objects) \in Nat /\ DOMAIN objects = 1..Len(objects)
  BY DEF IInv, ObjectsInv
<1>3. \A j \in gone : j = i \/ \E e \in DOMAIN objects[j].ends : objects[j].ends[e] = i
  OBVIOUS
<1>4. \A j \in DOMAIN objects \ gone : j # i /\ \A e \in DOMAIN objects[j].ends : objects[j].ends[e] # i
  OBVIOUS
<1>5. SchemeInv'
  BY <1>1, SchemeStays DEF IInv
<1>6. \A k \in Nodes : k # i => k \notin gone
  <2> SUFFICES ASSUME NEW k \in Nodes, k # i, k \in gone PROVE FALSE
    OBVIOUS
  <2>1. k \in DOMAIN objects /\ objects[k].type = "node" /\ objects[k] # Dropped
    BY DEF Nodes, Dropped
  <2>2. objects[k].ends = << >>
    BY <2>1 DEF IInv, ObjectsInv, ObjectOK
  <2> QED BY <1>3, <2>2
<1>7. Nodes \ {i} \subseteq {k \in DOMAIN objects' : objects'[k].type = "node"}
  BY <1>1, <1>6 DEF Nodes
<1> HIDE DEF gone
<1>8. ASSUME NEW j \in DOMAIN objects', objects'[j] # Dropped
      PROVE  ObjectOK(objects[j])'
  <2>1. j \in DOMAIN objects \ gone /\ objects'[j] = objects[j] /\ ObjectOK(objects[j])
    BY <1>1, <1>8 DEF IInv, ObjectsInv
  <2>2. CASE objects[j].type = "node"
    BY <1>1, <2>1, <2>2 DEF ObjectOK
  <2>3. CASE objects[j].type # "node"
    <3>1. PICK a, b \in Nodes : objects[j].ends = <<a, b>>
      BY <2>1, <2>3 DEF ObjectOK, Nodes
    <3>2. a # i /\ b # i
      <4>1. 1 \in DOMAIN objects[j].ends /\ 2 \in DOMAIN objects[j].ends
            /\ objects[j].ends[1] = a /\ objects[j].ends[2] = b
        BY <3>1
      <4> QED BY <1>4, <2>1, <4>1
    <3>3. objects'[j].ends \in {<<a1, b1>> : a1, b1 \in
                                  {k \in DOMAIN objects' : objects'[k].type = "node"}}
      <4>1. a \in Nodes \ {i} /\ b \in Nodes \ {i} /\ objects'[j].ends = <<a, b>>
        BY <2>1, <3>1, <3>2
      <4> QED BY <1>7, <4>1
    <3>4. scheme' = scheme
      BY <1>1
    <3> QED BY <2>1, <2>3, <3>3, <3>4 DEF ObjectOK
  <2> QED BY <2>2, <2>3
<1>9. ObjectsInv'
  <2>1. objects' \in Seq(Object)
    BY <1>1, <1>2 DEF Object
  <2> QED BY <1>8, <2>1 DEF ObjectsInv
<1>10. CopyInv'
  BY <1>1 DEF IInv, CopyInv, Held
<1> QED BY <1>1, <1>5, <1>9, <1>10, NothingPromised DEF IInv

---------------------------------------------------------------------------
(* Updates *)

\* Whatever updateAttrMap writes and returns, the object has the attributes of
\* its type, and all the values of the data when it returns true.
LEMMA Updated ==
  ASSUME IInv, NEW i \in DOMAIN objects, objects[i].type \in Type,
         NEW data \in Maps(AnyData), NEW promise, Update(i, data, promise)
  PROVE  /\ IInv' /\ UNCHANGED scheme
         /\ i \in DOMAIN objects' /\ objects'[i].type = objects[i].type
         /\ \/ call' = NoPromise
            \/ /\ call' = promise
               /\ \A n \in Known(objects[i].type, data) : objects'[i].attr[n] = data[n]
               /\ objects' = [objects EXCEPT ![i].attr =
                                Written(@, data, Known(objects[i].type, data))]
<1>1. PICK ok \in BOOLEAN, W \in SUBSET Name :
        /\ UpdateAttrMap(objects[i].type, data, W, ok)
        /\ objects' = [objects EXCEPT ![i].attr = Written(@, data, W)]
        /\ call' = IF ok THEN promise ELSE NoPromise
        /\ UNCHANGED <<scheme, given, names, defaults, copy>>
  BY DEF Update
<1> DEFINE o == objects[i]
           a == Written(o.attr, data, W)
<1>2. /\ o = [type |-> o.type, ends |-> o.ends, attr |-> o.attr]
      /\ o.attr \in Maps(AnyValue) /\ DOMAIN o.attr = DOMAIN scheme[o.type]
  BY ObjectIs DEF IInv
<1>3. /\ a \in Maps(AnyValue) /\ DOMAIN a = DOMAIN scheme[o.type]
      /\ ok => \A n \in Known(o.type, data) : a[n] = data[n]
  <2>1. /\ W \in SUBSET Known(o.type, data) /\ \A n \in W : data[n] # Bad
        /\ ok => W = Known(o.type, data)
    BY <1>1, WritesAre
  <2>2. \A t, attr : /\ attr \in Maps(AnyValue) /\ DOMAIN attr = DOMAIN scheme[t]
                     /\ W \in SUBSET Known(t, data)
                     => /\ Written(attr, data, W) \in Maps(AnyValue)
                        /\ DOMAIN Written(attr, data, W) = DOMAIN attr
                        /\ \A n \in W : Written(attr, data, W)[n] = data[n]
    BY <2>1, WrittenIs
  <2>3. /\ a \in Maps(AnyValue) /\ DOMAIN a = DOMAIN scheme[o.type]
        /\ \A n \in W : a[n] = data[n]
    BY <1>2, <2>1, <2>2
  <2> QED BY <2>1, <2>3
<1>4. objects' = [objects EXCEPT ![i] = [o EXCEPT !.attr = a]]
  BY <1>1
<1> HIDE DEF a
<1>5. /\ objects' = [j \in DOMAIN objects |-> objects'[j]]
      /\ objects'[i] = [o EXCEPT !.attr = a] /\ i \in DOMAIN objects'
      /\ \A j \in DOMAIN objects : j # i => objects'[j] = objects[j]
  BY <1>4 DEF IInv, ObjectsInv
<1>6. SchemeInv'
  BY <1>1, SchemeStays DEF IInv
<1>7. ASSUME NEW j \in DOMAIN objects
      PROVE IF objects[j] = Dropped THEN objects'[j] = Dropped
            ELSE \E b \in Maps(AnyValue) :
                  /\ DOMAIN b = DOMAIN scheme'[objects[j].type]
                  /\ objects'[j] = [objects[j] EXCEPT !.attr = b]
  <2>1. CASE j = i
    <3>1. objects[j] # Dropped
      BY <2>1, ConstantsAssumption DEF Dropped, Type
    <3> QED BY <1>1, <1>3, <1>5, <2>1, <3>1
  <2>2. CASE j # i /\ objects[j] = Dropped
    BY <1>5, <2>2
  <2>3. CASE j # i /\ objects[j] # Dropped
    <3>1. objects[j].type \in Type
      BY <2>3 DEF IInv, ObjectsInv, ObjectOK
    <3>2. /\ objects[j].attr \in Maps(AnyValue)
          /\ DOMAIN objects[j].attr = DOMAIN scheme[objects[j].type]
          /\ objects[j] = [objects[j] EXCEPT !.attr = objects[j].attr]
      BY <3>1, ObjectIs DEF IInv
    <3> QED BY <1>1, <1>5, <2>3, <3>2
  <2> QED BY <2>1, <2>2, <2>3
<1>8. ObjectsInv' /\ CopyInv'
  BY <1>1, <1>5, <1>6, <1>7, AttributesChange
<1>9. objects'[i].type = o.type /\ objects'[i].attr = a
  BY <1>2, <1>5
<1>10. CASE ok
  <2>1. W = Known(o.type, data) /\ call' = promise
    BY <1>1, <1>10 DEF UpdateAttrMap
  <2> QED BY <1>1, <1>3, <1>5, <1>6, <1>8, <1>9, <1>10, <2>1 DEF IInv
<1>11. CASE ~ok
  BY <1>1, <1>5, <1>6, <1>8, <1>9, <1>11 DEF IInv
<1> QED BY <1>10, <1>11

\* An update that promises what it has written keeps the promise.
LEMMA UpdateIsGood ==
  ASSUME IInv, NEW i \in DOMAIN objects, NEW t \in Type, objects[i].type = t,
         NEW data \in Maps(AnyData), Update(i, data, Agrees(Copy(t, i, data)))
  PROVE  Good
<1>1. /\ IInv' /\ UNCHANGED scheme /\ i \in DOMAIN objects' /\ objects'[i].type = t
      /\ \/ call' = NoPromise
         \/ /\ call' = Agrees(Copy(t, i, data))
            /\ \A n \in Known(t, data) : objects'[i].attr[n] = data[n]
  BY Updated
<1>2. CASE call' = NoPromise
  BY <1>1, <1>2, NothingPromised
<1>3. CASE call' # NoPromise
  <2>1. AnswersAgree'
    BY <1>1, <1>3, Kept DEF Known
  <2> QED BY <1>1, <1>3, <2>1, OnlyACopy
<1> QED BY <1>2, <1>3

LEMMA UpdateFromCopyIsGood ==
  ASSUME IInv, copy # NoCopy, UpdateFromCopy PROVE Good
<1>1. Held(copy)
  BY DEF IInv, CopyInv
<1>2. Agrees(copy) = Agrees(Copy(copy.type, copy.id, copy.data))
  BY <1>1 DEF Held
<1> QED BY <1>1, <1>2, UpdateIsGood DEF UpdateFromCopy, Held

LEMMA WeightIsData ==
  ASSUME IInv, NEW t \in Type, NEW v \in Value
  PROVE  Only(names[t], v) \in Maps(AnyData) /\ WithWeight(t, v) \in Maps(AnyData)
<1>1. names[t] \in Name /\ defaults[t] \in Maps(AnyData)
  BY MapsGrow DEF IInv, SchemeInv, AnyData
<1>2. Only(names[t], v) \in Maps(AnyData)
  BY <1>1, OnlyIs DEF AnyData
<1> QED BY <1>1, <1>2, OverIs DEF WithWeight

LEMMA UpdateWeightIsGood ==
  ASSUME IInv, NEW i \in DOMAIN objects, objects[i].type \in Type, NEW v \in Value,
         UpdateWeight(i, v)
  PROVE  Good
<1> DEFINE n == names[objects[i].type]
<1>1. n \in DOMAIN scheme[objects[i].type] /\ n \in DOMAIN objects[i].attr
  BY ObjectIs DEF IInv, SchemeInv
<1>2. Known(objects[i].type, Only(n, v)) = {n}
  BY <1>1 DEF Known, Only
<1>3. Written(objects[i].attr, Only(n, v), {n}) = [objects[i].attr EXCEPT ![n] = v]
  <2>1. objects[i].attr = [m \in DOMAIN objects[i].attr |-> objects[i].attr[m]]
    BY ObjectIs, MapsAre DEF IInv
  <2> QED BY <2>1 DEF Written, Only
<1>4. Only(n, v) \in Maps(AnyData)
  BY WeightIsData
<1>5. /\ IInv'
      /\ \/ call' = NoPromise
         \/ /\ call' = Weighs(i, v)
            /\ objects' = [objects EXCEPT ![i].attr =
                             Written(@, Only(n, v), Known(objects[i].type, Only(n, v)))]
  BY <1>4, Updated DEF UpdateWeight
<1>6. CASE call' = NoPromise
  BY <1>5, <1>6, NothingPromised
<1>7. CASE call' # NoPromise
  <2>1. call'.kind = "weight" /\ call'.id = i /\ call'.value = v
    BY <1>5, <1>7 DEF Weighs
  <2>2. objects' = [objects EXCEPT ![i].attr = [@ EXCEPT ![n] = v]]
    BY <1>2, <1>3, <1>5, <1>7
  <2>3. WeightStep
    BY <1>1, <2>1, <2>2 DEF WeightStep
  <2> QED BY <1>5, <2>1, <2>3 DEF Good, AnswersAgree
<1> QED BY <1>6, <1>7

LEMMA UpdateWeightByEndsIsGood ==
  ASSUME IInv, NEW t \in Type, NEW a, NEW b, NEW v \in Value, UpdateWeightByEnds(t, a, b, v)
  PROVE  Good
<1>1. PICK i \in FindEdge(t, a, b) :
        Update(i, WithWeight(t, v), Agrees(Copy(t, i, WithWeight(t, v))))
  BY DEF UpdateWeightByEnds
<1>2. i \in DOMAIN objects /\ objects[i].type = t
  BY <1>1 DEF FindEdge
<1> QED BY <1>1, <1>2, WeightIsData, UpdateIsGood

LEMMA SetInCopyIsGood ==
  ASSUME IInv, copy # NoCopy, NEW data \in Maps(AnyData), SetInCopy(data)
  PROVE  Good
<1>1. Held(copy)
  BY DEF IInv, CopyInv
<1>2. Over(data, copy.data) \in Maps(AnyData)
  BY <1>1, OverIs DEF Held
<1>3. copy' = Copy(copy.type, copy.id, Over(data, copy.data))
  BY <1>1 DEF Held, SetInCopy, Copy
<1>4. CopyInv'
  BY <1>1, <1>2, <1>3 DEF SetInCopy, CopyInv, Held, Copy
<1>5. SchemeInv' /\ ObjectsInv'
  BY DEF IInv, SchemeInv, ObjectsInv, ObjectOK, Known, SetInCopy
<1> QED BY <1>4, <1>5, NothingPromised DEF SetInCopy, IInv

---------------------------------------------------------------------------
(* The theorems *)

LEMMA NoCopyHasNoType == copy.type \in Type => copy # NoCopy
  BY ConstantsAssumption DEF NoCopy, Type

LEMMA DataAre ==
  ASSUME IInv, NEW t \in Type, NEW data \in Data \union {WithWeight(t, v) : v \in Value}
  PROVE  data \in Maps(AnyData)
  BY WeightIsData, ConstantsAssumption DEF AnyData

LEMMA InitIInv == Init => IInv /\ AnswersAgree
<1> SUFFICES ASSUME Init PROVE IInv /\ AnswersAgree
  OBVIOUS
<1>1. names \in [Type -> Name] /\ scheme = [t \in Type |-> Only(names[t], Default)]
      /\ given = [t \in Type |-> {names[t]}]
  BY ConstantsAssumption DEF Init, InitNames, CreateBaseScheme
<1>2. \A t \in Type : scheme[t] \in Maps(AnyValue) /\ DOMAIN scheme[t] = {names[t]}
  BY <1>1, OnlyIs, ConstantsAssumption DEF AnyValue, Only
<1>3. \A t \in Type : /\ Values(scheme[t]) \in Maps(Value)
                      /\ DOMAIN Values(scheme[t]) \subseteq DOMAIN scheme[t]
                      /\ \A n \in DOMAIN Values(scheme[t]) : Values(scheme[t])[n] = scheme[t][n]
  BY <1>2, ValuesIs
<1>4. defaults = [t \in Type |-> Values(scheme[t])]
  BY DEF Init
<1>5. SchemeInv
  <2>1. /\ scheme \in [Type -> Maps(AnyValue)] /\ given \in [Type -> SUBSET Name]
        /\ defaults \in [Type -> Maps(Value)]
    <3>1. \A t \in Type : {names[t]} \subseteq Name
      BY <1>1
    <3> QED BY <1>1, <1>2, <1>3, <1>4, <3>1
  <2>2. ASSUME NEW t \in Type
        PROVE  /\ DOMAIN scheme[t] \subseteq given[t] /\ DOMAIN defaults[t] \subseteq given[t]
               /\ names[t] \in DOMAIN scheme[t]
               /\ \A n \in Known(t, defaults[t]) : defaults[t][n] = scheme[t][n]
    <3>1. DOMAIN scheme[t] = {names[t]} /\ given[t] = {names[t]} /\ defaults[t] = Values(scheme[t])
      BY <1>1, <1>2, <1>4
    <3> QED BY <1>3, <3>1 DEF Known
  <2> QED BY <1>1, <2>1, <2>2 DEF SchemeInv
<1>6. ObjectsInv /\ CopyInv /\ AnswersAgree
  BY DEF Init, ObjectsInv, CopyInv, AnswersAgree, NoPromise
<1> QED BY <1>5, <1>6 DEF IInv

LEMMA NextIsGood == ASSUME IInv, Next PROVE Good
<1>1. CASE ChangeScheme
  <2>1. Default \in AnyValue /\ NoValue \in AnyValue
    BY ConstantsAssumption DEF AnyValue
  <2> QED BY <1>1, <2>1, AddAttrIsGood, RenameIsGood DEF ChangeScheme
<1>2. CASE SetGraph
  BY <1>2, SetGraphIsGood
<1>3. CASE CallNodeDao
  <2>1. "node" \in Type
    BY DEF Type
  <2>2. ASSUME AddDefault("node", << >>) PROVE Good
    BY <2>1, <2>2, AddDefaultIsGood
  <2>3. ASSUME NEW data \in Data \union {WithWeight("node", v) : v \in Value},
               Accepted(data), AddNode(data)
        PROVE  Good
    BY <2>1, <2>3, DataAre, AddNodeIsGood
  <2>4. ASSUME NEW i \in Nodes, Get(i) \/ Remove(i) PROVE Good
    BY <2>1, <2>4, GetIsGood, RemoveIsGood DEF Nodes
  <2>5. ASSUME copy.type = "node", UpdateFromCopy PROVE Good
    BY <2>1, <2>5, NoCopyHasNoType, UpdateFromCopyIsGood
  <2> QED BY <1>3, <2>2, <2>3, <2>4, <2>5 DEF CallNodeDao
<1>4. CASE CallLinkDao
  <2>1. \A t \in LinkType : t \in Type /\ t # "node"
    BY ConstantsAssumption DEF Type
  <2>2. ASSUME NEW t \in LinkType, NEW a \in Nodes, NEW b \in Nodes, AddDefault(t, <<a, b>>)
        PROVE  Good
    BY <2>1, <2>2, AddDefaultIsGood
  <2>3. ASSUME NEW t \in LinkType, NEW a \in Nodes, NEW b \in Nodes,
               NEW data \in Data \union {WithWeight(t, v) : v \in Value}, AddLink(t, <<a, b>>, data)
        PROVE  Good
    BY <2>1, <2>3, DataAre, AddLinkIsGood
  <2>4. ASSUME NEW i \in AliveLinks,
               Get(i) \/ Remove(i) \/ \E v \in Value : UpdateWeight(i, v)
        PROVE  Good
    BY <2>1, <2>4, GetIsGood, RemoveIsGood, UpdateWeightIsGood DEF AliveLinks
  <2>5. ASSUME NEW t \in OverDefaults, NEW a, NEW b, NEW v \in Value,
               UpdateWeightByEnds(t, a, b, v)
        PROVE  Good
    BY <2>1, <2>5, UpdateWeightByEndsIsGood, ConstantsAssumption
  <2>6. ASSUME copy.type \in LinkType, UpdateFromCopy PROVE Good
    BY <2>1, <2>6, NoCopyHasNoType, UpdateFromCopyIsGood
  <2> QED BY <1>4, <2>2, <2>3, <2>4, <2>5, <2>6 DEF CallLinkDao
<1>5. CASE UseCopy
  <2>1. ASSUME copy # NoCopy, NEW data \in Data, SetInCopy(data) PROVE Good
    BY <2>1, SetInCopyIsGood, ConstantsAssumption DEF AnyData
  <2>2. ASSUME copy # NoCopy, Weight PROVE Good
    <3>1. names[copy.type] \in Name
      BY <2>2 DEF IInv, SchemeInv, CopyInv, Held
    <3>2. Only(names[copy.type], NoValue) \in Maps(AnyData)
      BY <3>1, OnlyIs DEF AnyData
    <3> QED BY <2>2, <3>2, SetInCopyIsGood DEF Weight
  <2> QED BY <1>5, <2>1, <2>2 DEF UseCopy
<1> QED BY <1>1, <1>2, <1>3, <1>4, <1>5 DEF Next

LEMMA StutterIsGood ==
  ASSUME IInv, AnswersAgree, UNCHANGED vars PROVE IInv' /\ AnswersAgree'
<1>1. SchemeInv' /\ ObjectsInv' /\ CopyInv'
  BY DEF vars, IInv, SchemeInv, ObjectsInv, ObjectOK, CopyInv, Held, Known
<1> QED BY <1>1 DEF vars, IInv, AnswersAgree, Alive, Known

\* The scheme, the objects, what the Daos have read and the copies in use fit
\* together in every reachable state.
LEMMA Invariant == Spec => [](IInv /\ AnswersAgree)
<1>1. IInv /\ AnswersAgree /\ [Next]_vars => (IInv /\ AnswersAgree)'
  BY NextIsGood, StutterIsGood DEF Good
<1> QED BY InitIInv, <1>1, PTL DEF Spec

\* Every object has the attributes of its type and values of the right data
\* type, also the objects made before an attribute was added or renamed, and
\* no link outlives one of its nodes.
THEOREM TypeCorrect == Spec => []TypeOK
  BY Invariant, IInvIsStronger, PTL

\* What a call of NodeDao or LinkDao has returned or written is what the
\* database holds, for a Dao that has read the scheme at any earlier time and
\* a copy made at any earlier time.
THEOREM AnswersAlwaysAgree == Spec => []AnswersAgree
  BY Invariant, PTL

\* updateHLink and the others that are given a weight write the attribute that
\* has the weight's name now, and nothing else.
THEOREM WeightIsWrittenAlone == Spec => WeightAlone
<1>1. IInv /\ [Next]_vars =>
        [call'.kind = "weight" =>
           LET i == call'.id IN
           objects' = [objects EXCEPT ![i].attr =
                         [@ EXCEPT ![names[objects[i].type]] = call'.value]]
           /\ names[objects[i].type] \in DOMAIN objects[i].attr]_vars
  BY NextIsGood DEF Good, WeightStep
<1> QED BY Invariant, <1>1, PTL DEF Spec, WeightAlone
=============================================================================
