---------------------------- MODULE GraphObjects ----------------------------
(***************************************************************************)
(* Nodes and links with their attributes, and the copies of them that      *)
(* callers hold (dao/AbstractDao, NodeDao, LinkDao; model/GraphObject,     *)
(* Node, Link; the scheme of SparkseeManager).                             *)
(*                                                                         *)
(* An attribute has a name, in the database per type of object, and the    *)
(* library finds the weight by the name Attrs::V holds for it, which       *)
(* renameDefaultAttribute changes together with the database's.  A Dao     *)
(* reads the attributes of its types once, when it is given the graph, and *)
(* makes new objects from what it read.  A copy is an id and the values    *)
(* read or set under some names; writing it back writes all of them that   *)
(* the type knows.                                                         *)
(*                                                                         *)
(* A value of another data type than the attribute's, Bad, is refused by   *)
(* SetAttribute; NoValue is Sparksee's NULL.  Layers count as nodes here,  *)
(* LayerDao has their own operations.                                      *)
(***************************************************************************)
EXTENDS Naturals, Sequences

CONSTANTS LinkType,    \* EdgeType
          OverDefaults,\* of them OLink and CLink, see UpdateWeightByEnds
          Name,        \* names of attributes
          WeightName,  \* Attrs::V at the start: the weight's name for each type
          Value, Default, NoValue, Bad,
          Data,        \* maps from names to values that callers pass
          MaxObjects   \* bound: objects made

Type == LinkType \union {"node"}

VARIABLES scheme,    \* for each type, the default of each attribute
          given,     \* names that attributes of each type have, or had
          objects,   \* objects in the order of their ids, or Dropped
          names,     \* Attrs::V
          defaults,  \* m_nodeAttr, m_hLinkAttr, ... of the Daos
          copy,      \* a GraphObject some caller holds
          call       \* what the last call has promised

vars == <<scheme, given, objects, names, defaults, copy, call>>

Dropped == [type |-> "dropped", ends |-> << >>]
NoCopy == [type |-> "invalid", id |-> 0]
NoPromise == [kind |-> "none"]

Over(data, base) ==
  [n \in DOMAIN data \union DOMAIN base |-> IF n \in DOMAIN data THEN data[n] ELSE base[n]]
Only(n, v) == [m \in {n} |-> v]

Maps(V) == UNION {[N -> V] : N \in SUBSET Name}
Alive(i) == i \in DOMAIN objects /\ objects[i] # Dropped
Room == Len(objects) < MaxObjects

ASSUME ConstantsAssumption ==
  /\ "node" \notin LinkType /\ "dropped" \notin LinkType /\ "invalid" \notin LinkType
  /\ OverDefaults \subseteq LinkType /\ WeightName \in [Type -> Name] /\ MaxObjects \in Nat
  /\ Default \in Value /\ NoValue \notin Value /\ Bad \notin Value \union {NoValue}
  /\ Data \subseteq Maps(Value \union {NoValue, Bad})

ObjectOK(o) ==
  /\ o.type \in Type
  /\ o.attr \in [DOMAIN scheme[o.type] -> Value \union {NoValue}]
  /\ IF o.type = "node" THEN o.ends = << >>
     ELSE o.ends \in {<<a, b>> : a, b \in {i \in DOMAIN objects : objects[i].type = "node"}}

\* Every object has the attributes of its type and no other, with values of
\* the right data type, and no link is left without its two nodes.
TypeOK ==
  /\ scheme \in [Type -> Maps(Value \union {NoValue})]
  /\ \A t \in Type : DOMAIN scheme[t] \subseteq given[t]
  /\ \A i \in DOMAIN objects : objects[i] = Dropped \/ ObjectOK(objects[i])
  /\ names \in [Type -> Name]
  /\ defaults \in [Type -> Maps(Value)]
  /\ copy = NoCopy \/ /\ copy.type \in Type /\ copy.id \in DOMAIN objects
                      /\ copy.data \in Maps(Value \union {NoValue, Bad})

---------------------------------------------------------------------------
(* Reading and writing attributes *)

\* GetAttributes lists the attributes that have a value
Values(attr) == [n \in {m \in DOMAIN attr : attr[m] # NoValue} |-> attr[n]]

ReadAttrMap(i) == Values(objects[i].attr)

\* Names the type does not know are skipped
Known(t, data) == DOMAIN data \intersect DOMAIN scheme[t]

\* Variant: the first unknown name ends the writing
UpdatesUntilUnknown(t, data, W, ok) ==
  /\ \A n \in Known(t, data) : data[n] # Bad
  /\ ok = TRUE
  /\ W \subseteq Known(t, data)
  /\ DOMAIN data \subseteq DOMAIN scheme[t] => W = Known(t, data)

\* updateAttrMap writes the names W and returns ok: a value that is refused
\* ends it, and what comes before it has been written (by name, in an order
\* left open here)
UpdateAttrMap(t, data, W, ok) ==
  /\ ok = (\A n \in Known(t, data) : data[n] # Bad)
  /\ W \subseteq {n \in Known(t, data) : data[n] # Bad}
  /\ ok => W = Known(t, data)

Written(attr, data, W) == [n \in DOMAIN attr |-> IF n \in W THEN data[n] ELSE attr[n]]

Copy(t, i, data) == [type |-> t, id |-> i, data |-> data]
Agrees(c) == [kind |-> "copy", copy |-> c]

---------------------------------------------------------------------------
(* Names and types of attributes *)

\* Another Dao is made, or this one is given the graph again
SetGraph ==
  /\ defaults' = [t \in Type |-> Values(scheme[t])]
  /\ call' = NoPromise
  /\ UNCHANGED <<scheme, given, objects, names, copy>>

\* Objects that are there already get no value
AddAttr(t, n, v) ==
  /\ n \notin DOMAIN scheme[t]
  /\ scheme' = [scheme EXCEPT ![t] = Over(Only(n, v), @)]
  /\ given' = [given EXCEPT ![t] = @ \union {n}]
  /\ objects' = [i \in DOMAIN objects |->
                   IF objects[i].type # t THEN objects[i]
                   ELSE [objects[i] EXCEPT !.attr = Over(Only(n, NoValue), @)]]
  /\ call' = NoPromise
  /\ UNCHANGED <<names, defaults, copy>>

Renamed(f, old, new) ==
  [n \in (DOMAIN f \ {old}) \union {new} |-> IF n = new THEN f[old] ELSE f[n]]

RenameDefaultAttribute(t, new) ==
  /\ names[t] \in DOMAIN scheme[t] /\ new \notin DOMAIN scheme[t]
  /\ scheme' = [scheme EXCEPT ![t] = Renamed(@, names[t], new)]
  /\ given' = [given EXCEPT ![t] = @ \union {new}]
  /\ objects' = [i \in DOMAIN objects |->
                   IF objects[i].type # t THEN objects[i]
                   ELSE [objects[i] EXCEPT !.attr = Renamed(@, names[t], new)]]
  /\ names' = [names EXCEPT ![t] = new]
  /\ call' = NoPromise
  /\ UNCHANGED <<defaults, copy>>

---------------------------------------------------------------------------
(* Objects are made, read and dropped *)

New(t, ends, attr) == Append(objects, [type |-> t, ends |-> ends, attr |-> attr])
NextId == Len(objects) + 1

\* A copy is returned
Return(c) == copy' = c /\ call' = Agrees(c)

\* addNode and addLink without data: nothing is written
AddDefault(t, ends) ==
  /\ objects' = New(t, ends, scheme[t])
  /\ Return(Copy(t, NextId, defaults[t]))
  /\ UNCHANGED <<scheme, given, names, defaults>>

\* The data given, over what the Dao read; what updateAttrMap returns is not
\* looked at
AddNode(data) ==
  LET all == Over(data, defaults["node"]) IN
  \E ok \in BOOLEAN, W \in SUBSET Name :
    /\ UpdateAttrMap("node", all, W, ok)
    /\ objects' = New("node", << >>, Written(scheme["node"], all, W))
    /\ Return(Copy("node", NextId, all))
    /\ UNCHANGED <<scheme, given, names, defaults>>

\* The data given and no more; the new link stays when its attributes do not
AddLink(t, ends, data) ==
  \E ok \in BOOLEAN, W \in SUBSET Name :
    /\ UpdateAttrMap(t, data, W, ok)
    /\ objects' = New(t, ends, Written(scheme[t], data, W))
    /\ IF ok THEN Return(Copy(t, NextId, data))
             ELSE copy' = NoCopy /\ call' = NoPromise
    /\ UNCHANGED <<scheme, given, names, defaults>>

WithWeight(t, v) == Over(Only(names[t], v), defaults[t])

Get(i) ==
  /\ Return(Copy(objects[i].type, i, ReadAttrMap(i)))
  /\ UNCHANGED <<scheme, given, objects, names, defaults>>

\* Any of the links of a directed type from one node to another
FindEdge(t, a, b) ==
  {i \in DOMAIN objects : objects[i].type = t /\ objects[i].ends = <<a, b>>}

\* removeNode, removeEdge: the links of a node go with it, and nobody goes on
\* using a copy of what has been removed
Remove(i) ==
  LET gone == {j \in DOMAIN objects : j = i \/ \E e \in DOMAIN objects[j].ends : objects[j].ends[e] = i} IN
  /\ objects' = [j \in DOMAIN objects |-> IF j \in gone THEN Dropped ELSE objects[j]]
  /\ copy' = IF copy.id \in gone THEN NoCopy ELSE copy
  /\ call' = NoPromise
  /\ UNCHANGED <<scheme, given, names, defaults>>

---------------------------------------------------------------------------
(* Updates; the weight alone only of links *)

Update(i, data, promise) ==
  \E ok \in BOOLEAN, W \in SUBSET Name :
    /\ UpdateAttrMap(objects[i].type, data, W, ok)
    /\ objects' = [objects EXCEPT ![i].attr = Written(@, data, W)]
    /\ call' = IF ok THEN promise ELSE NoPromise
    /\ UNCHANGED <<scheme, given, names, defaults, copy>>

\* updateNode, updateHLink(hid, data), ...: the copy is written back
UpdateFromCopy == Update(copy.id, copy.data, Agrees(copy))

Weighs(i, v) == [kind |-> "weight", id |-> i, value |-> v]

\* Variant: by way of the Dao's defaults
UpdateWeightOver(i, v) ==
  Update(i, WithWeight(objects[i].type, v), Weighs(i, v))

\* updateHLink(hid, weight), updateVLink, updateOLink, updateCLink, and the
\* first two also by the ends
UpdateWeight(i, v) ==
  Update(i, Only(names[objects[i].type], v), Weighs(i, v))

\* updateOLink(layer, node, weight) and updateCLink(child, parent, weight)
\* write the Dao's defaults as well
UpdateWeightByEnds(t, a, b, v) ==
  \E i \in FindEdge(t, a, b) :
    Update(i, WithWeight(t, v), Agrees(Copy(t, i, WithWeight(t, v))))

\* setWeight, setLabel, data()
SetInCopy(data) ==
  /\ copy' = [copy EXCEPT !.data = Over(data, @)]
  /\ call' = NoPromise
  /\ UNCHANGED <<scheme, given, objects, names, defaults>>

\* weight() of a copy without one puts a NULL into it, and reads that
Weight ==
  /\ names[copy.type] \notin DOMAIN copy.data
  /\ SetInCopy(Only(names[copy.type], NoValue))

---------------------------------------------------------------------------
\* createBaseScheme; labels and the like are attributes that were added
CreateBaseScheme ==
  /\ scheme = [t \in Type |-> Only(names[t], Default)]
  /\ given = [t \in Type |-> {names[t]}]

\* The names a process starts with
InitNames == names = WeightName

Init ==
  /\ InitNames
  /\ CreateBaseScheme
  /\ objects = << >>
  /\ defaults = [t \in Type |-> Values(scheme[t])]
  /\ copy = NoCopy
  /\ call = NoPromise

(* What the code leaves to its callers *)

\* No name is given to another attribute of a type
NewName(t, n) == n \notin given[t]
\* addNode is not given values of another data type
Accepted(data) == \A n \in DOMAIN data : data[n] # Bad

Nodes == {i \in DOMAIN objects : objects[i].type = "node"}
AliveLinks == {i \in DOMAIN objects : objects[i].type \in LinkType}

ChangeScheme ==
  \E t \in Type, n \in Name : NewName(t, n) /\ \/ \E v \in {Default, NoValue} : AddAttr(t, n, v)
                                               \/ RenameDefaultAttribute(t, n)

CallNodeDao ==
  \/ Room /\ \/ AddDefault("node", << >>)
             \/ \E data \in Data \union {WithWeight("node", v) : v \in Value} :
                  Accepted(data) /\ AddNode(data)
  \/ \E i \in Nodes : Get(i) \/ Remove(i)
  \/ copy.type = "node" /\ UpdateFromCopy

CallLinkDao ==
  \/ Room /\ \E t \in LinkType, a, b \in Nodes :
       a < b /\ \/ AddDefault(t, <<a, b>>)
                \/ \E data \in Data \union {WithWeight(t, v) : v \in Value} : AddLink(t, <<a, b>>, data)
  \/ \E i \in AliveLinks : \/ Get(i)
                           \/ Remove(i)
                           \/ \E v \in Value : UpdateWeight(i, v)
  \/ \E t \in OverDefaults, a, b \in Nodes, v \in Value : UpdateWeightByEnds(t, a, b, v)
  \/ copy.type \in LinkType /\ UpdateFromCopy

UseCopy ==
  copy # NoCopy /\ \/ \E data \in Data : SetInCopy(data)
                   \/ Weight

Next == ChangeScheme \/ SetGraph \/ CallNodeDao \/ CallLinkDao \/ UseCopy

Spec == Init /\ [][Next]_vars

---------------------------------------------------------------------------
(* Properties *)

\* What a call has returned or written is what the database holds: under every
\* name that the type of the object knows, also for a Dao whose defaults are
\* older than the scheme, and for copies made before a renaming.
AnswersAgree ==
  call.kind = "copy" =>
    LET c == call.copy IN
    /\ Alive(c.id)
    /\ \A n \in Known(c.type, c.data) : objects[c.id].attr[n] = c.data[n]

\* Setting a weight by an id changes that weight and nothing else in the
\* database, whatever attributes were added and renamed before.
WeightAlone ==
  [][call'.kind = "weight" =>
       LET i == call'.id IN
       objects' = [objects EXCEPT ![i].attr =
                     [@ EXCEPT ![names[objects[i].type]] = call'.value]]
       /\ names[objects[i].type] \in DOMAIN objects[i].attr]_vars
=============================================================================
