-------------------------- MODULE LayerDaoProofs --------------------------
(***************************************************************************)
(* Theorems about the layer operations, for any number of layers, caller   *)
(* variables and descriptions.                                             *)
(***************************************************************************)
EXTENDS LayerDao, FiniteSetTheorems, SequenceTheorems, TLAPS

---------------------------------------------------------------------------
(* Whatever the callers hold, removed layers included *)

\* The invalid object that failed calls return is a layer object
LEMMA InvalidLayerType == InvalidLayer \in LayerObject
BY TextAssumption DEF InvalidLayer, LayerObject

\* A copy of a layer's attributes is a layer object
LEMMA CopyType ==
  ASSUME NEW l \in LayerId, NEW B, NEW t \in Text
  PROVE  [id |-> l, isBase |-> l \in B, text |-> t] \in LayerObject
BY DEF LayerObject

\* Storing a layer object in a caller variable
LEMMA HandleType ==
  ASSUME TypeOK, NEW h \in Handle, NEW o \in LayerObject
  PROVE  [handle EXCEPT ![h] = o] \in [Handle -> LayerObject]
BY DEF TypeOK

\* The empty graph is well formed
LEMMA InitTypeOK == Init => TypeOK
<1>1. ASSUME Init PROVE handle \in [Handle -> LayerObject]
  BY <1>1, InvalidLayerType DEF Init
<1> QED BY <1>1 DEF Init, TypeOK

\* Creating a layer, alone or tied to one that is there
LEMMA NewLayerType ==
  ASSUME TypeOK, NEW l \in Fresh, NEW edges, NewLayer(l, edges),
         edges = {} \/ \E m \in layers : edges = {<<m, l>>} \/ edges = {<<l, m>>}
  PROVE  /\ layers' = layers \union {l}
         /\ layers' \subseteq LayerId
         /\ clinks' \subseteq layers' \X layers'
         /\ text' \in [layers' -> Text]
         /\ text'[l] \in Text
         /\ dropped' \subseteq LayerId \ layers'
<1>1. layers' = layers \union {l} /\ l \in LayerId
  BY DEF NewLayer, Fresh
<1>2. text' \in [layers' -> Text]
  BY TextAssumption DEF NewLayer, TypeOK
<1> QED BY <1>1, <1>2 DEF NewLayer, TypeOK, Fresh

\* Dropping layers keeps everything well formed and flags no other layer
LEMMA RemoveLayersType ==
  ASSUME TypeOK, NEW gone \in SUBSET layers, RemoveLayers(gone)
  PROVE  TypeOK' /\ isBase' \subseteq isBase
BY DEF TypeOK, RemoveLayers

\* The layers a removal drops
LEMMA Removals ==
  ASSUME RemoveTopLayer \/ RemoveBottomLayer \/ RemoveBaseLayer \/ RemoveAllButBaseLayer,
         isBase \subseteq layers
  PROVE  \E gone \in SUBSET layers : RemoveLayers(gone)
<1>1. CASE RemoveTopLayer
  BY <1>1 DEF RemoveTopLayer, TopLayers
<1>2. CASE RemoveBottomLayer
  BY <1>2 DEF RemoveBottomLayer, BottomLayers
<1>3. CASE RemoveBaseLayer
  BY <1>3 DEF RemoveBaseLayer
<1>4. CASE RemoveAllButBaseLayer
  <2>1. PICK b \in isBase :
          RemoveLayers({m \in layers : Climbs(b, m) \/ Descends(b, m)} \ isBase)
    BY <1>4 DEF RemoveAllButBaseLayer
  <2> QED BY <2>1
<1> QED BY <1>1, <1>2, <1>3, <1>4

\* No call breaks the types
LEMMA TypeStep ==
  ASSUME TypeOK, [NextStale]_vars
  PROVE  TypeOK'
<1>1. ASSUME NEW h \in Handle, AddBaseLayer(h)
      PROVE  TypeOK'
  <2>1. CASE isBase # {}
    BY <1>1, <2>1, InvalidLayerType, HandleType DEF AddBaseLayer, ReturnInvalid, TypeOK
  <2>2. CASE isBase = {}
    <3>1. PICK l \in Fresh : NewLayer(l, {}) /\ SetAsBaseLayerImpl(l) /\ Return(h, l)
      BY <1>1, <2>2 DEF AddBaseLayer
    <3>2. /\ layers' = layers \union {l}
          /\ layers' \subseteq LayerId
          /\ clinks' \subseteq layers' \X layers'
          /\ text' \in [layers' -> Text]
          /\ text'[l] \in Text
          /\ dropped' \subseteq LayerId \ layers'
      BY <3>1, NewLayerType
    <3>3. isBase' \subseteq layers'
      BY <3>1, <3>2 DEF SetAsBaseLayerImpl
    <3>4. handle' \in [Handle -> LayerObject]
      <4>1. [id |-> l, isBase |-> l \in isBase', text |-> text'[l]] \in LayerObject
        BY <3>2, CopyType, Zenon DEF Fresh
      <4> QED BY <3>1, <4>1, HandleType DEF Return
    <3> QED BY <3>2, <3>3, <3>4 DEF TypeOK
  <2> QED BY <2>1, <2>2
<1>2. ASSUME NEW h \in Handle, AddLayerOnTop(h) \/ AddLayerOnBottom(h)
      PROVE  TypeOK'
  <2>1. CASE /\ ReturnInvalid(h)
             /\ UNCHANGED <<layers, clinks, isBase, text, dropped>>
    BY <2>1, InvalidLayerType, HandleType DEF ReturnInvalid, TypeOK
  <2>2. CASE \E l \in Fresh, m \in layers :
               /\ NewLayer(l, {<<m, l>>}) \/ NewLayer(l, {<<l, m>>})
               /\ UNCHANGED isBase
               /\ Return(h, l)
    <3>1. PICK l \in Fresh, m \in layers :
            /\ NewLayer(l, {<<m, l>>}) \/ NewLayer(l, {<<l, m>>})
            /\ UNCHANGED isBase
            /\ Return(h, l)
      BY <2>2
    <3>2. /\ layers' = layers \union {l}
          /\ layers' \subseteq LayerId
          /\ clinks' \subseteq layers' \X layers'
          /\ text' \in [layers' -> Text]
          /\ text'[l] \in Text
          /\ dropped' \subseteq LayerId \ layers'
      BY <3>1, NewLayerType
    <3>3. handle' \in [Handle -> LayerObject]
      <4>1. [id |-> l, isBase |-> l \in isBase', text |-> text'[l]] \in LayerObject
        BY <3>2, CopyType, Zenon DEF Fresh
      <4> QED BY <3>1, <4>1, HandleType DEF Return
    <3> QED BY <3>1, <3>2, <3>3 DEF TypeOK
  <2> QED BY <1>2, <2>1, <2>2
       DEF AddLayerOnTop, AddLayerOnBottom, TopLayers, BottomLayers
<1>3. CASE RemoveTopLayer \/ RemoveBottomLayer \/ RemoveBaseLayer \/ RemoveAllButBaseLayer
  BY <1>3, Removals, RemoveLayersType DEF TypeOK
<1>4. ASSUME NEW h \in Handle, SetAsBaseLayer(h)
      PROVE  TypeOK'
  <2>1. handle' \in [Handle -> LayerObject]
    BY <1>4 DEF SetAsBaseLayer, TypeOK, LayerObject
  <2> QED BY <1>4, <2>1 DEF SetAsBaseLayer, SetAsBaseLayerImpl, TypeOK
<1>5. ASSUME NEW h \in Handle, UpdateLayer(h)
      PROVE  TypeOK'
  <2>1. handle[h].text \in Text
    BY DEF TypeOK, LayerObject
  <2> QED BY <1>5, <2>1 DEF UpdateLayer, TypeOK
<1>6. ASSUME NEW h \in Handle, NEW l \in layers \union dropped, GetLayer(h, l)
      PROVE  TypeOK'
  <2>1. CASE l \in layers
    <3>1. [id |-> l, isBase |-> l \in isBase, text |-> text[l]] \in LayerObject
      <4>1. l \in LayerId /\ text[l] \in Text
        BY <2>1 DEF TypeOK
      <4> QED BY <4>1, CopyType, Zenon
    <3> QED BY <1>6, <2>1, <3>1, HandleType DEF GetLayer, TypeOK
  <2>2. CASE l \notin layers
    BY <1>6, <2>2, InvalidLayerType, HandleType DEF GetLayer, ReturnInvalid, TypeOK
  <2> QED BY <2>1, <2>2
<1>7. ASSUME NEW h \in Handle, NEW t \in Text, SetDescription(h, t)
      PROVE  TypeOK'
  <2>1. handle' \in [Handle -> LayerObject]
    BY <1>7 DEF SetDescription, TypeOK, LayerObject
  <2> QED BY <1>7, <2>1 DEF SetDescription, TypeOK
<1>8. ASSUME NEW a \in Fresh, NEW b \in Fresh, SetGraph(a, b)
      PROVE  TypeOK'
  BY <1>8 DEF SetGraph, Fresh, TypeOK
<1>9. ASSUME NEW h \in Handle, SetAsBaseLayerThrows(h)
      PROVE  TypeOK'
  BY <1>9 DEF SetAsBaseLayerThrows, TypeOK
<1>10. CASE UNCHANGED vars
  BY <1>10 DEF vars, TypeOK
<1> QED
  BY <1>1, <1>2, <1>3, <1>4, <1>5, <1>6, <1>7, <1>8, <1>9, <1>10 DEF NextStale, Next

\* Ids, edges, flags and the callers' copies stay well formed, whatever
\* removed layers the callers still hold.
THEOREM TypeCorrect == SpecStale => []TypeOK
BY InitTypeOK, TypeStep, PTL DEF SpecStale

\* Only addBaseLayer and setAsBaseLayer set a flag, and both leave one
LEMMA OneBaseStep ==
  ASSUME TypeOK, AtMostOneBase, [NextStale]_vars
  PROVE  AtMostOneBase'
<1>1. ASSUME NEW l, SetAsBaseLayerImpl(l)
      PROVE  AtMostOneBase'
  BY <1>1 DEF SetAsBaseLayerImpl, AtMostOneBase
<1>2. ASSUME isBase' \subseteq isBase
      PROVE  AtMostOneBase'
  BY <1>2 DEF AtMostOneBase
<1>3. ASSUME NEW h \in Handle, AddBaseLayer(h) \/ SetAsBaseLayer(h)
      PROVE  AtMostOneBase'
  BY <1>1, <1>2, <1>3 DEF AddBaseLayer, SetAsBaseLayer
<1>4. CASE RemoveTopLayer \/ RemoveBottomLayer \/ RemoveBaseLayer \/ RemoveAllButBaseLayer
  BY <1>2, <1>4, Removals, RemoveLayersType DEF TypeOK
<1>5. ASSUME NEW h \in Handle, SetAsBaseLayerThrows(h)
      PROVE  AtMostOneBase'
  BY <1>2, <1>5 DEF SetAsBaseLayerThrows
<1>6. ASSUME NEW h \in Handle, AddLayerOnTop(h) \/ AddLayerOnBottom(h) \/ UpdateLayer(h)
      PROVE  AtMostOneBase'
  BY <1>2, <1>6 DEF AddLayerOnTop, AddLayerOnBottom, UpdateLayer
<1>7. ASSUME NEW h \in Handle, NEW l \in layers \union dropped, GetLayer(h, l)
      PROVE  AtMostOneBase'
  BY <1>2, <1>7 DEF GetLayer
<1>8. ASSUME NEW h \in Handle, NEW t \in Text, SetDescription(h, t)
      PROVE  AtMostOneBase'
  BY <1>2, <1>8 DEF SetDescription
<1>9. ASSUME NEW a \in Fresh, NEW b \in Fresh, SetGraph(a, b)
      PROVE  AtMostOneBase'
  BY <1>2, <1>9 DEF SetGraph
<1>10. CASE UNCHANGED vars
  BY <1>2, <1>10 DEF vars
<1> QED
  BY <1>3, <1>4, <1>5, <1>6, <1>7, <1>8, <1>9, <1>10 DEF NextStale, Next

\* There is never a second base layer, whatever copies the callers write back
\* and whatever removed layers they pass to setAsBaseLayer.
THEOREM OneBase == SpecStale => []AtMostOneBase
<1>1. Init => AtMostOneBase
  BY DEF Init, AtMostOneBase
<1> QED
  BY <1>1, OneBaseStep, TypeCorrect, PTL DEF SpecStale

\* What keeps walks along parent() from looping: for each edge a set of layers
\* closed under parents that holds its upper end and not its lower one
Parted(l, p) ==
  \E S \in SUBSET layers : p \in S /\ (\A x \in S : Parents(x) \subseteq S) /\ l \notin S

LEMMA PartedMeansNoLoop == \A l, p : Parted(l, p) <=> ~Climbs(p, l)
BY DEF Parted, Climbs

LEMMA PartedMeansNoLoopNext == (\A l, p : Parted(l, p) <=> ~Climbs(p, l))'
BY PartedMeansNoLoop, PTL

\* A new layer without edges, above a layer without parents or below one
\* without children
LEMMA PathsWithNew ==
  ASSUME TypeOK, PathsOnly, NEW n \in Fresh, NEW edges, layers' = layers \union {n},
         clinks' = clinks \union edges,
         \/ edges = {}
         \/ \E m \in layers : edges = {<<m, n>>} /\ Parents(m) = {}
         \/ \E m \in layers : edges = {<<n, m>>} /\ Children(m) = {}
  PROVE  PathsOnly'
<1>1. /\ n \notin layers /\ clinks \subseteq layers \X layers
      /\ Parents(n) = {} /\ Children(n) = {}
      /\ \A l, m : l = n \/ m = n => <<l, m>> \notin clinks
  BY DEF TypeOK, Fresh, Parents, Children
<1>2. /\ \A l, m : m \in Parents(l) <=> <<l, m>> \in clinks
      /\ \A l, m : m \in Parents(l)' <=> <<l, m>> \in clinks \/ (<<l, m>> \in edges /\ m \in layers')
      /\ \A l, m : m \in Children(l) <=> <<m, l>> \in clinks
      /\ \A l, m : m \in Children(l)' <=> <<m, l>> \in clinks \/ (<<m, l>> \in edges /\ m \in layers')
  BY <1>1 DEF Parents, Children
<1>3. /\ \A l \in layers : \A p, q \in Parents(l) : p = q
      /\ \A l \in layers : \A p, q \in Children(l) : p = q
      /\ \A l \in layers : \A p \in Parents(l) : Parted(l, p)
  BY PartedMeansNoLoop DEF PathsOnly
<1>7. \A l, m : <<l, m>> \in edges =>
        /\ Parents(l) = {} /\ Children(m) = {}
        /\ \A x, y : <<x, y>> \in edges => x = l /\ y = m
        /\ (l = n /\ m \in layers) \/ (m = n /\ l \in layers)
  <2>1. CASE edges = {}
    BY <2>1
  <2>2. CASE \E m \in layers : edges = {<<m, n>>} /\ Parents(m) = {}
    <3>1. PICK a \in layers : edges = {<<a, n>>} /\ Parents(a) = {}
      BY <2>2
    <3>2. \A l, m : <<l, m>> \in edges <=> l = a /\ m = n
      BY <3>1
    <3> QED BY <1>1, <3>1, <3>2
  <2>3. CASE \E m \in layers : edges = {<<n, m>>} /\ Children(m) = {}
    <3>1. PICK a \in layers : edges = {<<n, a>>} /\ Children(a) = {}
      BY <2>3
    <3>2. \A l, m : <<l, m>> \in edges <=> l = n /\ m = a
      BY <3>1
    <3> QED BY <1>1, <3>1, <3>2
  <2> QED BY <2>1, <2>2, <2>3
<1>4. ASSUME NEW l \in layers', NEW p \in Parents(l)', NEW q \in Parents(l)' PROVE p = q
  <2>1. /\ p \in Parents(l) \/ <<l, p>> \in edges
        /\ q \in Parents(l) \/ <<l, q>> \in edges
    BY <1>2
  <2>2. CASE \E m : <<l, m>> \in edges
    <3>1. Parents(l) = {}
      BY <1>7, <2>2
    <3> QED BY <1>7, <2>1, <3>1
  <2>3. CASE ~ \E m : <<l, m>> \in edges
    <3>1. p \in Parents(l) /\ q \in Parents(l)
      BY <2>1, <2>3
    <3>2. l \in layers
      BY <1>1, <1>2, <3>1
    <3> QED BY <1>3, <3>1, <3>2
  <2> QED BY <2>2, <2>3
<1>5. ASSUME NEW l \in layers', NEW p \in Children(l)', NEW q \in Children(l)' PROVE p = q
  <2>1. /\ p \in Children(l) \/ <<p, l>> \in edges
        /\ q \in Children(l) \/ <<q, l>> \in edges
    BY <1>2
  <2>2. CASE \E m : <<m, l>> \in edges
    <3>1. Children(l) = {}
      BY <1>7, <2>2
    <3> QED BY <1>7, <2>1, <3>1
  <2>3. CASE ~ \E m : <<m, l>> \in edges
    <3>1. p \in Children(l) /\ q \in Children(l)
      BY <2>1, <2>3
    <3>2. l \in layers
      BY <1>1, <1>2, <3>1
    <3> QED BY <1>3, <3>1, <3>2
  <2> QED BY <2>2, <2>3
<1>6. ASSUME NEW l \in layers', NEW p \in Parents(l)' PROVE Parted(l, p)'
  <2> DEFINE Closed(S) == \A x \in S : Parents(x)' \subseteq S
  <2> SUFFICES \E S \in SUBSET layers' : p \in S /\ Closed(S) /\ l \notin S
    BY DEF Parted
  <2>1. CASE <<l, p>> \in clinks
    <3>1. l \in layers /\ p \in layers /\ l # n
      BY <1>1, <2>1
    <3>2. PICK S \in SUBSET layers : p \in S /\ (\A x \in S : Parents(x) \subseteq S) /\ l \notin S
      BY <1>2, <1>3, <2>1, <3>1 DEF Parted
    <3>3. CASE \E m \in layers : edges = {<<m, n>>} /\ Parents(m) = {}
      <4>1. PICK m \in layers : edges = {<<m, n>>} /\ Parents(m) = {}
        BY <3>3
      <4>2. Closed(S \union {n})
        BY <1>1, <1>2, <3>2, <4>1
      <4> QED BY <3>1, <3>2, <4>2
    <3>4. CASE edges = {} \/ \E m \in layers : edges = {<<n, m>>}
      <4>1. \A x \in S : n # x
        BY <1>1, <3>2
      <4>2. \A x \in S : \A m : <<x, m>> \notin edges
        BY <3>4, <4>1
      <4>3. Closed(S)
        BY <1>2, <3>2, <4>2
      <4> QED BY <3>2, <4>3
    <3> QED BY <3>3, <3>4
  <2>2. CASE <<l, p>> \notin clinks
    <3>1. <<l, p>> \in edges
      BY <1>2, <1>6, <2>2
    <3>2. CASE \E m \in layers : edges = {<<m, n>>} /\ Parents(m) = {}
      <4>1. l \in layers /\ p = n
        BY <3>1, <3>2
      <4>2. Closed({n}) /\ l \notin {n}
        BY <1>1, <1>2, <3>2, <4>1
      <4> QED BY <4>1, <4>2
    <3>3. CASE \E m \in layers : edges = {<<n, m>>} /\ Children(m) = {}
      <4>1. l = n /\ p \in layers
        BY <3>1, <3>3
      <4>2. \A x \in layers : \A m : <<x, m>> \notin edges
        BY <1>1, <3>3
      <4>3. ASSUME NEW x \in layers, NEW y \in Parents(x)'
            PROVE  y \in layers
        <5>1. <<x, y>> \in clinks
          BY <1>2, <4>2, <4>3
        <5> QED BY <1>1, <5>1
      <4>4. Closed(layers) /\ l \notin layers
        BY <1>1, <4>1, <4>3
      <4> QED BY <4>1, <4>4
    <3> QED BY <3>1, <3>2, <3>3
  <2> QED BY <2>1, <2>2
<1> QED BY <1>4, <1>5, <1>6, PartedMeansNoLoopNext DEF PathsOnly

LEMMA PathsLeft ==
  ASSUME TypeOK, PathsOnly, NEW gone, layers' = layers \ gone,
         clinks' = {e \in clinks : e[1] \notin gone /\ e[2] \notin gone}
  PROVE  PathsOnly'
<1>1. clinks \subseteq layers \X layers
  BY DEF TypeOK
<1>2. /\ \A l, m : m \in Parents(l)' <=> m \in Parents(l) /\ l \notin gone /\ m \notin gone
      /\ \A l, m : m \in Children(l)' <=> m \in Children(l) /\ l \notin gone /\ m \notin gone
  BY <1>1 DEF Parents, Children
<1>3. /\ \A l \in layers : \A p, q \in Parents(l) : p = q
      /\ \A l \in layers : \A p, q \in Children(l) : p = q
      /\ \A l \in layers : \A p \in Parents(l) : Parted(l, p)
  BY PartedMeansNoLoop DEF PathsOnly
<1>4. ASSUME NEW l \in layers', NEW p \in Parents(l)' PROVE Parted(l, p)'
  <2>1. PICK S \in SUBSET layers : p \in S /\ (\A x \in S : Parents(x) \subseteq S) /\ l \notin S
    BY <1>2, <1>3, <1>4 DEF Parted
  <2>2. /\ S \ gone \in SUBSET layers' /\ p \in S \ gone /\ l \notin S \ gone
        /\ \A x \in S \ gone : Parents(x)' \subseteq S \ gone
    BY <1>2, <1>4, <2>1
  <2> QED BY <2>2 DEF Parted
<1>5. /\ \A l \in layers' : \A p, q \in Parents(l)' : p = q
      /\ \A l \in layers' : \A p, q \in Children(l)' : p = q
  BY <1>2, <1>3
<1> QED BY <1>4, <1>5, PartedMeansNoLoopNext DEF PathsOnly

\* The callers' objects, flags and descriptions have no part in it
LEMMA PathsSame ==
  ASSUME PathsOnly, layers' = layers, clinks' = clinks
  PROVE  PathsOnly'
<1>1. \A l : Parents(l)' = Parents(l) /\ Children(l)' = Children(l)
  BY DEF Parents, Children
<1>2. \A l, p : Climbs(p, l)' <=> Climbs(p, l)
  BY <1>1 DEF Climbs
<1> QED BY <1>1, <1>2 DEF PathsOnly

LEMMA PathsStep ==
  ASSUME TypeOK, PathsOnly, [NextStale]_vars
  PROVE  PathsOnly'
<1>1. ASSUME NEW h \in Handle, AddBaseLayer(h) \/ AddLayerOnTop(h) \/ AddLayerOnBottom(h)
      PROVE  PathsOnly'
  <2>1. CASE UNCHANGED <<layers, clinks, isBase, text, dropped>>
    BY <2>1, PathsSame
  <2>2. ASSUME NEW n \in Fresh, NEW edges, NewLayer(n, edges),
               \/ edges = {}
               \/ \E m \in TopLayers : edges = {<<m, n>>}
               \/ \E m \in BottomLayers : edges = {<<n, m>>}
        PROVE  PathsOnly'
    <3>1. layers' = layers \union {n} /\ clinks' = clinks \union edges
      BY <2>2 DEF NewLayer
    <3>2. \/ edges = {}
          \/ \E m \in layers : edges = {<<m, n>>} /\ Parents(m) = {}
          \/ \E m \in layers : edges = {<<n, m>>} /\ Children(m) = {}
      BY <2>2 DEF TopLayers, BottomLayers
    <3> QED BY <3>1, <3>2, PathsWithNew
  <2>3. \/ UNCHANGED <<layers, clinks, isBase, text, dropped>>
        \/ \E n \in Fresh : NewLayer(n, {})
        \/ \E n \in Fresh, m \in TopLayers : NewLayer(n, {<<m, n>>})
        \/ \E n \in Fresh, m \in BottomLayers : NewLayer(n, {<<n, m>>})
    BY <1>1 DEF AddBaseLayer, AddLayerOnTop, AddLayerOnBottom
  <2> QED BY <2>1, <2>2, <2>3
<1>2. CASE RemoveTopLayer \/ RemoveBottomLayer \/ RemoveBaseLayer \/ RemoveAllButBaseLayer
  <2>1. PICK gone \in SUBSET layers : RemoveLayers(gone)
    BY <1>2, Removals DEF TypeOK
  <2> QED BY <2>1, PathsLeft DEF RemoveLayers
<1>3. ASSUME NEW h \in Handle,
             \/ SetAsBaseLayer(h) \/ SetAsBaseLayerThrows(h) \/ UpdateLayer(h)
             \/ \E l \in layers \union dropped : GetLayer(h, l)
             \/ \E t \in Text : SetDescription(h, t)
      PROVE  PathsOnly'
  BY <1>3, PathsSame
     DEF SetAsBaseLayer, SetAsBaseLayerThrows, UpdateLayer, GetLayer, SetDescription
<1>4. ASSUME NEW a \in Fresh, NEW b \in Fresh, SetGraph(a, b)
      PROVE  PathsOnly'
  BY <1>4, PathsSame DEF SetGraph
<1>5. CASE UNCHANGED vars
  BY <1>5, PathsSame DEF vars
<1> QED BY <1>1, <1>2, <1>3, <1>4, <1>5 DEF NextStale, Next

\* Even when callers make removed layers the base layer, and several chains
\* come about, no layer gets two neighbours on one side and no chain closes
\* into a ring, so that every walk along parent() ends.
THEOREM OnlyPaths == SpecStale => []PathsOnly
<1>1. Init => PathsOnly
  BY DEF Init, PathsOnly
<1> QED BY <1>1, PathsStep, TypeCorrect, PTL DEF SpecStale

---------------------------------------------------------------------------
(* Least elements, in place of an induction principle *)

\* Every nonempty set of naturals has a least element
LEMMA LeastNatural ==
  ASSUME NEW T \in SUBSET Nat, T # {}
  PROVE  \E x \in T : \A y \in T : x <= y
<1> DEFINE I == {0..x : x \in T}
           R == StrictSubsetOrdering(Nat)
<1>1. I \subseteq FiniteSubsetsOf(Nat) /\ I # {}
  <2>1. ASSUME NEW x \in T PROVE 0..x \in FiniteSubsetsOf(Nat)
    <3>1. x \in Int /\ 0 \in Int
      OBVIOUS
    <3>2. IsFiniteSet(0..x)
      BY ONLY <3>1, FS_Interval
    <3> QED BY <3>2 DEF FiniteSubsetsOf
  <2>2. I # {}
    OBVIOUS
  <2> QED BY <2>1, <2>2
<1>2. IsWellFoundedOn(R, FiniteSubsetsOf(Nat))
  BY FS_StrictSubsetOrderingWellFounded
<1>3. PICK A \in I : \A B \in I : ~ (<<B, A>> \in R)
  <2> HIDE DEF I, R
  <2> QED BY <1>1, <1>2, WFMin
<1>4. PICK x \in T : A = 0..x
  OBVIOUS
<1>5. ASSUME NEW y \in T, y < x PROVE FALSE
  <2>1. 0..y \in I /\ 0..y \in SUBSET Nat /\ A \in SUBSET Nat
    BY <1>4
  <2>2. 0..y \subseteq A /\ 0..y # A
    BY <1>4, <1>5
  <2>3. <<0..y, A>> \in R
    BY <2>1, <2>2 DEF StrictSubsetOrdering
  <2> QED BY <2>1, <2>3, <1>3
<1> QED BY <1>5

---------------------------------------------------------------------------
(* Chains: facts about any set L of layers and set E of edges *)

\* A chain has as many positions as layers
LEMMA ChainCount ==
  ASSUME NEW L, NEW E, NEW n \in Nat, NEW s, ChainOf(s, n, L, E)
  PROVE  IsFiniteSet(L) /\ Cardinality(L) = n
<1>1. IsFiniteSet(1..n) /\ Cardinality(1..n) = n
  <2>1. 1 \in Int /\ n \in Int
    OBVIOUS
  <2> QED BY <2>1, FS_Interval
<1>2. s \in Bijection(1..n, L)
  BY DEF ChainOf, Bijection, Injection, Surjection, IsInjective
<1>3. ExistsBijection(1..n, L)
  BY <1>2 DEF ExistsBijection
<1> QED BY <1>1, <1>3, FS_Bijection

\* Where the edges of a chain lead
LEMMA ChainEdges ==
  ASSUME NEW L, NEW E, NEW n \in Nat, NEW s, ChainOf(s, n, L, E),
         NEW i \in 1..n, NEW j \in 1..n
  PROVE  <<s[i], s[j]>> \in E <=> j = i + 1
<1>1. ASSUME <<s[i], s[j]>> \in E PROVE j = i + 1
  <2>1. PICK m \in 1..(n - 1) : <<s[i], s[j]>> = <<s[m], s[m + 1]>>
    BY <1>1 DEF ChainOf
  <2>2. m \in 1..n /\ m + 1 \in 1..n /\ s[i] = s[m] /\ s[j] = s[m + 1]
    BY <2>1
  <2>3. i = m /\ j = m + 1
    BY <2>2 DEF ChainOf
  <2> QED BY <2>3
<1>2. ASSUME j = i + 1 PROVE <<s[i], s[j]>> \in E
  <2>1. i \in 1..(n - 1)
    BY <1>2
  <2> QED BY <1>2, <2>1 DEF ChainOf
<1> QED BY <1>1, <1>2

\* The edges leave no choice of the order
LEMMA ChainUnique ==
  ASSUME NEW L, NEW E, NEW n \in Nat, NEW s, NEW t,
         ChainOf(s, n, L, E), ChainOf(t, n, L, E)
  PROVE  s = t
<1>1. s \in [1..n -> L] /\ t \in [1..n -> L]
  BY DEF ChainOf
<1> SUFFICES ASSUME NEW d \in 1..n, s[d] # t[d]
             PROVE  FALSE
  BY <1>1
<1> DEFINE D == {i \in 1..n : s[i] # t[i]}
<1>2. PICK m \in D : \A i \in D : m <= i
  <2>1. D \in SUBSET Nat /\ D # {}
    OBVIOUS
  <2> HIDE DEF D
  <2> QED BY <2>1, LeastNatural
<1>3. PICK j \in 1..n : t[m] = s[j]
  BY <1>1 DEF ChainOf
<1>4. PICK p \in 1..n : s[m] = t[p]
  BY <1>1 DEF ChainOf
<1>5. j # m /\ p # m
  BY <1>3, <1>4
<1>6. j > m
  <2>1. ASSUME j < m PROVE FALSE
    <3>1. s[j] = t[j]
      BY <1>2, <2>1
    <3> QED BY <1>3, <3>1, <2>1 DEF ChainOf
  <2> QED BY <1>5, <2>1
<1>7. p > m
  <2>1. ASSUME p < m PROVE FALSE
    <3>1. s[p] = t[p]
      BY <1>2, <2>1
    <3> QED BY <1>4, <3>1, <2>1 DEF ChainOf
  <2> QED BY <1>5, <2>1
<1>8. CASE m = 1
  <2>1. <<s[j - 1], s[j]>> \in E
    BY <1>6, <1>8, ChainEdges
  <2>2. PICK q \in 1..n : s[j - 1] = t[q]
    BY <1>1, <1>6, <1>8 DEF ChainOf
  <2>3. <<t[q], t[m]>> \in E
    BY <2>1, <2>2, <1>3
  <2>4. m = q + 1
    BY <2>3, ChainEdges
  <2> QED BY <2>4, <1>8
<1>9. CASE m > 1
  <2>1. s[m - 1] = t[m - 1]
    BY <1>2, <1>9
  <2>2. <<s[m - 1], s[m]>> \in E
    BY <1>9, ChainEdges
  <2>3. <<t[m - 1], t[p]>> \in E
    BY <2>1, <2>2, <1>4
  <2>4. p = (m - 1) + 1
    BY <2>3, <1>9, ChainEdges
  <2> QED BY <2>4, <1>5
<1> QED BY <1>8, <1>9

\* The changes the operations make to a chain

\* addLayerOnTop
LEMMA ChainAppend ==
  ASSUME NEW L, NEW E, NEW n \in Nat \ {0}, NEW s, ChainOf(s, n, L, E),
         E \subseteq L \X L, NEW l, l \notin L
  PROVE  ChainOf(Append(s, l), n + 1, L \union {l}, E \union {<<s[n], l>>})
<1> DEFINE t == [i \in 1..(n + 1) |-> IF i = n + 1 THEN l ELSE s[i]]
<1>1. s \in [1..n -> L] /\ s \in Seq(L) /\ Len(s) = n
  BY DEF ChainOf
<1>2. Append(s, l) = t
  <2>1. s \in Seq(L \union {l}) /\ l \in L \union {l}
    BY <1>1
  <2>2. /\ Append(s, l) \in Seq(L \union {l})
        /\ Len(Append(s, l)) = n + 1
        /\ \A i \in 1..n : Append(s, l)[i] = s[i]
        /\ Append(s, l)[n + 1] = l
    BY <1>1, <2>1, AppendProperties
  <2>3. t \in Seq(L \union {l}) /\ Len(t) = n + 1
    BY <1>1
  <2>4. \A i \in 1..(n + 1) : Append(s, l)[i] = t[i]
    BY <2>2
  <2> HIDE DEF t
  <2> QED BY <2>2, <2>3, <2>4, SeqEqual
<1>3. t \in [1..(n + 1) -> L \union {l}]
  BY <1>1
<1>4. \A i, j \in 1..(n + 1) : t[i] = t[j] => i = j
  BY <1>1 DEF ChainOf
<1>5. \A m \in L \union {l} : \E i \in 1..(n + 1) : m = t[i]
  <2>1. ASSUME NEW m \in L PROVE \E i \in 1..(n + 1) : m = t[i]
    <3>1. PICK i \in 1..n : m = s[i]
      BY DEF ChainOf
    <3> QED BY <3>1
  <2>2. l = t[n + 1]
    OBVIOUS
  <2> HIDE DEF t
  <2> QED BY <2>1, <2>2
<1>6. E \union {<<s[n], l>>} = {<<t[i], t[i + 1]>> : i \in 1..n}
  <2>1. E = {<<s[i], s[i + 1]>> : i \in 1..(n - 1)}
    BY DEF ChainOf
  <2>2. <<t[n], t[n + 1]>> = <<s[n], l>>
    OBVIOUS
  <2>3. \A i \in 1..(n - 1) : <<t[i], t[i + 1]>> = <<s[i], s[i + 1]>>
    OBVIOUS
  <2>4. \A i \in 1..n : i = n \/ i \in 1..(n - 1)
    OBVIOUS
  <2> HIDE DEF t
  <2> QED BY <2>1, <2>2, <2>3, <2>4
<1>7. ChainOf(t, n + 1, L \union {l}, E \union {<<s[n], l>>})
  <2> HIDE DEF t
  <2> QED BY <1>3, <1>4, <1>5, <1>6 DEF ChainOf
<1> QED BY <1>2, <1>7

\* addLayerOnBottom
LEMMA ChainPrepend ==
  ASSUME NEW L, NEW E, NEW n \in Nat \ {0}, NEW s, ChainOf(s, n, L, E),
         E \subseteq L \X L, NEW l, l \notin L
  PROVE  ChainOf(<<l>> \o s, n + 1, L \union {l}, E \union {<<l, s[1]>>})
<1> DEFINE t == [i \in 1..(n + 1) |-> IF i = 1 THEN l ELSE s[i - 1]]
<1>1. s \in [1..n -> L] /\ s \in Seq(L) /\ Len(s) = n
  BY DEF ChainOf
<1>2. <<l>> \o s = t
  BY <1>1
<1>3. t \in [1..(n + 1) -> L \union {l}]
  BY <1>1
<1>4. \A i, j \in 1..(n + 1) : t[i] = t[j] => i = j
  BY <1>1 DEF ChainOf
<1>5. \A m \in L \union {l} : \E i \in 1..(n + 1) : m = t[i]
  <2>1. ASSUME NEW m \in L PROVE \E i \in 1..(n + 1) : m = t[i]
    <3>1. PICK i \in 1..n : m = s[i]
      BY DEF ChainOf
    <3>2. i + 1 \in 1..(n + 1) /\ m = t[i + 1]
      BY <3>1
    <3> QED BY <3>2
  <2>2. l = t[1] /\ 1 \in 1..(n + 1)
    OBVIOUS
  <2> HIDE DEF t
  <2> QED BY <2>1, <2>2
<1>6. E \union {<<l, s[1]>>} = {<<t[i], t[i + 1]>> : i \in 1..n}
  <2>1. E = {<<s[i], s[i + 1]>> : i \in 1..(n - 1)}
    BY DEF ChainOf
  <2>2. <<t[1], t[1 + 1]>> = <<l, s[1]>> /\ 1 \in 1..n
    OBVIOUS
  <2>3. \A i \in 1..(n - 1) : /\ <<t[i + 1], t[(i + 1) + 1]>> = <<s[i], s[i + 1]>>
                             /\ i + 1 \in 1..n
    OBVIOUS
  <2>4. \A i \in 1..n : i = 1 \/ \E j \in 1..(n - 1) : i = j + 1
    <3>1. ASSUME NEW i \in 1..n, i # 1 PROVE i - 1 \in 1..(n - 1) /\ i = (i - 1) + 1
      BY <3>1
    <3> QED BY <3>1
  <2> HIDE DEF t
  <2> QED BY <2>1, <2>2, <2>3, <2>4
<1>7. ChainOf(t, n + 1, L \union {l}, E \union {<<l, s[1]>>})
  <2> HIDE DEF t
  <2> QED BY <1>3, <1>4, <1>5, <1>6 DEF ChainOf
<1> QED BY <1>2, <1>7

\* removeTopLayer
LEMMA ChainFront ==
  ASSUME NEW L, NEW E, NEW n \in Nat \ {0}, NEW s, ChainOf(s, n, L, E)
  PROVE  ChainOf(SubSeq(s, 1, n - 1), n - 1, L \ {s[n]},
                 {e \in E : e[1] \notin {s[n]} /\ e[2] \notin {s[n]}})
<1> DEFINE t == [i \in 1..(n - 1) |-> s[i]]
           F == {e \in E : e[1] \notin {s[n]} /\ e[2] \notin {s[n]}}
<1>1. s \in [1..n -> L] /\ s \in Seq(L) /\ Len(s) = n
  BY DEF ChainOf
<1>2. SubSeq(s, 1, n - 1) = t
  BY <1>1
<1>3. \A i \in 1..n : s[i] = s[n] => i = n
  BY DEF ChainOf
<1>4. t \in [1..(n - 1) -> L \ {s[n]}]
  BY <1>1, <1>3
<1>5. \A i, j \in 1..(n - 1) : t[i] = t[j] => i = j
  BY <1>1 DEF ChainOf
<1>6. \A m \in L \ {s[n]} : \E i \in 1..(n - 1) : m = t[i]
  <2>1. ASSUME NEW m \in L \ {s[n]} PROVE \E i \in 1..(n - 1) : m = t[i]
    <3>1. PICK i \in 1..n : m = s[i]
      BY DEF ChainOf
    <3>2. i \in 1..(n - 1)
      BY <3>1
    <3> QED BY <3>1, <3>2
  <2> HIDE DEF t
  <2> QED BY <2>1
<1>7. F = {<<t[i], t[i + 1]>> : i \in 1..((n - 1) - 1)}
  <2>1. E = {<<s[i], s[i + 1]>> : i \in 1..(n - 1)}
    BY DEF ChainOf
  <2>2. \A i \in 1..(n - 1) : s[i + 1] = s[n] <=> i = n - 1
    BY <1>3
  <2>3. \A i \in 1..(n - 1) : s[i] # s[n]
    BY <1>3
  <2>4. F = {<<s[i], s[i + 1]>> : i \in 1..((n - 1) - 1)}
    <3>1. ASSUME NEW i \in 1..((n - 1) - 1) PROVE <<s[i], s[i + 1]>> \in F
      BY <2>1, <2>2, <2>3
    <3>2. ASSUME NEW e \in F PROVE \E i \in 1..((n - 1) - 1) : e = <<s[i], s[i + 1]>>
      <4>1. PICK i \in 1..(n - 1) : e = <<s[i], s[i + 1]>>
        BY <2>1
      <4>2. i # n - 1
        BY <4>1
      <4> QED BY <4>1, <4>2
    <3> HIDE DEF F
    <3> QED BY <3>1, <3>2
  <2>5. \A i \in 1..((n - 1) - 1) : <<t[i], t[i + 1]>> = <<s[i], s[i + 1]>>
    OBVIOUS
  <2> HIDE DEF F, t
  <2> QED BY <2>4, <2>5
<1>8. ChainOf(t, n - 1, L \ {s[n]}, F)
  <2> HIDE DEF t, F
  <2> QED BY <1>4, <1>5, <1>6, <1>7 DEF ChainOf
<1> QED BY <1>2, <1>8

\* removeBottomLayer
LEMMA ChainTail ==
  ASSUME NEW L, NEW E, NEW n \in Nat \ {0}, NEW s, ChainOf(s, n, L, E)
  PROVE  ChainOf(Tail(s), n - 1, L \ {s[1]},
                 {e \in E : e[1] \notin {s[1]} /\ e[2] \notin {s[1]}})
<1> DEFINE t == [i \in 1..(n - 1) |-> s[i + 1]]
           F == {e \in E : e[1] \notin {s[1]} /\ e[2] \notin {s[1]}}
<1>1. s \in [1..n -> L] /\ s \in Seq(L) /\ Len(s) = n
  BY DEF ChainOf
<1>2. Tail(s) = t
  <2>1. s # <<>>
    BY <1>1
  <2>2. /\ Tail(s) \in Seq(L)
        /\ Len(Tail(s)) = n - 1
        /\ \A i \in 1..(n - 1) : Tail(s)[i] = s[i + 1]
    BY <1>1, <2>1, HeadTailProperties
  <2>3. t \in Seq(L) /\ Len(t) = n - 1
    BY <1>1
  <2>4. \A i \in 1..(n - 1) : Tail(s)[i] = t[i]
    BY <2>2
  <2> HIDE DEF t
  <2> QED BY <2>2, <2>3, <2>4, SeqEqual
<1>3. \A i \in 1..n : s[i] = s[1] => i = 1
  BY DEF ChainOf
<1>4. t \in [1..(n - 1) -> L \ {s[1]}]
  BY <1>1, <1>3
<1>5. \A i, j \in 1..(n - 1) : t[i] = t[j] => i = j
  <2>1. ASSUME NEW i \in 1..(n - 1), NEW j \in 1..(n - 1), t[i] = t[j] PROVE i = j
    <3>1. i + 1 \in 1..n /\ j + 1 \in 1..n /\ s[i + 1] = s[j + 1]
      BY <2>1
    <3>2. i + 1 = j + 1
      BY <3>1 DEF ChainOf
    <3> QED BY <3>2
  <2> QED BY <2>1
<1>6. \A m \in L \ {s[1]} : \E i \in 1..(n - 1) : m = t[i]
  <2>1. ASSUME NEW m \in L \ {s[1]} PROVE \E i \in 1..(n - 1) : m = t[i]
    <3>1. PICK i \in 1..n : m = s[i]
      BY DEF ChainOf
    <3>2. i - 1 \in 1..(n - 1) /\ m = t[i - 1]
      BY <3>1
    <3> QED BY <3>2
  <2> HIDE DEF t
  <2> QED BY <2>1
<1>7. F = {<<t[i], t[i + 1]>> : i \in 1..((n - 1) - 1)}
  <2>1. E = {<<s[i], s[i + 1]>> : i \in 1..(n - 1)}
    BY DEF ChainOf
  <2>2. \A i \in 1..(n - 1) : s[i] = s[1] <=> i = 1
    BY <1>3
  <2>3. \A i \in 1..(n - 1) : s[i + 1] # s[1]
    BY <1>3
  <2>4. F = {<<s[i + 1], s[(i + 1) + 1]>> : i \in 1..((n - 1) - 1)}
    <3>1. ASSUME NEW i \in 1..((n - 1) - 1) PROVE <<s[i + 1], s[(i + 1) + 1]>> \in F
      <4>1. i + 1 \in 1..(n - 1) /\ i + 1 # 1
        OBVIOUS
      <4> QED BY <4>1, <2>1, <2>2, <2>3
    <3>2. ASSUME NEW e \in F
          PROVE  \E i \in 1..((n - 1) - 1) : e = <<s[i + 1], s[(i + 1) + 1]>>
      <4>1. PICK j \in 1..(n - 1) : e = <<s[j], s[j + 1]>>
        BY <2>1
      <4>2. j # 1
        BY <4>1
      <4>3. j - 1 \in 1..((n - 1) - 1) /\ (j - 1) + 1 = j
        BY <4>2
      <4> QED BY <4>1, <4>3
    <3> HIDE DEF F
    <3> QED BY <3>1, <3>2
  <2>5. \A i \in 1..((n - 1) - 1) : <<t[i], t[i + 1]>> = <<s[i + 1], s[(i + 1) + 1]>>
    OBVIOUS
  <2> HIDE DEF F, t
  <2> QED BY <2>4, <2>5
<1>8. ChainOf(t, n - 1, L \ {s[1]}, F)
  <2> HIDE DEF t, F
  <2> QED BY <1>4, <1>5, <1>6, <1>7 DEF ChainOf
<1> QED BY <1>2, <1>8

\* addBaseLayer and removeAllButBaseLayer
LEMMA ChainSingle ==
  ASSUME NEW b
  PROVE  ChainOf(<<b>>, 1, {b}, {})
<1>1. <<b>> \in [1..1 -> {b}]
  OBVIOUS
<1>2. {<<(<<b>>)[i], (<<b>>)[i + 1]>> : i \in 1..(1 - 1)} = {}
  OBVIOUS
<1> QED BY <1>1, <1>2 DEF ChainOf

\* No layer at all
LEMMA ChainEmpty == ChainOf(<<>>, 0, {}, {})
<1>1. {<<(<<>>)[i], (<<>>)[i + 1]>> : i \in 1..(0 - 1)} = {}
  OBVIOUS
<1> QED BY <1>1 DEF ChainOf

---------------------------------------------------------------------------
(* Walking a chain *)

\* parent() and child() move by one position
LEMMA Neighbours ==
  ASSUME NEW n \in Nat, NEW s, ChainOf(s, n, layers, clinks),
         NEW i \in 1..n, NEW j \in 1..n
  PROVE  /\ s[j] \in Parents(s[i]) <=> j = i + 1
         /\ s[j] \in Children(s[i]) <=> i = j + 1
<1>1. s[i] \in layers /\ s[j] \in layers
  BY DEF ChainOf
<1>2. <<s[i], s[j]>> \in clinks <=> j = i + 1
  BY ChainEdges
<1>3. <<s[j], s[i]>> \in clinks <=> i = j + 1
  BY ChainEdges
<1> QED BY <1>1, <1>2, <1>3 DEF Parents, Children

\* Following parent() meets the positions above, and only those
LEMMA ClimbsUp ==
  ASSUME NEW n \in Nat, NEW s, ChainOf(s, n, layers, clinks),
         NEW i \in 1..n, NEW j \in 1..n
  PROVE  Climbs(s[i], s[j]) <=> i <= j
<1>1. ASSUME Climbs(s[i], s[j]) PROVE i <= j
  <2> DEFINE S == {s[m] : m \in i..n}
  <2>1. S \in SUBSET layers /\ s[i] \in S
    BY DEF ChainOf
  <2>2. ASSUME NEW x \in S, NEW p \in Parents(x) PROVE p \in S
    <3>1. PICK m \in i..n : x = s[m]
      OBVIOUS
    <3>2. PICK q \in 1..n : p = s[q]
      BY DEF ChainOf, Parents
    <3>3. q = m + 1
      BY <3>1, <3>2, Neighbours
    <3> QED BY <3>2, <3>3
  <2>3. s[j] \in S
    <3> HIDE DEF S
    <3> QED BY <1>1, <2>1, <2>2 DEF Climbs
  <2>4. PICK m \in i..n : s[j] = s[m]
    BY <2>3
  <2> QED BY <2>4 DEF ChainOf
<1>2. ASSUME i <= j PROVE Climbs(s[i], s[j])
  <2> SUFFICES ASSUME NEW S \in SUBSET layers, s[i] \in S,
                      \A x \in S : Parents(x) \subseteq S, s[j] \notin S
               PROVE  FALSE
    BY DEF Climbs
  <2> DEFINE T == {m \in i..n : s[m] \notin S}
  <2>1. PICK m \in T : \A q \in T : m <= q
    <3>1. T \in SUBSET Nat /\ T # {}
      BY <1>2
    <3> HIDE DEF T
    <3> QED BY <3>1, LeastNatural
  <2>2. m # i
    BY <2>1
  <2>3. m - 1 \in 1..n /\ m \in 1..n /\ s[m - 1] \in S
    BY <2>1, <2>2
  <2>4. s[m] \in Parents(s[m - 1])
    BY <2>3, Neighbours
  <2> QED BY <2>1, <2>3, <2>4
<1> QED BY <1>1, <1>2

\* Following child() meets the positions below, and only those
LEMMA DescendsDown ==
  ASSUME NEW n \in Nat, NEW s, ChainOf(s, n, layers, clinks),
         NEW i \in 1..n, NEW j \in 1..n
  PROVE  Descends(s[i], s[j]) <=> j <= i
<1>1. ASSUME Descends(s[i], s[j]) PROVE j <= i
  <2> DEFINE S == {s[m] : m \in 1..i}
  <2>1. S \in SUBSET layers /\ s[i] \in S
    BY DEF ChainOf
  <2>2. ASSUME NEW x \in S, NEW p \in Children(x) PROVE p \in S
    <3>1. PICK m \in 1..i : x = s[m]
      OBVIOUS
    <3>2. PICK q \in 1..n : p = s[q]
      BY DEF ChainOf, Children
    <3>3. m = q + 1
      BY <3>1, <3>2, Neighbours
    <3> QED BY <3>2, <3>3
  <2>3. s[j] \in S
    <3> HIDE DEF S
    <3> QED BY <1>1, <2>1, <2>2 DEF Descends
  <2>4. PICK m \in 1..i : s[j] = s[m]
    BY <2>3
  <2> QED BY <2>4 DEF ChainOf
<1>2. ASSUME j <= i PROVE Descends(s[i], s[j])
  <2> SUFFICES ASSUME NEW S \in SUBSET layers, s[i] \in S,
                      \A x \in S : Children(x) \subseteq S, s[j] \notin S
               PROVE  FALSE
    BY DEF Descends
  <2> DEFINE T == {d \in 0..(i - 1) : s[i - d] \notin S}
  <2>1. PICK d \in T : \A q \in T : d <= q
    <3>1. i - j \in 0..(i - 1) /\ s[i - (i - j)] \notin S
      BY <1>2
    <3>2. T \in SUBSET Nat
      OBVIOUS
    <3>3. i - j \in T
      BY ONLY <3>1
    <3> HIDE DEF T
    <3> QED BY <3>2, <3>3, LeastNatural
  <2>2. d # 0
    BY <2>1
  <2>3. d - 1 \in 0..(i - 1) /\ d - 1 \notin T
    BY <2>1, <2>2
  <2>4. i - d \in 1..n /\ (i - d) + 1 \in 1..n /\ s[(i - d) + 1] \in S
    BY <2>1, <2>2, <2>3
  <2>5. s[i - d] \in Children(s[(i - d) + 1])
    BY <2>4, Neighbours
  <2> QED BY <2>1, <2>4, <2>5
<1> QED BY <1>1, <1>2

---------------------------------------------------------------------------
(* The shape every operation keeps: a chain with one base layer in it *)

ShapeOf(s, n, k, L, E, B) ==
  /\ n \in Nat
  /\ ChainOf(s, n, L, E)
  /\ n = 0 => k = 0 /\ B = {}
  /\ n # 0 => k \in 1..n /\ B = {s[k]}

\* The ends of the chain are what topLayer and bottomLayer return, and
\* getAllLayers and removeAllButBaseLayer reach the whole chain
LEMMA Ends ==
  ASSUME NEW s, NEW n, NEW k, n # 0, ShapeOf(s, n, k, layers, clinks, isBase)
  PROVE  /\ TopLayers = {s[n]}
         /\ BottomLayers = {s[1]}
         /\ GetAllLayers = layers
         /\ {m \in layers : Climbs(s[k], m) \/ Descends(s[k], m)} = layers
<1> USE DEF ShapeOf
<1>1. /\ 1 \in 1..n /\ n \in 1..n /\ k \in 1..n /\ n \in Nat /\ isBase = {s[k]}
      /\ ChainOf(s, n, layers, clinks)
      /\ \A i \in 1..n : s[i] \in layers
      /\ \A l \in layers : \E i \in 1..n : l = s[i]
  BY DEF ChainOf
<1> HIDE DEF ShapeOf
<1>2. ASSUME NEW i \in 1..n
      PROVE  /\ Parents(s[i]) = {} <=> i = n
             /\ Children(s[i]) = {} <=> i = 1
  <2>1. ASSUME i # n PROVE Parents(s[i]) # {}
    <3>1. i + 1 \in 1..n
      BY <1>1, <2>1
    <3>2. s[i + 1] \in Parents(s[i])
      BY <1>1, <3>1, Neighbours
    <3> QED BY <3>2
  <2>2. ASSUME i # 1 PROVE Children(s[i]) # {}
    <3>1. i - 1 \in 1..n /\ i = (i - 1) + 1
      BY <1>1, <2>2
    <3>2. s[i - 1] \in Children(s[i])
      BY <1>1, <3>1, Neighbours
    <3> QED BY <3>2
  <2>3. ASSUME i = n, NEW p \in Parents(s[i]) PROVE FALSE
    <3>1. PICK j \in 1..n : p = s[j]
      BY <1>1 DEF Parents
    <3>2. j = i + 1
      BY <1>1, <3>1, Neighbours
    <3> QED BY <1>1, <2>3, <3>2
  <2>4. ASSUME i = 1, NEW p \in Children(s[i]) PROVE FALSE
    <3>1. PICK j \in 1..n : p = s[j]
      BY <1>1 DEF Children
    <3>2. i = j + 1
      BY <1>1, <3>1, Neighbours
    <3> QED BY <1>1, <2>4, <3>2
  <2> QED BY <2>1, <2>2, <2>3, <2>4
<1>3. TopLayers = {s[n]}
  <2>1. Climbs(s[k], s[n])
    BY <1>1, ClimbsUp
  <2>2. \A i \in 1..n : s[i] \in TopLayers <=> i = n
    BY <1>1, <1>2, <2>1 DEF TopLayers
  <2> QED BY <1>1, <2>2 DEF TopLayers
<1>4. BottomLayers = {s[1]}
  <2>1. Descends(s[k], s[1])
    BY <1>1, DescendsDown
  <2>2. \A i \in 1..n : s[i] \in BottomLayers <=> i = 1
    BY <1>1, <1>2, <2>1 DEF BottomLayers
  <2> QED BY <1>1, <2>2 DEF BottomLayers
<1>5. GetAllLayers = layers
  <2>1. \A i \in 1..n : Climbs(s[1], s[i])
    BY <1>1, ClimbsUp
  <2> QED BY <1>1, <1>4, <2>1 DEF GetAllLayers
<1>6. \A i \in 1..n : Climbs(s[k], s[i]) \/ Descends(s[k], s[i])
  BY <1>1, ClimbsUp, DescendsDown
<1> QED BY <1>1, <1>3, <1>4, <1>5, <1>6

\* What the refinement reads off a chain with a base in it
LEMMA ReadShape ==
  ASSUME NEW s, NEW n, NEW k, NEW L, NEW E, NEW B, ShapeOf(s, n, k, L, E, B)
  PROVE  /\ Cardinality(L) = n
         /\ L = {} <=> n = 0
         /\ s \in [1..n -> L]
         /\ (CHOOSE t \in [1..n -> L] : ChainOf(t, n, L, E)) = s
         /\ L # {} => (CHOOSE i \in 1..n : s[i] \in B) = k
         /\ L # {} => B # {}
         /\ L = {} => k = 0
         /\ \A a, b \in B : a = b
<1>1. n \in Nat /\ ChainOf(s, n, L, E) /\ s \in [1..n -> L]
  BY DEF ShapeOf, ChainOf
<1>2. Cardinality(L) = n
  BY <1>1, ChainCount
<1>3. L = {} <=> n = 0
  BY <1>1 DEF ChainOf
<1>4. (CHOOSE t \in [1..n -> L] : ChainOf(t, n, L, E)) = s
  BY <1>1, ChainUnique
<1>5. ASSUME n # 0 PROVE (CHOOSE i \in 1..n : s[i] \in B) = k
  <2>1. k \in 1..n /\ B = {s[k]}
    BY <1>5 DEF ShapeOf
  <2>2. \A i \in 1..n : s[i] \in B <=> i = k
    BY <2>1, <1>1 DEF ChainOf
  <2> QED BY <2>1, <2>2
<1> QED BY <1>1, <1>2, <1>3, <1>4, <1>5 DEF ShapeOf

\* The refinement mapping, before a step
LEMMA ShapeNow ==
  ASSUME NEW s, NEW n, NEW k, ShapeOf(s, n, k, layers, clinks, isBase)
  PROVE  LayerCount = n /\ TheStack = s /\ BasePosition = k
<1>1. LayerCount = n /\ TheStack = s
  BY ReadShape DEF LayerCount, TheStack
<1> QED BY <1>1, ReadShape DEF BasePosition

\* The refinement mapping and the invariants, after a step
LEMMA ShapeNext ==
  ASSUME NEW s, NEW n, NEW k, ShapeOf(s, n, k, layers', clinks', isBase')
  PROVE  /\ TheStack' = s
         /\ BasePosition' = k
         /\ AtMostOneBase'
         /\ BaseExists'
         /\ SingleStack'
<1>1. LayerCount' = n /\ TheStack' = s
  BY ReadShape DEF LayerCount, TheStack
<1>2. BasePosition' = k
  BY <1>1, ReadShape DEF BasePosition
<1>3. ChainOf(s, n, layers', clinks')
  BY DEF ShapeOf
<1>4. AtMostOneBase' /\ BaseExists'
  BY ReadShape DEF AtMostOneBase, BaseExists
<1>5. SingleStack'
  BY <1>1, <1>3, ReadShape DEF SingleStack
<1> QED BY <1>1, <1>2, <1>4, <1>5

\* The inductive invariant
IInv == TypeOK /\ AtMostOneBase /\ BaseExists /\ SingleStack

\* The invariant gives a chain with one base in it
LEMMA ShapeOfIInv ==
  ASSUME IInv
  PROVE  \E s, n, k : ShapeOf(s, n, k, layers, clinks, isBase)
<1>1. layers \subseteq LayerId /\ isBase \subseteq layers
  BY DEF IInv, TypeOK
<1>2. LayerCount \in Nat
  <2>1. IsFiniteSet(layers)
    BY <1>1, LayerIdAssumption, FS_Subset
  <2> QED BY <2>1, FS_CardinalityType DEF LayerCount
<1>3. PICK s \in [1..LayerCount -> layers] : ChainOf(s, LayerCount, layers, clinks)
  BY DEF IInv, SingleStack
<1>4. CASE layers = {}
  <2>1. LayerCount = 0 /\ isBase = {}
    BY <1>1, <1>4, FS_EmptySet DEF LayerCount
  <2>2. ShapeOf(s, LayerCount, 0, layers, clinks, isBase)
    BY <1>2, <1>3, <2>1 DEF ShapeOf
  <2> QED BY <2>2
<1>5. CASE layers # {}
  <2>1. PICK b \in isBase : isBase = {b}
    BY <1>5 DEF IInv, AtMostOneBase, BaseExists
  <2>2. PICK k \in 1..LayerCount : b = s[k]
    BY <1>1, <1>3, <2>1 DEF ChainOf
  <2>3. ShapeOf(s, LayerCount, k, layers, clinks, isBase)
    BY <1>2, <1>3, <2>1, <2>2 DEF ShapeOf
  <2> QED BY <2>3
<1> QED BY <1>4, <1>5

\* What each step must show: the invariant, a step of the abstract stack, and
\* the base layer removed last
Sound == /\ (AtMostOneBase /\ BaseExists /\ SingleStack)'
         /\ Stack!Next \/ UNCHANGED Stack!vars
         /\ \A b \in isBase : b \notin layers' => layers' = {}

\* A step that leaves layers, edges and flags alone
LEMMA SameChain ==
  ASSUME IInv, UNCHANGED <<layers, clinks, isBase>>
  PROVE  Sound
<1>1. PICK s, n, k : ShapeOf(s, n, k, layers, clinks, isBase)
  BY ShapeOfIInv
<1>2. ShapeOf(s, n, k, layers', clinks', isBase')
  BY <1>1
<1>3. TheStack' = TheStack /\ BasePosition' = BasePosition
  BY <1>1, <1>2, ShapeNow, ShapeNext
<1> QED BY <1>2, <1>3, ShapeNext DEF Sound, Stack!vars, IInv, TypeOK

\* addBaseLayer on an empty graph
LEMMA FirstLayer ==
  ASSUME IInv, isBase = {}, NEW l \in Fresh, NewLayer(l, {}), SetAsBaseLayerImpl(l)
  PROVE  Sound
<1>1. PICK s, n, k : ShapeOf(s, n, k, layers, clinks, isBase)
  BY ShapeOfIInv
<1>2. n = 0 /\ layers = {} /\ s = <<>> /\ clinks = {}
  <2>1. n = 0
    BY <1>1 DEF ShapeOf
  <2>2. layers = {} /\ s \in [1..0 -> layers]
    BY <1>1, <2>1, ReadShape
  <2>3. clinks = {}
    BY <2>2 DEF IInv, TypeOK
  <2> QED BY <2>1, <2>2, <2>3
<1>3. layers' = {l} /\ clinks' = {} /\ isBase' = {l}
  BY <1>2 DEF NewLayer, SetAsBaseLayerImpl
<1>4. ShapeOf(<<l>>, 1, 1, layers', clinks', isBase')
  BY <1>3, ChainSingle DEF ShapeOf
<1>5. TheStack = <<>> /\ TheStack' = <<l>> /\ BasePosition' = 1
  BY <1>1, <1>2, <1>4, ShapeNow, ShapeNext
<1>6. Stack!AddBase(l)
  BY <1>5 DEF Stack!AddBase
<1> QED BY <1>4, <1>6, ShapeNext DEF Sound, Stack!Next, Fresh

\* addLayerOnTop
LEMMA LayerOnTop ==
  ASSUME IInv, NEW l \in Fresh, NEW top \in TopLayers,
         NewLayer(l, {<<top, l>>}), UNCHANGED isBase
  PROVE  Sound
<1>1. PICK s, n, k : ShapeOf(s, n, k, layers, clinks, isBase)
  BY ShapeOfIInv
<1>2. n # 0
  BY <1>1, ReadShape DEF TopLayers
<1>3. top = s[n] /\ n \in Nat /\ ChainOf(s, n, layers, clinks) /\ k \in 1..n /\ isBase = {s[k]}
  BY <1>1, <1>2, Ends DEF ShapeOf
<1>4. s \in Seq(layers) /\ Len(s) = n /\ s # <<>>
  BY <1>2, <1>3 DEF ChainOf
<1>5. ShapeOf(Append(s, l), n + 1, k, layers', clinks', isBase')
  <2>1. l \notin layers /\ clinks \subseteq layers \X layers
    BY DEF Fresh, IInv, TypeOK
  <2>2. ChainOf(Append(s, l), n + 1, layers', clinks')
    BY <1>2, <1>3, <2>1, ChainAppend DEF NewLayer
  <2>3. Append(s, l)[k] = s[k]
    BY <1>3, <1>4
  <2> QED BY <1>3, <2>2, <2>3 DEF ShapeOf
<1>6. /\ TheStack = s /\ TheStack' = Append(s, l)
      /\ BasePosition = k /\ BasePosition' = k
  BY <1>1, <1>5, ShapeNow, ShapeNext
<1>7. l \notin Stack!Contents
  BY <1>3, <1>6 DEF Stack!Contents, ChainOf, Fresh
<1>8. Stack!AddTop(l)
  BY <1>4, <1>6, <1>7 DEF Stack!AddTop
<1>9. \A b \in isBase : b \in layers'
  BY DEF IInv, TypeOK, NewLayer
<1> QED BY <1>5, <1>8, <1>9, ShapeNext DEF Sound, Stack!Next, Fresh

\* addLayerOnBottom
LEMMA LayerOnBottom ==
  ASSUME IInv, NEW l \in Fresh, NEW bottom \in BottomLayers,
         NewLayer(l, {<<l, bottom>>}), UNCHANGED isBase
  PROVE  Sound
<1>1. PICK s, n, k : ShapeOf(s, n, k, layers, clinks, isBase)
  BY ShapeOfIInv
<1>2. n # 0
  BY <1>1, ReadShape DEF BottomLayers
<1>3. bottom = s[1] /\ n \in Nat /\ ChainOf(s, n, layers, clinks) /\ k \in 1..n /\ isBase = {s[k]}
  BY <1>1, <1>2, Ends DEF ShapeOf
<1>4. s \in Seq(layers) /\ Len(s) = n /\ s # <<>>
  BY <1>2, <1>3 DEF ChainOf
<1>5. ShapeOf(<<l>> \o s, n + 1, k + 1, layers', clinks', isBase')
  <2>1. l \notin layers /\ clinks \subseteq layers \X layers
    BY DEF Fresh, IInv, TypeOK
  <2>2. ChainOf(<<l>> \o s, n + 1, layers', clinks')
    BY <1>2, <1>3, <2>1, ChainPrepend DEF NewLayer
  <2>3. (<<l>> \o s)[k + 1] = s[k]
    BY <1>3, <1>4
  <2>4. n + 1 \in Nat /\ n + 1 # 0 /\ k + 1 \in 1..(n + 1)
    BY <1>3
  <2> DEFINE t == <<l>> \o s
  <2>5. ChainOf(t, n + 1, layers', clinks') /\ isBase' = {t[k + 1]}
    BY <1>3, <2>2, <2>3
  <2> HIDE DEF t
  <2>6. ShapeOf(t, n + 1, k + 1, layers', clinks', isBase')
    BY <2>4, <2>5 DEF ShapeOf
  <2> QED BY <2>6 DEF t
<1>6. /\ TheStack = s /\ TheStack' = <<l>> \o s
      /\ BasePosition = k /\ BasePosition' = k + 1
  BY <1>1, <1>5, ShapeNow, ShapeNext
<1>7. l \notin Stack!Contents
  BY <1>3, <1>6 DEF Stack!Contents, ChainOf, Fresh
<1>8. Stack!AddBottom(l)
  BY <1>4, <1>6, <1>7 DEF Stack!AddBottom
<1>9. \A b \in isBase : b \in layers'
  BY DEF IInv, TypeOK, NewLayer
<1> QED BY <1>5, <1>8, <1>9, ShapeNext DEF Sound, Stack!Next, Fresh

\* removeTopLayer
LEMMA TopRemoved ==
  ASSUME IInv, RemoveTopLayer
  PROVE  Sound
<1>1. PICK s, n, k : ShapeOf(s, n, k, layers, clinks, isBase)
  BY ShapeOfIInv
<1>2. PICK top \in TopLayers \ isBase : RemoveLayers({top})
  BY DEF RemoveTopLayer
<1>3. n # 0
  BY <1>1, <1>2, ReadShape DEF TopLayers
<1>4. top = s[n] /\ n \in Nat /\ ChainOf(s, n, layers, clinks) /\ k \in 1..n /\ isBase = {s[k]}
  BY <1>1, <1>2, <1>3, Ends DEF ShapeOf
<1>5. s \in Seq(layers) /\ Len(s) = n /\ k < n
  BY <1>2, <1>4 DEF ChainOf
<1>6. ShapeOf(SubSeq(s, 1, n - 1), n - 1, k, layers', clinks', isBase')
  <2>1. ChainOf(SubSeq(s, 1, n - 1), n - 1, layers', clinks')
    BY <1>2, <1>3, <1>4, ChainFront DEF RemoveLayers
  <2>2. SubSeq(s, 1, n - 1)[k] = s[k]
    BY <1>4, <1>5
  <2>3. isBase' = {s[k]}
    BY <1>2, <1>4 DEF RemoveLayers
  <2> QED BY <1>4, <1>5, <2>1, <2>2, <2>3 DEF ShapeOf
<1>7. /\ TheStack = s /\ TheStack' = SubSeq(s, 1, n - 1)
      /\ BasePosition = k /\ BasePosition' = k
  BY <1>1, <1>6, ShapeNow, ShapeNext
<1>8. Stack!RemoveTop
  BY <1>5, <1>7 DEF Stack!RemoveTop
<1>9. \A b \in isBase : b \in layers'
  BY <1>2 DEF RemoveLayers, IInv, TypeOK
<1> QED BY <1>6, <1>8, <1>9, ShapeNext DEF Sound, Stack!Next

\* removeBottomLayer
LEMMA BottomRemoved ==
  ASSUME IInv, RemoveBottomLayer
  PROVE  Sound
<1>1. PICK s, n, k : ShapeOf(s, n, k, layers, clinks, isBase)
  BY ShapeOfIInv
<1>2. PICK bottom \in BottomLayers \ isBase : RemoveLayers({bottom})
  BY DEF RemoveBottomLayer
<1>3. n # 0
  BY <1>1, <1>2, ReadShape DEF BottomLayers
<1>4. bottom = s[1] /\ n \in Nat /\ ChainOf(s, n, layers, clinks) /\ k \in 1..n /\ isBase = {s[k]}
  BY <1>1, <1>2, <1>3, Ends DEF ShapeOf
<1>5. s \in Seq(layers) /\ Len(s) = n /\ k > 1 /\ s # <<>>
  BY <1>2, <1>4 DEF ChainOf
<1>6. ShapeOf(Tail(s), n - 1, k - 1, layers', clinks', isBase')
  <2>1. ChainOf(Tail(s), n - 1, layers', clinks')
    BY <1>2, <1>3, <1>4, ChainTail DEF RemoveLayers
  <2>2. Tail(s)[k - 1] = s[k]
    BY <1>4, <1>5
  <2>3. isBase' = {s[k]}
    BY <1>2, <1>4 DEF RemoveLayers
  <2> QED BY <1>4, <1>5, <2>1, <2>2, <2>3 DEF ShapeOf
<1>7. /\ TheStack = s /\ TheStack' = Tail(s)
      /\ BasePosition = k /\ BasePosition' = k - 1
  BY <1>1, <1>6, ShapeNow, ShapeNext
<1>8. Stack!RemoveBottom
  BY <1>5, <1>7 DEF Stack!RemoveBottom
<1>9. \A b \in isBase : b \in layers'
  BY <1>2 DEF RemoveLayers, IInv, TypeOK
<1> QED BY <1>6, <1>8, <1>9, ShapeNext DEF Sound, Stack!Next

\* removeBaseLayer
LEMMA LastLayerRemoved ==
  ASSUME IInv, RemoveBaseLayer
  PROVE  Sound
<1>1. PICK s, n, k : ShapeOf(s, n, k, layers, clinks, isBase)
  BY ShapeOfIInv
<1>2. PICK b \in isBase : RemoveLayers({b})
  BY DEF RemoveBaseLayer
<1>3. n = 1
  BY <1>1, ShapeNow DEF RemoveBaseLayer
<1>4. k = 1 /\ b = s[1] /\ isBase = {s[1]} /\ ChainOf(s, 1, layers, clinks)
  BY <1>1, <1>2, <1>3 DEF ShapeOf
<1>5. layers = {b} /\ clinks = {}
  BY <1>4 DEF ChainOf
<1>6. layers' = {} /\ clinks' = {} /\ isBase' = {}
  BY <1>2, <1>4, <1>5 DEF RemoveLayers
<1>7. ShapeOf(<<>>, 0, 0, layers', clinks', isBase')
  BY <1>6, ChainEmpty DEF ShapeOf
<1>8. TheStack = s /\ TheStack' = <<>> /\ BasePosition' = 0
  BY <1>1, <1>7, ShapeNow, ShapeNext
<1>9. Stack!RemoveBase
  BY <1>4, <1>8 DEF Stack!RemoveBase, ChainOf
<1> QED BY <1>6, <1>7, <1>9, ShapeNext DEF Sound, Stack!Next

\* removeAllButBaseLayer
LEMMA OthersRemoved ==
  ASSUME IInv, RemoveAllButBaseLayer
  PROVE  Sound
<1>1. PICK s, n, k : ShapeOf(s, n, k, layers, clinks, isBase)
  BY ShapeOfIInv
<1>2. PICK b \in isBase :
        RemoveLayers({m \in layers : Climbs(b, m) \/ Descends(b, m)} \ isBase)
  BY DEF RemoveAllButBaseLayer
<1>3. n # 0
  BY <1>1, <1>2 DEF ShapeOf
<1>4. /\ b = s[k] /\ n \in Nat /\ ChainOf(s, n, layers, clinks)
      /\ k \in 1..n /\ isBase = {b} /\ b \in layers
      /\ RemoveLayers(layers \ {b})
  <2>1. /\ n \in Nat /\ ChainOf(s, n, layers, clinks)
        /\ k \in 1..n /\ isBase = {s[k]} /\ b = s[k]
    BY <1>1, <1>2, <1>3 DEF ShapeOf
  <2>2. b \in layers
    BY <2>1 DEF ChainOf
  <2>3. {m \in layers : Climbs(b, m) \/ Descends(b, m)} = layers
    BY <1>1, <1>3, <2>1, Ends
  <2> QED BY <1>2, <2>1, <2>2, <2>3
<1>5. layers' = {b} /\ isBase' = {b}
  BY <1>4 DEF RemoveLayers
<1>6. clinks' = {}
  <2>1. ASSUME NEW e \in clinks, e[1] \notin layers \ {b}, e[2] \notin layers \ {b}
        PROVE  FALSE
    <3>1. PICK i \in 1..(n - 1) : e = <<s[i], s[i + 1]>>
      BY <1>4 DEF ChainOf
    <3>2. i \in 1..n /\ i + 1 \in 1..n /\ s[i] \in layers /\ s[i + 1] \in layers
      BY <1>4, <3>1 DEF ChainOf
    <3>3. s[i] = s[i + 1]
      BY <2>1, <3>1, <3>2
    <3> QED BY <1>4, <3>2, <3>3 DEF ChainOf
  <2> QED BY <1>4, <2>1 DEF RemoveLayers
<1>7. ShapeOf(<<b>>, 1, 1, layers', clinks', isBase')
  BY <1>5, <1>6, ChainSingle DEF ShapeOf
<1>8. /\ TheStack = s /\ TheStack' = <<b>>
      /\ BasePosition = k /\ BasePosition' = 1
  BY <1>1, <1>7, ShapeNow, ShapeNext
<1>9. s # <<>>
  BY <1>3, <1>4 DEF ChainOf
<1>10. Stack!RemoveAllButBase
  BY <1>4, <1>8, <1>9 DEF Stack!RemoveAllButBase
<1> QED BY <1>4, <1>5, <1>7, <1>10, ShapeNext DEF Sound, Stack!Next

\* setAsBaseLayer
LEMMA BaseMoved ==
  ASSUME IInv, NEW h \in Handle, SetAsBaseLayer(h)
  PROVE  Sound
<1>1. PICK s, n, k : ShapeOf(s, n, k, layers, clinks, isBase)
  BY ShapeOfIInv
<1>2. n # 0
  BY <1>1, ReadShape DEF SetAsBaseLayer
<1>3. n \in Nat /\ ChainOf(s, n, layers, clinks)
  BY <1>1 DEF ShapeOf
<1>4. PICK j \in 1..n : handle[h].id = s[j]
  BY <1>3 DEF ChainOf, SetAsBaseLayer
<1>5. ShapeOf(s, n, j, layers', clinks', isBase')
  BY <1>2, <1>3, <1>4 DEF ShapeOf, SetAsBaseLayer, SetAsBaseLayerImpl
<1>6. TheStack = s /\ TheStack' = s /\ BasePosition' = j
  BY <1>1, <1>5, ShapeNow, ShapeNext
<1>7. j \in DOMAIN TheStack /\ Stack!SetBase(j)
  BY <1>3, <1>6 DEF Stack!SetBase, ChainOf
<1>8. \A b \in isBase : b \in layers'
  BY DEF IInv, TypeOK, SetAsBaseLayer
<1> QED BY <1>5, <1>7, <1>8, ShapeNext DEF Sound, Stack!Next

\* Every call of the layer dao
LEMMA EveryStep ==
  ASSUME IInv, [Next]_vars
  PROVE  Sound
<1>1. ASSUME NEW h \in Handle, AddBaseLayer(h) PROVE Sound
  BY <1>1, FirstLayer, SameChain DEF AddBaseLayer
<1>2. ASSUME NEW h \in Handle, AddLayerOnTop(h) PROVE Sound
  BY <1>2, LayerOnTop, SameChain DEF AddLayerOnTop
<1>3. ASSUME NEW h \in Handle, AddLayerOnBottom(h) PROVE Sound
  BY <1>3, LayerOnBottom, SameChain DEF AddLayerOnBottom
<1>4. ASSUME NEW h \in Handle, SetAsBaseLayer(h) PROVE Sound
  BY <1>4, BaseMoved
<1>5. ASSUME NEW h \in Handle, UpdateLayer(h) PROVE Sound
  BY <1>5, SameChain DEF UpdateLayer
<1>6. ASSUME NEW h \in Handle, NEW l \in layers \union dropped, GetLayer(h, l) PROVE Sound
  BY <1>6, SameChain DEF GetLayer
<1>7. ASSUME NEW h \in Handle, NEW t \in Text, SetDescription(h, t) PROVE Sound
  BY <1>7, SameChain DEF SetDescription
<1>8. ASSUME NEW a \in Fresh, NEW b \in Fresh, SetGraph(a, b) PROVE Sound
  BY <1>8, SameChain DEF SetGraph
<1>9. CASE UNCHANGED vars
  BY <1>9, SameChain DEF vars
<1> QED
  BY <1>1, <1>2, <1>3, <1>4, <1>5, <1>6, <1>7, <1>8, <1>9, TopRemoved,
     BottomRemoved, LastLayerRemoved, OthersRemoved DEF Next

\* The empty graph is the empty stack
LEMMA InitShape ==
  ASSUME Init
  PROVE  IInv /\ Stack!Init
<1>1. ShapeOf(<<>>, 0, 0, layers, clinks, isBase)
  BY ChainEmpty DEF Init, ShapeOf
<1>2. LayerCount = 0 /\ TheStack = <<>> /\ BasePosition = 0
  BY <1>1, ShapeNow
<1>3. SingleStack
  <2>1. ChainOf(<<>>, 0, layers, clinks) /\ <<>> \in [1..0 -> layers]
    BY <1>1 DEF ShapeOf
  <2> QED BY <1>2, <2>1 DEF SingleStack
<1> QED BY <1>2, <1>3, InitTypeOK DEF IInv, Init, AtMostOneBase, BaseExists, Stack!Init

\* The invariant holds throughout
LEMMA InvariantKept == Spec => []IInv
<1>1. Init => IInv
  BY InitShape
<1>2. IInv /\ [Next]_vars => IInv'
  <2> SUFFICES ASSUME IInv, [Next]_vars PROVE IInv'
    OBVIOUS
  <2>1. TypeOK'
    BY TypeStep DEF IInv, NextStale
  <2> QED BY <2>1, EveryStep DEF Sound, IInv
<1> QED BY <1>1, <1>2, PTL DEF Spec

\* As long as callers only make existing layers the base layer, a graph with
\* layers has a base layer to walk from.
THEOREM ABaseLayer == Spec => []BaseExists
BY InvariantKept, PTL DEF IInv

\* Adding and removing layers at the two ends, in any order, never leaves a
\* gap, a fork or a loop in the CHILD_OF edges.
THEOREM OneStack == Spec => []SingleStack
BY InvariantKept, PTL DEF IInv

\* Every layer is reached from the base layer, wherever the base layer is.
THEOREM NothingUnreachable == Spec => []AllLayersListed
<1>1. IInv => AllLayersListed
  <2> SUFFICES ASSUME IInv PROVE GetAllLayers = layers
    BY DEF AllLayersListed
  <2>1. PICK s, n, k : ShapeOf(s, n, k, layers, clinks, isBase)
    BY ShapeOfIInv
  <2>2. CASE n = 0
    BY <2>1, <2>2, ReadShape DEF GetAllLayers
  <2> QED BY <2>1, <2>2, Ends
<1> QED BY <1>1, InvariantKept, PTL

\* No operation, removeAllButBaseLayer included, takes the base layer away
\* from under other layers.
THEOREM BaseLayerLast == Spec => BaseRemovedLast
<1>1. IInv /\ [Next]_vars => [\A b \in isBase : b \notin layers' => layers' = {}]_vars
  BY EveryStep DEF Sound
<1> QED BY <1>1, InvariantKept, PTL DEF Spec, BaseRemovedLast

\* The operations over nodes and edges implement the stack of layers: each one
\* is one step of module LayerStack on the layers from bottom to top, or none.
THEOREM Implements == Spec => ImplementsLayerStack
<1>1. Init => Stack!Init
  BY InitShape
<1>2. IInv /\ [Next]_vars => [Stack!Next]_Stack!vars
  BY EveryStep DEF Sound
<1> QED BY <1>1, <1>2, InvariantKept, PTL DEF Spec, ImplementsLayerStack, Stack!Spec
=============================================================================
