----------------------------- MODULE LayerDao -----------------------------
(***************************************************************************)
(* The layer part of the multi-layer graph (dao/LayerDao.cpp).  Layers are *)
(* graph nodes, tied into a chain by CHILD_OF edges from a layer to the    *)
(* one above; the boolean attribute IS_BASE marks the base layer, where    *)
(* every walk along the chain starts.  The order of the layers is nowhere  *)
(* stored: it is whatever the edges say.                                   *)
(*                                                                         *)
(* Callers hold Layer objects, copies of the attributes as they were when  *)
(* the object was returned; `handle` is what each caller variable holds,   *)
(* possibly a layer that has changed or has been removed since.            *)
(***************************************************************************)
EXTENDS Integers, FiniteSets, Sequences

CONSTANTS LayerId,     \* object ids the graph may give to layers
          Handle,      \* the callers' Layer variables
          Text,        \* descriptions
          NoLayer,     \* Objects::InvalidOID
          DefaultText  \* the default description, an element of Text

ASSUME LayerIdAssumption == NoLayer \notin LayerId /\ IsFiniteSet(LayerId)
ASSUME TextAssumption == DefaultText \in Text

VARIABLES layers,      \* live layers
          clinks,      \* CHILD_OF edges, pairs <<child, parent>>
          isBase,      \* layers whose IS_BASE attribute is true
          text,        \* the DESCRIPTION attribute of each live layer
          dropped,     \* ids of removed layers: never given again
          handle       \* the Layer object in each caller variable

vars == <<layers, clinks, isBase, text, dropped, handle>>

LayerObject == [id : LayerId \union {NoLayer}, isBase : BOOLEAN, text : Text]
InvalidLayer == [id |-> NoLayer, isBase |-> FALSE, text |-> DefaultText]

\* A chain of layers over graph edges; every id is live, dropped or unused.
TypeOK == /\ layers \subseteq LayerId
          /\ clinks \subseteq layers \X layers
          /\ isBase \subseteq layers
          /\ text \in [layers -> Text]
          /\ dropped \subseteq LayerId \ layers
          /\ handle \in [Handle -> LayerObject]

---------------------------------------------------------------------------
(* Walking the chain *)

Parents(l) == {p \in layers : <<l, p>> \in clinks}
Children(l) == {c \in layers : <<c, l>> \in clinks}

\* m is met when following parent() from l; the set of layers so met is the
\* smallest one that holds l and is closed under Parents
Climbs(l, m) == \A S \in SUBSET layers :
                  l \in S /\ (\A x \in S : Parents(x) \subseteq S) => m \in S
Descends(l, m) == \A S \in SUBSET layers :
                    l \in S /\ (\A x \in S : Children(x) \subseteq S) => m \in S

\* topLayerImpl and bottomLayerImpl: empty without a base layer
TopLayers == {m \in layers : /\ Parents(m) = {}
                             /\ \E b \in isBase : Climbs(b, m)}
BottomLayers == {m \in layers : /\ Children(m) = {}
                                /\ \E b \in isBase : Descends(b, m)}

\* Variant: list from the base layer up, not from the bottom layer
GetAllLayersFromBase == {m \in layers : \E b \in isBase : Climbs(b, m)}

GetAllLayers == {m \in layers : \E b \in BottomLayers : Climbs(b, m)}

---------------------------------------------------------------------------
(* Operations *)

LayerCount == Cardinality(layers)

Fresh == LayerId \ (layers \union dropped)

\* The caller stores in h a copy of layer l
Return(h, l) == handle' = [handle EXCEPT ![h] =
                   [id |-> l, isBase |-> l \in isBase', text |-> text'[l]]]
ReturnInvalid(h) == handle' = [handle EXCEPT ![h] = InvalidLayer]

NewLayer(l, edges) ==
  /\ layers' = layers \union {l}
  /\ clinks' = clinks \union edges
  /\ text' = [m \in layers' |-> IF m = l THEN DefaultText ELSE text[m]]
  /\ UNCHANGED dropped

SetAsBaseLayerImpl(l) == isBase' = {l}

AddBaseLayer(h) ==
  \/ /\ isBase = {}
     /\ \E l \in Fresh : NewLayer(l, {}) /\ SetAsBaseLayerImpl(l) /\ Return(h, l)
  \/ /\ isBase # {}
     /\ ReturnInvalid(h)
     /\ UNCHANGED <<layers, clinks, isBase, text, dropped>>

\* Variant: no walk, the new layer is attached to the base layer itself
AddLayerOnTopOfBase(h) ==
  \E l \in Fresh, top \in isBase :
    /\ NewLayer(l, {<<top, l>>})
    /\ UNCHANGED isBase
    /\ Return(h, l)

AddLayerOnTop(h) ==
  \/ \E l \in Fresh, top \in TopLayers :
       /\ NewLayer(l, {<<top, l>>})
       /\ UNCHANGED isBase
       /\ Return(h, l)
  \/ /\ isBase = {}
     /\ ReturnInvalid(h)
     /\ UNCHANGED <<layers, clinks, isBase, text, dropped>>

AddLayerOnBottom(h) ==
  \/ \E l \in Fresh, bottom \in BottomLayers :
       /\ NewLayer(l, {<<l, bottom>>})
       /\ UNCHANGED isBase
       /\ Return(h, l)
  \/ /\ isBase = {}
     /\ ReturnInvalid(h)
     /\ UNCHANGED <<layers, clinks, isBase, text, dropped>>

\* Dropping a node drops its edges; the callers' objects stay as they are
RemoveLayers(gone) ==
  /\ layers' = layers \ gone
  /\ clinks' = {e \in clinks : e[1] \notin gone /\ e[2] \notin gone}
  /\ isBase' = isBase \ gone
  /\ text' = [m \in layers' |-> text[m]]
  /\ dropped' = dropped \union gone
  /\ UNCHANGED handle

\* Variant: the comparison with the base layer is missing
RemoveTopLayerUnguarded == \E top \in TopLayers : RemoveLayers({top})
RemoveTopLayer == \E top \in TopLayers \ isBase : RemoveLayers({top})
RemoveBottomLayer == \E bottom \in BottomLayers \ isBase : RemoveLayers({bottom})

\* Variant: the layers are not counted first
RemoveBaseLayerUncounted == \E b \in isBase : RemoveLayers({b})

RemoveBaseLayer == /\ LayerCount = 1
                   /\ \E b \in isBase : RemoveLayers({b})

\* Variant: the second loop is missing
RemoveAllTopLayers ==
  \E b \in isBase : RemoveLayers({m \in layers : Climbs(b, m)} \ isBase)

\* Removes tops, then bottoms, until it meets the base layer
RemoveAllButBaseLayer ==
  \E b \in isBase :
    RemoveLayers({m \in layers : Climbs(b, m) \/ Descends(b, m)} \ isBase)

\* The layer held in h becomes the base layer, and h is told so
SetAsBaseLayer(h) ==
  /\ handle[h].id \in layers
  /\ SetAsBaseLayerImpl(handle[h].id)
  /\ handle' = [handle EXCEPT ![h].isBase = TRUE]
  /\ UNCHANGED <<layers, clinks, text, dropped>>

\* Variant: the attribute is set without a check that the node is there
SetAsBaseLayerUnchecked(h) ==
  /\ handle[h].id \notin layers
  /\ SetAsBaseLayerImpl(handle[h].id)
  /\ UNCHANGED <<layers, clinks, text, dropped, handle>>

\* The same call on a layer that is not there: the old flag is cleared
\* first, then setting the new one throws
SetAsBaseLayerThrows(h) ==
  /\ handle[h].id \notin layers
  /\ isBase' = {}
  /\ UNCHANGED <<layers, clinks, text, dropped, handle>>

\* Any of getLayer, topLayer, bottomLayer, baseLayer, parent and child
GetLayer(h, l) ==
  /\ \/ l \in layers /\ handle' = [handle EXCEPT ![h] =
                           [id |-> l, isBase |-> l \in isBase, text |-> text[l]]]
     \/ l \notin layers /\ ReturnInvalid(h)
  /\ UNCHANGED <<layers, clinks, isBase, text, dropped>>

SetDescription(h, t) ==
  /\ handle' = [handle EXCEPT ![h].text = t]
  /\ UNCHANGED <<layers, clinks, isBase, text, dropped>>

\* Variant: the IS_BASE attribute of the copy is written back too
UpdateLayerAll(h) ==
  LET l == handle[h].id IN
    /\ l \in layers
    /\ text' = [text EXCEPT ![l] = handle[h].text]
    /\ isBase' = IF handle[h].isBase THEN isBase \union {l} ELSE isBase \ {l}
    /\ UNCHANGED <<layers, clinks, dropped, handle>>

\* Writes the attributes of the copy back, except IS_BASE
UpdateLayer(h) ==
  LET l == handle[h].id IN
    /\ l \in layers
    /\ text' = [text EXCEPT ![l] = handle[h].text]
    /\ UNCHANGED <<layers, clinks, isBase, dropped, handle>>

\* Variant: the second of the two layers is not dropped
SetGraphKeeps(a, b) ==
  /\ layers' = layers \union {b}
  /\ text' = [m \in layers' |-> IF m = b THEN DefaultText ELSE text[m]]
  /\ dropped' = dropped \union {a}
  /\ UNCHANGED <<clinks, isBase, handle>>

\* Opening another dao on the graph: two layers and an edge are created to
\* read the default attributes from, then dropped
SetGraph(a, b) ==
  /\ dropped' = dropped \union {a, b}
  /\ UNCHANGED <<layers, clinks, isBase, text, handle>>

---------------------------------------------------------------------------
Init == /\ layers = {}
        /\ clinks = {}
        /\ isBase = {}
        /\ text = [l \in {} |-> DefaultText]
        /\ dropped = {}
        /\ handle = [h \in Handle |-> InvalidLayer]

Next ==
  \/ \E h \in Handle :
       \/ AddBaseLayer(h)
       \/ AddLayerOnTop(h)
       \/ AddLayerOnBottom(h)
       \/ SetAsBaseLayer(h)
       \/ UpdateLayer(h)
       \/ \E l \in layers \union dropped : GetLayer(h, l)
       \/ \E t \in Text : SetDescription(h, t)
  \/ RemoveTopLayer
  \/ RemoveBottomLayer
  \/ RemoveBaseLayer
  \/ RemoveAllButBaseLayer
  \/ \E a, b \in Fresh : a # b /\ SetGraph(a, b)

Spec == Init /\ [][Next]_vars

\* Callers may also pass setAsBaseLayer a layer that has been removed
NextStale == Next \/ \E h \in Handle : SetAsBaseLayerThrows(h)

SpecStale == Init /\ [][NextStale]_vars

---------------------------------------------------------------------------
(* Properties *)

\* "There can only be one Base layer in the MLG" (dao/MLGDao.h, setAsBaseLayer),
\* whatever the callers hold: no update through an old copy brings back a
\* base flag that setAsBaseLayer has moved since.
AtMostOneBase == \A a, b \in isBase : a = b

\* The base layer is the "initial layer, mandatory" (dao/MLGDao.h,
\* addBaseLayer): while there are layers, one of them is the base layer.
BaseExists == layers # {} => isBase # {}

\* s lists the n layers of L once each, and the edges E are exactly its steps
ChainOf(s, n, L, E) ==
  /\ s \in [1..n -> L]
  /\ \A i, j \in 1..n : s[i] = s[j] => i = j
  /\ \A l \in L : \E i \in 1..n : l = s[i]
  /\ E = {<<s[i], s[i + 1]>> : i \in 1..(n - 1)}

\* The edges always form a single chain through every layer, whatever the
\* order in which layers were added and removed at its two ends.
SingleStack ==
  \E s \in [1..LayerCount -> layers] : ChainOf(s, LayerCount, layers, clinks)

\* getAllLayers, which only sees what a walk from the base layer down and
\* back up meets, misses no layer.
AllLayersListed == GetAllLayers = layers

\* "Remove the base layer iff there are no other layer" (dao/MLGDao.h): no
\* operation drops the base layer while another layer stays.
BaseRemovedLast == [][\A b \in isBase : b \notin layers' => layers' = {}]_vars

\* A graph without any base layer is a forest of chains at worst: each
\* layer keeps at most one neighbour on each side, and no walk along
\* parent() can loop.
PathsOnly == /\ \A l \in layers : /\ \A p, q \in Parents(l) : p = q
                                  /\ \A p, q \in Children(l) : p = q
             /\ \A l \in layers : \A p \in Parents(l) : ~Climbs(p, l)

(* The refinement: the layers from bottom to top, and the base among them *)

TheStack ==
  CHOOSE s \in [1..LayerCount -> layers] : ChainOf(s, LayerCount, layers, clinks)
BasePosition == IF layers = {} THEN 0
                ELSE CHOOSE i \in 1..LayerCount : TheStack[i] \in isBase

Stack == INSTANCE LayerStack WITH stack <- TheStack, base <- BasePosition

\* Every operation over nodes and edges is an operation on one stack of
\* layers with a base layer in it (module LayerStack).
ImplementsLayerStack == Stack!Spec
=============================================================================
