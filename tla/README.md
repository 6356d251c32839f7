# Verification of mld, multi-layer graphs on Sparksee

mld stores a *multi-layer graph* in a Sparksee database: a stack of layers, nodes
owned by layers, links between nodes of a layer (HLinks), between nodes of
consecutive layers (VLinks) and between a layer and its nodes (OLinks, which also
carry time series: the weight of the OLink of layer `l` and node `n` is the value of
`n` at time `l`). On it run two kinds of operators: *coarseners*, which put a smaller
copy of the top layer on top of it, and *time series filters*, which replace every
value by a mean over neighbours and layers. Importers fill a graph from files, an
exporter writes files, and five command line tools put all of it to use.

Everything runs in one thread and nothing in the code synchronises, so what is hard
here is not the interleaving of threads. It is state kept in one object across calls
that change the graph underneath it, operations that change the graph step by step
and may return in the middle, tools that end in the middle of a transaction, and long
sequences of calls at the boundaries.

## Inventory

| component | state | operations | what makes it correct |
|---|---|---|---|
| Sparksee `Graph` (external) | typed nodes, edges, attributes | NewNode, NewEdge, Drop, Neighbors, Select | modelled by what the code uses of it |
| `AbstractDao`, `NodeDao`, `LinkDao`, model objects, `Attrs::V` | defaults read of the scheme, attribute names, copies of objects | create, read, update, drop one object; rename a default attribute | what a call returned or wrote is in the database |
| `LayerDao`, `Layer` | CHILD_OF edges, the `IS_BASE` flag, copies of layers | add, remove at both ends, move the base flag, walk the stack | one stack, one base layer in it, removed last |
| `MLGDao` | all of the graph | add nodes and links, share nodes, mirror layers, copy links, remove layers | links stay within a layer or go one layer up; no node loses its last layer unless a caller asks for it |
| `NeighborSelector`, `HeavyHLinkSelector`, `XSelector` | priority queue of scores, last selection, nodes to update, flagged nodes | rankNodes, next, getNodesToMerge | scores are current, no removed node is used, with memory no node is chosen twice |
| `mutable_priority_queue` | two maps | insert, update, erase, front, pop | the maps agree, one entry per value, greatest first |
| `AdditiveNeighborMerger` | – | merge | weight and links are kept |
| `NeighborCoarsener`, `AbstractCoarsener`, `AbstractOperator` | merge count | run = preExec, exec, postExec | ends, merges the requested share, only along links |
| `MLGBuilder` | queue of coarseners | parse a plan, run it | a plan runs in order or stops |
| `TimeSeries` | deque, position, slice, radius, direction | scroll, push, pop, shrink, clamp | the slice is the values within the radius |
| `TSCache` | one series per node, active layer, upper bound layer | get, scrollUp, reset | a series is the window of the layer filtered |
| `TSOperator`, `AbstractTimeVertexFilter`, `TimeVertexMeanFilter`, `FilterFactory` | buffer of new values, coefficients | run | every value is computed from the values before the run, and all are written or none |
| `GraphImporter`, `GraphExporter` | index maps | read and write files | the graph is the one of the files; what is exported can be imported |
| `SparkseeManager`, `Session`, tools | database, session, transaction | create, open, begin, commit | whole iterations on disk, nothing left open |
| `Timer`, `log`, `ProgressDisplay` | – | measuring and printing | – |

Who calls whom: the tools open a session and run an operator, an importer or the
exporter; an `MLGBuilder` owns a queue of coarseners; a coarsener drives its selector
(`next`, `getNodesToMerge`) and its merger in turn, both of which read and change the
graph through `MLGDao`; a `TSOperator` drives its filter and its cache, and the filter
calls the cache back. `MLGDao` owns a `LayerDao`, a `NodeDao` and a `LinkDao`.

`PROJECT.json` lists the hazards with the line each bites at and the properties that
watch it.

## Modules

**Layers.** `LayerStack` is the abstract promise: a sequence of layers with one base
position. `LayerDao` is the code: the set `layers` of layer nodes, the relation
`clinks` of CHILD_OF edges (child, parent), the set `isBase` of nodes whose flag is
set, and `handle`, the `Layer` objects that callers still hold. Each public method is
an operator of the same name; a method's early returns are its guards. `topLayerImpl`
and `bottomLayerImpl` are loops over `parent` and `child`: what they return is stated
through the edges, without recursion, so that proofs can use it. `Next` lets callers
make only existing layers the base layer; `NextStale` also lets them pass a layer
that has been removed, for which `setAsBaseLayerImpl` throws *after* it has cleared
the old flag. `Stack` is the refinement mapping to `LayerStack`.

**The graph.** `MultiLayerGraph` is `MLGDao`: it takes the steps of `LayerStack`
(which `LayerDao` implements) for its layers, and adds nodes, `owns` (OLinks),
`hlinks` and `vlinks`. `RemoveLayers` drops a node with the first layer that owns it;
`MirrorTopLayer`, `MirrorBottomLayer` and the three copies of links are one action
each, with the places where they return half done (`VerticalCopyHLinks`). The order
of layers is in no link: only the checks of each call, and the order of calls, keep
links in place. `RemoveOLink` may take the last OLink of a node, which then stays in the
graph and belongs to no layer. All that the code leaves to its callers has a name next
to `Next`, and nothing else there restricts a call: both ends of a new HLink belong to
the same layers (`SameOwners`), a node gains or loses an owner only while it has no
links (`MayShare`), a VLink is added child first (`ChildFirst`), links are copied in a
layer between nodes of which one has a single layer, or both have the same
(`OneLayerEach`), and vertical copies are for graphs without shared nodes
(`NoneShared`). `HLinksWithinLayer` takes `SameOwners` for granted where an HLink is
added by itself: what it says is about mirrors, copies and shared nodes.

**Objects.** `GraphObjects` is one level below: `scheme` is the database's attributes
per type, `names` is `Attrs::V`, `defaults` what a Dao has read of the scheme, which
may be older than it, and `copy` an object some caller holds, which may be older than
both. `UpdateAttrMap` writes names in an order left open and stops at a value of a
wrong type. `call` records what the last call promised, which is what the properties
compare with the database.

**Coarsening.** `CoarseLayer` holds the top layer as it is being coarsened (`nodes`,
`weight`, `link`), its VLinks (`vlink`) and the layer below as it was when it was
mirrored (`below...`), with `MirrorTopLayer`, `HorizontalCopyHLinks`,
`HorizontalCopyVLinks` and `MergeNode`. `NeighborSelector` adds the selector's fields:
the queue is the score of each queued node (`scores`) and the order in which equal
scores were pushed (`older`), from which the front follows. `NeighborCoarsener` adds the
run: `PreExec`, `Rank`, `Select`, `Rerank`, `MergeNeighbor`, `FinishMerge`, `Finish`
are the pieces of `exec` between which the graph is half changed or the run may
return. `Contraction` is the abstract specification: coarsening partitions the nodes
of the layer below into groups, and joins two groups only if a link runs between them.
The mapping takes the children of each node of the top layer for a group.

**The queue.** `MutablePriorityQueue` is the two maps of `mutable_priority_queue`, with
what `erase` does when it looks in vain (anything); `PriorityQueue` is the queue in the
form `NeighborSelector` uses. Nothing but the proof relates the two, and it does so
for all keys and values.

**Time series.** `TimeSeries` has one operator per method of the class, from series to
series; positions are indices, as in the code. `TimeSeriesCalls` calls them in any
order. `TSOperator` uses them: `cache` maps a node to its series, `active` and `upper`
are the cache's two layers, `buffer` the values computed and not yet written,
`Compute` is one call of the filter, `NextLayer` the end of the loop body with
`scrollUp`, `PostExec` the writing. A value is named by its layer and by how many
runs have written it, which is all that tells a right input from a wrong one.

**Files and tools.** `GraphExchange` gives what the importers make of files and what
the exporter writes, as functions, with a graph of base layer nodes with labels and
signals, and HLinks. A CSV file is a sequence of lines and read by line (`Read`). A SNAP
file also has lines, and may or may not end with a line break (`ended`), but only its
comments are read by line, which are those at the top. What follows is a stream of
tokens, for which line breaks are spaces (`Tokens`), taken two at a time up to the first
that is no number (`SnapEdges`). `Hash` stands for what begins with `#` in the first
column, `Word` for any other text. `MLGBuilder` is the plan parser
against `Acceptable` and `StepsOf`, which say what it should accept and make of it.
Labels are numbers or members of `Label`. `Tools` composes them: a database on disk (`disk`), the session's view of it (`work`),
a transaction, and the five tools as sequences of steps between any two of which
`Die` may come, for a kill or an exception alike. A run of the filter writes layer by
layer; a step of a plan is begun and finished, or fails.

The `MC...` modules only name what is checked; all values are in the `.cfg` files.
Definitions marked *Variant* are plausible mistakes in the definition that follows
them; they are used by nothing, and put in the place of the definition each of them
breaks the property it is listed with in `PROJECT.json`.

## What is checked

| run | bounds | what it shows |
|---|---|---|
| `layer_stack` | 4 layer ids, 2 copies | every sequence of layer operations: base layer present and removed last, one stack, `getAllLayers` complete, `LayerStack` implemented |
| `layer_stale` | 4 layer ids, 2 copies | removed layers marked as base, stale copies written back: never two base layers, paths only |
| `mlg` | 3 layer ids, 4 nodes | whatever is added, shared, mirrored, copied and removed: no HLink between layers, VLinks exactly one layer up; no call but `removeOLink` leaves a node without a layer |
| `objects` | nodes and one type of link, 2 names, 2 values, 3 objects | with attributes added and renamed, old Daos and old copies: what a call returned or wrote is in the database; a weight set by an id changes nothing else |
| `coarsen_heavy` | all layers of up to 4 nodes with link weights 1 to 3, with and without memory, 2 runs | `HeavyHLinkSelector`: nothing removed is referred to, nothing is chosen twice; without memory all nodes stay queued with exact scores and no run fails; every run returns; `Contraction` implemented |
| `coarsen_x` | all layers of 5 nodes of weight 1, with and without memory, 2 runs | `XSelector`: weight kept, links summed, the number merged, nothing removed is referred to; `Contraction` implemented |
| `time_series` | up to 5 values, radius up to 2 | after any calls but a `pop_back` with the position at the end, the slice is what the radius reaches, `shrink` keeps it, the position follows its value |
| `ts_filter` | up to 4 layers, radius up to 2, 2 nodes, 2 runs | on tall stacks values are filtered from the window of their layer as it was before the run; all are written or none |
| `tools` | CSV files of up to 2 lines, SNAP files of up to 3, plans of up to 2 parts, 2 iterations, 3 tools | the committed graph is the one of the files; values on disk are of whole iterations; a plan runs in order or stops; nothing is left open; what is exported can be imported; every tool ends |

*Why the bounds are enough.* A stack of four has both ends, an inner layer and a base
layer in each place; in `mlg`, where layers are taken from the proved `LayerStack`,
three are the fewest that tell a neighbouring layer from another. Four nodes are the
fewest for a mirrored link (two nodes and their twins), and for a merge next to a
triangle and an untouched link, and for a second selection to meet what the first one
left; link weights 1 to 3 order any three competing links. Memory with `XSelector`
needs five nodes for nodes two hops away to be selected again. The second run starts
from the layer the first one left, with weights it did not start from. Radius 2 in a
stack of 4 has windows cut off below, above, on both sides and not at all. Two names
are enough for the weight of one type to have the name of another attribute of another
type, three objects for a link with both its nodes. Two lines give a file with a good
line before or after each kind of bad one, an edge listed in both directions and a
signal shorter than another. In SNAP files of two lines each may be blank, have one, two
or three tokens, be a comment or have text in it; those of three lines have a
lone number before, between or behind pairs and comments, so that pairs run across line
breaks; each file is there with and without a line break at its end. Three tools a parser, a changing tool and another one on
what it left.

*Fairness.* `RunsReturn` assumes `WF_vars(Run)`: the steps of a run that has begun
follow each other in one thread, with nothing to wait for. `ToolsEnd` assumes
`WF_vars(Die \/ Step)`: a tool that runs goes on or is ended by an exception. Nothing
obliges a caller to start a run, or a user a tool. The coarsening, filter and tool
runs switch deadlock checking off: callers stop after `MaxRuns` runs or
`MaxLaunches` tools.

### Disagreements with what the code says of itself

Three runs end in a violation; each checks one property taken from a comment.

- `stale_updates`: when a selected node has nothing left to merge,
  `HeavyHLinkSelector::setNodesToUpdate` returns early and leaves the nodes of the
  selection before, which need not be linked to the new root; the next `updateScores`
  then fails, and the run with it, with part of its merges done. The property leaves out
  the root, which `updateScores` skips (`HeavyHLinkSelector.cpp:103`). In TLC's trace the
  node left to update has no link to the root, and the next step can only fail.
- `import_edge_weight`: `importTSEdges` stores an edge's weight under the name of the
  *OLinks'* weight, which HLinks do not have, so every HLink keeps the default weight.
- `export_last_value`: the last value of each exported line is looked up at the
  *line's* index instead of the last layer's; `at` throws with more nodes than layers.

The following are stated as properties of the modules as well, and TLC finds each of
them violated when it is added to the configuration named.

- `MergesWhatNextChose` (`MCCoarsenHeavy.cfg`): when `next` has emptied the queue,
  `exec` ranks the nodes again *before* it asks for the nodes to merge, and ranking
  forgets them.
- `NeverSelectedTwice` (`MCCoarsenX.cfg`): `XSelector` with memory pushes the node it
  has selected back into the queue as a neighbour of the merged nodes.
- `EveryNodeHasParent` (either): mirroring a layer drops its nodes without HLinks.
- `ShortStacksFilterRight` (`MCTSOperator.cfg`): if the window of the bottom layer
  already reaches the top layer, the first `scrollUp` pushes the top value a second
  time. Slices become longer than the coefficients, and `m_coeffs.at` throws, or the
  top value weighs twice.
- `AnyBaseFiltersRight` (`MCTSOperator.cfg`): with layers below the base layer the
  cache starts at the base layer and the filter at the bottom layer.

Met while reading, and visible in the guards, comments and callers' obligations of the
modules:

- *Graph.* The check that both ends of a new HLink are on one layer is commented out
  (`MLGDao.cpp:107`). `addVLink` accepts child and parent swapped. The check of
  `horizontalCopyLinks` passes for two nodes of which neither has a single layer.
  `verticalCopyHLinks` stops in the middle at a neighbour without kin and leaves what
  it has copied. Removing one layer of a shared node removes the node.
  `removeOLink` does not look whether it takes a node's last OLink: the node is then in
  no layer, and stays when all layers are removed.
- *Objects.* `addLink` leaves the new edge when its attributes are refused; `addNode`
  does not look at what `updateAttrMap` returns. Attributes added later have no value
  on existing objects. `updateOLink` and `updateCLink` by ends with a weight reset the
  other attributes to the Dao's defaults, unlike `updateHLink` and `updateVLink`.
  `weight()` of a copy without one puts a NULL in it that the next update writes.
  `renameDefaultAttribute` changes the database for good but `Attrs::V` only in the
  process.
- *Coarsening.* `computeMergeCount` adds one to the truncated product also when it is
  whole, so that a factor of 0.5 leaves one of four nodes. `TimeSeries::pop_back` with
  the position at the end leaves it behind the end; no caller does that.
- *Files.* Edges listed twice, or in both directions, become parallel HLinks.
  `fromSnapFormat` has added the base layer when the file cannot be opened, and a
  second try finds a base layer. In a SNAP file without a line break at its end whose
  only line behind the comments is the last, that line is not read, since `tellg`
  fails at the end of a file (`GraphImporter.cpp:107`); the call returns true. A token too
  many or too few in a line shifts all pairs behind it, and a comment among the links ends
  the reading, both without a message (`GraphImporter.cpp:114`). `fromTimeSeries` on a graph that has a base layer
  returns true and imports nothing. The exporter takes the header from the first HLink
  also when there is none.
- *Tools.* A failed operator is committed as well; `snap_parser` and `coarsener` exit
  with success after a failure; an error in a plan drops the steps queued before, the
  empty plan does not. After `coarsener`, `ts_filter` and `ts_export` end with an
  exception, for the new layers have no OLinks to the nodes. `ts_export` never begins
  a transaction.
- *Timer.* The median takes the middle element of an even number of laps and the mean
  of two of an odd number (`Timer.h:241`).

## What is proved

**`LayerDaoProofs`**, for every set of layer ids:

- `TypeCorrect`, `OneBase`, `OnlyPaths`: of `SpecStale`, callers with stale layers
  included.
- `ABaseLayer`, `OneStack`, `NothingUnreachable`, `BaseLayerLast`, `Implements`: of `Spec`.

The inductive
invariant is `IInv`: types, at most one base layer, a base layer if there are layers,
and the single stack. None is inductive alone. That `addLayerOnTop` keeps one stack
needs that the walk to the top, which starts at the base layer, finds a layer and
finds the last one: that there is a base layer and that the edges are one chain. That
the base layer stays needs that the chain has two ends and that the guard compares
the base layer with the right one. `ShapeOf(s, n, k, ...)` says that the sequence `s`
of `n` layers lists the chain and that `s[k]` is the base layer; `ShapeOfIInv` finds
it in every state of the invariant. For each operation one lemma gives the shape
after the step (append, prepend, drop an end, keep one) and with it, at once, the
invariant, the step of `LayerStack` and the promise about the base layer
(`EveryStep`). The walks along the chain are by least counterexample. For `OnlyPaths`
there is no stack to lean on; that the edges have no cycle is shown edge by edge, by a
set of layers that is closed under parents and has the upper end of the edge in it
and the lower one outside (`Parted`).

**`MultiLayerGraphProofs`**, for every set of layer and node ids: the three invariants of
`mlg` and, as `OrphansAreMadeKnowingly`, its action property `OrphansByRemoveOLinkOnly`:
a step after which a node has no layer, and before which it had one or was not there,
is a `removeOLink` of that node. The inductive invariant adds `StackOK`, that no layer is in the stack twice:
otherwise a new layer next to one of two places of a layer would not be next to the
other, and `VLinksGoUpOne` would be lost. The proof has a lemma per operation of the
stack, which says that layers that stay keep their order (`KeepsOrder`), and then one
per action. The obligations of callers named next to `Next` are hypotheses of these
lemmas.

**`GraphObjectsProofs`**, for every set of types, names and values and all data that
callers pass: `TypeCorrect`, `AnswersAlwaysAgree` and `WeightIsWrittenAlone`. The
inductive invariant has three parts: the scheme always knows the name of each type's
weight, and what a Dao has read still holds under the names that are left
(`SchemeInv`, which needs that no name is given twice and so remembers the names
`given`); objects have the attributes of their type (`ObjectsInv`); a copy is of an
object of its type (`CopyInv`). `NextIsGood` shows of each call that it keeps the
invariant, its promise and the property of a weight's step.

**`MutablePriorityQueueProofs`**, for all values and ordered keys: the two maps agree,
`erase` finds what it looks for, and `PriorityQueue` is implemented. `TypeOK /\
MapsAgree` is inductive; from it `erase` leaves the other entries and those only, so
that the order of insertion is the order `older` of the queue.

**`NeighborCoarsenerProofs`**, for every layer, all weights, both selectors and any number
of runs, each of the invariants of `coarsen_heavy` and `coarsen_x` and the refinement.
Everything rests on `Safe`: types, and what a selection is (`Selection`). Queue, root
and nodes to update are never among the nodes being merged, which are neighbours of
the target; that is why removing those leaves nothing dangling. Each result adds what
it needs:

| theorem | added invariant | what it says |
|---|---|---|
| `TypeCorrect`, `SelectorAlwaysLive` | `Safe` | |
| `SelectedOnce` (heavy) | `Consumed` | nodes selected have left the queue, which no update refills |
| `LinksStaySums`, `CoarseningContracts` | `Related` | every linked node below has one parent, and every node a child |
| `WeightAlwaysConserved` | `Balanced` | when the queue is empty the sum starts with the target's weight |
| `NoNodeForgotten`, `FailsOnlyWhenTooSmall` | `Queued` | without memory all but the nodes to merge are queued, and only isolated nodes have score zero, so that a run goes on while there are links |
| `MergedAsRequested` | `Counted` | the nodes gone are those the counter has counted and those of the selection under way |
| `ScoresStayExact` (without memory) | `Exact` | the only scores that may be out of date are those of `nodesToUpdate`, and the value they lack is the weight of their link to the root |

That a step of the run is a step of `Contraction` follows from the sums: a node takes
over the children of its neighbour, and a link to the joint group is there exactly
when one was to either. A score, a weight and a link are sums or maxima over sets of
nodes (`SumFunctionOnSet`, `Total`); what they do when an element is added or two
sets are joined is proved by induction over the subsets of a finite set, with a set of
subsets in the place of the predicate (`SubsetInduction`).

**`TimeSeriesProofs`**, for series of any length, any radius and any calls but `pop_back` with
the position at the end (`CallPopBack`):
`AlwaysInBounds`, `AlwaysReach`, `ShrinkIsSlice` and `AlwaysFollows`. The inductive
invariant, `Clamped`, is that the slice is always the one `clamp` would compute, which
every method restores. `shrink` pops in loops: what `n` calls leave is stated in closed
form and shown to satisfy the loop's equation at every `n`.

**`TSOperatorProofs`**, for every number of layers and nodes and every window:

- `TypeCorrect`, and `EveryRunAllOrNothing`: the stored values all come from the same
  number of runs, wherever a run throws. The property alone is not inductive: that
  the last step writes everything needs that the buffer then holds every layer and
  node. `BufferIsProgress` says so, and for the steps before it that the buffer is the
  layers below the current one and, of that one, the nodes done.
- `CacheIsWindow`: on tall stacks every value is filtered from its window as it was
  before the run. `CacheFollows` says that each cached series is the window of its
  node around the layer being filtered. It uses the closed forms of
  `TimeSeriesProofs`, and shows that `scrollUp` finds the layer to push exactly while
  the window has not reached the top: the only place where a short stack fails.

**`ToolsProofs`**, for all files, plans, numbers of iterations and sequences of tools,
killed at any step:

- `WholeIterationsOnDisk` (`IInv`): counts the iterations written in the session's
  database and how far the one under way has come; a commit is reached only when
  none is.
- `NothingLeftOpen` (`Open`): a session is open exactly while a tool runs.
- `ParserRight`, of operators alone: the parser of plans returns true exactly for
  `Acceptable` plans and queues `StepsOf` of them. The parser is two nested folds, whose
  state after each factor and each part is stated in closed form.
- `PlansRunInOrder` (`Stacked`, `Ordered`): the layers made since the last commit are the
  first of `StepsOf` the plan, the steps queued are the rest, and only the last layer
  may be half done.
- `TypeCorrect` (`Typed`): the graphs on disk and in the session are graphs.
- `ImportedRight` (`AsRead`): the fold over the links read has gathered, after each of
  them, the HLinks so far that have two ends, in order (`Gathered`); for SNAP files also
  a node for each number met, and none twice (`Labels`, `Distinct`). That holds of the
  pairs of tokens, whatever the lines. That the pairs are the lines is shown for
  `WellFormed` files, whose lines behind the comments have two numbers each
  (`PairsFlat`, `WellFormedEdges`).
- `ExportsImport` (`Exported`): reading what was written gives back the same nodes and
  links, and of each signal all but the last value. `GraphOK` is needed: that HLinks
  join two different nodes the graph has, or the importer would skip their lines or
  throw.

The importers and the parser are folds over a sequence; `ToolsProofs` first shows
that a fold has a value after each element, that of the element before taken one further.

Each theorem rests on the assumptions that the modules it extends declare on their
constants, and on nothing else. Most say what set a constant is in. Those with
content: nodes and layer ids are finite (`NodeAssumption`, `LayerIdAssumption`), and what
a node file may hold (`FilesAssumption`, see below).

*Only model-checked:* liveness (`RunsReturn`, `ToolsEnd`), which this prover does not do.
Every other property of a passing run is proved. The three runs that end in a
violation, and the violated properties named above, are TLC's.

## Assumptions

- A committed transaction survives, and one that has not been committed is gone after
  the process ends: Sparksee's promise.
- Layers being coarsened are simple graphs: no parallel HLinks, no loops. The SNAP
  importer makes parallel links of edges listed twice.
- Scores and weights are exact: `double` sums and quotients are naturals and fractions,
  rounding of `factor * n` is ignored, and no weight is NaN. Weights of VLinks are
  left out.
- A mirrored node keeps the id of its original in `CoarseLayer`. Ids matter as the
  order in which Sparksee lists objects, and all orders of a layer are among the
  initial ones.
- `rankNodes` of an empty layer reads the front of an empty map: undefined, modelled as
  any root. Nobody pops an empty queue.
- In `TSOperator` every node of the base layer has an OLink to every layer, updates do
  not fail, and the writes of `postExec` are one step (in `Tools` they are one step a
  layer, and nodes may lack OLinks). An exception ends the program.
- A `TallStack`, for which the filter is right, has its base layer at the bottom and,
  where the window reaches up, more than `radius + 1` layers, or only one.
- A line of a node file that is not blank has its label and at least one value, and no
  more values than the header announces (`FilesAssumption`): the code reads past the end
  of a vector otherwise. The header announces at least one layer (`NodeTable`); a file
  with `ts:0`, from which the code makes one layer as well, is left out. Lines of CSV
  edge files hold numbers.
- A SNAP file is made of comments, numbers of at most 64 bits and other text. Text ends
  the reading as a whole token: digits that run into letters, which the code would read as
  a number first, are left out.
- `SetAttribute` refuses a value of another data type than the attribute's.
- Callers go on using no copy of a removed object, and give no attribute a name that
  another of its type has had. `GraphObjects` has both as guards.
- Copies of links with `safe = false` or restricted to a subset of nodes are used by
  the coarsener only and modelled in `CoarseLayer`; `MultiLayerGraph` has the checked
  forms.

## Not modelled

`Timer`, `ProgressDisplay` and `log`, which nothing reads back; the parsing and
formatting of single values; the mean that a filter computes and its coefficients
(CLink weights only enter those); options of the tools, which end a tool before it
opens the database; several databases or sessions in one process, which no tool has;
the tests and the Sparksee sample `hello_sparksee`.

## Plan

1. `MultiLayerGraph` takes its layers from `LayerStack`; that its steps on the layers
   are steps of `LayerStack`, as those of `LayerDao` are, can be a theorem.
2. The operators the tools use in one step, shown to be what the detailed models give:
   an iteration of `ts_filter` against a run of `TSOperator`, a step of a plan against
   one of `NeighborCoarsener`.
3. The lemmas on folds and on sums in one module, as several proofs have their own.
