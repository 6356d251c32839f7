------------------------------- MODULE Tools -------------------------------
(***************************************************************************)
(* The command line tools (tools/), run one after the other on a database: *)
(* ts_parser and snap_parser create and fill it, ts_filter and coarsener   *)
(* change it, ts_export writes it to files.  A tool works in a transaction *)
(* of its session and may be killed, or end with an exception, between any *)
(* two steps; the database then is what was committed last, which is what  *)
(* Sparksee promises and is not modelled further.                          *)
(*                                                                         *)
(* A database is                                                           *)
(*   graph    what was imported, as in module GraphExchange                *)
(*   coarse   the layers the coarsener put on top, each with the step that *)
(*            made it and whether the step was finished                    *)
(*   written  for each layer how many iterations of ts_filter have written *)
(*            the weights of its OLinks                                    *)
(* Module NeighborCoarsener has the steps of a plan in detail and module   *)
(* TSOperator a run of the filter.                                         *)
(***************************************************************************)
EXTENDS GraphExchange, MLGBuilder, FiniteSets

CONSTANTS NodeFile, EdgeFile, SnapFile, Plan,   \* arguments
          MaxIterations,   \* bound: iterations of one ts_filter
          MaxLaunches,     \* bound: tools run
          NoDatabase

\* A line of a node file, if it is not blank, has a label and at least one
\* value, but not more than the header announces: others end the program or
\* are undefined.  A plan is a sequence of parts with any factors
ASSUME FilesAssumption ==
  /\ NodeFile \subseteq {NoFile} \union NodeTable
  /\ \A file \in NodeFile \ {NoFile} : \A k \in DOMAIN file.lines :
       file.lines[k] = << >> \/ Len(file.lines[k]) \in 2..(file.size + 1)
  /\ EdgeFile \subseteq {NoFile} \union Seq(Seq(Nat))
  /\ SnapFile \subseteq {NoFile} \union SnapFiles
ASSUME PlanAssumption == Plan \subseteq Seq(Parts)
ASSUME BoundsAssumption == MaxIterations \in Nat /\ MaxLaunches \in Nat

VARIABLES disk,      \* the committed database
          work,      \* the database as the session sees it, or saw it last
          session,   \* whether the session is open
          tx,        \* whether a transaction is
          tool,      \* the tool running, or run last, and its arguments
          pc,        \* where it is
          ok,        \* what the call it makes has returned
          steps,     \* m_steps of the MLGBuilder
          left,      \* iterations ts_filter has left
          layer,     \* layers its postExec has written
          exported,  \* what toTimeSeries returned and wrote
          launches

rest == <<steps, left, layer, exported, launches>>
vars == <<disk, work, session, tx, tool, pc, ok, rest>>

Empty == [graph |-> NoGraph, coarse |-> << >>, written |-> << >>]
NoExport == [returns |-> FALSE, nodes |-> NoFile, edges |-> NoFile]

Parser == [name : {"ts_parser"}, nodes : NodeFile, edges : EdgeFile]
          \union [name : {"snap_parser"}, file : SnapFile]
Other == [name : {"ts_filter"}, known : BOOLEAN, numIt : 0..MaxIterations]
         \union [name : {"coarsener"}, plan : Plan]
         \union [name : {"ts_export"}]

Ended == {"idle", "success", "failure", "died"}
Running == pc \notin Ended

LayerCount(db) == db.graph.layers + Len(db.coarse)

DatabaseOK(db) ==
  /\ \A k \in DOMAIN db.graph.nodes : Len(db.graph.nodes[k].signal) <= db.graph.layers
  /\ \A i \in DOMAIN db.graph.hlinks :
       LET ends == db.graph.hlinks[i].ends
       IN {ends[1], ends[2]} \subseteq DOMAIN db.graph.nodes /\ ends[1] # ends[2]
  /\ Len(db.written) = db.graph.layers

\* HLinks join two nodes of the graph and signals are no longer than the stack.
TypeOK ==
  /\ \A db \in {disk, work} : db = NoDatabase \/ DatabaseOK(db)
  /\ session \in BOOLEAN /\ tx \in BOOLEAN /\ ok \in BOOLEAN
  /\ Running => tool \in Parser \union Other
  /\ pc \in Ended \union {"opened", "running", "writing", "coarsening", "ran"}
  /\ left \in 0..MaxIterations /\ layer \in Nat /\ launches \in 0..MaxLaunches

---------------------------------------------------------------------------
(* Begin and end of a tool *)

\* The parsers create the database and its types, the others open one
Launch(t) ==
  /\ ~Running /\ launches < MaxLaunches
  /\ tool' = t
  /\ disk' = IF disk = NoDatabase THEN Empty ELSE disk
  /\ work' = disk'
  /\ session' = TRUE
  /\ pc' = "opened" /\ ok' = TRUE
  /\ left' = IF t.name = "ts_filter" THEN t.numIt ELSE 0
  /\ layer' = 0 /\ exported' = NoExport
  /\ launches' = launches + 1
  /\ UNCHANGED <<tx, steps>>

\* The objects of main go with it, the MLGBuilder before the session
Exit(code) ==
  /\ pc' = code
  /\ session' = FALSE
  /\ steps' = << >>

\* The program is killed or an exception is not caught, in a transaction or not
Die ==
  /\ Running
  /\ Exit("died")
  /\ work' = disk /\ tx' = FALSE
  /\ UNCHANGED <<disk, tool, ok, left, layer, exported, launches>>

Begin(name) ==
  /\ tool.name = name /\ pc = "opened"
  /\ tx' = TRUE /\ pc' = "running"
  /\ UNCHANGED <<disk, work, session, tool, ok, rest>>

Commit(name) ==
  /\ tool.name = name /\ pc = "ran"
  /\ disk' = work /\ tx' = FALSE

---------------------------------------------------------------------------
(* ts_parser and snap_parser *)

Imported(r) ==
  /\ r.returns \in BOOLEAN
  /\ work' = [work EXCEPT !.graph = r.graph, !.written = [l \in 1..r.graph.layers |-> 0]]
  /\ ok' = r.returns
  /\ pc' = "ran"
  /\ UNCHANGED <<disk, session, tx, tool, rest>>

TSParserImport ==
  /\ tool.name = "ts_parser" /\ pc = "running"
  /\ Imported(FromTimeSeries(tool.nodes, tool.edges))

SnapParserImport ==
  /\ tool.name = "snap_parser" /\ pc = "running"
  /\ Imported(FromSnapFormat(tool.file))

TSParserCommit ==
  /\ Commit("ts_parser")
  /\ Exit(IF ok THEN "success" ELSE "failure")
  /\ UNCHANGED <<work, tool, ok, left, layer, exported, launches>>

\* What the importer returned is only logged
SnapParserCommit ==
  /\ Commit("snap_parser")
  /\ Exit("success")
  /\ UNCHANGED <<work, tool, ok, left, layer, exported, launches>>

---------------------------------------------------------------------------
(* ts_filter *)

\* FilterFactory knows no filter of the name given: preExec fails
FilterUnknown ==
  /\ tool.name = "ts_filter" /\ pc = "running" /\ ~tool.known
  /\ ok' = FALSE /\ pc' = "ran"
  /\ UNCHANGED <<disk, work, session, tx, tool, rest>>

\* exec reads the signals of all nodes through all layers: a node without an
\* OLink to one of them, and a graph without layers, end the program
FilterExec ==
  /\ tool.name = "ts_filter" /\ pc = "running" /\ tool.known
  /\ LayerCount(work) > 0
  /\ \A k \in DOMAIN work.graph.nodes : Len(work.graph.nodes[k].signal) = LayerCount(work)
  /\ pc' = "writing" /\ layer' = 0
  /\ UNCHANGED <<disk, work, session, tx, tool, ok, steps, left, exported, launches>>

\* Variant: what is written is committed layer by layer
FilterWriteCommitting ==
  /\ tool.name = "ts_filter" /\ pc = "writing" /\ layer < work.graph.layers
  /\ layer' = layer + 1
  /\ work' = [work EXCEPT !.written[layer + 1] = @ + 1]
  /\ disk' = work'
  /\ UNCHANGED <<session, tx, tool, pc, ok, steps, left, exported, launches>>

\* postExec writes the OLinks in the order they were computed, by layers; what
\* has been filtered has OLinks to all of them
FilterWrite ==
  /\ tool.name = "ts_filter" /\ pc = "writing" /\ layer < work.graph.layers
  /\ layer' = layer + 1
  /\ work' = [work EXCEPT !.written[layer + 1] = @ + 1]
  /\ UNCHANGED <<disk, session, tx, tool, pc, ok, steps, left, exported, launches>>

FilterDone ==
  /\ tool.name = "ts_filter" /\ pc = "writing" /\ layer = work.graph.layers
  /\ pc' = "ran"
  /\ UNCHANGED <<disk, work, session, tx, tool, ok, rest>>

\* Variant: a failed iteration is tried again
FilterCommitRetrying ==
  /\ Commit("ts_filter")
  /\ left' = IF ok THEN left - 1 ELSE left
  /\ pc' = "opened"
  /\ UNCHANGED <<work, session, tool, ok, steps, layer, exported, launches>>

\* A failed iteration is committed as well
FilterCommit ==
  /\ Commit("ts_filter")
  /\ IF ok THEN left' = left - 1 /\ pc' = "opened" /\ UNCHANGED <<session, steps>>
           ELSE Exit("failure") /\ UNCHANGED left
  /\ UNCHANGED <<work, tool, ok, layer, exported, launches>>

FilterBegin == left > 0 /\ Begin("ts_filter")

FilterEnd ==
  /\ tool.name = "ts_filter" /\ pc = "opened" /\ left = 0
  /\ Exit("success")
  /\ UNCHANGED <<disk, work, tx, tool, ok, left, layer, exported, launches>>

---------------------------------------------------------------------------
(* coarsener *)

\* On an error the session is closed while the builder is still there
CoarsenerParse ==
  /\ tool.name = "coarsener" /\ pc = "opened"
  /\ LET parsed == FromRawString(tool.plan) IN
       /\ steps' = parsed.steps
       /\ ok' = parsed.ok
       /\ tx' = parsed.ok
       /\ session' = parsed.ok
       /\ pc' = IF parsed.ok THEN "running" ELSE "failure"
  /\ UNCHANGED <<disk, work, tool, left, layer, exported, launches>>

\* preExec counts the nodes that the top layer owns
TooFewNodes ==
  /\ work.coarse = << >>
  /\ Len(SelectSeq(work.graph.nodes, LAMBDA n : Len(n.signal) = work.graph.layers)) < 2

\* The builder's run starts the step in front of the queue, or stops: there is
\* none, or the top layer is too small, as a layer of the coarsener may be
RunStep ==
  /\ tool.name = "coarsener" /\ pc = "running" /\ steps # << >> /\ ~TooFewNodes
  /\ work' = [work EXCEPT !.coarse = Append(@, [step |-> Head(steps), whole |-> FALSE])]
  /\ pc' = "coarsening"
  /\ UNCHANGED <<disk, session, tx, tool, ok, rest>>

StepDone ==
  /\ pc = "coarsening"
  /\ work' = [work EXCEPT !.coarse[Len(work.coarse)].whole = TRUE]
  /\ steps' = Tail(steps)
  /\ pc' = IF steps' = << >> THEN "ran" ELSE "running"
  /\ UNCHANGED <<disk, session, tx, tool, ok, left, layer, exported, launches>>

\* Variant: the steps after a failed one stay queued and are run
StepFailsOnly ==
  /\ \/ pc = "coarsening"
     \/ /\ tool.name = "coarsener" /\ pc = "running"
        /\ steps = << >> \/ TooFewNodes \/ work.coarse # << >>
  /\ ok' = FALSE
  /\ steps' = IF steps = << >> THEN << >> ELSE Tail(steps)
  /\ pc' = IF steps' = << >> THEN "ran" ELSE "running"
  /\ UNCHANGED <<disk, work, session, tx, tool, left, layer, exported, launches>>

StepFails ==
  /\ \/ pc = "coarsening"
     \/ /\ tool.name = "coarsener" /\ pc = "running"
        /\ steps = << >> \/ TooFewNodes \/ work.coarse # << >>
  /\ ok' = FALSE
  /\ steps' = << >>
  /\ pc' = "ran"
  /\ UNCHANGED <<disk, work, session, tx, tool, left, layer, exported, launches>>

\* What a plan has done is committed, also if a step failed
CoarsenerCommit ==
  /\ Commit("coarsener")
  /\ Exit("success")
  /\ UNCHANGED <<work, tool, ok, left, layer, exported, launches>>

---------------------------------------------------------------------------
(* ts_export *)

\* Layers of the coarsener are layers without OLinks to the nodes
Export ==
  /\ tool.name = "ts_export" /\ pc = "opened"
  /\ exported' = ToTimeSeries([work.graph EXCEPT !.layers = LayerCount(work)])
  /\ exported'.returns \in BOOLEAN
  /\ Exit(IF exported'.returns THEN "success" ELSE "failure")
  /\ UNCHANGED <<disk, work, tx, tool, ok, left, layer, launches>>

---------------------------------------------------------------------------
Init ==
  /\ disk = NoDatabase /\ work = NoDatabase /\ session = FALSE /\ tx = FALSE
  /\ tool = [name |-> "ts_export"] /\ pc = "idle" /\ ok = TRUE /\ steps = << >>
  /\ left = 0 /\ layer = 0 /\ exported = NoExport /\ launches = 0

Step ==
  \/ Begin("ts_parser") \/ TSParserImport \/ TSParserCommit
  \/ Begin("snap_parser") \/ SnapParserImport \/ SnapParserCommit
  \/ FilterBegin \/ FilterUnknown \/ FilterExec \/ FilterWrite \/ FilterDone
  \/ FilterCommit \/ FilterEnd
  \/ CoarsenerParse \/ RunStep \/ StepDone \/ StepFails \/ CoarsenerCommit
  \/ Export

Next ==
  \/ disk = NoDatabase /\ \E t \in Parser : Launch(t)
  \/ disk # NoDatabase /\ \E t \in Other : Launch(t)
  \/ Step
  \/ Die

\* A tool that runs goes on, or ends by an exception
Spec == Init /\ [][Next]_vars /\ WF_vars(Die \/ Step)
---------------------------------------------------------------------------
(* Properties *)

\* The lines of an edge file that should become an HLink: all but self loops,
\* up to the first that is not complete
Links(file) ==
  {j \in DOMAIN file : /\ \A i \in 1..j : Len(file[i]) >= 2
                       /\ file[j][1] # file[j][2]}

\* The HLinks of g are those lines, in order, with ends(line) for their ends
HLinksAre(g, file, ends(_)) ==
  /\ Len(g.hlinks) = Cardinality(Links(file))
  /\ \A j \in Links(file) :
       g.hlinks[Cardinality({i \in Links(file) : i <= j})].ends = ends(file[j])

SignalsAre(g, file) ==
  LET rows == {k \in DOMAIN file.lines : \A i \in 1..k : file.lines[i] # << >>}
  IN /\ g.layers = file.size
     /\ Len(g.nodes) = Cardinality(rows)
     /\ \A k \in rows : <<g.nodes[k].label>> \o g.nodes[k].signal = file.lines[k]

\* The HLinks of g are those edges, and its nodes the numbers on them, once each
SnapIs(g, edges) ==
  LET at(label) == CHOOSE k \in DOMAIN g.nodes : g.nodes[k].label = label
      numbers == UNION {{edges[j][1], edges[j][2]} : j \in Links(edges)}
  IN /\ {g.nodes[k].label : k \in DOMAIN g.nodes} = numbers
     /\ Len(g.nodes) = Cardinality(numbers)
     /\ HLinksAre(g, edges, LAMBDA edge : <<at(edge[1]), at(edge[2])>>)

\* A SNAP file as it should be: n lines of comments and then an edge a line; a
\* single line of edges has its line break
WellFormed(file, n) ==
  /\ \A i \in 1..n : IsComment(file.lines[i])
  /\ \A i \in (n + 1)..Len(file.lines) : file.lines[i] \in Nat \X Nat
  /\ file.ended \/ n + 1 # Len(file.lines)

\* When a parser has succeeded, the committed graph is the one of its files.  Of
\* ts_parser: a node for every line, with its signal, and the HLinks of the
\* edge file's lines in order, self loops left out, between the nodes they
\* name.  Of snap_parser: the HLinks of the pairs of numbers read, in whatever
\* lines they are, self loops left out, and a node for each number on one of
\* them and no other; for a well-formed file the pairs are its lines.
ImportedAsWritten ==
  pc = "success" =>
    /\ tool.name = "ts_parser" =>
         /\ SignalsAre(disk.graph, tool.nodes)
         /\ HLinksAre(disk.graph, tool.edges, LAMBDA line : <<line[1] + 1, line[2] + 1>>)
    /\ tool.name = "snap_parser" /\ tool.file # NoFile =>
         LET lines == tool.file.lines
         IN /\ SnapIs(disk.graph, SnapEdges(tool.file))
            /\ \A n \in 0..Len(lines) :
                 WellFormed(tool.file, n) =>
                   SnapIs(disk.graph, SubSeq(lines, n + 1, Len(lines)))

\* Whenever ts_filter is killed, throws or fails, the values in the database
\* are those of a whole number of iterations, the same in every layer.
WholeIterations ==
  disk # NoDatabase =>
    \A l, m \in DOMAIN disk.written : disk.written[l] = disk.written[m]

\* A plan is refused, or it is one whose factors all grow, and the coarsener
\* puts the layers of its steps on the stack in their order; if it does not
\* finish, a beginning of them, all whole but the last.
PlanRunsInOrder ==
  tool.name = "coarsener" =>
    LET asked == StepsOf(tool.plan)
        done == SubSeq(work.coarse, Len(disk.coarse) + 1, Len(work.coarse))
        made == [i \in DOMAIN done |-> done[i].step]
        queued == IF pc = "coarsening" THEN Tail(steps) ELSE steps
    IN /\ pc = "failure" => ~Acceptable(tool.plan)
       /\ pc \in {"running", "coarsening", "ran", "success"} => Acceptable(tool.plan)
       /\ pc \in {"running", "coarsening", "ran"} /\ ok => made \o queued = asked
       /\ pc = "ran" => IsPrefix(made, asked)
       /\ \A i \in 1..(Len(done) - 1) : done[i].whole

\* What one tool has open is closed, and in the right order: a step of the
\* builder needs the session, a transaction too; and a tool that ends by itself
\* has committed all it did, whether it failed or not.
LeavesNothingOpen ==
  /\ steps # << >> \/ tx => session
  /\ pc \in {"success", "failure"} => ~tx /\ disk = work

\* What is exported can be imported again, to the same nodes and HLinks and,
\* but for the top layer, the same signals.
ExportImports ==
  tool.name = "ts_export" /\ pc = "success" =>
    LET again == FromTimeSeries(exported.nodes, exported.edges)
        g == again.graph
    IN /\ again.returns = TRUE
       /\ g.layers = disk.graph.layers
       /\ [g EXCEPT !.nodes = << >>] = [disk.graph EXCEPT !.nodes = << >>]
       /\ Len(g.nodes) = Len(disk.graph.nodes)
       /\ \A k \in DOMAIN g.nodes :
            /\ g.nodes[k].label = disk.graph.nodes[k].label
            /\ Front(g.nodes[k].signal) = Front(disk.graph.nodes[k].signal)

\* Every tool ends, with a code or by an exception: plans get shorter and
\* iterations fewer.
ToolsEnd == Running ~> ~Running

\* The importer keeps the weights of the edge file ("Save weight").
EdgeWeightsKept ==
  pc = "success" /\ tool.name = "ts_parser" =>
    \A j \in Links(tool.edges) : Len(tool.edges[j]) = 3 =>
      disk.graph.hlinks[Cardinality({i \in Links(tool.edges) : i <= j})].weight
        = tool.edges[j][3]

\* The exporter writes every value, the last one too ("Write last value").
LastValueWritten ==
  tool.name = "ts_export" /\ pc = "success" =>
    \A k \in DOMAIN disk.graph.nodes :
      Tail(exported.nodes.lines[k]) = disk.graph.nodes[k].signal
=============================================================================
