--------------------------- MODULE GraphExchange ---------------------------
(***************************************************************************)
(* What GraphImporter makes of a SNAP file or of the two CSV files of a    *)
(* time series graph, and what GraphExporter writes (io/).  A CSV file is  *)
(* the sequence of its lines and a line the sequence of its tokens; columns*)
(* of other attributes are left out.  A graph is                           *)
(*   layers   the number of layers, the base layer at the bottom           *)
(*   nodes    the nodes of the base layer in the order they were added,    *)
(*            each with its label and its signal, the weights of its       *)
(*            OLinks from the base layer up                                *)
(*   hlinks   their HLinks: two positions in nodes, and the weight         *)
(* What a call returns is TRUE, FALSE or, when an exception or undefined   *)
(* behaviour ends the program, Throws.                                     *)
(***************************************************************************)
EXTENDS Naturals, Sequences, SequencesExt

CONSTANTS NoFile,  \* a file that cannot be opened, or with another header
          Throws,
          Label,   \* what may name a node besides numbers
          Hash,    \* in a SNAP file, what begins with # in the first column
          Word     \* or is no number elsewhere

Token == Label \union Nat
NodeTable == [size : Nat \ {0}, lines : Seq(Seq(Token))]
\* ended: the last line has its line break
SnapFiles == [lines : Seq(Seq(Nat \union {Hash, Word})), ended : BOOLEAN]

ASSUME ResultsAssumption ==
  /\ Throws \notin BOOLEAN
  /\ NoFile \notin NodeTable \union Seq(Seq(Nat)) \union SnapFiles
  /\ Hash \notin Nat

\* HLINK_DEF_VALUE and OLINK_DEF_VALUE
DefaultWeight == 1

NoGraph == [layers |-> 0, nodes |-> << >>, hlinks |-> << >>]

---------------------------------------------------------------------------
(* SNAP: comments, and then numbers, two for each HLink *)

IsComment(line) == line # << >> /\ line[1] = Hash

\* To read the first line behind the comments again the position after it is
\* asked for, which fails at the end of the file: then nothing is read
Tokens(file) ==
  LET lines == file.lines
      first == SelectInSeq(lines, LAMBDA line : ~IsComment(line))
  IN IF first = 0 \/ (first = Len(lines) /\ ~file.ended) THEN << >>
     ELSE FlattenSeq(SubSeq(lines, first, Len(lines)))

\* Line breaks are spaces: the pairs of numbers up to what is no number
SnapEdges(file) ==
  LET tokens == Tokens(file)
      stop == SelectInSeq(tokens, LAMBDA t : t \notin Nat)
      count == IF stop = 0 THEN Len(tokens) ELSE stop - 1
  IN [k \in 1..(count \div 2) |-> <<tokens[2 * k - 1], tokens[2 * k]>>]

Position(g, label) == SelectInSeq(g.nodes, LAMBDA n : n.label = label)

AddOrGetFromIndexMap(g, label) ==
  IF Position(g, label) # 0 THEN g
  ELSE [g EXCEPT !.nodes = Append(@, [label |-> label, signal |-> <<DefaultWeight>>])]

\* Variant: the nodes of a self loop are added before it is skipped
AddSnapEdgeNodesFirst(g, edge) ==
  LET h == AddOrGetFromIndexMap(AddOrGetFromIndexMap(g, edge[1]), edge[2])
  IN IF edge[1] = edge[2] THEN h
     ELSE [h EXCEPT !.hlinks = Append(@,
             [ends |-> <<Position(h, edge[1]), Position(h, edge[2])>>,
              weight |-> DefaultWeight])]

AddSnapEdge(g, edge) ==
  IF edge[1] = edge[2] THEN g
  ELSE LET h == AddOrGetFromIndexMap(AddOrGetFromIndexMap(g, edge[1]), edge[2])
       IN [h EXCEPT !.hlinks = Append(@,
             [ends |-> <<Position(h, edge[1]), Position(h, edge[2])>>,
              weight |-> DefaultWeight])]

\* Into an empty graph: the base layer is there before the file is opened
FromSnapFormat(file) ==
  LET base == [NoGraph EXCEPT !.layers = 1]
  IN IF file = NoFile
     THEN [returns |-> FALSE, graph |-> base]
     ELSE [returns |-> TRUE, graph |-> FoldLeft(AddSnapEdge, base, SnapEdges(file))]

---------------------------------------------------------------------------
(* Time series: a line per node, with its label and its values, and a line *)
(* per HLink, with the two nodes' line numbers, from 0, and its weight     *)

\* The lines read of a CSV file: the first with fewer than n tokens ends the reading
Read(lines, n) ==
  LET short == SelectInSeq(lines, LAMBDA line : Len(line) < n)
  IN IF short = 0 THEN lines ELSE SubSeq(lines, 1, short - 1)

\* A line may hold fewer values than the header announces
ImportTSNodes(file) ==
  IF file = NoFile
  THEN [returns |-> FALSE, graph |-> NoGraph]
  ELSE [returns |-> TRUE,
        graph |-> [layers |-> file.size, hlinks |-> << >>,
                   nodes |-> [k \in DOMAIN Read(file.lines, 1) |->
                                [label |-> Head(file.lines[k]), signal |-> Tail(file.lines[k])]]]]

\* Variant: line numbers are taken for positions
HLinkOfLineFromOne(line) ==
  [ends |-> <<line[1], line[2]>>, weight |-> DefaultWeight]

\* The weight is stored under the name of the OLinks' weight, which HLinks
\* do not have: setting it is skipped, and the default stays
HLinkOfLine(line) ==
  [ends |-> <<line[1] + 1, line[2] + 1>>, weight |-> DefaultWeight]

AddTSLine(g, line) ==
  IF line[1] = line[2] THEN g ELSE [g EXCEPT !.hlinks = Append(@, HLinkOfLine(line))]

\* at() throws for a number that no line of the other file has
ImportTSEdges(g, file) ==
  LET lines == Read(file, 2)
      known(line) == {line[1], line[2]} \subseteq 0..(Len(g.nodes) - 1)
  IN IF file = NoFile \/ g.nodes = << >>
     THEN [returns |-> FALSE, graph |-> g]
     ELSE IF \A i \in DOMAIN lines : lines[i][1] # lines[i][2] => known(lines[i])
     THEN [returns |-> TRUE, graph |-> FoldLeft(AddTSLine, g, lines)]
     ELSE [returns |-> Throws, graph |-> g]

FromTimeSeries(nodeFile, edgeFile) ==
  LET read == ImportTSNodes(nodeFile)
  IN IF read.returns = TRUE THEN ImportTSEdges(read.graph, edgeFile) ELSE read

---------------------------------------------------------------------------
(* Export of the base layer *)

\* The index of the node takes the place of the index of the layer in the
\* last value: at() throws for more nodes than layers.  A layer without OLink
\* to the node has no weight to give
WriteTSNodes(g) ==
  IF g.nodes = << >> THEN [returns |-> FALSE, file |-> NoFile]
  ELSE IF \E k \in DOMAIN g.nodes : k > g.layers \/ Len(g.nodes[k].signal) < g.layers
  THEN [returns |-> Throws, file |-> NoFile]
  ELSE [returns |-> TRUE,
        file |-> [size |-> g.layers,
                  lines |-> [k \in DOMAIN g.nodes |->
                    <<g.nodes[k].label>> \o
                    [l \in 1..g.layers |-> g.nodes[k].signal[IF l = g.layers THEN k ELSE l]]]]]

\* Variant: nodes are numbered from one
WriteTSEdgesFromOne(g) ==
  IF g.hlinks = << >> THEN [returns |-> Throws, file |-> NoFile]
  ELSE [returns |-> TRUE,
        file |-> [i \in DOMAIN g.hlinks |-> g.hlinks[i].ends \o <<g.hlinks[i].weight>>]]

\* The header is taken from the first HLink, also if there is none
WriteTSEdges(g) ==
  IF g.hlinks = << >> THEN [returns |-> Throws, file |-> NoFile]
  ELSE [returns |-> TRUE,
        file |-> [i \in DOMAIN g.hlinks |->
                    <<g.hlinks[i].ends[1] - 1, g.hlinks[i].ends[2] - 1, g.hlinks[i].weight>>]]

\* The two files, and what toTimeSeries returns
ToTimeSeries(g) ==
  LET nodes == WriteTSNodes(g)
      edges == WriteTSEdges(g)
  IN [returns |-> IF nodes.returns = TRUE THEN edges.returns ELSE nodes.returns,
      nodes |-> nodes.file, edges |-> edges.file]
=============================================================================
