------------------------------- MODULE MCTools ------------------------------
(***************************************************************************)
(* Files of a few lines: with nodes that lack values, blank lines, self    *)
(* loops, edges listed twice and edges to nodes that are not there; SNAP   *)
(* files with comments, lines of one or three tokens and no line break at  *)
(* the end; and plans with each of the parser's errors.                    *)
(***************************************************************************)
EXTENDS Tools

CONSTANTS a, b,      \* labels
          MaxLines,  \* bound: lines of a file
          MaxParts   \* bound: parts of a plan

UpTo(n, S) == UNION {[1..k -> S] : k \in 0..n}

MCLabel == {a, b}

MCNodeFile ==
  {NoFile}
    \union [size : {1}, lines : UpTo(MaxLines, {<< >>, <<a, 5>>})]
    \union [size : {2}, lines : UpTo(MaxLines, {<<a, 5>>, <<a, 5, 6>>, <<b, 7, 8>>})]

MCEdgeFile ==
  {NoFile} \union UpTo(MaxLines, {<<0, 1, 3>>, <<1, 1, 3>>, <<0, 2>>, <<0>>})

MCSnapFile ==
  LET Line == {<<7, 8>>, <<8, 7>>, <<8, 9>>, <<9, 9>>, << >>, <<8>>, <<7, 8, 9>>,
               <<Hash, 7>>, <<8, Word>>}
      Files == UpTo(MaxLines, Line) \union UpTo(MaxLines + 1, {<<Hash, 7>>, <<7, 8>>, <<8>>})
  IN {NoFile} \union [lines : Files, ended : BOOLEAN]

MCPlan ==
  LET Part == [name : {"Hs"}, factors : {<<1, NoText>>, <<2, 1>>, <<NoText>>}]
        \union [name : {"Xm"}, factors : {<<NoText, 2, 3>>, <<1, NoNumber>>}]
        \union [name : {"Zz"}, factors : {<<2>>, <<NoText, NoText>>}]
  IN UpTo(MaxParts, Part)
=============================================================================
