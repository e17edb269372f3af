------------------------------ MODULE MCClibs ------------------------------
(***************************************************************************)
(* The libraries that keep no state between each other: the linked list,   *)
(* the sorts, the shortest paths, the tree, the strings and printf.  lib   *)
(* is the one that is used; the variables of the others stay as they are.  *)
(***************************************************************************)
EXTENDS LinkedList, QuickSort, HeapSort, ShortestPath, Tree, StringLib, PrintF

VARIABLE lib

clibsVars == <<lib, listVars, quickVars, loop, i, dad, pathVars, treeVars, memory, printVars>>

\* Graphs of three nodes with up to three edges, parallel ones and loops among
\* them, and simple graphs of four nodes.
MCPairs == <<<<0, 1>>, <<0, 2>>, <<0, 3>>, <<1, 2>>, <<1, 3>>, <<2, 1>>, <<2, 3>>, <<3, 1>>, <<3, 2>>>>

MCWeighted(f) ==
  FoldLeft(LAMBDA s, k : IF f[k] = 0 THEN s
                         ELSE Append(s, [u |-> MCPairs[k][1], v |-> MCPairs[k][2], w |-> f[k]]),
           <<>>, [k \in 1..9 |-> k])

MCFromSourceOnce(g) ==
  \A j, k \in DOMAIN g.edges :
    (j # k /\ g.edges[j].u = 0) => g.edges[k] # [g.edges[j] EXCEPT !.w = g.edges[k].w]

MCEmptyGraph == [n |-> 1, source |-> 0, edges |-> <<>>]

MCGraphs ==
  {g \in {[n |-> 3, source |-> 0, edges |-> s] : s \in SeqOf([u : 0..2, v : 0..2, w : {0, 2}], 3)} :
     MCFromSourceOnce(g)}
  \cup {[n |-> 4, source |-> 0, edges |-> MCWeighted(f)] : f \in [1..9 -> {0, 1, 3}]}
  \cup {MCEmptyGraph}

MCLengths == 0..6
MCValues == 0..2

MCIndexes == -1..3

\* A letter in both cases, a space, and a char that is negative: its difference
\* to 97 does not fit a char.
MCBytes == {-97, 0, 32, 65, 97}

MCItem(conv, flags, width, precision, qualifier, arg) ==
  [conv |-> conv, flags |-> flags, width |-> width, precision |-> precision,
   qualifier |-> qualifier, arg |-> arg]

MCPlain(conv, arg) == MCItem(conv, {}, -1, -1, "", arg)

\* Each number alone, with all flags, and every few of the others together.
MCFormats ==
  {<<MCItem(conv, flags, width, precision, "", arg)>> :
     conv \in {"d", "u", "o", "X"}, flags \in SUBSET {"LEFT", "ZEROPAD", "PLUS", "SPACE", "SPECIAL"},
     width \in {-1, -3, 4}, precision \in {-1, 0, 3}, arg \in {0, -7, 35}}
  \cup {<<MCItem(conv, {}, -1, -1, q, arg)>> :
     conv \in {"i", "u", "x"}, q \in {"h", "l", "L", "Z"}, arg \in {-2, 0, 40, 100}}
  \cup SeqOf({MCPlain("char", "A"), MCPlain("char", "\n"), MCPlain("char", "\r"), MCPlain("c", "NUL"), MCPlain("%", ""),
              MCPlain("n", ""), MCPlain("?", <<>>), MCPlain("p", 10), MCItem("c", {"LEFT"}, 2, -1, "", "b"),
              MCItem("s", {}, 3, 1, "", <<"s", "t">>), MCItem("s", {"LEFT"}, 3, -1, "", <<"s", "t">>)}, 3)

MCSizes == {0, 1, 3, 5, 30}

Sym == Permutations(Heads) \cup Permutations(Entries)

-----------------------------------------------------------------------------

SortStart(n, a) == QuickStart(n, a) /\ HeapStart(n, a)

NoSort == SortStart(0, <<>>)
NoPath == ListStart(MCEmptyGraph)
NoPrint ==
  /\ fmt = <<>> /\ str = BUF /\ p = BUF /\ size = 0 /\ printing = "done" /\ stored = -1
  /\ ram = [a \in 0..TOP |-> "?"] /\ whole = <<>> /\ serial = <<>>

ClibsInit ==
  /\ lib \in {"list", "quick_sort", "heap_sort", "path", "tree", "string", "printf"}
  /\ ListInit /\ NoTree
  /\ IF lib \in {"quick_sort", "heap_sort"}
     THEN \E n \in Lengths : \E a \in [0..n-1 -> Values] : SortStart(n, a) ELSE NoSort
  /\ IF lib = "path" THEN PathInit ELSE NoPath
  /\ IF lib = "string" THEN AnyString ELSE NoString
  /\ IF lib = "printf" THEN PrintInit ELSE NoPrint

ClibsNext ==
  /\ UNCHANGED lib
  /\ \/ lib = "list" /\ ListNext
          /\ UNCHANGED <<quickVars, loop, i, dad, pathVars, treeVars, memory, printVars>>
     \/ lib = "quick_sort" /\ quick_sort
          /\ UNCHANGED <<listVars, loop, i, dad, pathVars, treeVars, memory, printVars>>
     \/ lib = "heap_sort" /\ heap_sort
          /\ UNCHANGED <<listVars, calls, left, right, at, pathVars, treeVars, memory, printVars>>
     \/ lib = "path" /\ PathNext
          /\ UNCHANGED <<listVars, quickVars, loop, i, dad, treeVars, memory, printVars>>
     \/ lib = "tree" /\ TreeNext
          /\ UNCHANGED <<listVars, quickVars, loop, i, dad, pathVars, memory, printVars>>
     \/ lib = "string" /\ StringNext
          /\ UNCHANGED <<listVars, quickVars, loop, i, dad, pathVars, treeVars, printVars>>
     \/ lib = "printf" /\ PrintNext
          /\ UNCHANGED <<listVars, quickVars, loop, i, dad, pathVars, treeVars, memory>>

ClibsSpec == ClibsInit /\ [][ClibsNext]_clibsVars
=============================================================================
