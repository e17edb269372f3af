-------------------------------- MODULE Tree --------------------------------
(***************************************************************************)
(* The tree of clibs/tree.c.  A node has a child and a sibling; g_hiertree *)
(* keeps the index of every node that was ever added.  The first child of  *)
(* a node is its child; each later one is hung at the end of the chain of  *)
(* the siblings of the parent.                                             *)
(***************************************************************************)
EXTENDS Integers, SequencesExt

CONSTANTS
  Names,      \* what NodeData says of a node
  Indexes,    \* the indexes a caller gives its nodes
  MaxNodes    \* bound: the calls of malloc

ASSUME TreeAssumption == MaxNodes \in Nat

VARIABLES
  node,         \* the nodes, by address: they are allocated in order, never freed
  root,         \* g_hiertree->root
  nodeIndexs,   \* g_hiertree->nodeIndexs
  num           \* g_hiertree->num

treeVars == <<node, root, nodeIndexs, num>>

NullNode == 0

Address == 0..MaxNodes

NoTree == node = <<>> /\ root = NullNode /\ nodeIndexs = <<>> /\ num = 0

\* The node that is found first, in depth, from n on: n, what is below it, and
\* its siblings with what is below them.
_get_node_by_index(n, index) ==
  LET from[m \in 0..Len(node)] ==
        IF m = NullNode THEN NullNode
        ELSE IF node[m].index = index THEN m
        ELSE LET below == from[node[m].child]
             IN IF below # NullNode THEN below ELSE from[node[m].sibling]
  IN IF index = -1 THEN NullNode ELSE from[n]

check_node_index(index) == index # -1 /\ index \in ToSet(nodeIndexs)

\* Variant with a bug: the root is passed over.
get_node_by_index_Below(index) ==
  IF check_node_index(index) THEN _get_node_by_index(node[root].child, index) ELSE NullNode

get_node_by_index(index) ==
  IF check_node_index(index) THEN _get_node_by_index(root, index) ELSE NullNode

\* Variant with a bug: the search starts at the root.
NAME_TO_INDEX_Root(n, name) ==
  LET Named(i) == LET m == _get_node_by_index(root, i) IN m # NullNode /\ node[m].name = name
      found    == SelectInSeq(nodeIndexs, Named)
  IN IF found = 0 THEN -1 ELSE nodeIndexs[found]

\* The first index, in the order of their adding, of a node below n of that name.
NAME_TO_INDEX(n, name) ==
  LET Named(i) == LET m == _get_node_by_index(n, i) IN m # NullNode /\ node[m].name = name
      found    == SelectInSeq(nodeIndexs, Named)
  IN IF found = 0 THEN -1 ELSE nodeIndexs[found]

LastSibling(n) ==
  LET from[m \in 1..Len(node)] ==
        IF node[m].sibling = NullNode THEN m ELSE from[node[m].sibling]
  IN from[n]

\* Variant with a bug: the chain is not walked to its end.
Hung_First(table, parent, n) ==
  IF node[parent].child = NullNode THEN [table EXCEPT ![parent].child = n]
  ELSE [table EXCEPT ![parent].sibling = n]

\* Variant with a bug: the chain is that of the root.
Hung_Root(table, parent, n) ==
  IF node[parent].child = NullNode THEN [table EXCEPT ![parent].child = n]
  ELSE [table EXCEPT ![LastSibling(root)].sibling = n]

Hung(table, parent, n) ==
  IF node[parent].child = NullNode THEN [table EXCEPT ![parent].child = n]
  ELSE [table EXCEPT ![LastSibling(parent)].sibling = n]

\* malloc, memset and the data of the caller.
New(index, name) ==
  Append(node, [index |-> index, name |-> name, child |-> NullNode, sibling |-> NullNode])

\* Variant with a bug: the node is not counted.
Counted_Not(index) == nodeIndexs' = Append(nodeIndexs, index) /\ num' = num

Counted(index) == nodeIndexs' = Append(nodeIndexs, index) /\ num' = num + 1

\* Without an index of a node, or without memory, nothing is changed.
set_child(parentIndex, index, name) ==
  LET parent == get_node_by_index(parentIndex)
  IN IF parent = NullNode \/ Len(node) = MaxNodes THEN UNCHANGED treeVars
     ELSE /\ node' = Hung(New(index, name), parent, Len(node) + 1)
          /\ Counted(index) /\ UNCHANGED root

\* The tree that was there is left behind, its indexes stay.
set_root(name) ==
  IF Len(node) = MaxNodes THEN UNCHANGED treeVars
  ELSE /\ node' = Append(node, [index |-> 0, name |-> name, child |-> NullNode, sibling |-> NullNode])
       /\ root' = Len(node) + 1 /\ Counted(0)

hiertree_init == node' = <<>> /\ root' = NullNode /\ nodeIndexs' = <<>> /\ num' = 0

TreeNext ==
  \/ \E p \in Indexes, i \in Indexes, name \in Names : set_child(p, i, name)
  \/ \E name \in Names : set_root(name)
  \/ hiertree_init

TreeSpec == NoTree /\ [][TreeNext]_treeVars

\* The order in which traversal meets the nodes.
traversal(n) ==
  LET from[m \in 0..Len(node)] ==
        IF m = NullNode THEN <<>> ELSE <<m>> \o from[node[m].child] \o from[node[m].sibling]
  IN from[n]

-----------------------------------------------------------------------------

TreeTypeOK ==
  /\ node \in Seq([index : Indexes \cup {0}, name : Names, child : Address, sibling : Address])
  /\ Len(node) \in Address /\ root \in 0..Len(node)
  /\ nodeIndexs \in Seq(Indexes \cup {0}) /\ num = Len(nodeIndexs)

\* Every node that was added since the root was set is met by traversal, and met
\* once: none is lost when one is hung in a chain, and no chain closes to a ring
\* (tree.c 121).
TraversalMeetsAll ==
  root # NullNode =>
    LET met == traversal(root) IN IsInjective(met) /\ ToSet(met) = root..Len(node)

\* The index of a node of the tree leads to the first node traversal meets that
\* has it: to the node itself unless two were given the same index, to none only
\* if it is -1 (tree.c 42, 63).
IndexLeadsToFirst ==
  \A k \in DOMAIN traversal(root) :
    LET index == node[traversal(root)[k]].index
        first == SelectInSeq(traversal(root), LAMBDA m : node[m].index = index)
    IN get_node_by_index(index) = IF index = -1 THEN NullNode ELSE traversal(root)[first]

\* A name leads to the index of a node that has it and is met from there on; it
\* leads to none only if every such node is hidden by one of the same index
\* (tree.c 11).
NameLeadsToNode ==
  \A n \in 1..Len(node), name \in Names :
    LET index == NAME_TO_INDEX(n, name)
        met   == ToSet(traversal(n))
    IN IF index = -1
       THEN \A m \in met : node[m].name = name =>
              node[m].index = -1 \/ _get_node_by_index(n, node[m].index) # m
       ELSE \E m \in met : node[m].name = name /\ node[m].index = index

\* The tree holds what was put into it: a traversal meets each node once, and
\* both ways to look a node up lead to the one that was meant (tree.c 7 to
\* 176).
TreeCorrect ==
  /\ TreeTypeOK
  /\ TraversalMeetsAll
  /\ IndexLeadsToFirst
  /\ NameLeadsToNode

\* A node that was added is met from its parent on, although it hangs beside the
\* parent when that had a child; what was met before is met in the same order
\* (tree.c 112).
AddedBelowParent ==
  [][Len(node') > Len(node) => \A above, index \in Indexes, name \in Names :
       set_child(above, index, name) =>
         LET met == traversal(root)'
         IN /\ Len(node') \in ToSet(traversal(get_node_by_index(above))')
            /\ \E k \in DOMAIN met :
                 met[k] = Len(node') /\ traversal(root) = RemoveAt(met, k)]_treeVars
=============================================================================
