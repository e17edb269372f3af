----------------------------- MODULE LinkedList -----------------------------
(***************************************************************************)
(* The doubly linked list of clibs/list.h.  A node is a pair of pointers;  *)
(* a list is a ring of nodes one of which is its head.  Each function is   *)
(* its assignments, in their order, because the nodes they change may be   *)
(* the same ones.  The client keeps to what the header asks of it: it adds *)
(* only nodes that are in no list, deletes only ones that are in one, and  *)
(* renews a head that was spliced away before it uses it again.            *)
(***************************************************************************)
EXTENDS Naturals, Sequences, FiniteSets

CONSTANTS
  Heads,     \* the heads of lists
  Entries,   \* the list_head members of the client's structures
  NULL

Nodes == Heads \cup Entries

ASSUME ListAssumption ==
  Heads \cap Entries = {} /\ NULL \notin Nodes /\ NULL \notin Seq(Entries) /\ IsFiniteSet(Nodes)

\* struct list_head, for every node.
Mem == [next : [Nodes -> Nodes \cup {NULL}], prev : [Nodes -> Nodes \cup {NULL}]]

VARIABLES
  mem,       \* next and prev of each node
  walk,      \* list_for_each_safe: its head, pos and n, or NULL
  owner,     \* observation: the head of the list a node is in, or NULL
  due,       \* observation: the entries the walk has still to meet
  call       \* observation: the last call

listVars == <<mem, walk, owner, due, call>>

ListInit ==
  /\ mem = [next |-> [x \in Nodes |-> IF x \in Heads THEN x ELSE NULL],
            prev |-> [x \in Nodes |-> IF x \in Heads THEN x ELSE NULL]]
  /\ owner = [x \in Nodes |-> IF x \in Heads THEN x ELSE NULL]
  /\ walk = NULL /\ due = <<>> /\ call = <<>>

-----------------------------------------------------------------------------

SetNext(m, x, y) == [m EXCEPT !.next[x] = y]
SetPrev(m, x, y) == [m EXCEPT !.prev[x] = y]

\* Variant with a bug: the node is cleared.
InitListHead_Null(m, x) == SetPrev(SetNext(m, x, NULL), x, NULL)

InitListHead(m, x) == SetPrev(SetNext(m, x, x), x, x)

\* __list_add: new between p and n.
\* Variant with a bug: n is not told.
ListAdd_OneWay(m, new, p, n) == SetNext(SetPrev(SetNext(m, new, n), new, p), p, new)

ListAdd(m, new, p, n) ==
  SetNext(SetPrev(SetNext(SetPrev(m, n, new), new, n), new, p), p, new)

\* __list_del of x.
ListDel(m, x) ==
  LET p == m.prev[x]
      n == m.next[x]
  IN SetNext(SetPrev(m, n, p), p, n)

AddFirst(m, new, x) == ListAdd(m, new, x, m.next[x])

\* Variant with a bug: behind x, as list_add does.
AddLast_AsAdd(m, new, x) == ListAdd(m, new, x, m.next[x])

AddLast(m, new, x) == ListAdd(m, new, m.prev[x], x)

list_empty(x) == mem.next[x] = x

\* __list_splice of h behind g.
\* Variant with a bug: the last entry is linked to the first.
ListSplice_Ring(m, h, g) ==
  LET first == m.next[h]
      last  == m.prev[h]
      at    == m.next[g]
  IN SetPrev(SetNext(SetNext(SetPrev(m, first, g), g, first), last, first), at, last)

ListSplice(m, h, g) ==
  LET first == m.next[h]
      last  == m.prev[h]
      at    == m.next[g]
  IN SetPrev(SetNext(SetNext(SetPrev(m, first, g), g, first), last, at), at, last)

\* list_swap reads each pointer when it needs it, after the assignments before.
ListSwap(m, x, y) ==
  LET p  == m.prev[x]
      m1 == SetNext(m, p, y)
      m2 == SetNext(m1, m1.prev[y], x)
      m3 == SetPrev(m2, x, m2.prev[y])
      m4 == SetPrev(m3, y, p)
      m5 == SetPrev(m4, m4.next[x], y)
      m6 == SetPrev(m5, m5.next[y], x)
  IN SetNext(SetNext(m6, x, m6.next[y]), y, m6.next[x])

-----------------------------------------------------------------------------

Linked(x) == owner[x] # NULL

\* What a client does while no walk is under way, or in the body of one: there
\* list_for_each_safe is "safe against removal of list entry", of pos.
MayAdd == walk # NULL => walk.pos # walk.head
InBody(e) == walk # NULL => walk.pos = e

Calls(name, args) == call' = <<name>> \o args

\* The rest of the walk is not disturbed by the calls.
UnchangedWalk == UNCHANGED <<walk, due>>

INIT_LIST_HEAD(h) ==
  /\ walk = NULL /\ ~Linked(h)
  /\ mem' = InitListHead(mem, h) /\ owner' = [owner EXCEPT ![h] = h]
  /\ Calls("INIT_LIST_HEAD", <<h>>) /\ UnchangedWalk

list_add(e, x) ==
  /\ MayAdd /\ ~Linked(e) /\ Linked(x)
  /\ mem' = AddFirst(mem, e, x) /\ owner' = [owner EXCEPT ![e] = owner[x]]
  /\ Calls("list_add", <<e, x>>) /\ UnchangedWalk

list_add_tail(e, x) ==
  /\ MayAdd /\ ~Linked(e) /\ Linked(x)
  /\ mem' = AddLast(mem, e, x) /\ owner' = [owner EXCEPT ![e] = owner[x]]
  /\ Calls("list_add_tail", <<e, x>>) /\ UnchangedWalk

list_del(e) ==
  /\ InBody(e) /\ Linked(e)
  /\ mem' = SetPrev(SetNext(ListDel(mem, e), e, NULL), e, NULL)
  /\ owner' = [owner EXCEPT ![e] = NULL]
  /\ Calls("list_del", <<e>>) /\ UnchangedWalk

\* A node that was initialised, or deleted this way, may be deleted again.
list_del_init(e) ==
  /\ InBody(e)
  /\ Linked(e) \/ list_empty(e)
  /\ mem' = InitListHead(ListDel(mem, e), e)
  /\ owner' = [owner EXCEPT ![e] = NULL]
  /\ Calls("list_del_init", <<e>>) /\ UnchangedWalk

list_move(e, x) ==
  /\ InBody(e) /\ Linked(e) /\ Linked(x) /\ x # e
  /\ mem' = AddFirst(ListDel(mem, e), e, x) /\ owner' = [owner EXCEPT ![e] = owner[x]]
  /\ Calls("list_move", <<e, x>>) /\ UnchangedWalk

list_move_tail(e, x) ==
  /\ InBody(e) /\ Linked(e) /\ Linked(x) /\ x # e
  /\ mem' = AddLast(ListDel(mem, e), e, x) /\ owner' = [owner EXCEPT ![e] = owner[x]]
  /\ Calls("list_move_tail", <<e, x>>) /\ UnchangedWalk

Moved(h, g) == [x \in Nodes |-> IF owner[x] = h THEN g ELSE owner[x]]

\* The head keeps its pointers into what is now the list of g.
list_splice(h, g) ==
  /\ walk = NULL /\ Linked(h) /\ Linked(g) /\ h # g
  /\ IF list_empty(h)
     THEN UNCHANGED <<mem, owner>>
     ELSE /\ mem' = ListSplice(mem, h, g)
          /\ owner' = [Moved(h, g) EXCEPT ![h] = NULL]
  /\ Calls("list_splice", <<h, g>>) /\ UnchangedWalk

list_splice_init(h, g) ==
  /\ walk = NULL /\ Linked(h) /\ Linked(g) /\ h # g
  /\ IF list_empty(h)
     THEN UNCHANGED <<mem, owner>>
     ELSE /\ mem' = InitListHead(ListSplice(mem, h, g), h)
          /\ owner' = [Moved(h, g) EXCEPT ![h] = h]
  /\ Calls("list_splice_init", <<h, g>>) /\ UnchangedWalk

list_swap(d, e) ==
  /\ walk = NULL /\ Linked(d) /\ Linked(e)
  /\ mem' = ListSwap(mem, d, e)
  /\ owner' = [owner EXCEPT ![d] = owner[e], ![e] = owner[d]]
  /\ Calls("list_swap", <<d, e>>) /\ UnchangedWalk

-----------------------------------------------------------------------------

\* h, the node behind it, the node behind that one, and so on.
Following(h) ==
  LET nth[k \in Nat] == IF k = 0 THEN h
                        ELSE IF nth[k - 1] = NULL THEN NULL ELSE mem.next[nth[k - 1]]
  IN nth

\* The nodes of a list in the order of next, up to the head.
Order(h) ==
  LET nth  == Following(h)
      far  == {k \in 1..Cardinality(Nodes) : nth[k] \in {h, NULL}}
      size == IF far = {} THEN Cardinality(Nodes)
              ELSE (CHOOSE k \in far : \A j \in far : k <= j) - 1
  IN IF list_empty(h) THEN <<>> ELSE [k \in 1..size |-> nth[k]]

(***************************************************************************)
(* list_for_each_safe: n is read before the body, which may remove pos.    *)
(***************************************************************************)
\* Variant with a bug: an entry is left out.
Ahead_Two(x) == mem.next[mem.next[x]]

Ahead(x) == mem.next[x]

walk_begins(h) ==
  /\ walk = NULL /\ Linked(h)
  /\ walk' = [head |-> h, pos |-> mem.next[h], n |-> Ahead(mem.next[h])]
  /\ due' = Order(h)
  /\ UNCHANGED <<mem, owner, call>>

walk_continues ==
  /\ walk # NULL /\ walk.pos # walk.head
  /\ walk' = [walk EXCEPT !.pos = walk.n, !.n = Ahead(walk.n)]
  /\ due' = IF due # <<>> /\ walk.pos = Head(due) THEN Tail(due) ELSE due
  /\ UNCHANGED <<mem, owner, call>>

walk_ends ==
  /\ walk # NULL /\ walk.pos = walk.head
  /\ walk' = NULL /\ due' = <<>>
  /\ UNCHANGED <<mem, owner, call>>

list_for_each_safe == (\E h \in Heads : walk_begins(h)) \/ walk_continues \/ walk_ends

ListNext ==
  \/ \E e \in Entries :
       \/ list_del(e) \/ list_del_init(e)
       \/ \E x \in Nodes : \/ list_add(e, x) \/ list_add_tail(e, x)
                           \/ list_move(e, x) \/ list_move_tail(e, x)
       \/ \E d \in Entries : list_swap(d, e)
  \/ \E h \in Heads :
       \/ INIT_LIST_HEAD(h)
       \/ \E g \in Heads : list_splice(h, g) \/ list_splice_init(h, g)
  \/ list_for_each_safe

ListSpec == ListInit /\ [][ListNext]_listVars

-----------------------------------------------------------------------------

\* Every variable keeps its type; no head ever has a NULL in it, and no walk
\* comes to one.
ListTypeOK ==
  /\ mem \in Mem
  /\ \A h \in Heads : mem.next[h] # NULL /\ mem.prev[h] # NULL
  /\ owner \in [Nodes -> Heads \cup {NULL}]
  /\ walk \in {NULL} \cup [head : Heads, pos : Nodes, n : Nodes]

\* In every list next and prev are inverse to each other and never leave the
\* list, in whatever way its nodes were added, moved, spliced and swapped
\* (list.h 40 to 197).
WellLinked ==
  \A x \in Nodes : Linked(x) =>
    /\ mem.next[x] \in Nodes /\ mem.prev[x] \in Nodes
    /\ owner[mem.next[x]] = owner[x] /\ owner[mem.prev[x]] = owner[x]
    /\ mem.prev[mem.next[x]] = x /\ mem.next[mem.prev[x]] = x

\* No call cuts some nodes off: what is closed under next, within the lists,
\* contains a head, so that every loop over a list comes to its end.
EveryRingHasHead ==
  \A S \in SUBSET Nodes :
    (S # {} /\ \A x \in S : Linked(x) /\ mem.next[x] \in S) => S \cap Heads # {}

\* The lists are sound after any sequence of calls: no walk comes to NULL, next
\* and prev are inverse to each other, and each walk comes round to a head
\* (list.h 29 to 197).
ListSafe ==
  /\ ListTypeOK
  /\ WellLinked
  /\ EveryRingHasHead

\* A walk that removes or moves away what it stands on meets every entry that
\* was in the list when it began, once and in their order (list.h 231).
WalkMissesNothing ==
  walk # NULL =>
    IF walk.pos = walk.head THEN due = <<>>
    ELSE (\E i \in DOMAIN due : due[i] = walk.pos) => walk.pos = Head(due)

Lists == INSTANCE ListSeq
         WITH lists <- [h \in Heads |-> IF owner[h] = h THEN Order(h) ELSE NULL]

\* Each call does to the sequences what its name says.
ImplementsLists == Lists!SeqSpec
=============================================================================
