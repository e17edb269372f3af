------------------------------- MODULE Queue -------------------------------
(***************************************************************************)
(* clibs/queue.h: a singly linked queue with a head and a tail pointer,    *)
(* and an iterator whose OPERATE may remove the element it is called with. *)
(* Elements are addresses: malloc returns one that is not live, free makes *)
(* its fields Garbage.  QueueSpec is the queue with the most general       *)
(* client that removes elements through the iterator only.                 *)
(***************************************************************************)
EXTENDS Naturals, FiniteSets

CONSTANTS
  Elem,             \* the addresses malloc may return
  Value,            \* the data of an element
  NULL, Garbage,
  RemoveTail        \* may OPERATE remove the tail behind other elements?

ASSUME QueueAssumption ==
  /\ NULL \notin Elem /\ Garbage \notin Elem \cup Value /\ NULL # Garbage
  /\ RemoveTail \in BOOLEAN

VARIABLES
  head, tail,       \* the two pointers of the queue
  next, data,       \* the fields of each element
  live,             \* the elements that are allocated
  iter,             \* the iteration: iter.p, iter.prev, and the local next
  freed,            \* queue_free has been called
  out,              \* observation: what deque returned last
  todo              \* observation: elements queued since the iteration
                    \*   started that OPERATE has not been called with

Idle == [on |-> FALSE, p |-> NULL, prev |-> NULL, next |-> NULL]

queueVars == <<head, tail, next, data, live, iter, freed, out, todo>>

QueueInit ==
  /\ head = NULL /\ tail = NULL
  /\ next = [e \in Elem |-> Garbage] /\ data = [e \in Elem |-> Garbage]
  /\ live = {}
  /\ iter = Idle
  /\ freed = FALSE
  /\ out = NULL
  /\ todo = {}

-----------------------------------------------------------------------------

(* What a walk from head to NULL meets: length, iterate and free do it.    *)
Chain ==
  {e \in Elem :
     \A S \in SUBSET Elem :
       /\ head \in Elem => head \in S
       /\ \A d \in S : next[d] \in Elem => next[d] \in S
       => e \in S}

Freed(f, e) == [f EXCEPT ![e] = Garbage]

\* Variant with a bug: the next field of a new element is not written.
Linked_Unset(p) == [next EXCEPT ![tail] = p]

Linked(p) == [e \in Elem |-> IF e = p THEN NULL
                             ELSE IF e = tail THEN p ELSE next[e]]

queue_enque(v) ==
  \E p \in Elem \ live :
    /\ live' = live \cup {p}
    /\ data' = [data EXCEPT ![p] = v]
    /\ next' = Linked(p)
    /\ head' = IF tail = NULL THEN p ELSE head
    /\ tail' = p
    /\ UNCHANGED <<iter, freed, out, todo>>

\* Variant with a bug: the tail of a queue that becomes empty is kept.
TailAfterDeque_Kept == tail

TailAfterDeque == IF head = tail THEN NULL ELSE tail

queue_deque ==
  /\ head # NULL
  /\ head' = IF head = tail THEN NULL ELSE next[head]
  /\ tail' = TailAfterDeque
  /\ out' = data[head]
  /\ next' = Freed(next, head) /\ data' = Freed(data, head)
  /\ live' = live \ {head}
  /\ UNCHANGED <<iter, freed, todo>>

-----------------------------------------------------------------------------

(***************************************************************************)
(* queue_iterate, up to a call of OPERATE with p.  The next element is     *)
(* read before the call, and prev becomes p only if p is still there after *)
(* it.                                                                     *)
(***************************************************************************)
operate_on(p, prev) ==
  iter' = [on |-> TRUE, p |-> p, prev |-> prev, next |-> next[p]]

queue_iterate ==
  /\ ~iter.on /\ head # NULL
  /\ operate_on(head, NULL)
  /\ todo' = Chain \ {head}
  /\ UNCHANGED <<head, tail, next, data, live, freed, out>>

PrevAfter == IF iter.p # NULL THEN iter.p ELSE iter.prev

operate_continues ==
  /\ iter.on /\ iter.next \in Elem
  /\ operate_on(iter.next, PrevAfter)
  /\ todo' = todo \ {iter.next}
  /\ UNCHANGED <<head, tail, next, data, live, freed, out>>

\* Variant with a bug: the loop also ends when OPERATE removed its element.
AtEnd_Removed == iter.next = NULL \/ iter.p = NULL

AtEnd == iter.next = NULL

iterate_ends ==
  /\ iter.on /\ AtEnd
  /\ iter' = Idle
  /\ todo' = {}
  /\ UNCHANGED <<head, tail, next, data, live, freed, out>>

(* OPERATE returned false.                                                 *)
iterate_stops ==
  /\ iter.on
  /\ iter' = Idle
  /\ todo' = {}
  /\ UNCHANGED <<head, tail, next, data, live, freed, out>>

(***************************************************************************)
(* queue_remove_elem, for the element the iterator is at.  The next field  *)
(* of prev is written only when the element is neither head nor tail.      *)
(***************************************************************************)
\* Variant with a bug: the head is not moved past the removed element.
HeadAfterRemove_Kept == head

HeadAfterRemove == IF iter.p = head THEN next[iter.p] ELSE head

queue_remove_elem ==
  /\ iter.on /\ iter.p # NULL
  /\ RemoveTail \/ iter.p # tail \/ iter.p = head
  /\ head' = HeadAfterRemove
  /\ tail' = IF iter.p = tail THEN iter.prev ELSE tail
  /\ next' = LET n == IF iter.p \in {head, tail} THEN next
                      ELSE [next EXCEPT ![iter.prev] = next[iter.p]]
             IN  Freed(n, iter.p)
  /\ data' = Freed(data, iter.p)
  /\ live' = live \ {iter.p}
  /\ iter' = [iter EXCEPT !.p = NULL]
  /\ UNCHANGED <<freed, out, todo>>

(* queue_free: free_func and free for each element the walk meets.         *)
queue_free ==
  /\ ~iter.on
  /\ freed' = TRUE
  /\ live' = live \ Chain
  /\ head' = NULL /\ tail' = NULL
  /\ next' = [e \in Elem |-> IF e \in Chain THEN Garbage ELSE next[e]]
  /\ data' = [e \in Elem |-> IF e \in Chain THEN Garbage ELSE data[e]]
  /\ UNCHANGED <<iter, out, todo>>

-----------------------------------------------------------------------------

(***************************************************************************)
(* The client, one thread: OPERATE may enqueue and may remove its own      *)
(* element; deque, a second iterate and free wait for the end of an        *)
(* iteration.                                                              *)
(***************************************************************************)
QueueNext ==
  /\ ~freed
  /\ \/ \E v \in Value : queue_enque(v)
     \/ ~iter.on /\ queue_deque
     \/ queue_iterate \/ operate_continues \/ iterate_ends \/ iterate_stops
     \/ queue_remove_elem
     \/ queue_free

QueueSpec == QueueInit /\ [][QueueNext]_queueVars

-----------------------------------------------------------------------------

(* Every variable keeps its type, and the fields of an element that is     *)
(* live are set: queue_enque leaves none as malloc returned it             *)
(* (queue.h:108-127).                                                      *)
QueueTypeOK ==
  /\ head \in Elem \cup {NULL} /\ tail \in Elem \cup {NULL}
  /\ live \in SUBSET Elem
  /\ next \in [Elem -> Elem \cup {NULL, Garbage}]
  /\ data \in [Elem -> Value \cup {Garbage}]
  /\ \A e \in live : next[e] # Garbage /\ data[e] # Garbage
  /\ iter \in [on : BOOLEAN, p : Elem \cup {NULL}, prev : Elem \cup {NULL},
               next : Elem \cup {NULL, Garbage}]
  /\ freed \in BOOLEAN
  /\ out \in Value \cup {NULL}
  /\ todo \in SUBSET Elem

(* OPERATE is only called with an element that is in the queue             *)
(* (queue.h:61, "Iterate over elements in the queue Q").                   *)
OperateOnLive == iter.on /\ iter.p # NULL => iter.p \in live

(* An iteration that OPERATE does not stop reaches every element that was  *)
(* in the queue when it started, whatever OPERATE enqueues and removes.    *)
IterateVisitsAll == [][iterate_ends => todo = {}]_queueVars

(* Nothing is leaked: queue_free finds every element that was enqueued and *)
(* neither dequeued nor removed.                                           *)
FreeLeaksNothing == freed => live = {}

(* Memory safety of the queue: no pointer of it is uninitialised, no call  *)
(* touches an element that was freed, and queue_free leaves none behind    *)
(* (queue.h 108 to 253).                                                   *)
QueueStateOK ==
  /\ QueueTypeOK
  /\ OperateOnLive
  /\ FreeLeaksNothing

=============================================================================
