---------------------------- MODULE CallbackList ----------------------------
(***************************************************************************)
(* The callback list of event-loop.c: a singly linked list with a head and *)
(* a tail pointer (callback_list.first / .last) and a counter that names   *)
(* the callbacks.  Nodes are named by the id they were given, and `live'   *)
(* is the set of nodes that are malloc'ed and not yet freed.               *)
(*                                                                         *)
(* The module also holds CallbackSpec, the list in the hands of the most   *)
(* general client: any sequence of append, delete and run.  EventLoop      *)
(* extends this module and calls the same operators from its loop.         *)
(***************************************************************************)
EXTENDS Integers

CONSTANTS
  IntMin, IntMax,   \* the range of the C int num_callbacks
  NULL,
  DeleteLast        \* may a client delete the last of several callbacks?

Ids == IntMin .. IntMax

ASSUME IntRangeAssumption ==
  IntMin \in Int /\ IntMax \in Int /\ IntMin <= 0 /\ 0 <= IntMax
ASSUME NullAssumption == NULL \notin Ids
ASSUME DeleteLastAssumption == DeleteLast \in BOOLEAN

VARIABLES
  first, last,      \* callback_list.first, callback_list.last
  next,             \* the next field of every live node
  live,             \* the nodes that are allocated
  num_callbacks,    \* the id the next callback will get
  ran               \* observation: the callback process_callback ran last

callbackVars == <<first, last, next, live, num_callbacks, ran>>

CallbackInit ==
  /\ first = NULL /\ last = NULL
  /\ next = [e \in Ids |-> NULL]
  /\ live = {}
  /\ num_callbacks = 0
  /\ ran = NULL

-----------------------------------------------------------------------------

(***************************************************************************)
(* The nodes a walk meets that starts at f and follows the pointers n: the *)
(* ids that lie in every set that holds f and is closed under n.           *)
(***************************************************************************)
Closed(S, f, n) ==
  /\ f # NULL => f \in S
  /\ \A e \in S : n[e] # NULL => n[e] \in S

Reach(f, n) == {e \in Ids : \A S \in SUBSET Ids : Closed(S, f, n) => e \in S}

Chain == Reach(first, next)

(***************************************************************************)
(* append_callback_event.  The counter is an int: it wraps.  The guard is  *)
(* the bound of the model: fewer callbacks are outstanding than there are  *)
(* ints, so that an id names one node.                                     *)
(***************************************************************************)
\* Variant with a bug: the counter runs past the range of an int.
IdAfter_NoWrap(id) == id + 1

IdAfter(id) == IF id = IntMax THEN IntMin ELSE id + 1

\* Variant with a bug: the new node is not linked behind the last one.
Linked_Forgotten(id) == [next EXCEPT ![id] = NULL]

Linked(id) ==
  [e \in Ids |-> IF e = id THEN NULL ELSE IF e = last THEN id ELSE next[e]]

append_callback_event ==
  LET id == num_callbacks IN
  /\ id \notin live
  /\ live' = live \cup {id}
  /\ num_callbacks' = IdAfter(id)
  /\ first' = IF first = NULL THEN id ELSE first
  /\ next' = Linked(id)
  /\ last' = id
  /\ UNCHANGED ran

(***************************************************************************)
(* delete_callback_event: the walk stops at the node ID, the pointer that  *)
(* led to it is redirected, and last becomes NULL when the node was last.  *)
(* An id that is not on the chain changes nothing.                         *)
(***************************************************************************)
delete_callback_event(id) ==
  IF id \in Chain
  THEN /\ first' = IF first = id THEN next[id] ELSE first
       /\ next' = [e \in Ids |-> IF e = id THEN NULL
                                 ELSE IF e \in Chain /\ next[e] = id
                                      THEN next[id] ELSE next[e]]
       /\ last' = IF last = id THEN NULL ELSE last
       /\ live' = live \ {id}
       /\ UNCHANGED <<num_callbacks, ran>>
  ELSE UNCHANGED callbackVars

(***************************************************************************)
(* process_callback up to the call of PROC: the node is unlinked and freed *)
(* before the callback runs.                                               *)
(***************************************************************************)
\* Variant with a bug: last keeps pointing at the node that is freed.
LastAfterRun_Stale == last

LastAfterRun == IF next[first] = NULL THEN NULL ELSE last

process_callback ==
  /\ first # NULL
  /\ ran' = first
  /\ first' = next[first]
  /\ last' = LastAfterRun
  /\ next' = [next EXCEPT ![first] = NULL]
  /\ live' = live \ {first}
  /\ UNCHANGED num_callbacks

-----------------------------------------------------------------------------

(***************************************************************************)
(* The most general client.  With DeleteLast = FALSE the client keeps to   *)
(* what remote.c does: it never deletes the last of several callbacks.     *)
(***************************************************************************)
MayDelete(id) == DeleteLast \/ id # last \/ id = first

Delete == \E id \in Ids : MayDelete(id) /\ delete_callback_event(id)

CallbackNext == append_callback_event \/ Delete \/ process_callback

CallbackSpec == CallbackInit /\ [][CallbackNext]_callbackVars

-----------------------------------------------------------------------------

(* The pointers of the list are nodes or NULL, and the counter stays in    *)
(* the range of an int when it wraps (event-loop.c:166).                   *)
CallbackTypeOK ==
  /\ first \in Ids \cup {NULL} /\ last \in Ids \cup {NULL}
  /\ next \in [Ids -> Ids \cup {NULL}]
  /\ live \in SUBSET Ids
  /\ num_callbacks \in Ids
  /\ ran \in Ids \cup {NULL}

(* The list never holds a dangling pointer: the nodes a walk meets and the *)
(* node append_callback_event writes through (last) are allocated, in      *)
(* spite of the free() in delete_callback_event and in process_callback    *)
(* and in any order of calls.                                              *)
NoDanglingPointer ==
  /\ Chain \subseteq live
  /\ last # NULL => last \in live

(* Every allocated node can be reached from first: no appended callback is *)
(* forgotten (event-loop.c:157, "Append PROC to the callback list").       *)
NothingLost == live \subseteq Chain

(* In every state of the callback list each variable has its type and no   *)
(* pointer the code follows dangles, whatever the order of append, delete  *)
(* and run (event-loop.c 161 to 217).                                      *)
CallbackStateOK ==
  /\ CallbackTypeOK
  /\ NoDanglingPointer

(* Every callback that was appended is eventually run or deleted.          *)
EveryCallbackEnds == \A id \in Ids : id \in live ~> id \notin live

=============================================================================
