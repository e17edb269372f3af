---------------------------- MODULE ServerProofs ----------------------------
(***************************************************************************)
(* For every range of ids: the callback list never holds a dangling        *)
(* pointer (NoDanglingPointer), and a client that never deletes the last   *)
(* of several callbacks loses none (NothingLost).                          *)
(*                                                                         *)
(* For every finite set of descriptors, every set of procs and every       *)
(* client of the event loop: the masks and num_fds handed to select fit    *)
(* the registered handlers, no report of select is forgotten or handled    *)
(* twice, and no handler runs for an event that is older than itself.      *)
(*                                                                         *)
(* The server as a client of the event loop, for any descriptors, buffer   *)
(* and number of connections.  Own is what remote.c knows of the loop: in  *)
(* which of its procs it runs, and which callback is scheduled.  Client    *)
(* joins it with the invariant of the loop, which is needed to show that   *)
(* the callback remote_close deletes is never the last of several.         *)
(***************************************************************************)
EXTENDS Remote, MCCallbackList, Iteration, FiniteSetTheorems, WellFoundedInduction, TLAPS

-----------------------------------------------------------------------------
(* Lemmas on Reach: it is closed, and it is the least closed set.          *)

LEMMA ReachClosed ==
  ASSUME NEW f \in Ids \cup {NULL}, NEW n \in [Ids -> Ids \cup {NULL}]
  PROVE  /\ Reach(f, n) \in SUBSET Ids
         /\ Closed(Reach(f, n), f, n)
  BY DEF Reach, Closed

LEMMA ReachLeast ==
  ASSUME NEW f, NEW n, NEW S \in SUBSET Ids, Closed(S, f, n)
  PROVE  Reach(f, n) \subseteq S
  BY DEF Reach

LEMMA ReachEmpty ==
  ASSUME NEW n PROVE Reach(NULL, n) = {}
<1>1. Closed({}, NULL, n) BY DEF Closed
<1>2. QED BY <1>1, ReachLeast

(* A node of the walk that is not its start has a predecessor other than   *)
(* itself.                                                                 *)
LEMMA ReachPredecessor ==
  ASSUME NEW f \in Ids \cup {NULL}, NEW n \in [Ids -> Ids \cup {NULL}],
         NEW x \in Reach(f, n), x # f
  PROVE  \E p \in Reach(f, n) : p # x /\ n[p] = x
<1>1. SUFFICES ASSUME \A p \in Reach(f, n) : p # x => n[p] # x PROVE FALSE
  OBVIOUS
<1> DEFINE S == Reach(f, n) \ {x}
<1>2. Closed(S, f, n) BY <1>1, ReachClosed DEF Closed
<1>3. Reach(f, n) \subseteq S BY <1>2, ReachClosed, ReachLeast
<1>4. QED BY <1>3

-----------------------------------------------------------------------------
(* The inductive invariant: last ends a list, and no node of the chain has *)
(* two predecessors, the first one none.                                   *)

LinearChain ==
  /\ last # NULL => next[last] = NULL
  /\ first # NULL => \A e \in Chain : next[e] # first
  /\ \A e, g \in Chain : next[e] = next[g] /\ next[e] # NULL => e = g

ListInv == CallbackTypeOK /\ NoDanglingPointer /\ LinearChain

LEMMA ListInvInit == CallbackInit => ListInv
<1> SUFFICES ASSUME CallbackInit PROVE ListInv OBVIOUS
<1>1. Chain = {} BY ReachEmpty DEF CallbackInit, Chain
<1>2. QED
  BY <1>1, IntRangeAssumption
  DEF CallbackInit, ListInv, CallbackTypeOK, NoDanglingPointer, LinearChain, Ids

(* What append does to the chain, and that it keeps the invariant.         *)
LEMMA AppendChain ==
  ASSUME ListInv, append_callback_event
  PROVE  /\ CallbackTypeOK'
         /\ Chain' \subseteq Chain \cup {num_callbacks}
<1> DEFINE id == num_callbacks
           S  == Chain \cup {id}
<1>1. id \in Ids BY DEF ListInv, CallbackTypeOK
<1>2. CallbackTypeOK'
  BY <1>1, IntRangeAssumption, NullAssumption
  DEF ListInv, CallbackTypeOK, append_callback_event, Linked, IdAfter, Ids
<1>3. Chain \in SUBSET Ids /\ Closed(Chain, first, next)
  BY ReachClosed DEF Chain, ListInv, CallbackTypeOK
<1>4. Closed(S, first', next')
  BY <1>1, <1>3 DEF Closed, append_callback_event, Linked
<1>5. QED BY <1>1, <1>2, <1>3, <1>4, ReachLeast DEF Chain

LEMMA AppendInv == ListInv /\ append_callback_event => ListInv'
<1> SUFFICES ASSUME ListInv, append_callback_event PROVE ListInv' OBVIOUS
<1> DEFINE id == num_callbacks
<1>1. CallbackTypeOK' /\ Chain' \subseteq Chain \cup {id} BY AppendChain
<1>2. id \in Ids /\ id \notin live /\ id \notin Chain /\ Chain \subseteq Ids
  BY DEF ListInv, CallbackTypeOK, NoDanglingPointer, append_callback_event, Chain, Reach
<1>3. Closed(Chain, first, next)
  BY ReachClosed DEF Chain, ListInv, CallbackTypeOK
<1>4. \A e \in Chain : next[e] # id
  BY <1>2, <1>3, NullAssumption DEF Closed
<1>5. NoDanglingPointer'
  BY <1>1 DEF ListInv, NoDanglingPointer, append_callback_event
<1>6. next' = [e \in Ids |-> IF e = id THEN NULL ELSE IF e = last THEN id ELSE next[e]]
  BY DEF append_callback_event, Linked
<1>7. last' = id /\ next'[last'] = NULL
  BY <1>2, <1>6 DEF append_callback_event
<1>8. first' # NULL => \A e \in Chain' : next'[e] # first'
  <2>1. CASE first = NULL
    <3>1. Chain = {} BY <2>1, ReachEmpty DEF Chain
    <3>2. QED BY <3>1, <2>1, <1>1, <1>2, <1>6, NullAssumption DEF append_callback_event
  <2>2. CASE first # NULL
    <3>1. first \in live
      BY <2>2, <1>3 DEF ListInv, NoDanglingPointer, Closed
    <3>2. first' = first /\ first # id
      BY <2>2, <3>1, <1>2 DEF append_callback_event
    <3>3. \A e \in Chain : next[e] # first
      BY <2>2 DEF ListInv, LinearChain
    <3>4. QED BY <3>1, <3>2, <3>3, <1>1, <1>2, <1>6, <2>2
  <2>3. QED BY <2>1, <2>2
<1>9. \A e, g \in Chain' : next'[e] = next'[g] /\ next'[e] # NULL => e = g
  <2> SUFFICES ASSUME NEW e \in Chain', NEW g \in Chain',
                      next'[e] = next'[g], next'[e] # NULL
               PROVE  e = g
    OBVIOUS
  <2>1. e \in Chain /\ g \in Chain BY <1>1, <1>2, <1>6
  <2>2. CASE e = last \/ g = last
    BY <2>1, <2>2, <1>2, <1>4, <1>6
  <2>3. CASE e # last /\ g # last
    BY <2>1, <2>3, <1>2, <1>6 DEF ListInv, LinearChain
  <2>4. QED BY <2>2, <2>3
<1>10. QED
  BY <1>1, <1>5, <1>7, <1>8, <1>9 DEF ListInv, LinearChain

-----------------------------------------------------------------------------
(* Deleting a node of the chain shortens the chain by that node.           *)

LEMMA DeleteChain ==
  ASSUME ListInv, NEW id \in Chain, delete_callback_event(id)
  PROVE  /\ CallbackTypeOK'
         /\ next[id] # id
         /\ Chain' \subseteq Chain \ {id}
<1> DEFINE S == Chain \ {id}
<1>1. Chain \in SUBSET Ids /\ Closed(Chain, first, next)
  BY ReachClosed DEF Chain, ListInv, CallbackTypeOK
<1>2. next' = [e \in Ids |-> IF e = id THEN NULL
                             ELSE IF e \in Chain /\ next[e] = id
                                  THEN next[id] ELSE next[e]]
  BY DEF delete_callback_event
<1>3. first' = IF first = id THEN next[id] ELSE first
  BY DEF delete_callback_event
<1>4. CallbackTypeOK'
  BY <1>1, <1>2, <1>3 DEF ListInv, CallbackTypeOK, delete_callback_event
<1>5. next[id] # id
  <2>1. CASE id = first
    BY <2>1, <1>1, NullAssumption DEF ListInv, LinearChain
  <2>2. CASE id # first
    <3>1. PICK p \in Chain : p # id /\ next[p] = id
      BY <2>2, ReachPredecessor DEF Chain, ListInv, CallbackTypeOK
    <3>2. QED BY <3>1, <1>1, NullAssumption DEF ListInv, LinearChain
  <2>3. QED BY <2>1, <2>2
<1>6. Closed(S, first', next')
  <2>1. first' # NULL => first' \in S BY <1>1, <1>3, <1>5 DEF Closed
  <2>2. \A e \in S : next'[e] # NULL => next'[e] \in S
    BY <1>1, <1>2, <1>5 DEF Closed
  <2>3. QED BY <2>1, <2>2 DEF Closed
<1>7. QED BY <1>1, <1>4, <1>5, <1>6, ReachLeast DEF Chain

LEMMA DeleteInv ==
  ASSUME ListInv, NEW id \in Ids, delete_callback_event(id)
  PROVE  ListInv'
<1>1. CASE id \notin Chain
  <2>1. UNCHANGED callbackVars BY <1>1 DEF delete_callback_event
  <2>2. QED
    BY <2>1 DEF ListInv, CallbackTypeOK, NoDanglingPointer, LinearChain,
                Chain, callbackVars
<1>2. CASE id \in Chain
  <2>1. CallbackTypeOK' /\ next[id] # id /\ Chain' \subseteq Chain \ {id}
    BY <1>2, DeleteChain
  <2>2. next' = [e \in Ids |-> IF e = id THEN NULL
                               ELSE IF e \in Chain /\ next[e] = id
                                    THEN next[id] ELSE next[e]]
    BY <1>2 DEF delete_callback_event
  <2>3. /\ first' = (IF first = id THEN next[id] ELSE first)
        /\ last' = (IF last = id THEN NULL ELSE last)
        /\ live' = live \ {id}
    BY <1>2 DEF delete_callback_event
  <2>4. NoDanglingPointer'
    BY <2>1, <2>3 DEF ListInv, NoDanglingPointer
  <2>5. last' # NULL => next'[last'] = NULL
    BY <2>2, <2>3, NullAssumption DEF ListInv, LinearChain, CallbackTypeOK
  <2>6. Chain \subseteq Ids BY DEF Chain, Reach
  <2>7. first' # NULL => \A e \in Chain' : next'[e] # first'
    <3> SUFFICES ASSUME first' # NULL, NEW e \in Chain', next'[e] = first'
                 PROVE  FALSE
      OBVIOUS
    <3>1. e \in Chain /\ e # id /\ e \in Ids BY <2>1, <2>6
    <3>2. CASE next[e] = id
      <4>1. first # id BY <3>1, <3>2, <2>6, NullAssumption DEF ListInv, LinearChain
      <4>2. next[id] = first BY <3>1, <3>2, <4>1, <2>2, <2>3
      <4>3. QED BY <4>1, <4>2, <2>3, <1>2 DEF ListInv, LinearChain
    <3>3. CASE next[e] # id
      <4>1. next[e] = first' BY <3>1, <3>3, <2>2
      <4>2. CASE first = id
        BY <4>1, <4>2, <3>1, <2>3, <1>2 DEF ListInv, LinearChain
      <4>3. CASE first # id
        BY <4>1, <4>3, <3>1, <2>3 DEF ListInv, LinearChain
      <4>4. QED BY <4>2, <4>3
    <3>4. QED BY <3>2, <3>3
  <2>8. \A e, g \in Chain' : next'[e] = next'[g] /\ next'[e] # NULL => e = g
    <3> SUFFICES ASSUME NEW e \in Chain', NEW g \in Chain',
                        next'[e] = next'[g], next'[e] # NULL
                 PROVE  e = g
      OBVIOUS
    <3>1. e \in Chain \ {id} /\ g \in Chain \ {id} /\ e \in Ids /\ g \in Ids
      BY <2>1, <2>6
    <3>2. CASE next[e] = id /\ next[g] = id
      BY <3>1, <3>2, <2>6, NullAssumption DEF ListInv, LinearChain
    <3>3. CASE next[e] # id /\ next[g] # id
      BY <3>1, <3>3, <2>2 DEF ListInv, LinearChain
    <3>4. CASE next[e] = id /\ next[g] # id
      BY <3>1, <3>4, <2>2, <1>2 DEF ListInv, LinearChain
    <3>5. CASE next[e] # id /\ next[g] = id
      BY <3>1, <3>5, <2>2, <1>2 DEF ListInv, LinearChain
    <3>6. QED BY <3>2, <3>3, <3>4, <3>5
  <2>9. QED BY <2>1, <2>4, <2>5, <2>7, <2>8 DEF ListInv, LinearChain
<1>3. QED BY <1>1, <1>2

-----------------------------------------------------------------------------
(* Running the first callback shortens the chain at its head.              *)

LEMMA RunChain ==
  ASSUME ListInv, process_callback
  PROVE  /\ CallbackTypeOK'
         /\ first \in Chain
         /\ Chain' \subseteq Chain \ {first}
<1> DEFINE S == Chain \ {first}
<1>1. Chain \in SUBSET Ids /\ Closed(Chain, first, next)
  BY ReachClosed DEF Chain, ListInv, CallbackTypeOK
<1>2. first \in Chain BY <1>1 DEF Closed, process_callback
<1>3. next' = [next EXCEPT ![first] = NULL] /\ first' = next[first]
  BY DEF process_callback
<1>4. CallbackTypeOK'
  BY <1>1, <1>2, <1>3
  DEF ListInv, CallbackTypeOK, process_callback, LastAfterRun
<1>5. Closed(S, first', next')
  BY <1>1, <1>2, <1>3
  DEF Closed, ListInv, LinearChain, CallbackTypeOK, process_callback
<1>6. QED BY <1>1, <1>2, <1>4, <1>5, ReachLeast DEF Chain

LEMMA RunInv == ListInv /\ process_callback => ListInv'
<1> SUFFICES ASSUME ListInv, process_callback PROVE ListInv' OBVIOUS
<1>1. CallbackTypeOK' /\ first \in Chain /\ Chain' \subseteq Chain \ {first}
  BY RunChain
<1>2. Chain \subseteq Ids BY DEF Chain, Reach
<1>3. /\ first # NULL /\ first' = next[first]
      /\ next' = [next EXCEPT ![first] = NULL]
      /\ live' = live \ {first}
      /\ last' = (IF next[first] = NULL THEN NULL ELSE last)
  BY DEF process_callback, LastAfterRun
<1>4. last' # NULL => last' = last /\ last # first
  BY <1>3 DEF ListInv, LinearChain
<1>5. NoDanglingPointer' BY <1>1, <1>3, <1>4 DEF ListInv, NoDanglingPointer
<1>6. last' # NULL => next'[last'] = NULL
  BY <1>3, <1>4 DEF ListInv, LinearChain, CallbackTypeOK
<1>7. \A e \in Chain' : e \in Chain /\ e # first /\ next'[e] = next[e]
  BY <1>1, <1>2, <1>3 DEF ListInv, CallbackTypeOK
<1>8. first' # NULL => \A e \in Chain' : next'[e] # first'
  BY <1>1, <1>3, <1>7 DEF ListInv, LinearChain
<1>9. \A e, g \in Chain' : next'[e] = next'[g] /\ next'[e] # NULL => e = g
  BY <1>7 DEF ListInv, LinearChain
<1>10. QED BY <1>1, <1>5, <1>6, <1>8, <1>9 DEF ListInv, LinearChain

-----------------------------------------------------------------------------

LEMMA ListInvNext == ListInv /\ [CallbackNext]_callbackVars => ListInv'
<1> SUFFICES ASSUME ListInv, [CallbackNext]_callbackVars PROVE ListInv'
  OBVIOUS
<1>1. CASE append_callback_event BY <1>1, AppendInv
<1>2. CASE Delete BY <1>2, DeleteInv DEF Delete
<1>3. CASE process_callback BY <1>3, RunInv
<1>4. CASE UNCHANGED callbackVars
  BY <1>4 DEF ListInv, CallbackTypeOK, NoDanglingPointer, LinearChain, Chain,
              callbackVars
<1>5. QED BY <1>1, <1>2, <1>3, <1>4 DEF CallbackNext

(* In any order of append, delete and run, for every range of ids: no      *)
(* pointer of the list dangles (event-loop.c:161-217).                     *)
THEOREM CallbackListSafe == CallbackSpec => []NoDanglingPointer
<1>1. ListInv => NoDanglingPointer BY DEF ListInv
<1>2. QED BY <1>1, ListInvInit, ListInvNext, PTL DEF CallbackSpec

(* The type and the pointers together: the state of the callback list is   *)
(* sound for every range of ids and every client.                          *)
THEOREM CallbackListState == CallbackSpec => []CallbackStateOK
<1>1. ListInv => CallbackStateOK
  BY DEF ListInv, CallbackStateOK
<1>2. QED BY <1>1, ListInvInit, ListInvNext, PTL DEF CallbackSpec

-----------------------------------------------------------------------------
(* A client that never deletes the last of several callbacks: every        *)
(* allocated node stays on the chain, and last is its end.                 *)

LastOnChain ==
  /\ first = NULL <=> last = NULL
  /\ last # NULL => last \in Chain

CompleteInv == ListInv /\ NothingLost /\ LastOnChain

LEMMA CompleteInit == CallbackInit => CompleteInv
  BY ListInvInit DEF CompleteInv, NothingLost, LastOnChain, CallbackInit

LEMMA AppendComplete == CompleteInv /\ append_callback_event => CompleteInv'
<1> SUFFICES ASSUME CompleteInv, append_callback_event PROVE CompleteInv'
  OBVIOUS
<1> DEFINE id == num_callbacks
           S  == Chain \cap Chain'
<1>1. ListInv' BY AppendInv DEF CompleteInv
<1>2. Chain \in SUBSET Ids /\ Closed(Chain, first, next)
  BY ReachClosed DEF Chain, CompleteInv, ListInv, CallbackTypeOK
<1>3. Chain' \in SUBSET Ids /\ Closed(Chain', first', next')
  BY <1>1, ReachClosed DEF Chain, ListInv, CallbackTypeOK
<1>4. id \notin Chain /\ id \in Ids /\ id # NULL
  BY NullAssumption
  DEF CompleteInv, ListInv, CallbackTypeOK, NoDanglingPointer,
      append_callback_event
<1>5. /\ next' = [e \in Ids |-> IF e = id THEN NULL
                                ELSE IF e = last THEN id ELSE next[e]]
      /\ first' = (IF first = NULL THEN id ELSE first)
      /\ last' = id /\ live' = live \cup {id}
  BY DEF append_callback_event, Linked
<1>6. Closed(S, first, next)
  <2>1. first # NULL => first \in S BY <1>2, <1>3, <1>5 DEF Closed
  <2>2. ASSUME NEW e \in S, next[e] # NULL PROVE next[e] \in S
    <3>1. e \in Ids /\ e # id /\ next[e] \in Chain
      BY <1>2, <1>4, <2>2 DEF Closed
    <3>2. e # last BY <3>1, <2>2, <1>2, NullAssumption
      DEF CompleteInv, ListInv, LinearChain
    <3>3. next'[e] = next[e] BY <3>1, <3>2, <1>5
    <3>4. QED BY <3>1, <3>3, <2>2, <1>3 DEF Closed
  <2>3. QED BY <2>1, <2>2 DEF Closed
<1>7. Chain \subseteq Chain' BY <1>2, <1>6, ReachLeast DEF Chain
<1>8. id \in Chain'
  <2>1. CASE first = NULL BY <2>1, <1>3, <1>4, <1>5 DEF Closed
  <2>2. CASE first # NULL
    <3>1. last \in Chain' /\ last \in Ids /\ last # id
      BY <2>2, <1>2, <1>4, <1>7 DEF CompleteInv, LastOnChain
    <3>2. next'[last] = id BY <3>1, <1>5
    <3>3. QED BY <3>1, <3>2, <1>3, <1>4 DEF Closed
  <2>3. QED BY <2>1, <2>2
<1>9. QED
  BY <1>1, <1>4, <1>5, <1>7, <1>8 DEF CompleteInv, NothingLost, LastOnChain

LEMMA DeleteComplete ==
  ASSUME CompleteInv, NEW id \in Ids, delete_callback_event(id),
         id # last \/ id = first
  PROVE  CompleteInv'
<1>1. CASE id \notin Chain
  <2>1. UNCHANGED callbackVars BY <1>1 DEF delete_callback_event
  <2>2. QED
    BY <2>1 DEF CompleteInv, NothingLost, LastOnChain, ListInv, CallbackTypeOK,
                NoDanglingPointer, LinearChain, Chain, callbackVars
<1>2. CASE id \in Chain
  <2> DEFINE S == Chain' \cup
                  (IF next[id] = NULL \/ next[id] \in Chain' THEN {id} ELSE {})
  <2>1. ListInv' BY DeleteInv DEF CompleteInv
  <2>2. Chain' \subseteq Chain \ {id} /\ next[id] # id
    BY <1>2, DeleteChain DEF CompleteInv
  <2>3. Chain' \in SUBSET Ids /\ Closed(Chain', first', next')
    BY <2>1, ReachClosed DEF Chain, ListInv, CallbackTypeOK
  <2>4. /\ next' = [e \in Ids |-> IF e = id THEN NULL
                                  ELSE IF e \in Chain /\ next[e] = id
                                       THEN next[id] ELSE next[e]]
        /\ first' = (IF first = id THEN next[id] ELSE first)
        /\ last' = (IF last = id THEN NULL ELSE last)
        /\ live' = live \ {id}
    BY <1>2 DEF delete_callback_event
  <2>5. Closed(S, first, next)
    <3>1. first # NULL => first \in S BY <2>3, <2>4 DEF Closed
    <3>2. ASSUME NEW e \in Chain', next[e] # NULL PROVE next[e] \in S
      <4>1. e \in Ids /\ e \in Chain /\ e # id BY <2>2, <2>3
      <4>2. CASE next[e] = id
        <5>1. next'[e] = next[id] BY <4>1, <4>2, <2>4
        <5>2. QED BY <5>1, <4>2, <2>3 DEF Closed
      <4>3. CASE next[e] # id BY <4>1, <4>3, <3>2, <2>3, <2>4 DEF Closed
      <4>4. QED BY <4>2, <4>3
    <3>3. QED BY <3>1, <3>2 DEF Closed
  <2>6. Chain \subseteq S BY <2>3, <2>5, <1>2, ReachLeast DEF Chain, Reach
  <2>7. NothingLost' BY <2>4, <2>6 DEF CompleteInv, NothingLost
  <2>8. CASE id = last
    <3>1. id = first /\ next[id] = NULL
      BY <2>8, <1>2, NullAssumption
      DEF CompleteInv, ListInv, LinearChain, Chain, Reach
    <3>2. first' = NULL /\ last' = NULL BY <3>1, <2>4, <2>8
    <3>3. QED BY <3>2, <2>1, <2>7 DEF CompleteInv, LastOnChain
  <2>9. CASE id # last
    <3>1. last # NULL /\ last \in Chain
      <4>1. first # NULL BY <1>2, ReachEmpty DEF Chain
      <4>2. QED BY <4>1 DEF CompleteInv, LastOnChain
    <3>2. last' = last /\ last' \in Chain' BY <3>1, <2>4, <2>6, <2>9
    <3>3. first' # NULL BY <3>2, ReachEmpty DEF Chain
    <3>4. QED BY <3>1, <3>2, <3>3, <2>1, <2>7 DEF CompleteInv, LastOnChain
  <2>10. QED BY <2>8, <2>9
<1>3. QED BY <1>1, <1>2

LEMMA RunComplete == CompleteInv /\ process_callback => CompleteInv'
<1> SUFFICES ASSUME CompleteInv, process_callback PROVE CompleteInv' OBVIOUS
<1> DEFINE S == Chain' \cup {first}
<1>1. ListInv' BY RunInv DEF CompleteInv
<1>2. first \in Chain /\ Chain' \subseteq Chain \ {first} /\ Chain \subseteq Ids
  BY RunChain DEF CompleteInv, Chain, Reach
<1>3. Chain' \in SUBSET Ids /\ Closed(Chain', first', next')
  BY <1>1, ReachClosed DEF Chain, ListInv, CallbackTypeOK
<1>4. /\ first # NULL /\ first' = next[first]
      /\ next' = [next EXCEPT ![first] = NULL]
      /\ live' = live \ {first}
      /\ last' = (IF next[first] = NULL THEN NULL ELSE last)
  BY DEF process_callback, LastAfterRun
<1>5. Closed(S, first, next)
  <2>1. \A e \in Chain' : e # first /\ next'[e] = next[e]
    BY <1>2, <1>4 DEF CompleteInv, ListInv, CallbackTypeOK
  <2>2. \A e \in Chain' : next[e] # NULL => next[e] \in Chain'
    BY <2>1, <1>3 DEF Closed
  <2>3. next[first] # NULL => next[first] \in Chain'
    BY <1>3, <1>4 DEF Closed
  <2>4. QED BY <2>2, <2>3 DEF Closed
<1>6. Chain \subseteq S BY <1>2, <1>3, <1>5, ReachLeast DEF Chain
<1>7. NothingLost' BY <1>4, <1>6 DEF CompleteInv, NothingLost
<1>8. LastOnChain'
  BY <1>4, <1>6 DEF CompleteInv, LastOnChain, ListInv, LinearChain
<1>9. QED BY <1>1, <1>7, <1>8 DEF CompleteInv

LEMMA CompleteNext ==
  ASSUME DeleteLast = FALSE
  PROVE  CompleteInv /\ [CallbackNext]_callbackVars => CompleteInv'
<1> SUFFICES ASSUME CompleteInv, [CallbackNext]_callbackVars PROVE CompleteInv'
  OBVIOUS
<1>1. CASE append_callback_event BY <1>1, AppendComplete
<1>2. CASE Delete BY <1>2, DeleteComplete DEF Delete, MayDelete
<1>3. CASE process_callback BY <1>3, RunComplete
<1>4. CASE UNCHANGED callbackVars
  BY <1>4 DEF CompleteInv, NothingLost, LastOnChain, ListInv, CallbackTypeOK,
              NoDanglingPointer, LinearChain, Chain, callbackVars
<1>5. QED BY <1>1, <1>2, <1>3, <1>4 DEF CallbackNext

(* A client that never deletes the last of several callbacks, as remote.c  *)
(* never does, loses none: every callback that is allocated can be reached *)
(* from first (event-loop.c:161-217).                                      *)
THEOREM CallbackListComplete ==
  ASSUME DeleteLast = FALSE
  PROVE  CallbackSpec => []NothingLost
<1>1. CompleteInv => NothingLost BY DEF CompleteInv
<1>2. QED BY <1>1, CompleteNext, CompleteInit, PTL DEF CallbackSpec

-----------------------------------------------------------------------------
(* The refinement: the live nodes stand in a line that starts at first and *)
(* ends at last, and that line is the queue of CallbackFifo.               *)

InOrder(s) ==
  /\ Line(s, first, next, live)
  /\ last = IF s = <<>> THEN NULL ELSE s[Len(s)]

FifoInv == CompleteInv /\ \E s : InOrder(s)

LEMMA CompleteFacts ==
  ASSUME CompleteInv
  PROVE  /\ live = Chain /\ live \subseteq Ids /\ NULL \notin live
         /\ next \in [Ids -> Ids \cup {NULL}] /\ num_callbacks \in Ids
         /\ first # NULL => first \in live
         /\ \A e \in live : next[e] # first
<1>1. Chain \in SUBSET Ids /\ Closed(Chain, first, next)
  BY ReachClosed DEF Chain, CompleteInv, ListInv, CallbackTypeOK
<1>2. live = Chain
  BY DEF CompleteInv, ListInv, NoDanglingPointer, NothingLost
<1>3. \A e \in live : next[e] # first
  <2>1. CASE first = NULL
    BY <1>2, <2>1, ReachEmpty DEF Chain
  <2>2. CASE first # NULL
    BY <1>2, <2>2 DEF CompleteInv, ListInv, LinearChain
  <2>3. QED BY <2>1, <2>2
<1>4. QED
  BY <1>1, <1>2, <1>3, NullAssumption DEF Closed, CompleteInv, ListInv, CallbackTypeOK

LEMMA AppendIsFifo ==
  ASSUME CompleteInv, NEW s, InOrder(s), append_callback_event
  PROVE  Fifo!FifoAppend /\ \E t : InOrder(t)'
<1> DEFINE id == num_callbacks
           t  == Append(s, id)
<1>1. /\ id \notin live /\ live' = live \cup {id} /\ last' = id
      /\ next' = [e \in Ids |-> IF e = id THEN NULL ELSE IF e = last THEN id ELSE next[e]]
      /\ first' = IF first = NULL THEN id ELSE first
      /\ num_callbacks' = IF id = IntMax THEN IntMin ELSE id + 1
      /\ ran' = ran
  BY DEF append_callback_event, Linked, IdAfter
<1>2. /\ live \subseteq Ids /\ NULL \notin live /\ id \in Ids /\ id # NULL
      /\ first # NULL => first \in live
  BY CompleteFacts, NullAssumption
<1>3. Line(s, first, next, live) /\ last = IF s = <<>> THEN NULL ELSE s[Len(s)]
  BY DEF InOrder
<1>4. /\ s \in Seq(live) /\ Len(s) \in Nat
      /\ \A i \in 1..Len(s) : s[i] \in live
      /\ \A c \in live : \E i \in 1..Len(s) : c = s[i]
      /\ s = <<>> <=> Len(s) = 0
      /\ Len(s) = 0 => first \notin live
      /\ Len(s) # 0 => first = s[1]
  BY <1>3, LineFacts
<1>5. first' = IF s = <<>> THEN id ELSE first
  <2>1. CASE s = <<>>
    BY <1>1, <1>2, <1>4, <2>1
  <2>2. CASE s # <<>>
    <3>1. 1 \in 1..Len(s)
      BY <1>4, <2>2
    <3>2. first \in live
      BY <1>4, <2>2, <3>1
    <3>3. QED BY <1>1, <1>2, <2>2, <3>2
  <2>3. QED BY <2>1, <2>2
<1>6. \A c \in live : next'[c] = IF c = s[Len(s)] THEN id ELSE next[c]
  <2> SUFFICES ASSUME NEW c \in live PROVE next'[c] = IF c = s[Len(s)] THEN id ELSE next[c]
    OBVIOUS
  <2>1. s # <<>>
    BY <1>4
  <2>2. last = s[Len(s)]
    BY <1>3, <2>1
  <2>3. QED BY <1>1, <1>2, <2>2
<1>7. next'[id] \notin live \cup {id}
  BY <1>1, <1>2
<1>8. Line(t, first', next', live')
  <2>1. Line(t, first', next', live \cup {id})
    BY <1>1, <1>3, <1>5, <1>6, <1>7, LineAppend
  <2>2. QED BY <1>1, <2>1
<1>9. t # <<>> /\ t[Len(t)] = id
  <2>1. s \in Seq(Ids) /\ id \in Ids
    BY <1>2, <1>4
  <2>2. QED BY <1>4, <2>1, AppendProperties
<1>10. \E u : InOrder(u)'
  <2> HIDE DEF t
  <2>1. Line(t, first', next', live') /\ last' = IF t = <<>> THEN NULL ELSE t[Len(t)]
    BY <1>1, <1>8, <1>9
  <2>2. QED BY <2>1 DEF InOrder
<1>11. Walk(first, next, live) = s /\ Walk(first', next', live') = t
  BY <1>3, <1>8, WalkAlong
<1>12. id \notin {s[i] : i \in 1..Len(s)}
  BY <1>1, <1>4
<1>13. Fifo!FifoAppend
  BY <1>1, <1>11, <1>12 DEF Fifo!FifoAppend, Fifo!Members
<1>14. QED BY <1>10, <1>13

(* What delete and run have in common: the node s[k] is passed over.       *)
LEMMA PassedOver ==
  ASSUME CompleteInv, NEW s, InOrder(s), NEW k \in 1..Len(s), k # Len(s) \/ Len(s) = 1,
         first' = IF first = s[k] THEN next[s[k]] ELSE first,
         \A e \in live \ {s[k]} : next'[e] = IF next[e] = s[k] THEN next[s[k]] ELSE next[e],
         live' = live \ {s[k]},
         last' = IF Len(s) = 1 THEN NULL ELSE last
  PROVE  /\ \E t : InOrder(t)'
         /\ Walk(first, next, live) = s
         /\ Walk(first', next', live') = RemoveAt(s, k)
<1> DEFINE t == RemoveAt(s, k)
<1>1. Line(s, first, next, live) /\ last = IF s = <<>> THEN NULL ELSE s[Len(s)]
  BY DEF InOrder
<1>2. /\ s \in Seq(live) /\ Len(s) \in Nat /\ Len(s) # 0 /\ s # <<>>
      /\ \A i, j \in 1..Len(s) : s[i] = s[j] => i = j
      /\ first = s[1]
  BY <1>1, LineFacts
<1>3. first' = IF k = 1 THEN next[s[k]] ELSE first
  <2>1. first = s[k] <=> k = 1
    BY <1>2
  <2>2. QED BY <2>1
<1>4. Line(t, first', next', live')
  BY <1>1, <1>3, LineRemove
<1>5. /\ t \in Seq(live) /\ Len(t) = Len(s) - 1
      /\ \A j \in 1..Len(s) - 1 : t[j] = IF j < k THEN s[j] ELSE s[j + 1]
  BY <1>2, RemoveAtIs
<1> HIDE DEF t
<1>6. last' = IF t = <<>> THEN NULL ELSE t[Len(t)]
  <2>1. CASE Len(s) = 1
    BY <1>5, <2>1
  <2>2. CASE Len(s) # 1
    <3>1. Len(s) - 1 \in 1..Len(s) - 1 /\ ~ (Len(s) - 1 < k) /\ (Len(s) - 1) + 1 = Len(s)
      BY <1>2, <2>2
    <3>2. t # <<>>
      BY <1>2, <1>5, <2>2
    <3>3. t[Len(t)] = s[Len(s)]
      BY <1>5, <3>1
    <3>4. QED BY <1>1, <1>2, <2>2, <3>2, <3>3
  <2>3. QED BY <2>1, <2>2
<1>7. InOrder(t)'
  BY <1>4, <1>6 DEF InOrder
<1>8. QED BY <1>1, <1>4, <1>7, WalkAlong DEF t

LEMMA FifoRemoveAt == \A s, i : Fifo!RemoveAt(s, i) = RemoveAt(s, i)
BY DEF Fifo!RemoveAt, RemoveAt

LEMMA DeleteIsFifo ==
  ASSUME CompleteInv, NEW s, InOrder(s), NEW id \in Chain, delete_callback_event(id),
         id # last \/ id = first
  PROVE  Fifo!FifoDelete(id) /\ \E t : InOrder(t)'
<1>1. /\ first' = IF first = id THEN next[id] ELSE first
      /\ next' = [e \in Ids |-> IF e = id THEN NULL
                                ELSE IF e \in Chain /\ next[e] = id THEN next[id] ELSE next[e]]
      /\ last' = IF last = id THEN NULL ELSE last
      /\ live' = live \ {id}
      /\ num_callbacks' = num_callbacks /\ ran' = ran
  BY DEF delete_callback_event
<1>2. live = Chain /\ live \subseteq Ids /\ id \in live
  BY CompleteFacts
<1>3. /\ Len(s) \in Nat
      /\ \A c \in live : \E i \in 1..Len(s) : c = s[i]
      /\ \A i, j \in 1..Len(s) : s[i] = s[j] => i = j
      /\ Len(s) # 0 => first = s[1]
      /\ s = <<>> <=> Len(s) = 0
  BY LineFacts DEF InOrder
<1>4. PICK k \in 1..Len(s) : s[k] = id
  BY <1>2, <1>3
<1>5. last = s[Len(s)] /\ Len(s) \in 1..Len(s) /\ 1 \in 1..Len(s) /\ first = s[1]
  BY <1>3 DEF InOrder
<1>6. (k # Len(s) \/ Len(s) = 1) /\ (last = id <=> Len(s) = 1)
  BY <1>3, <1>4, <1>5
<1>7. \A e \in live \ {id} : next'[e] = IF next[e] = id THEN next[id] ELSE next[e]
  BY <1>1, <1>2
<1>8. /\ \E t : InOrder(t)'
      /\ Walk(first, next, live) = s
      /\ Walk(first', next', live') = RemoveAt(s, k)
  BY <1>1, <1>4, <1>6, <1>7, PassedOver
<1>9. Fifo!FifoDelete(id)
  BY <1>1, <1>4, <1>8, FifoRemoveAt DEF Fifo!FifoDelete
<1>10. QED BY <1>8, <1>9

LEMMA RunIsFifo ==
  ASSUME CompleteInv, NEW s, InOrder(s), process_callback
  PROVE  Fifo!FifoRun /\ \E t : InOrder(t)'
<1>1. /\ first # NULL /\ ran' = first /\ first' = next[first]
      /\ last' = IF next[first] = NULL THEN NULL ELSE last
      /\ next' = [next EXCEPT ![first] = NULL]
      /\ live' = live \ {first}
      /\ num_callbacks' = num_callbacks
  BY DEF process_callback, LastAfterRun
<1>2. /\ live \subseteq Ids /\ first \in live /\ NULL \notin live
      /\ next \in [Ids -> Ids \cup {NULL}]
      /\ \A e \in live : next[e] # first
  BY <1>1, CompleteFacts
<1>3. /\ s \in Seq(live) /\ Len(s) \in Nat
      /\ \A i \in 1..Len(s) : s[i] \in live
      /\ \A c \in live : \E i \in 1..Len(s) : c = s[i]
      /\ Len(s) # 0 => first = s[1]
      /\ s = <<>> <=> Len(s) = 0
      /\ \A i \in 1..Len(s)-1 : next[s[i]] = s[i + 1]
  BY LineFacts DEF InOrder
<1>4. /\ 1 \in 1..Len(s) /\ Len(s) # 0 /\ first = s[1]
      /\ s # <<>> /\ last = s[Len(s)]
  BY <1>2, <1>3 DEF InOrder
<1>5. next[first] = NULL <=> Len(s) = 1
  <2>1. CASE Len(s) = 1
    BY <1>1, <1>4, <2>1 DEF CompleteInv, ListInv, LinearChain
  <2>2. CASE Len(s) # 1
    <3>0. Len(s) \in Nat /\ Len(s) # 0 /\ Len(s) # 1
      BY <1>3, <1>4, <2>2
    <3> DEFINE N == Len(s)
    <3>a. N \in Nat /\ N # 0 /\ N # 1
      BY <3>0
    <3> HIDE DEF N
    <3>b. 1 \in 1..N-1 /\ 1 + 1 = 2 /\ 2 \in 1..N
      BY <3>a
    <3>1. 1 \in 1..Len(s)-1 /\ 1 + 1 = 2 /\ 2 \in 1..Len(s)
      BY <3>b DEF N
    <3>2. next[first] = s[2] /\ s[2] \in live
      BY <1>3, <1>4, <3>1
    <3>3. QED BY <1>2, <2>2, <3>2
  <2>3. QED BY <2>1, <2>2
<1>6. \A e \in live \ {s[1]} : next'[e] = IF next[e] = s[1] THEN next[s[1]] ELSE next[e]
  BY <1>1, <1>2, <1>4
<1>7. /\ \E t : InOrder(t)'
      /\ Walk(first, next, live) = s
      /\ Walk(first', next', live') = RemoveAt(s, 1)
  <2>1. first' = IF first = s[1] THEN next[s[1]] ELSE first
    BY <1>1, <1>4
  <2>2. live' = live \ {s[1]} /\ last' = IF Len(s) = 1 THEN NULL ELSE last
    BY <1>1, <1>4, <1>5
  <2>3. 1 # Len(s) \/ Len(s) = 1
    OBVIOUS
  <2>4. QED BY <1>4, <1>6, <2>1, <2>2, <2>3, PassedOver
<1>8. RemoveAt(s, 1) = Tail(s) /\ Head(s) = s[1]
  BY <1>3, <1>4, RemoveAtFirst
<1>9. Fifo!FifoRun
  BY <1>1, <1>4, <1>7, <1>8 DEF Fifo!FifoRun
<1>10. QED BY <1>7, <1>9

(* A client that never deletes the last of several callbacks: append, run  *)
(* and delete do what CallbackFifo says, for every range of ids            *)
(* (event-loop.c:157-217).                                                 *)
THEOREM CallbackListIsFifo ==
  ASSUME DeleteLast = FALSE
  PROVE  CallbackSpec => ImplementsFifo
<1>1. CallbackInit => Fifo!FifoInit /\ FifoInv
  <2> SUFFICES ASSUME CallbackInit PROVE Fifo!FifoInit /\ FifoInv
    OBVIOUS
  <2>1. Line(<<>>, first, next, live) /\ CompleteInv
    BY LineEmpty, CompleteInit DEF CallbackInit
  <2>2. Walk(first, next, live) = <<>>
    BY <2>1, WalkAlong
  <2>3. InOrder(<<>>)
    BY <2>1 DEF InOrder, CallbackInit
  <2>4. QED BY <2>1, <2>2, <2>3 DEF Fifo!FifoInit, CallbackInit, FifoInv
<1>2. FifoInv /\ [CallbackNext]_callbackVars => FifoInv' /\ [Fifo!FifoNext]_(Fifo!fifoVars)
  <2> SUFFICES ASSUME FifoInv, [CallbackNext]_callbackVars
               PROVE  FifoInv' /\ [Fifo!FifoNext]_(Fifo!fifoVars)
    OBVIOUS
  <2>1. CompleteInv'
    BY CompleteNext DEF FifoInv
  <2>2. PICK s : InOrder(s)
    BY DEF FifoInv
  <2>3. CompleteInv
    BY DEF FifoInv
  <2>4. CASE append_callback_event
    BY <2>1, <2>2, <2>3, <2>4, AppendIsFifo DEF FifoInv, Fifo!FifoNext
  <2>5. CASE process_callback
    BY <2>1, <2>2, <2>3, <2>5, RunIsFifo DEF FifoInv, Fifo!FifoNext
  <2>6. CASE UNCHANGED callbackVars
    BY <2>1, <2>2, <2>6 DEF FifoInv, InOrder, callbackVars, Fifo!fifoVars
  <2>7. ASSUME NEW id \in Ids, MayDelete(id), delete_callback_event(id)
        PROVE  FifoInv' /\ [Fifo!FifoNext]_(Fifo!fifoVars)
    <3>1. CASE id \in Chain
      <4>1. id # last \/ id = first
        BY <2>7 DEF MayDelete
      <4>2. Fifo!FifoDelete(id) /\ \E t : InOrder(t)'
        BY <2>2, <2>3, <2>7, <3>1, <4>1, DeleteIsFifo
      <4>3. QED BY <2>1, <2>7, <4>2 DEF FifoInv, Fifo!FifoNext, Ids
    <3>2. CASE id \notin Chain
      <4>1. UNCHANGED callbackVars
        BY <2>7, <3>2 DEF delete_callback_event
      <4>2. QED BY <2>6, <4>1
    <3>3. QED BY <3>1, <3>2
  <2>8. QED BY <2>4, <2>5, <2>6, <2>7 DEF CallbackNext, Delete
<1>3. QED BY <1>1, <1>2, PTL DEF CallbackSpec, ImplementsFifo, Fifo!FifoSpec

-----------------------------------------------------------------------------
(* Lemmas on lists: what <<x>> \o s and Without(s, x) hold.                *)

Distinct(s) == \A i, j \in 1 .. Len(s) : s[i] = s[j] => i = j

LEMMA PrependMembers ==
  ASSUME NEW S, NEW s \in Seq(S), NEW x \in S, x \notin Members(s), Distinct(s)
  PROVE  /\ <<x>> \o s \in Seq(S)
         /\ Members(<<x>> \o s) = Members(s) \cup {x}
         /\ Distinct(<<x>> \o s)
<1> DEFINE t == <<x>> \o s
<1>1. /\ t \in Seq(S) /\ Len(t) = Len(s) + 1 /\ Len(s) \in Nat
      /\ t[1] = x /\ \A i \in 1 .. Len(s) : t[i + 1] = s[i]
  OBVIOUS
<1>2. \A i \in 1 .. Len(t) : i = 1 \/ (i - 1 \in 1 .. Len(s) /\ t[i] = s[i - 1])
  <2> SUFFICES ASSUME NEW i \in 1 .. Len(t), i # 1
               PROVE  i - 1 \in 1 .. Len(s) /\ t[i] = s[i - 1]
    OBVIOUS
  <2>1. i - 1 \in 1 .. Len(s) /\ (i - 1) + 1 = i BY <1>1
  <2>2. t[(i - 1) + 1] = s[i - 1] BY <2>1, <1>1
  <2>3. QED BY <2>1, <2>2
<1>3. Members(t) = Members(s) \cup {x}
  <2> HIDE DEF t
  <2>1. \A i \in 1 .. Len(s) : i + 1 \in 1 .. Len(t) BY <1>1
  <2>2. 1 \in 1 .. Len(t) BY <1>1
  <2>3. Members(t) \subseteq Members(s) \cup {x} BY <1>1, <1>2 DEF Members
  <2>4. Members(s) \subseteq Members(t) BY <1>1, <2>1 DEF Members
  <2>5. x \in Members(t) BY <1>1, <2>2 DEF Members
  <2>6. QED BY <2>3, <2>4, <2>5
<1>4. Distinct(t)
  <2> HIDE DEF t
  <2> SUFFICES ASSUME NEW i \in 1 .. Len(t), NEW j \in 1 .. Len(t), t[i] = t[j]
               PROVE  i = j
    BY DEF Distinct
  <2>1. \A k \in 1 .. Len(s) : s[k] # x BY DEF Members
  <2>2. CASE i = 1 \/ j = 1 BY <2>1, <2>2, <1>1, <1>2
  <2>3. CASE i # 1 /\ j # 1
    <3>1. i - 1 \in 1 .. Len(s) /\ j - 1 \in 1 .. Len(s) /\ s[i - 1] = s[j - 1]
      BY <2>3, <1>2
    <3>2. i - 1 = j - 1 BY <3>1 DEF Distinct
    <3>3. QED BY <3>2
  <2>4. QED BY <2>2, <2>3
<1>5. QED BY <1>1, <1>3, <1>4

LEMMA WithoutMembers ==
  ASSUME NEW S, NEW s \in Seq(S), NEW x \in Members(s), Distinct(s)
  PROVE  /\ Without(s, x) \in Seq(S)
         /\ Members(Without(s, x)) = Members(s) \ {x}
         /\ Distinct(Without(s, x))
<1> DEFINE k == CHOOSE i \in 1 .. Len(s) : s[i] = x
           t == Without(s, x)
<1>1. k \in 1 .. Len(s) /\ s[k] = x BY DEF Members
<1> HIDE DEF k
<1>2. t = [i \in 1 .. Len(s) - 1 |-> IF i < k THEN s[i] ELSE s[i + 1]]
  BY DEF Without, k
<1>3. Len(s) \in Nat /\ Len(s) - 1 \in Nat BY <1>1
<1>4. t \in Seq(S) /\ Len(t) = Len(s) - 1
  <2>1. \A i \in 1 .. Len(s) - 1 : (IF i < k THEN s[i] ELSE s[i + 1]) \in S
    BY <1>1, <1>3
  <2>2. QED BY <1>2, <1>3, <2>1
<1> HIDE DEF t
<1>5. \A i \in 1 .. Len(t) : \/ i < k /\ i \in 1 .. Len(s) /\ t[i] = s[i]
                             \/ i >= k /\ i + 1 \in 1 .. Len(s) /\ t[i] = s[i + 1]
  BY <1>1, <1>2, <1>3, <1>4
<1>6. Members(t) \subseteq Members(s) \ {x}
  <2> SUFFICES ASSUME NEW i \in 1 .. Len(t) PROVE t[i] \in Members(s) \ {x}
    BY DEF Members
  <2>1. CASE i < k /\ i \in 1 .. Len(s) /\ t[i] = s[i]
    BY <2>1, <1>1 DEF Members, Distinct
  <2>2. CASE i >= k /\ i + 1 \in 1 .. Len(s) /\ t[i] = s[i + 1]
    <3>1. i + 1 # k BY <2>2, <1>1
    <3>2. QED BY <3>1, <2>2, <1>1 DEF Members, Distinct
  <2>3. QED BY <2>1, <2>2, <1>5
<1>7. Members(s) \ {x} \subseteq Members(t)
  <2> SUFFICES ASSUME NEW j \in 1 .. Len(s), s[j] # x PROVE s[j] \in Members(t)
    BY DEF Members
  <2>1. CASE j < k
    <3>1. j \in 1 .. Len(t) /\ t[j] = s[j] BY <2>1, <1>1, <1>2, <1>3, <1>4
    <3>2. QED BY <3>1 DEF Members
  <2>2. CASE j > k
    <3>1. j - 1 \in 1 .. Len(t) /\ ~(j - 1 < k) /\ (j - 1) + 1 = j
      BY <2>2, <1>1, <1>3, <1>4
    <3>2. t[j - 1] = s[j] BY <3>1, <1>2, <1>4
    <3>3. QED BY <3>1, <3>2 DEF Members
  <2>3. QED BY <2>1, <2>2, <1>1
<1>8. Distinct(t)
  <2> SUFFICES ASSUME NEW i \in 1 .. Len(t), NEW j \in 1 .. Len(t), t[i] = t[j]
               PROVE  i = j
    BY DEF Distinct
  <2>1. CASE i < k /\ j < k BY <2>1, <1>1, <1>3, <1>4, <1>5 DEF Distinct
  <2>2. CASE i >= k /\ j >= k
    <3>1. i + 1 = j + 1 BY <2>2, <1>1, <1>5 DEF Distinct
    <3>2. QED BY <3>1
  <2>3. CASE i < k /\ j >= k
    <3>1. i = j + 1 BY <2>3, <1>1, <1>5 DEF Distinct
    <3>2. QED BY <3>1, <2>3, <1>1, <1>3, <1>4
  <2>4. CASE i >= k /\ j < k
    <3>1. i + 1 = j BY <2>4, <1>1, <1>5 DEF Distinct
    <3>2. QED BY <3>1, <2>4, <1>1, <1>3, <1>4
  <2>5. QED BY <2>1, <2>2, <2>3, <2>4, <1>1, <1>3, <1>4
<1>9. QED BY <1>4, <1>6, <1>7, <1>8 DEF t

-----------------------------------------------------------------------------
(* HighestWatched finds the largest watched number: a non-empty set of     *)
(* naturals below a bound has a largest element.                           *)

LEMMA LargestBelow ==
  ASSUME NEW n \in Nat, NEW W \in SUBSET (1 .. n), W # {}
  PROVE  \E i \in W : \A j \in W : j <= i
<1> DEFINE T == {n - i : i \in W}
<1>1. T \subseteq Nat /\ T # {}
  <2>1. \A i \in W : n - i \in Nat OBVIOUS
  <2>2. QED BY <2>1
<1>2. PICK m \in T : \A y \in T : ~ (<<y, m>> \in OpToRel(<, Nat))
  <2> HIDE DEF T
  <2>1. QED BY <1>1, NatLessThanWellFounded, WFMin
<1>3. \A y \in T : ~ (y < m) BY <1>1, <1>2 DEF OpToRel
<1>4. PICK i \in W : m = n - i OBVIOUS
<1>5. \A j \in W : j <= i BY <1>3, <1>4
<1>6. QED BY <1>5

LEMMA HighestWatchedExact ==
  ASSUME NEW n \in Nat, NEW m \in [Cond -> SUBSET Fd]
  PROVE  LET r == HighestWatched(n, m) IN
         /\ r \in Nat /\ r <= n
         /\ r # 0 => \E c \in Cond : r - 1 \in m[c]
         /\ \A c \in Cond : \A fd \in m[c] : fd < n => fd < r
<1> DEFINE W == {i \in 1 .. n : \E c \in Cond : i - 1 \in m[c]}
           r == HighestWatched(n, m)
<1>1. r = IF W = {} THEN 0 ELSE CHOOSE i \in W : \A j \in W : j <= i
  BY DEF HighestWatched
<1>2. \A c \in Cond : \A fd \in m[c] : fd < n => fd \in Nat /\ fd + 1 \in W
  <2> SUFFICES ASSUME NEW c \in Cond, NEW fd \in m[c], fd < n
               PROVE  fd \in Nat /\ fd + 1 \in W
    OBVIOUS
  <2>1. fd \in Nat BY FdAssumption
  <2>2. fd + 1 \in 1 .. n /\ (fd + 1) - 1 = fd BY <2>1
  <2>3. QED BY <2>1, <2>2
<1>3. CASE W = {}
  BY <1>1, <1>2, <1>3
<1>4. CASE W # {}
  <2>1. \E i \in W : \A j \in W : j <= i BY <1>4, LargestBelow
  <2>2. r \in W /\ \A j \in W : j <= r
    <3> HIDE DEF W
    <3> QED BY <1>1, <1>4, <2>1
  <2>3. r \in 1 .. n /\ \E c \in Cond : r - 1 \in m[c] BY <2>2
  <2>4. \A c \in Cond : \A fd \in m[c] : fd < n => fd < r
    <3> SUFFICES ASSUME NEW c \in Cond, NEW fd \in m[c], fd < n PROVE fd < r
      OBVIOUS
    <3>1. fd \in Nat /\ fd + 1 <= r BY <1>2, <2>2
    <3>2. QED BY <3>1, <2>3
  <2>5. QED BY <2>3, <2>4
<1>5. QED BY <1>3, <1>4

(* The queue: what Tail and Append do to it.                               *)

LEMMA TailMembers ==
  ASSUME NEW S, NEW s \in Seq(S), s # <<>>, Distinct(s)
  PROVE  /\ Tail(s) \in Seq(S) /\ Head(s) \in S
         /\ Members(Tail(s)) = Members(s) \ {Head(s)}
         /\ Distinct(Tail(s))
<1> DEFINE t == Tail(s)
<1>1. /\ t \in Seq(S) /\ Head(s) = s[1] /\ Head(s) \in S
      /\ Len(s) \in Nat \ {0} /\ Len(t) = Len(s) - 1
      /\ \A i \in 1 .. Len(t) : t[i] = s[i + 1]
  OBVIOUS
<1> HIDE DEF t
<1>2. \A i \in 1 .. Len(t) : i + 1 \in 1 .. Len(s) /\ i + 1 # 1 BY <1>1
<1>3. Members(t) \subseteq Members(s) \ {Head(s)}
  <2> SUFFICES ASSUME NEW i \in 1 .. Len(t) PROVE t[i] \in Members(s) \ {Head(s)}
    BY DEF Members
  <2>1. t[i] = s[i + 1] /\ i + 1 \in 1 .. Len(s) /\ i + 1 # 1 BY <1>1, <1>2
  <2>2. 1 \in 1 .. Len(s) BY <1>1
  <2>3. s[i + 1] # s[1] BY <2>1, <2>2 DEF Distinct
  <2>4. QED BY <2>1, <2>3, <1>1 DEF Members
<1>4. Members(s) \ {Head(s)} \subseteq Members(t)
  <2> SUFFICES ASSUME NEW i \in 1 .. Len(s), s[i] # Head(s) PROVE s[i] \in Members(t)
    BY DEF Members
  <2>1. i # 1 BY <1>1
  <2>2. i - 1 \in 1 .. Len(t) /\ (i - 1) + 1 = i BY <2>1, <1>1
  <2>3. t[i - 1] = s[i] BY <2>2, <1>1
  <2>4. QED BY <2>2, <2>3 DEF Members
<1>5. Distinct(t)
  <2> SUFFICES ASSUME NEW i \in 1 .. Len(t), NEW j \in 1 .. Len(t), t[i] = t[j]
               PROVE  i = j
    BY DEF Distinct
  <2>1. s[i + 1] = s[j + 1] BY <1>1
  <2>2. i + 1 = j + 1 BY <2>1, <1>2 DEF Distinct
  <2>3. QED BY <2>2
<1>6. QED BY <1>1, <1>3, <1>4, <1>5 DEF t

LEMMA AppendMembers ==
  ASSUME NEW S, NEW s \in Seq(S), NEW x \in S
  PROVE  /\ Append(s, x) \in Seq(S)
         /\ Members(Append(s, x)) = Members(s) \cup {x}
         /\ Distinct(s) /\ x \notin Members(s) => Distinct(Append(s, x))
<1> DEFINE t == Append(s, x)
<1>1. /\ t \in Seq(S) /\ Len(s) \in Nat /\ Len(t) = Len(s) + 1
      /\ t[Len(s) + 1] = x /\ \A i \in 1 .. Len(s) : t[i] = s[i]
  OBVIOUS
<1> HIDE DEF t
<1>2. \A i \in 1 .. Len(t) : i \in 1 .. Len(s) \/ i = Len(s) + 1 BY <1>1
<1>3. \A i \in 1 .. Len(s) : i \in 1 .. Len(t) BY <1>1
<1>4. Len(s) + 1 \in 1 .. Len(t) BY <1>1
<1>5. Members(t) = Members(s) \cup {x}
  <2>1. Members(t) \subseteq Members(s) \cup {x} BY <1>1, <1>2 DEF Members
  <2>2. Members(s) \subseteq Members(t) BY <1>1, <1>3 DEF Members
  <2>3. x \in Members(t) BY <1>1, <1>4 DEF Members
  <2>4. QED BY <2>1, <2>2, <2>3
<1>6. Distinct(s) /\ x \notin Members(s) => Distinct(t)
  BY <1>1, <1>2 DEF Members, Distinct
<1>7. QED BY <1>1, <1>5, <1>6 DEF t

-----------------------------------------------------------------------------
(* The callbacks in the loop: every step of the loop is a step of the      *)
(* callback list, so what CallbackListProofs shows holds here too.         *)

LEMMA LoopStepsCallbacks ==
  [LoopNext]_loopVars => [CallbackNext]_callbackVars
<1> SUFFICES ASSUME [LoopNext]_loopVars PROVE [CallbackNext]_callbackVars
  OBVIOUS
<1>1. CASE LoopStep
  BY <1>1 DEF LoopStep, process_event_none, handle_file_event, run_callback,
    no_callback, no_sources, select_fails, select, scan_handler, scan_ends,
    CallbackNext
<1>2. CASE ClientCalls
  BY <1>2 DEF ClientCalls, CallbackNext
<1>3. CASE ClientReturns
  BY <1>3 DEF ClientReturns, handler_returns, callback_returns
<1>4. CASE start_event_loop BY <1>4 DEF start_event_loop
<1>5. CASE UNCHANGED loopVars BY <1>5 DEF loopVars
<1>6. QED BY <1>1, <1>2, <1>3, <1>4, <1>5 DEF LoopNext

LEMMA LoopListInv == LoopSpec => []ListInv
<1>1. LoopInit => ListInv BY ListInvInit DEF LoopInit
<1>2. ListInv /\ [LoopNext]_loopVars => ListInv' BY LoopStepsCallbacks, ListInvNext
<1>3. QED BY <1>1, <1>2, PTL DEF LoopSpec

-----------------------------------------------------------------------------
(* Type correctness.                                                       *)

LEMMA LoopTypeInit == LoopInit => LoopTypeOK
<1> SUFFICES ASSUME LoopInit PROVE LoopTypeOK OBVIOUS
<1>1. CallbackTypeOK BY ListInvInit DEF LoopInit, ListInv
<1>2. QED
  BY <1>1 DEF LoopInit, LoopTypeOK, PC, NoMask, NoCall

(* What the two operations on handlers do to the list.                     *)

HandlersInv ==
  /\ Distinct(file_handlers)
  /\ \A fd \in Registered : mask[fd] = AddMask
  /\ MasksMatch
  /\ NumFdsExact

LEMMA AddHandler ==
  ASSUME LoopTypeOK, HandlersInv, NEW fd \in Fd, NEW p \in Proc,
         add_file_handler(fd, p)
  PROVE  /\ file_handlers' \in Seq(Fd)
         /\ mask' \in [Fd -> SUBSET Cond] /\ ready_mask' \in [Fd -> SUBSET Cond]
         /\ proc' \in [Fd -> Proc]
         /\ check_masks' \in [Cond -> SUBSET Fd]
         /\ num_fds' \in Nat
         /\ fresh' \in SUBSET Fd
         /\ Registered' = Registered \cup {fd}
         /\ HandlersInv'
<1> USE DEF LoopTypeOK
<1>1. /\ mask' = [mask EXCEPT ![fd] = AddMask]
      /\ proc' = [proc EXCEPT ![fd] = p]
  BY DEF add_file_handler, create_file_handler
<1>2. AddMask \in SUBSET Cond BY DEF AddMask, Cond
<1>3. CASE fd \in Registered
  <2>1. UNCHANGED <<file_handlers, ready_mask, check_masks, num_fds, fresh>>
    BY <1>3 DEF add_file_handler, create_file_handler
  <2>2. mask' = mask BY <1>1, <1>2, <1>3 DEF HandlersInv
  <2>3. Registered' = Registered BY <2>1 DEF Registered
  <2>4. HandlersInv'
    BY <2>1, <2>2, <2>3 DEF HandlersInv, MasksMatch, NumFdsExact
  <2>5. QED BY <1>1, <1>3, <2>1, <2>2, <2>3, <2>4
<1>4. CASE fd \notin Registered
  <2>1. /\ file_handlers' = <<fd>> \o file_handlers
        /\ ready_mask' = [ready_mask EXCEPT ![fd] = {}]
        /\ check_masks' = [c \in Cond |-> IF c \in AddMask
                                          THEN check_masks[c] \cup {fd}
                                          ELSE check_masks[c] \ {fd}]
        /\ num_fds' = (IF num_fds <= fd THEN fd + 1 ELSE num_fds)
        /\ fresh' = fresh \ {fd}
    BY <1>4 DEF add_file_handler, create_file_handler, NewReadyMask
  <2>2. /\ file_handlers' \in Seq(Fd)
        /\ Registered' = Registered \cup {fd}
        /\ Distinct(file_handlers')
    BY <2>1, <1>4, PrependMembers DEF Registered, HandlersInv
  <2>3. fd \in Nat /\ num_fds' \in Nat BY <2>1, FdAssumption
  <2>4. check_masks' \in [Cond -> SUBSET Fd] BY <2>1
  <2>5. \A g \in Registered' : mask'[g] = AddMask
    <3>1. Registered' \subseteq Fd BY <2>2 DEF Registered, Members
    <3>2. QED BY <3>1, <1>1, <1>2, <2>2 DEF HandlersInv
  <2>6. MasksMatch'
    <3> SUFFICES ASSUME NEW c \in Cond
                 PROVE  check_masks'[c] = {g \in Registered' : c \in mask'[g]}
      BY DEF MasksMatch
    <3>1. check_masks[c] = {g \in Registered : c \in AddMask}
      BY DEF HandlersInv, MasksMatch
    <3>2. {g \in Registered' : c \in mask'[g]} = {g \in Registered' : c \in AddMask}
      BY <2>5
    <3>3. QED BY <3>1, <3>2, <2>1, <2>2, <1>4
  <2>7. NumFdsExact'
    <3>1. \A g \in Registered : g \in Nat /\ g < num_fds
      <4>1. Registered \subseteq Fd BY DEF Registered, Members
      <4>2. QED BY <4>1, FdAssumption DEF HandlersInv, NumFdsExact
    <3>2. \A g \in Registered' : g < num_fds'
      BY <3>1, <2>1, <2>2, <2>3
    <3>3. num_fds' # 0 => num_fds' - 1 \in Registered'
      BY <2>1, <2>2, <2>3 DEF HandlersInv, NumFdsExact
    <3>4. QED BY <3>2, <3>3 DEF NumFdsExact
  <2>8. QED BY <1>1, <1>2, <2>1, <2>2, <2>3, <2>4, <2>5, <2>6, <2>7 DEF HandlersInv
<1>5. QED BY <1>3, <1>4

LEMMA DeleteHandler ==
  ASSUME LoopTypeOK, HandlersInv, NEW fd \in Fd, delete_file_handler(fd)
  PROVE  /\ file_handlers' \in Seq(Fd)
         /\ mask' \in [Fd -> SUBSET Cond] /\ ready_mask' = ready_mask
         /\ proc' = proc
         /\ check_masks' \in [Cond -> SUBSET Fd]
         /\ num_fds' \in Nat
         /\ fresh' \in SUBSET Fd
         /\ Registered' = Registered \ {fd} /\ fresh \ {fd} \subseteq fresh'
         /\ HandlersInv'
<1> USE DEF LoopTypeOK
<1>1. CASE fd \notin Registered
  <2>1. UNCHANGED <<handlerVars, fresh>> BY <1>1 DEF delete_file_handler
  <2>2. Registered' = Registered BY <2>1 DEF Registered, handlerVars
  <2>3. HandlersInv'
    BY <2>1, <2>2 DEF HandlersInv, MasksMatch, NumFdsExact, handlerVars
  <2>4. QED BY <1>1, <2>1, <2>2, <2>3 DEF handlerVars
<1>2. CASE fd \in Registered
  <2> DEFINE cm == MasksWithout(fd)
  <2>1. /\ check_masks' = cm
        /\ num_fds' = (IF fd + 1 = num_fds THEN HighestWatched(num_fds - 1, cm)
                       ELSE num_fds)
        /\ mask' = [mask EXCEPT ![fd] = {}]
        /\ file_handlers' = Without(file_handlers, fd)
        /\ fresh' = fresh \ {fd}
        /\ UNCHANGED <<ready_mask, proc>>
    BY <1>2 DEF delete_file_handler
  <2>2. /\ file_handlers' \in Seq(Fd)
        /\ Registered' = Registered \ {fd}
        /\ Distinct(file_handlers')
    BY <1>2, <2>1, WithoutMembers DEF Registered, HandlersInv
  <2>3. mask[fd] = AddMask BY <1>2 DEF HandlersInv
  <2>4. cm \in [Cond -> SUBSET Fd] BY DEF MasksWithout
  <2>5. \A c \in Cond : cm[c] = {g \in Registered' : c \in AddMask}
    <3> SUFFICES ASSUME NEW c \in Cond
                 PROVE  cm[c] = {g \in Registered' : c \in AddMask}
      OBVIOUS
    <3>1. check_masks[c] = {g \in Registered : c \in AddMask}
      BY DEF HandlersInv, MasksMatch
    <3>2. cm[c] = IF c \in AddMask THEN check_masks[c] \ {fd} ELSE check_masks[c]
      BY <2>3 DEF MasksWithout
    <3>3. QED BY <3>1, <3>2, <2>2
  <2> HIDE DEF cm
  <2>6. \A g \in Registered' : g \in Fd /\ g \in Nat /\ mask'[g] = AddMask
    <3>1. Registered' \subseteq Fd BY <2>2 DEF Registered, Members
    <3>2. QED BY <3>1, <2>1, <2>2, FdAssumption DEF HandlersInv
  <2>7. MasksMatch' BY <2>1, <2>5, <2>6 DEF MasksMatch
  <2>8. \A g \in Registered : g \in Nat /\ g < num_fds
    <3>1. Registered \subseteq Fd BY DEF Registered, Members
    <3>2. QED BY <3>1, FdAssumption DEF HandlersInv, NumFdsExact
  <2>9. num_fds' \in Nat /\ NumFdsExact'
    <3>1. CASE fd + 1 # num_fds
      <4>1. num_fds' = num_fds BY <3>1, <2>1
      <4>2. num_fds # 0 => num_fds - 1 \in Registered /\ num_fds - 1 # fd
        BY <3>1, <1>2, <2>8 DEF HandlersInv, NumFdsExact
      <4>3. QED BY <4>1, <4>2, <2>2, <2>8 DEF NumFdsExact
    <3>2. CASE fd + 1 = num_fds
      <4> DEFINE n == num_fds - 1
                 r == HighestWatched(n, cm)
      <4>1. n \in Nat /\ n = fd
        <5>1. fd \in Nat /\ num_fds \in Nat BY FdAssumption
        <5>2. QED BY <5>1, <3>2
      <4>2. num_fds' = r BY <3>2, <2>1
      <4>3. /\ r \in Nat /\ r <= n
            /\ r # 0 => \E c \in Cond : r - 1 \in cm[c]
            /\ \A c \in Cond : \A g \in cm[c] : g < n => g < r
        BY <4>1, <2>4, HighestWatchedExact
      <4> HIDE DEF r
      <4>4. r # 0 => r - 1 \in Registered' BY <4>3, <2>5
      <4>5. \A g \in Registered' : g < r
        <5> SUFFICES ASSUME NEW g \in Registered' PROVE g < r OBVIOUS
        <5>1. "readable" \in Cond /\ "readable" \in AddMask BY DEF Cond, AddMask
        <5>2. g \in cm["readable"] BY <5>1, <2>5
        <5>3. g < n BY <4>1, <2>2, <2>6, <2>8
        <5>4. QED BY <5>1, <5>2, <5>3, <4>3
      <4>6. QED BY <4>2, <4>3, <4>4, <4>5 DEF NumFdsExact
    <3>3. QED BY <3>1, <3>2
  <2>10. mask' \in [Fd -> SUBSET Cond] BY <2>1
  <2>11. HandlersInv' BY <2>2, <2>6, <2>7, <2>9 DEF HandlersInv
  <2>12. QED BY <2>1, <2>2, <2>4, <2>9, <2>10, <2>11
<1>3. QED BY <1>1, <1>2

-----------------------------------------------------------------------------
(* The inductive invariant.  While the result of select is scanned, the    *)
(* events are those of the handlers already passed, every reported one of  *)
(* these has its event, and enough bits are left for the reported ones     *)
(* that are still ahead.                                                   *)

EventsInv ==
  /\ ReadyHasEvent
  /\ \A fd \in Registered : ready_mask[fd] # {} => fd \in fresh
  /\ pc \in {"process_callback", "wait_for_event"} => event_queue = <<>>

Ahead == {fd \in Registered : /\ Reported(fd) # {}
                              /\ \E j \in scan .. Len(file_handlers) :
                                   file_handlers[j] = fd}

ScanInv ==
  pc = "scan" =>
    /\ scan \in 1 .. Len(file_handlers) + 1
    /\ \A fd \in Members(event_queue) :
         \E j \in 1 .. scan - 1 : fd = file_handlers[j]
    /\ \A j \in 1 .. scan - 1 : Reported(file_handlers[j]) # {} =>
                                  file_handlers[j] \in Members(event_queue)
    /\ Cardinality(Ahead) <= num_found

LoopInv == LoopTypeOK /\ HandlersInv /\ EventsInv /\ ScanInv

LEMMA LoopInvInit == LoopInit => LoopInv
<1> SUFFICES ASSUME LoopInit PROVE LoopInv OBVIOUS
<1>1. LoopTypeOK BY LoopTypeInit
<1>2. file_handlers = <<>> /\ event_queue = <<>> BY DEF LoopInit
<1>3. Registered = {} /\ Members(event_queue) = {}
  BY <1>2 DEF Registered, Members
<1>4. HandlersInv
  BY <1>2, <1>3
  DEF LoopInit, HandlersInv, Distinct, MasksMatch, NumFdsExact, NoMask
<1>5. EventsInv /\ ScanInv
  BY <1>2, <1>3 DEF LoopInit, EventsInv, ScanInv, ReadyHasEvent
<1>6. QED BY <1>1, <1>4, <1>5 DEF LoopInv

(* Steps that leave handlers and events alone.                             *)
Quiet == UNCHANGED <<handlerVars, event_queue, fresh>>

LEMMA QuietStep ==
  ASSUME LoopInv, Quiet, LoopTypeOK', pc' # "scan",
         pc' \in {"process_callback", "wait_for_event"} => event_queue = <<>>
  PROVE  LoopInv'
<1> USE DEF Quiet, handlerVars
<1>1. Registered' = Registered BY DEF Registered
<1>2. HandlersInv' BY <1>1 DEF LoopInv, HandlersInv, MasksMatch, NumFdsExact
<1>3. EventsInv' BY <1>1 DEF LoopInv, EventsInv, ReadyHasEvent
<1>4. ScanInv' BY DEF ScanInv
<1>5. QED BY <1>2, <1>3, <1>4 DEF LoopInv

LEMMA HandlerCallStep ==
  ASSUME LoopInv, CallbackTypeOK', pc \in {"outside", "handler", "callback"},
         UNCHANGED <<pc, event_queue, scanVars, call>>,
         NEW fd \in Fd,
         delete_file_handler(fd) \/ \E p \in Proc : add_file_handler(fd, p)
  PROVE  LoopInv'
<1> USE DEF scanVars
<1>1. CASE delete_file_handler(fd)
  <2>1. /\ LoopTypeOK' /\ HandlersInv'
        /\ Registered' = Registered \ {fd} /\ fresh \ {fd} \subseteq fresh'
        /\ ready_mask' = ready_mask
    BY <1>1, DeleteHandler DEF LoopInv, LoopTypeOK
  <2>2. EventsInv' BY <2>1 DEF LoopInv, EventsInv, ReadyHasEvent
  <2>3. ScanInv' BY DEF ScanInv
  <2>4. QED BY <2>1, <2>2, <2>3 DEF LoopInv
<1>2. ASSUME NEW p \in Proc, add_file_handler(fd, p) PROVE LoopInv'
  <2>1. /\ LoopTypeOK' /\ HandlersInv'
        /\ Registered' = Registered \cup {fd}
    BY <1>2, AddHandler DEF LoopInv, LoopTypeOK
  <2>2. CASE fd \in Registered
    <3>1. Registered' = Registered /\ UNCHANGED <<ready_mask, fresh>>
      BY <1>2, <2>1, <2>2 DEF add_file_handler, create_file_handler
    <3>2. EventsInv' BY <3>1 DEF LoopInv, EventsInv, ReadyHasEvent
    <3>3. QED BY <2>1, <3>2 DEF LoopInv, ScanInv
  <2>3. CASE fd \notin Registered
    <3>1. /\ ready_mask' = [ready_mask EXCEPT ![fd] = {}]
          /\ fresh' = fresh \ {fd}
      BY <1>2, <2>3 DEF add_file_handler, create_file_handler, NewReadyMask
    <3>2. Registered \subseteq Fd /\ ready_mask \in [Fd -> SUBSET Cond]
      BY DEF LoopInv, LoopTypeOK, Registered, Members
    <3>3. EventsInv'
      BY <2>1, <3>1, <3>2 DEF LoopInv, EventsInv, ReadyHasEvent
    <3>4. QED BY <2>1, <3>3 DEF LoopInv, ScanInv
  <2>4. QED BY <2>2, <2>3
<1>3. QED BY <1>1, <1>2

LEMMA HandleStep ==
  ASSUME LoopInv, handle_file_event PROVE LoopInv'
<1> DEFINE fd == Head(event_queue)
<1>1. /\ event_queue # <<>> /\ event_queue' = Tail(event_queue)
      /\ pc = "process_event" /\ pc' \in {"process_event", "handler"}
      /\ UNCHANGED <<file_handlers, mask, proc, check_masks, num_fds, scanVars,
                     callbackVars>>
  BY DEF handle_file_event
<1>2. /\ fd \in Fd /\ event_queue' \in Seq(Fd)
      /\ Members(event_queue') = Members(event_queue) \ {fd}
      /\ Distinct(event_queue')
  <2>1. Distinct(event_queue) BY DEF LoopInv, EventsInv, ReadyHasEvent, Distinct
  <2>2. event_queue \in Seq(Fd) BY DEF LoopInv, LoopTypeOK
  <2>3. QED BY <1>1, <2>1, <2>2, TailMembers
<1>3. \/ fd \in Registered /\ ready_mask' = [ready_mask EXCEPT ![fd] = {}]
      \/ fd \notin Registered /\ ready_mask' = ready_mask
  BY DEF handle_file_event, AfterHandling
<1>4. fresh' \subseteq fresh /\ fresh \ {fd} \subseteq fresh'
  BY DEF handle_file_event
<1>5. call' = call \/ call' = [fd |-> fd, error |-> "exception" \in ready_mask[fd]]
  BY DEF handle_file_event
<1> HIDE DEF fd
<1>6. LoopTypeOK'
  <2>1. CallbackTypeOK'
    BY <1>1 DEF LoopInv, LoopTypeOK, CallbackTypeOK, callbackVars
  <2>2. ready_mask' \in [Fd -> SUBSET Cond] BY <1>3 DEF LoopInv, LoopTypeOK
  <2>3. call' \in [fd : Fd \cup {NULL}, error : BOOLEAN]
    <3> DEFINE b == "exception" \in ready_mask[fd]
    <3>1. b \in BOOLEAN OBVIOUS
    <3>2. call' = call \/ call' = [fd |-> fd, error |-> b] BY <1>5
    <3> HIDE DEF b
    <3>3. QED BY <1>2, <3>1, <3>2 DEF LoopInv, LoopTypeOK
  <2>4. QED BY <1>1, <1>2, <1>4, <2>1, <2>2, <2>3
    DEF LoopInv, LoopTypeOK, PC, scanVars
<1>7. Registered' = Registered /\ Registered \subseteq Fd
  BY <1>1 DEF LoopInv, LoopTypeOK, Registered, Members
<1>8. HandlersInv'
  BY <1>1, <1>7 DEF LoopInv, HandlersInv, MasksMatch, NumFdsExact
<1>9. \A g \in Registered' : ready_mask'[g] # {} => g # fd /\ ready_mask[g] # {}
  BY <1>2, <1>3, <1>7 DEF LoopInv, LoopTypeOK
<1>10. EventsInv'
  <2>1. \A g \in Registered' : ready_mask'[g] # {} => g \in Members(event_queue')
    BY <1>2, <1>7, <1>9 DEF LoopInv, EventsInv, ReadyHasEvent
  <2>2. \A g \in Registered' : ready_mask'[g] # {} => g \in fresh'
    BY <1>4, <1>7, <1>9 DEF LoopInv, EventsInv
  <2>3. QED BY <1>1, <1>2, <2>1, <2>2 DEF EventsInv, ReadyHasEvent, Distinct
<1>11. ScanInv' BY <1>1 DEF ScanInv
<1>12. QED BY <1>6, <1>8, <1>10, <1>11 DEF LoopInv

LEMMA SelectStep ==
  ASSUME LoopInv, select PROVE LoopInv'
<1>1. PICK r \in SUBSET check_masks["readable"],
           w \in SUBSET check_masks["writable"],
           x \in SUBSET check_masks["exception"] :
         ready_masks' = [c \in Cond |-> CASE c = "readable" -> r
                                          [] c = "writable" -> w
                                          [] c = "exception" -> x]
  BY DEF select
<1>2. /\ pc = "wait_for_event" /\ pc' = "scan" /\ scan' = 1
      /\ num_found' = BitsFound(ready_masks')
      /\ UNCHANGED <<handlerVars, event_queue, call, fresh, callbackVars>>
  BY DEF select
<1>3. r \in SUBSET Fd /\ w \in SUBSET Fd /\ x \in SUBSET Fd
  BY DEF LoopInv, LoopTypeOK, Cond
<1>4. /\ ready_masks' \in [Cond -> SUBSET Fd]
      /\ ready_masks'["readable"] = r /\ ready_masks'["writable"] = w
      /\ ready_masks'["exception"] = x
  BY <1>1, <1>3 DEF Cond
<1>5. IsFiniteSet(r) /\ IsFiniteSet(w) /\ IsFiniteSet(x)
  BY <1>3, FS_Subset, FdAssumption
<1>6. num_found' = Cardinality(r) + Cardinality(w) + Cardinality(x)
  BY <1>2, <1>4 DEF BitsFound
<1>7. /\ Cardinality(r) \in Nat /\ Cardinality(w) \in Nat /\ Cardinality(x) \in Nat
  BY <1>5, FS_CardinalityType
<1>8. Registered' = Registered /\ event_queue = <<>> /\ event_queue' = <<>>
  BY <1>2 DEF Registered, handlerVars, LoopInv, EventsInv
<1>9. LoopTypeOK'
  <2>1. CallbackTypeOK'
    BY <1>2 DEF LoopInv, LoopTypeOK, CallbackTypeOK, callbackVars
  <2>2. QED BY <1>2, <1>4, <1>6, <1>7, <2>1
    DEF LoopInv, LoopTypeOK, PC, handlerVars
<1>10. HandlersInv'
  BY <1>2, <1>8 DEF LoopInv, HandlersInv, MasksMatch, NumFdsExact, handlerVars
<1>11. EventsInv'
  BY <1>2, <1>8 DEF LoopInv, EventsInv, ReadyHasEvent, handlerVars
<1>12. Cardinality(Ahead') <= num_found'
  <2>1. Ahead' \subseteq (r \cup w) \cup x
    BY <1>4 DEF Ahead, Reported, Cond
  <2>2. /\ IsFiniteSet(r \cup w)
        /\ Cardinality(r \cup w) <= Cardinality(r) + Cardinality(w)
    <3>1. /\ IsFiniteSet(r \cup w)
          /\ Cardinality(r \cup w) =
               Cardinality(r) + Cardinality(w) - Cardinality(r \cap w)
      BY <1>5, FS_Union
    <3>2. Cardinality(r \cap w) \in Nat
      BY <1>5, FS_Subset, FS_CardinalityType
    <3>3. QED BY <3>1, <3>2, <1>7
  <2>3. /\ IsFiniteSet((r \cup w) \cup x)
        /\ Cardinality((r \cup w) \cup x) <= num_found'
    <3>1. /\ IsFiniteSet((r \cup w) \cup x)
          /\ Cardinality((r \cup w) \cup x) =
               Cardinality(r \cup w) + Cardinality(x)
                 - Cardinality((r \cup w) \cap x)
      BY <1>5, <2>2, FS_Union
    <3>2. Cardinality((r \cup w) \cap x) \in Nat /\ Cardinality(r \cup w) \in Nat
      BY <1>5, <2>2, FS_Subset, FS_CardinalityType
    <3>3. QED BY <3>1, <3>2, <2>2, <1>6, <1>7
  <2>4. /\ Cardinality(Ahead') <= Cardinality((r \cup w) \cup x)
        /\ IsFiniteSet(Ahead')
    BY <2>1, <2>3, FS_Subset
  <2>5. Cardinality(Ahead') \in Nat /\ Cardinality((r \cup w) \cup x) \in Nat
    BY <2>3, <2>4, FS_CardinalityType
  <2>6. QED BY <2>3, <2>4, <2>5, <1>6, <1>7
<1>13. ScanInv'
  <2>1. Len(file_handlers') \in Nat /\ 1 \in 1 .. Len(file_handlers') + 1
    BY <1>9 DEF LoopTypeOK
  <2>2. Members(event_queue') = {} BY <1>8 DEF Members
  <2>3. QED BY <1>2, <1>12, <2>1, <2>2 DEF ScanInv
<1>14. QED BY <1>9, <1>10, <1>11, <1>13 DEF LoopInv

LEMMA ScanStep ==
  ASSUME LoopInv, scan_handler PROVE LoopInv'
<1> DEFINE fd == file_handlers[scan]
<1>1. /\ pc = "scan" /\ scan <= Len(file_handlers) /\ scan' = scan + 1
      /\ UNCHANGED <<pc, file_handlers, mask, proc, check_masks, num_fds,
                     ready_masks, call, callbackVars>>
  BY DEF scan_handler, Scanning
<1>2. /\ scan \in 1 .. Len(file_handlers) /\ Len(file_handlers) \in Nat
      /\ scan \in Nat
  BY <1>1 DEF LoopInv, LoopTypeOK, ScanInv
<1>3. fd \in Fd /\ fd \in Registered
  BY <1>2 DEF LoopInv, LoopTypeOK, Registered, Members
<1>4. Distinct(file_handlers) BY DEF LoopInv, HandlersInv
<1>5. fd \notin Members(event_queue)
  <2> SUFFICES ASSUME fd \in Members(event_queue) PROVE FALSE OBVIOUS
  <2>1. PICK j \in 1 .. scan - 1 : fd = file_handlers[j]
    BY <1>1 DEF LoopInv, ScanInv
  <2>2. j \in 1 .. Len(file_handlers) /\ j # scan BY <1>2
  <2>3. QED BY <2>1, <2>2, <1>2, <1>4 DEF Distinct
<1>6. ready_mask[fd] = {}
  BY <1>3, <1>5 DEF LoopInv, EventsInv, ReadyHasEvent
<1> HIDE DEF fd
<1>7. \/ /\ Reported(fd) = {}
         /\ UNCHANGED <<num_found, event_queue, ready_mask, fresh>>
      \/ /\ Reported(fd) # {}
         /\ num_found' = num_found - 1
         /\ event_queue' = Append(event_queue, fd)
         /\ ready_mask' = [ready_mask EXCEPT ![fd] = Reported(fd)]
         /\ fresh' = fresh \cup {fd}
  BY <1>6 DEF scan_handler, fd
<1>8. /\ Append(event_queue, fd) \in Seq(Fd)
      /\ Members(Append(event_queue, fd)) = Members(event_queue) \cup {fd}
      /\ Distinct(Append(event_queue, fd))
  <2>1. event_queue \in Seq(Fd) /\ Distinct(event_queue)
    BY DEF LoopInv, LoopTypeOK, EventsInv, ReadyHasEvent, Distinct
  <2>2. QED BY <2>1, <1>3, <1>5, AppendMembers
<1>9. Registered' = Registered BY <1>1 DEF Registered
<1>10. Reported(fd) \in SUBSET Cond BY DEF Reported
<1>11. LoopTypeOK'
  <2>1. CallbackTypeOK'
    BY <1>1 DEF LoopInv, LoopTypeOK, CallbackTypeOK, callbackVars
  <2>2. event_queue' \in Seq(Fd) BY <1>7, <1>8 DEF LoopInv, LoopTypeOK
  <2>3. ready_mask' \in [Fd -> SUBSET Cond] /\ fresh' \in SUBSET Fd
    BY <1>3, <1>7, <1>10 DEF LoopInv, LoopTypeOK
  <2>4. num_found' \in Int BY <1>7 DEF LoopInv, LoopTypeOK
  <2>5. QED BY <1>1, <1>2, <2>1, <2>2, <2>3, <2>4 DEF LoopInv, LoopTypeOK
<1>12. HandlersInv'
  BY <1>1, <1>9 DEF LoopInv, HandlersInv, MasksMatch, NumFdsExact
<1>13. EventsInv'
  <2>1. CASE Reported(fd) = {}
    BY <2>1, <1>1, <1>7, <1>9 DEF LoopInv, EventsInv, ReadyHasEvent
  <2>2. CASE Reported(fd) # {}
    <3>1. ready_mask' = [ready_mask EXCEPT ![fd] = Reported(fd)] BY <2>2, <1>7
    <3>2. Registered \subseteq Fd /\ ready_mask \in [Fd -> SUBSET Cond]
      BY DEF LoopInv, LoopTypeOK, Registered, Members
    <3>3. \A g \in Registered' : ready_mask'[g] # {} => g = fd \/ ready_mask[g] # {}
      BY <3>1, <3>2, <1>9
    <3>4. QED BY <3>3, <2>2, <1>1, <1>7, <1>8, <1>9
      DEF LoopInv, EventsInv, ReadyHasEvent, Distinct
  <2>3. QED BY <2>1, <2>2
<1>14. Cardinality(Ahead') <= num_found'
  <2>1. Ahead \subseteq Fd BY DEF Ahead, LoopInv, LoopTypeOK, Registered, Members
  <2>2. IsFiniteSet(Ahead) BY <2>1, FS_Subset, FdAssumption
  <2>3. Cardinality(Ahead) \in Nat BY <2>2, FS_CardinalityType
  <2>4. Cardinality(Ahead) <= num_found /\ num_found \in Int
    BY <1>1 DEF LoopInv, LoopTypeOK, ScanInv
  <2>5. \A g : Reported(g)' = Reported(g) BY <1>1 DEF Reported
  <2>6. Ahead' \subseteq Ahead
    <3>1. \A j \in scan + 1 .. Len(file_handlers) : j \in scan .. Len(file_handlers)
      BY <1>2
    <3>2. QED BY <3>1, <2>5, <1>1, <1>9 DEF Ahead
  <2>7. CASE Reported(fd) = {}
    <3>1. /\ Cardinality(Ahead') <= Cardinality(Ahead) /\ IsFiniteSet(Ahead')
      BY <2>2, <2>6, FS_Subset
    <3>2. Cardinality(Ahead') \in Nat BY <3>1, FS_CardinalityType
    <3>3. QED BY <3>1, <3>2, <2>3, <2>4, <2>7, <1>7
  <2>8. CASE Reported(fd) # {}
    <3>1. fd \in Ahead
      <4>1. scan \in scan .. Len(file_handlers) BY <1>2
      <4>2. QED BY <4>1, <2>8, <1>3 DEF Ahead, fd
    <3>2. fd \notin Ahead'
      <4> SUFFICES ASSUME NEW j \in scan + 1 .. Len(file_handlers),
                          file_handlers[j] = fd
                   PROVE  FALSE
        BY <1>1 DEF Ahead
      <4>1. j \in 1 .. Len(file_handlers) /\ j # scan BY <1>2
      <4>2. QED BY <4>1, <1>2, <1>4 DEF Distinct, fd
    <3>3. Ahead' \subseteq Ahead \ {fd} BY <3>2, <2>6
    <3>4. /\ IsFiniteSet(Ahead \ {fd})
          /\ Cardinality(Ahead \ {fd}) = Cardinality(Ahead) - 1
      BY <2>2, <3>1, FS_RemoveElement
    <3>5. Cardinality(Ahead') <= Cardinality(Ahead \ {fd}) /\ IsFiniteSet(Ahead')
      BY <3>3, <3>4, FS_Subset
    <3>6. Cardinality(Ahead') \in Nat BY <3>5, FS_CardinalityType
    <3>7. QED BY <3>4, <3>5, <3>6, <2>3, <2>4, <2>8, <1>7
  <2>9. QED BY <2>7, <2>8
<1>15. ScanInv'
  <2>1. scan' \in 1 .. Len(file_handlers') + 1 BY <1>1, <1>2
  <2>2. \A g : Reported(g)' = Reported(g) BY <1>1 DEF Reported
  <2>3. \A j \in 1 .. scan' - 1 : j \in 1 .. scan - 1 \/ j = scan BY <1>1, <1>2
  <2>4. \A j \in 1 .. scan - 1 : j \in 1 .. scan' - 1 BY <1>1, <1>2
  <2>5. scan \in 1 .. scan' - 1 BY <1>1, <1>2
  <2>6. Members(event_queue') = IF Reported(fd) = {} THEN Members(event_queue)
                                ELSE Members(event_queue) \cup {fd}
    BY <1>7, <1>8
  <2>7. \A g \in Members(event_queue') :
          \E j \in 1 .. scan' - 1 : g = file_handlers'[j]
    <3> SUFFICES ASSUME NEW g \in Members(event_queue')
                 PROVE  \E j \in 1 .. scan' - 1 : g = file_handlers'[j]
      OBVIOUS
    <3>1. CASE g \in Members(event_queue)
      BY <3>1, <1>1, <2>4 DEF LoopInv, ScanInv
    <3>2. CASE g = fd BY <3>2, <1>1, <2>5 DEF fd
    <3>3. QED BY <3>1, <3>2, <2>6
  <2>8. \A j \in 1 .. scan' - 1 : Reported(file_handlers[j]) # {} =>
                                    file_handlers[j] \in Members(event_queue')
    <3> SUFFICES ASSUME NEW j \in 1 .. scan' - 1, Reported(file_handlers[j]) # {}
                 PROVE  file_handlers[j] \in Members(event_queue')
      OBVIOUS
    <3>1. CASE j \in 1 .. scan - 1 BY <3>1, <1>1, <2>6 DEF LoopInv, ScanInv
    <3>2. CASE j = scan BY <3>2, <2>6 DEF fd
    <3>3. QED BY <3>1, <3>2, <2>3
  <2>9. QED BY <1>1, <1>14, <2>1, <2>2, <2>7, <2>8 DEF ScanInv
<1>16. QED BY <1>11, <1>12, <1>13, <1>15 DEF LoopInv

LEMMA ScanEndsStep ==
  ASSUME LoopInv, scan_ends PROVE LoopInv'
<1>1. /\ pc' = "process_event" /\ Quiet /\ UNCHANGED <<call, callbackVars>>
      /\ ready_masks' = NoMask /\ num_found' = 0 /\ scan' = 0
  BY DEF scan_ends, Quiet
<1>2. LoopTypeOK'
  <2>1. CallbackTypeOK'
    BY <1>1 DEF LoopInv, LoopTypeOK, CallbackTypeOK, callbackVars
  <2>2. NoMask \in [Cond -> SUBSET Fd] BY DEF NoMask
  <2>3. QED BY <1>1, <2>1, <2>2 DEF LoopInv, LoopTypeOK, PC, Quiet, handlerVars
<1>3. QED BY <1>1, <1>2, QuietStep

(* The steps that only move pc, run or change callbacks, or stutter.       *)
LEMMA OtherStep ==
  ASSUME LoopInv, CallbackTypeOK', Quiet, UNCHANGED scanVars,
         call' = call \/ call' = NoCall,
         pc' \in PC,
         pc' # pc => /\ pc' # "scan"
                     /\ pc' \in {"process_callback", "wait_for_event"} =>
                          event_queue = <<>>
  PROVE  LoopInv'
<1>1. call' \in [fd : Fd \cup {NULL}, error : BOOLEAN]
  <2>1. CASE call' = call BY <2>1 DEF LoopInv, LoopTypeOK
  <2>2. CASE call' = NoCall
    <3>1. NoCall \in [fd : Fd \cup {NULL}, error : BOOLEAN] BY DEF NoCall
    <3>2. QED BY <3>1, <2>2
  <2>3. QED BY <2>1, <2>2
<1>2. LoopTypeOK' BY <1>1 DEF LoopInv, LoopTypeOK, Quiet, handlerVars, scanVars
<1>3. CASE pc' # pc BY <1>2, <1>3, QuietStep
<1>4. CASE pc' = pc
  <2>1. Registered' = Registered /\ Ahead' = Ahead
    BY DEF Registered, Ahead, Reported, Quiet, handlerVars, scanVars
  <2>2. HandlersInv'
    BY <2>1 DEF LoopInv, HandlersInv, MasksMatch, NumFdsExact, Quiet, handlerVars
  <2>3. EventsInv'
    BY <2>1, <1>4 DEF LoopInv, EventsInv, ReadyHasEvent, Quiet, handlerVars
  <2>4. \A g : Reported(g)' = Reported(g) BY DEF Reported, scanVars
  <2>5. ScanInv'
    BY <2>1, <2>4, <1>4 DEF LoopInv, ScanInv, Quiet, handlerVars, scanVars
  <2>6. QED BY <1>2, <2>2, <2>3, <2>5 DEF LoopInv
<1>5. QED BY <1>3, <1>4

LEMMA LoopInvNext == LoopInv /\ ListInv /\ [LoopNext]_loopVars => LoopInv'
<1> SUFFICES ASSUME LoopInv, ListInv, [LoopNext]_loopVars PROVE LoopInv'
  OBVIOUS
<1>1. CallbackTypeOK' BY LoopStepsCallbacks, ListInvNext DEF ListInv
<1>2. pc \in PC BY DEF LoopInv, LoopTypeOK
<1> USE DEF Quiet, PC
<1>3. CASE LoopStep
  <2>1. CASE process_event_none
    BY <2>1, <1>1, OtherStep DEF process_event_none
  <2>2. CASE handle_file_event BY <2>2, HandleStep
  <2>3. CASE run_callback BY <2>3, <1>1, OtherStep DEF run_callback
  <2>4. CASE no_callback
    <3>1. event_queue = <<>> BY <2>4 DEF no_callback, LoopInv, EventsInv
    <3>2. QED BY <2>4, <3>1, <1>1, OtherStep DEF no_callback
  <2>5. CASE no_sources BY <2>5, <1>1, OtherStep DEF no_sources
  <2>6. CASE select_fails BY <2>6, <1>1, OtherStep DEF select_fails
  <2>7. CASE select BY <2>7, SelectStep
  <2>8. CASE scan_handler BY <2>8, ScanStep
  <2>9. CASE scan_ends BY <2>9, ScanEndsStep
  <2>10. QED BY <1>3, <2>1, <2>2, <2>3, <2>4, <2>5, <2>6, <2>7, <2>8, <2>9
    DEF LoopStep
<1>4. CASE ClientCalls
  <2>1. pc \in {"outside", "handler", "callback"}
        /\ UNCHANGED <<pc, event_queue, scanVars, call>>
    BY <1>4 DEF ClientCalls, ClientRuns
  <2>2. CASE UNCHANGED <<handlerVars, fresh>>
    BY <2>1, <2>2, <1>1, <1>2, OtherStep
  <2>3. ASSUME NEW fd \in Fd,
               delete_file_handler(fd) \/ \E p \in Proc : add_file_handler(fd, p)
        PROVE  LoopInv'
    BY <2>1, <2>3, <1>1, HandlerCallStep
  <2>4. QED BY <1>4, <2>2, <2>3 DEF ClientCalls
<1>5. CASE ClientReturns
  BY <1>5, <1>1, OtherStep DEF ClientReturns, handler_returns, callback_returns
<1>6. CASE start_event_loop BY <1>6, <1>1, OtherStep DEF start_event_loop
<1>7. CASE UNCHANGED loopVars BY <1>7, <1>1, <1>2, OtherStep DEF loopVars
<1>8. QED BY <1>3, <1>4, <1>5, <1>6, <1>7 DEF LoopNext

LEMMA LoopInvAlways == LoopSpec => [](LoopInv /\ ListInv)
<1>1. LoopInv /\ ListInv /\ [LoopNext]_loopVars => (LoopInv /\ ListInv)'
  BY LoopInvNext, LoopStepsCallbacks, ListInvNext
<1>2. LoopInit => LoopInv /\ ListInv BY LoopInvInit, ListInvInit DEF LoopInit
<1>3. QED BY <1>1, <1>2, PTL DEF LoopSpec

-----------------------------------------------------------------------------

(* The variables of event-loop.c keep their types in every execution.      *)
THEOREM LoopTypes == LoopSpec => []LoopTypeOK
<1>1. LoopInv => LoopTypeOK BY DEF LoopInv
<1>2. QED BY <1>1, LoopInvAlways, PTL

(* select is asked about exactly the conditions of the registered handlers *)
(* (create_file_handler, delete_file_handler).                             *)
THEOREM LoopMasksMatch == LoopSpec => []MasksMatch
<1>1. LoopInv => MasksMatch BY DEF LoopInv, HandlersInv
<1>2. QED BY <1>1, LoopInvAlways, PTL

(* num_fds is the highest registered descriptor + 1, whatever the order of *)
(* adding and deleting: the loop over i in delete_file_handler is right.   *)
THEOREM LoopNumFds == LoopSpec => []NumFdsExact
<1>1. LoopInv => NumFdsExact BY DEF LoopInv, HandlersInv
<1>2. QED BY <1>1, LoopInvAlways, PTL

(* A registered descriptor with something seen has one event in the queue  *)
(* (wait_for_event queues it, handle_file_event takes it).                 *)
THEOREM LoopReadyHasEvent == LoopSpec => []ReadyHasEvent
<1>1. LoopInv => ReadyHasEvent BY DEF LoopInv, EventsInv
<1>2. QED BY <1>1, LoopInvAlways, PTL

(* The handlers, the sets for select, num_fds and the queue agree at every *)
(* step, for every set of descriptors and every client.                    *)
THEOREM LoopState == LoopSpec => []LoopStateOK
<1>1. LoopTypeOK /\ MasksMatch /\ NumFdsExact /\ ReadyHasEvent => LoopStateOK
  BY DEF LoopStateOK
<1>2. QED BY <1>1, LoopTypes, LoopMasksMatch, LoopNumFds, LoopReadyHasEvent, PTL

(* wait_for_event stops its loop when num_found bits have been met, and    *)
(* still no descriptor select reported is left out.                        *)
THEOREM LoopNoReportDropped == LoopSpec => NoReportDropped
<1> DEFINE Step == pc = "scan" /\ pc' # "scan" =>
                     \A fd \in Registered :
                       Reported(fd) # {} => fd \in Members(event_queue)
<1>1. LoopInv /\ [LoopNext]_loopVars => [Step]_loopVars
  <2> SUFFICES ASSUME LoopInv, LoopNext, pc = "scan", pc' # "scan",
                      NEW fd \in Registered, Reported(fd) # {}
               PROVE  fd \in Members(event_queue)
    OBVIOUS
  <2>1. ~Scanning
    BY DEF LoopNext, LoopStep, process_event_none, handle_file_event,
      run_callback, no_callback, no_sources, select_fails, select, scan_handler,
      scan_ends, ClientCalls, ClientReturns, handler_returns, callback_returns,
      start_event_loop
  <2>2. /\ scan \in 1 .. Len(file_handlers) + 1 /\ Len(file_handlers) \in Nat
        /\ num_found \in Int /\ Cardinality(Ahead) <= num_found
    BY DEF LoopInv, LoopTypeOK, ScanInv
  <2>3. PICK j \in 1 .. Len(file_handlers) : fd = file_handlers[j]
    BY DEF Registered, Members
  <2>4. CASE j \in 1 .. scan - 1 BY <2>3, <2>4 DEF LoopInv, ScanInv
  <2>5. CASE j \in scan .. Len(file_handlers)
    <3>1. fd \in Ahead BY <2>3, <2>5 DEF Ahead
    <3>2. num_found <= 0 BY <2>1, <2>2, <2>5 DEF Scanning
    <3>3. IsFiniteSet(Ahead)
      <4>1. Ahead \subseteq Fd BY DEF Ahead, LoopInv, LoopTypeOK, Registered, Members
      <4>2. QED BY <4>1, FS_Subset, FdAssumption
    <3>4. Cardinality(Ahead) \in Nat /\ Cardinality(Ahead) # 0
      BY <3>1, <3>3, FS_CardinalityType, FS_EmptySet
    <3>5. QED BY <3>2, <3>4, <2>2
  <2>6. QED BY <2>2, <2>3, <2>4, <2>5
<1>2. QED BY <1>1, LoopInvAlways, PTL DEF LoopSpec, NoReportDropped

(* handle_file_event never calls a handler for an event that select        *)
(* reported of an earlier handler of the same descriptor: create_file_-    *)
(* handler clears ready_mask, and the event that is left finds nothing.    *)
THEOREM LoopOnlyFreshEvents == LoopSpec => OnlyFreshEvents
<1> DEFINE Step == pc # "handler" /\ pc' = "handler" => call'.fd \in fresh
<1>1. LoopInv /\ [LoopNext]_loopVars => [Step]_loopVars
  <2> SUFFICES ASSUME LoopInv, LoopNext, pc # "handler", pc' = "handler"
               PROVE  call'.fd \in fresh
    OBVIOUS
  <2>1. handle_file_event
    BY DEF LoopNext, LoopStep, process_event_none, run_callback, no_callback,
      no_sources, select_fails, select, scan_handler, scan_ends, ClientCalls,
      ClientReturns, handler_returns, callback_returns, start_event_loop
  <2> DEFINE fd == Head(event_queue)
  <2>2. fd \in Registered /\ Seen(fd) # {} /\ call'.fd = fd
    BY <2>1 DEF handle_file_event
  <2>3. ready_mask[fd] # {} BY <2>2 DEF Seen
  <2>4. QED BY <2>2, <2>3 DEF LoopInv, EventsInv
<1>2. QED BY <1>1, LoopInvAlways, PTL DEF LoopSpec, OnlyFreshEvents

-----------------------------------------------------------------------------
(* With a client that loses no callback the loop sleeps only when nothing  *)
(* is left to do: live is empty since first is NULL.                       *)

AsleepNoCallback == pc = "wait_for_event" => first = NULL

LEMMA AsleepNext ==
  LoopInv /\ AsleepNoCallback /\ [LoopNext]_loopVars => AsleepNoCallback'
<1> SUFFICES ASSUME AsleepNoCallback, [LoopNext]_loopVars,
                    pc' = "wait_for_event"
             PROVE  first' = NULL
  BY DEF AsleepNoCallback
<1>1. no_callback \/ UNCHANGED loopVars
  BY DEF LoopNext, LoopStep, process_event_none, handle_file_event, run_callback,
    no_sources, select_fails, select, scan_handler, scan_ends, ClientCalls,
    ClientRuns, ClientReturns, handler_returns, callback_returns, start_event_loop
<1>2. QED BY <1>1 DEF no_callback, loopVars, callbackVars, AsleepNoCallback

(* The loop blocks in select only when no event is queued, no callback is  *)
(* left and nothing seen is unhandled (event-loop.c:461-482), for a client *)
(* that never deletes the last of several callbacks.                       *)
THEOREM LoopSleepsOnlyWhenIdle ==
  ASSUME DeleteLast = FALSE
  PROVE  LoopSpec => []SleepsOnlyWhenIdle
<1> DEFINE Inv == LoopInv /\ CompleteInv /\ AsleepNoCallback
<1>1. LoopInit => Inv
  BY LoopInvInit, CompleteInit DEF LoopInit, AsleepNoCallback
<1>2. Inv /\ [LoopNext]_loopVars => Inv'
  BY LoopInvNext, LoopStepsCallbacks, CompleteNext, AsleepNext DEF CompleteInv
<1>3. Inv => SleepsOnlyWhenIdle
  <2> SUFFICES ASSUME Inv, pc = "wait_for_event"
               PROVE  /\ event_queue = <<>> /\ live = {}
                      /\ \A fd \in Registered : ready_mask[fd] = {}
    BY DEF SleepsOnlyWhenIdle
  <2>1. event_queue = <<>> BY DEF LoopInv, EventsInv
  <2>2. Members(event_queue) = {} BY <2>1 DEF Members
  <2>3. Chain = {} BY ReachEmpty DEF AsleepNoCallback, Chain
  <2>4. QED BY <2>1, <2>2, <2>3
    DEF LoopInv, EventsInv, ReadyHasEvent, CompleteInv, NothingLost
<1> HIDE DEF Inv
<1>4. QED BY <1>1, <1>2, <1>3, PTL DEF LoopSpec

-----------------------------------------------------------------------------
(* The server.                                                             *)

\* What the theorems need to know: the loop is promised no more than EventLoop
\* says, or the counter of callbacks never takes the value NOT_SCHEDULED.
NoWrap == NOT_SCHEDULED \notin Ids

Own ==
  /\ remote_desc \in Fd \cup {INVALID_DESCRIPTOR}
  /\ readchar_callback \in Ids \cup {NOT_SCHEDULED}
  /\ serial \notin {"idle", "opened"} => pc \in {"handler", "callback"}
  /\ serial = "opened" => pc = "outside"
  /\ DeleteLast = FALSE => CompleteInv /\ CallbackStatus

Client == LoopInv /\ ListInv /\ Own

LEMMA ClientInit == RemoteInit => Client
<1> SUFFICES ASSUME RemoteInit PROVE Client
  OBVIOUS
<1>1. LoopInit /\ CallbackInit
  BY DEF RemoteInit, LoopInit
<1>2. LoopInv /\ ListInv /\ CompleteInv
  BY <1>1, LoopInvInit, ListInvInit, CompleteInit
<1>3. CallbackStatus
  BY <1>1 DEF RemoteInit, CallbackInit, CallbackStatus
<1> QED BY <1>2, <1>3 DEF Client, Own, RemoteInit

-----------------------------------------------------------------------------
(* What the server does with callbacks, the client of the loop may do.     *)

LEMMA Reschedules ==
  ASSUME Client, DeleteLast \/ NoWrap, NEW left, reschedule(left)
  PROVE  /\ append_callback_event \/ UNCHANGED callbackVars
         /\ readchar_callback' \in Ids \cup {NOT_SCHEDULED}
         /\ DeleteLast = FALSE => CallbackStatus'
<1>1. num_callbacks \in Ids
  BY DEF Client, ListInv, CallbackTypeOK
<1>2. CASE left > 0 /\ readchar_callback = NOT_SCHEDULED
  <2>1. append_callback_event /\ readchar_callback' = num_callbacks
    BY <1>2 DEF reschedule
  <2>2. ASSUME DeleteLast = FALSE PROVE CallbackStatus'
    <3>1. live = {}
      BY <1>2, <2>2 DEF Client, Own, CallbackStatus
    <3>2. live' = {num_callbacks} /\ num_callbacks # NOT_SCHEDULED
      BY <1>1, <2>1, <2>2, <3>1 DEF append_callback_event, NoWrap
    <3> QED BY <2>1, <3>2 DEF CallbackStatus
  <2> QED BY <1>1, <2>1, <2>2
<1>3. CASE ~(left > 0 /\ readchar_callback = NOT_SCHEDULED)
  <2>1. UNCHANGED <<callbackVars, readchar_callback>>
    BY <1>3 DEF reschedule
  <2> QED BY <2>1 DEF Client, Own, CallbackStatus, callbackVars
<1> QED BY <1>2, <1>3

LEMMA Resets ==
  ASSUME Client, DeleteLast \/ NoWrap, DeleteLast \in BOOLEAN, reset_callback
  PROVE  /\ Delete \/ UNCHANGED callbackVars
         /\ readchar_callback' = NOT_SCHEDULED
         /\ DeleteLast = FALSE => CallbackStatus'
<1> DEFINE id == readchar_callback
<1>1. CASE id = NOT_SCHEDULED
  BY <1>1 DEF reset_callback, Client, Own, CallbackStatus, callbackVars
<1>2. CASE id # NOT_SCHEDULED
  <2>1. id \in Ids /\ delete_callback_event(id) /\ readchar_callback' = NOT_SCHEDULED
    BY <1>2 DEF reset_callback, Client, Own
  <2>2. CASE DeleteLast
    <3>1. MayDelete(id)
      BY <2>2 DEF MayDelete
    <3> QED BY <2>1, <2>2, <3>1 DEF Delete
  <2>3. CASE DeleteLast = FALSE
    <3>1. live = {id} /\ CompleteInv
      BY <1>2, <2>3 DEF Client, Own, CallbackStatus
    <3>2. Chain = {id}
      BY <3>1 DEF CompleteInv, ListInv, NoDanglingPointer, NothingLost
    <3>3. first = id
      <4>1. first # NULL
        BY <3>2, ReachEmpty DEF Chain
      <4>2. first \in Chain
        BY <4>1, ReachClosed DEF Chain, Closed, Client, ListInv, CallbackTypeOK
      <4> QED BY <3>2, <4>2
    <3>4. live' = {}
      BY <2>1, <3>1, <3>2 DEF delete_callback_event
    <3>5. MayDelete(id)
      BY <3>3 DEF MayDelete
    <3>6. Delete
      BY <2>1, <3>5 DEF Delete
    <3> QED BY <2>1, <3>4, <3>6 DEF CallbackStatus
  <2> QED BY <2>2, <2>3
<1> QED BY <1>1, <1>2

-----------------------------------------------------------------------------
(* Each step of the server is a step of the loop, or of its client.        *)

\* A step of a proc: one operation on handlers and one on callbacks.
LEMMA ClientStep ==
  ASSUME pc \in {"outside", "handler", "callback"}, UNCHANGED <<pc, event_queue, scanVars, call>>,
         \/ UNCHANGED <<handlerVars, fresh>>
         \/ \E fd \in Fd : delete_file_handler(fd) \/ \E q \in Proc : add_file_handler(fd, q),
         append_callback_event \/ Delete \/ UNCHANGED callbackVars
  PROVE  LoopNext
  BY DEF LoopNext, ClientCalls, ClientRuns

LEMMA Invalid == ASSUME LoopInv PROVE INVALID_DESCRIPTOR \notin Registered
<1>1. Registered \subseteq Fd
  BY DEF LoopInv, LoopTypeOK, Registered, Members
<1> QED BY <1>1, FdAssumption DEF INVALID_DESCRIPTOR

LEMMA LoopSteps ==
  ASSUME Client, RemoteLoopStep
  PROVE  LoopNext /\ Own'
<1>0. Own /\ ListInv /\ pc \in PC
  BY DEF Client, LoopInv, LoopTypeOK
<1>1. CASE plain_step
  <2>1. LoopStep /\ UNCHANGED remoteVars /\ UNCHANGED callbackVars
    BY <1>1 DEF plain_step, LoopStep, process_event_none, no_callback, no_sources,
                select_fails, scan_handler, scan_ends
  <2>2. pc \notin {"outside", "handler", "callback"}
    BY <1>1 DEF plain_step, process_event_none, no_callback, no_sources,
                select_fails, scan_handler, scan_ends
  <2>3. serial = "idle"
    BY <1>0, <2>2 DEF Own
  <2>4. CompleteInv => CompleteInv'
    BY <2>1 DEF callbackVars, CompleteInv, ListInv, CallbackTypeOK, NoDanglingPointer,
                LinearChain, NothingLost, LastOnChain, Chain
  <2> QED BY <1>0, <2>1, <2>3, <2>4 DEF Own, remoteVars, callbackVars, CallbackStatus, LoopNext
<1>2. CASE select_readable
  <2>1. select /\ UNCHANGED remoteVars /\ UNCHANGED callbackVars /\ pc = "wait_for_event"
    BY <1>2 DEF select_readable, select
  <2>2. serial = "idle"
    BY <1>0, <2>1 DEF Own
  <2>3. CompleteInv => CompleteInv'
    BY <2>1 DEF callbackVars, CompleteInv, ListInv, CallbackTypeOK, NoDanglingPointer,
                LinearChain, NothingLost, LastOnChain, Chain
  <2> QED BY <1>0, <2>1, <2>2, <2>3
          DEF Own, remoteVars, callbackVars, CallbackStatus, LoopNext, LoopStep
<1>3. CASE call_handler
  <2>1. handle_file_event /\ pc = "process_event" /\ UNCHANGED callbackVars
        /\ pc' \in {"process_event", "handler"}
        /\ UNCHANGED <<remote_desc, readchar_callback>>
    BY <1>3 DEF call_handler, handle_file_event
  <2>2. serial = "idle" /\ (pc' # "handler" => serial' = "idle")
        /\ (pc' = "handler" => serial' \in {"accepting", "called"})
    BY <1>0, <1>3, <2>1 DEF Own, call_handler
  <2>3. CompleteInv => CompleteInv'
    BY <2>1 DEF callbackVars, CompleteInv, ListInv, CallbackTypeOK, NoDanglingPointer,
                LinearChain, NothingLost, LastOnChain, Chain
  <2> QED BY <1>0, <2>1, <2>2, <2>3
          DEF Own, callbackVars, CallbackStatus, LoopNext, LoopStep
<1>4. CASE process_remaining
  <2>1. /\ run_callback /\ process_callback /\ pc' = "callback"
        /\ readchar_callback' = NOT_SCHEDULED /\ remote_desc' = remote_desc
        /\ serial' \in {"called", "nothing"}
    BY <1>4 DEF process_remaining, run_callback, AfterOneShot
  <2>2. ASSUME DeleteLast = FALSE PROVE CompleteInv' /\ CallbackStatus'
    <3>1. CompleteInv /\ live = {readchar_callback} \ {NOT_SCHEDULED}
      BY <1>0, <2>2 DEF Own, CallbackStatus
    <3>2. CompleteInv'
      BY <2>1, <3>1, RunComplete
    <3>3. first \in Chain
      BY <1>0, <2>1, RunChain
    <3>4. live' = {}
      BY <2>1, <3>1, <3>3 DEF process_callback, ListInv, NoDanglingPointer, CompleteInv
    <3> QED BY <2>1, <3>2, <3>4 DEF CallbackStatus
  <2> QED BY <1>0, <2>1, <2>2 DEF Own, LoopNext, LoopStep
<1> QED BY <1>1, <1>2, <1>3, <1>4 DEF RemoteLoopStep

\* The callback list stays complete whatever the server does with it.
LEMMA StaysComplete ==
  ASSUME CompleteInv, DeleteLast = FALSE,
         append_callback_event \/ Delete \/ UNCHANGED callbackVars
  PROVE  CompleteInv'
  BY CompleteNext DEF CallbackNext

LEMMA ProcSteps ==
  ASSUME Client, DeleteLast \/ NoWrap, ProcStep
  PROVE  (LoopNext \/ UNCHANGED loopVars) /\ Own'
<1>0. Own /\ DeleteLast \in BOOLEAN /\ {ListenFd, ConnFd} \subseteq Fd /\ {"accept", "serial"} = Proc
  BY RemoteAssumption, DeleteLastAssumption DEF Client
<1>1. ASSUME UNCHANGED <<callbackVars, readchar_callback>>, DeleteLast = FALSE
      PROVE  CompleteInv' /\ CallbackStatus'
  <2>1. CompleteInv'
    BY <1>0, <1>1, StaysComplete DEF Own
  <2> QED BY <1>0, <1>1, <2>1 DEF Own, callbackVars, CallbackStatus
<1>2. CASE accept
  <2>1. /\ pc \in {"outside", "handler", "callback"} /\ UNCHANGED <<pc, event_queue, scanVars, call>>
        /\ delete_file_handler(ListenFd) /\ UNCHANGED <<callbackVars, readchar_callback>>
        /\ remote_desc' \in {ConnFd, INVALID_DESCRIPTOR} /\ serial' = "accepted"
    BY <1>0, <1>2 DEF Own, accept, StopListening
  <2>2. LoopNext
    BY <1>0, <2>1, ClientStep
  <2> QED BY <1>0, <1>1, <1>2, <2>1, <2>2 DEF Own, accept
<1>3. CASE accept_registers
  <2>1. /\ pc \in {"handler", "callback"} /\ UNCHANGED <<pc, event_queue, scanVars, call>>
        /\ UNCHANGED <<callbackVars, readchar_callback, remote_desc>> /\ serial' = "done"
    BY <1>0, <1>3 DEF Own, accept_registers
  <2>2. UNCHANGED <<handlerVars, fresh>> \/ \E fd \in Fd : add_file_handler(fd, "serial")
    BY <1>0, <1>3 DEF Own, accept_registers, add_invalid_descriptor
  <2>3. LoopNext
    BY <1>0, <2>1, <2>2, ClientStep
  <2> QED BY <1>0, <1>1, <2>1, <2>3 DEF Own
<1>4. CASE readchar_fails
  <2>1. /\ UNCHANGED <<loopVars, callbackVars, readchar_callback, remote_desc, pc>>
        /\ serial' \in {"failed", "reading"} /\ pc \in {"handler", "callback"}
    BY <1>0, <1>4 DEF Own, readchar_fails, Reading, loopVars
  <2> QED BY <1>0, <1>1, <2>1 DEF Own
<1>5. CASE readchar_refills \/ readchar_buffered
  <2>1. /\ pc \in {"handler", "callback"} /\ UNCHANGED <<pc, event_queue, scanVars, call>>
        /\ UNCHANGED <<handlerVars, fresh, remote_desc>> /\ serial' = "reading"
    BY <1>0, <1>5 DEF Own, readchar_refills, readchar_buffered, Reading
  <2>2. \/ \E left : reschedule(left)
        \/ UNCHANGED <<callbackVars, readchar_callback>>
    BY <1>5 DEF readchar_refills, readchar_buffered, take_char
  <2>3. /\ append_callback_event \/ Delete \/ UNCHANGED callbackVars
        /\ readchar_callback' \in Ids \cup {NOT_SCHEDULED}
        /\ DeleteLast = FALSE => CallbackStatus'
    BY <1>0, <1>1, <2>2, Reschedules DEF Own
  <2>4. LoopNext
    BY <2>1, <2>3, ClientStep
  <2>5. DeleteLast = FALSE => CompleteInv'
    BY <1>0, <2>3, StaysComplete DEF Own
  <2> QED BY <1>0, <2>1, <2>3, <2>4, <2>5 DEF Own
<1>6. CASE remote_close
  <2>1. /\ pc \in {"handler", "callback"} /\ UNCHANGED <<pc, event_queue, scanVars, call>>
        /\ delete_file_handler(remote_desc) /\ reset_callback
        /\ remote_desc' = INVALID_DESCRIPTOR /\ serial' = "closed"
    BY <1>0, <1>6 DEF Own, remote_close
  <2>2. /\ Delete \/ UNCHANGED callbackVars
        /\ readchar_callback' = NOT_SCHEDULED
        /\ DeleteLast = FALSE => CallbackStatus'
    BY <1>0, <2>1, Resets
  <2>3. \/ UNCHANGED <<handlerVars, fresh>>
        \/ \E fd \in Fd : delete_file_handler(fd)
    BY <1>0, <2>1, Invalid DEF Own, Client, delete_file_handler
  <2>4. LoopNext
    BY <2>1, <2>2, <2>3, ClientStep
  <2>5. DeleteLast = FALSE => CompleteInv'
    BY <1>0, <2>2, StaysComplete DEF Own
  <2> QED BY <2>1, <2>2, <2>4, <2>5 DEF Own
<1>7. CASE proc_returns
  <2>1. /\ handler_returns(Result) \/ callback_returns(Result)
        /\ Result \in {-1, 0, 1} /\ serial' = "idle"
        /\ UNCHANGED <<callbackVars, readchar_callback, remote_desc>>
    BY <1>7 DEF proc_returns, Result, handler_returns, callback_returns
  <2>2. LoopNext
    BY <2>1 DEF LoopNext, ClientReturns
  <2> QED BY <1>0, <1>1, <2>1, <2>2 DEF Own
<1> QED BY <1>2, <1>3, <1>4, <1>5, <1>6, <1>7 DEF ProcStep

LEMMA MainSteps ==
  ASSUME Client, port \in Names, main_opens \/ main_serves
  PROVE  LoopNext /\ Own'
<1>0. Own /\ DeleteLast \in BOOLEAN /\ {ListenFd, ConnFd} \subseteq Fd /\ {"accept", "serial"} = Proc
  BY RemoteAssumption, DeleteLastAssumption DEF Client
<1>01. port \in {"stdio", "device", "port"}
  BY RemoteAssumption
<1>02. ASSUME remote_open
       PROVE  /\ remote_desc' \in Fd \cup {INVALID_DESCRIPTOR}
              /\ \/ UNCHANGED <<handlerVars, fresh>>
                 \/ \E fd \in Fd : \E q \in Proc : add_file_handler(fd, q)
  <2>1. CASE port = "stdio"
    BY <1>0, <1>02, <2>1 DEF remote_open, opened
  <2>2. CASE port = "device"
    <3>1. \/ opened(ConnFd)
          \/ remote_desc' = INVALID_DESCRIPTOR /\ add_invalid_descriptor
      BY <1>02, <2>2 DEF remote_open
    <3> QED BY <1>0, <3>1 DEF opened, add_invalid_descriptor
  <2>3. CASE port = "port"
    <3>1. add_file_handler(ListenFd, "accept") /\ remote_desc' = remote_desc
      BY <1>02, <2>3 DEF remote_open
    <3> QED BY <1>0, <3>1 DEF Own
  <2> QED BY <1>01, <2>1, <2>2, <2>3
<1>1. UNCHANGED <<callbackVars, readchar_callback>> /\ remote_desc' \in Fd \cup {INVALID_DESCRIPTOR}
  <2>1. CASE main_opens
    BY <1>02, <2>1 DEF main_opens
  <2>2. CASE main_serves
    BY <1>0, <2>2 DEF Own, main_serves, start_event_loop
  <2> QED BY <2>1, <2>2
<1>2. DeleteLast = FALSE => CompleteInv' /\ CallbackStatus'
  <2>1. DeleteLast = FALSE => CompleteInv'
    BY <1>0, <1>1, StaysComplete DEF Own
  <2> QED BY <1>0, <1>1, <2>1 DEF Own, callbackVars, CallbackStatus
<1>3. CASE main_opens
  <2>1. /\ pc = "outside" /\ UNCHANGED <<pc, event_queue, scanVars, call>> /\ serial' = "opened"
    BY <1>3 DEF main_opens
  <2>2. \/ UNCHANGED <<handlerVars, fresh>>
        \/ \E fd \in Fd : \E q \in Proc : add_file_handler(fd, q)
    BY <1>02, <1>3 DEF main_opens
  <2>3. LoopNext
    BY <1>1, <2>1, <2>2, ClientStep
  <2> QED BY <1>0, <1>1, <1>2, <2>1, <2>3 DEF Own
<1>4. CASE main_serves
  <2>1. start_event_loop /\ pc' = "process_event" /\ serial' = "idle"
    BY <1>4 DEF main_serves, start_event_loop
  <2> QED BY <1>0, <1>1, <1>2, <2>1 DEF Own, LoopNext
<1> QED BY <1>3, <1>4
\* The other side and the kernel touch nothing of the loop.
LEMMA OtherSteps ==
  ASSUME Client, PeerStep \/ Gone \/ UNCHANGED serverVars
  PROVE  UNCHANGED loopVars /\ Own'
<1>1. UNCHANGED <<loopVars, remote_desc, readchar_callback, serial>>
  BY DEF PeerStep, Gone, serverVars, remoteVars
<1>2. UNCHANGED <<pc, callbackVars>>
  BY <1>1 DEF loopVars
<1>3. CompleteInv => CompleteInv'
  BY <1>2 DEF callbackVars, CompleteInv, ListInv, CallbackTypeOK, NoDanglingPointer,
              LinearChain, NothingLost, LastOnChain, Chain
<1> QED BY <1>1, <1>2, <1>3 DEF Client, Own, callbackVars, CallbackStatus

LEMMA ClientNext ==
  ASSUME DeleteLast \/ NoWrap, Client, port \in Names, [RemoteNext]_serverVars
  PROVE  [LoopNext]_loopVars /\ Client' /\ port' \in Names
<1>1. CASE ServerStep
  <2>1. port' = port /\ (RemoteLoopStep \/ ProcStep \/ main_opens \/ main_serves)
    BY <1>1 DEF ServerStep
  <2> QED BY <2>1, LoopSteps, ProcSteps, MainSteps, LoopInvNext, LoopStepsCallbacks,
             ListInvNext DEF Client
<1>2. CASE PeerStep \/ Gone \/ UNCHANGED serverVars
  <2>1. port' = port
    BY <1>2 DEF PeerStep, Gone, serverVars, remoteVars
  <2> QED BY <1>2, <2>1, OtherSteps, LoopInvNext, LoopStepsCallbacks, ListInvNext
          DEF Client
<1> QED BY <1>1, <1>2 DEF RemoteNext

LEMMA ClientAlways ==
  ASSUME DeleteLast \/ NoWrap
  PROVE  RemoteSpec => [](Client /\ port \in Names) /\ [][LoopNext]_loopVars
<1>1. RemoteInit => Client /\ port \in Names
  BY ClientInit DEF RemoteInit
<1>2. Client /\ port \in Names /\ [RemoteNext]_serverVars
        => [LoopNext]_loopVars /\ (Client /\ port \in Names)'
  BY ClientNext
<1> QED BY <1>1, <1>2, PTL DEF RemoteSpec

(* Whatever the command line names, however the accepts, reads and procs   *)
(* end and whatever the other side does, the server uses the event loop    *)
(* the way EventLoop says a client does: in particular the callback that   *)
(* reset_readchar deletes (remote.c:417) is one that is scheduled.         *)
THEOREM RemoteIsLoopClient ==
  ASSUME DeleteLast \/ NoWrap
  PROVE  RemoteSpec => IsLoopClient
<1>1. RemoteInit => LoopInit
  BY DEF RemoteInit
<1> QED BY <1>1, ClientAlways, PTL DEF RemoteSpec, IsLoopClient

(* So the masks and num_fds handed to select fit the registered handlers   *)
(* while the server listens, is connected and opens again (event-loop.c).  *)
THEOREM RemoteLoopState ==
  ASSUME DeleteLast \/ NoWrap
  PROVE  RemoteSpec => []LoopStateOK
<1>1. LoopInv => LoopStateOK
  BY DEF LoopInv, LoopStateOK, HandlersInv, EventsInv, MasksMatch, NumFdsExact, ReadyHasEvent
<1>2. Client => LoopStateOK
  BY <1>1 DEF Client
<1> QED BY <1>2, ClientAlways, PTL

(* The callback list holds process_remaining exactly when readchar_callback *)
(* says so (remote.c:29): it is never scheduled twice, and never missing.   *)
THEOREM RemoteCallbackStatus ==
  ASSUME DeleteLast = FALSE, NoWrap
  PROVE  RemoteSpec => []CallbackStatus
<1>1. Client => CallbackStatus
  BY DEF Client, Own
<1> QED BY <1>1, ClientAlways, PTL

-----------------------------------------------------------------------------
(* What the caller of readchar gets.  Session says who is registered for   *)
(* what, Buffer what the count and the pointer of readchar mean and that   *)
(* somebody will look at what is left, Stream which characters these are.  *)

Serial == {"idle", "accepting", "accepted", "done", "called", "reading",
           "failed", "closed", "nothing", "opened"}

\* A character in the buffer, or what malloc left there.
Cell == ((1 .. MaxConn) \X (1 .. MaxBytes)) \cup {NULL}

\* Which descriptor is registered with which proc, and for whom.
Session ==
  /\ Registered \subseteq {ListenFd, ConnFd}
  /\ remote_desc \in {ConnFd, INVALID_DESCRIPTOR}
  /\ serial \in Serial
  /\ ListenFd \in Registered => /\ port = "port" /\ proc[ListenFd] = "accept"
                                /\ remote_desc = INVALID_DESCRIPTOR
  /\ ConnFd \in Registered => proc[ConnFd] = "serial" /\ remote_desc = ConnFd
  /\ remote_desc = ConnFd => ConnFd \in Registered \/ serial = "accepted"
  /\ serial \in {"called", "reading", "failed"} => remote_desc = ConnFd
  /\ serial \in {"accepting", "closed"} => remote_desc = INVALID_DESCRIPTOR
  /\ pc = "outside" /\ serial = "idle" => remote_desc = INVALID_DESCRIPTOR

\* The count and the pointer of readchar, and who will look at them.
Buffer ==
  /\ readchar_bufcnt \in -1 .. BufSize - 1
  /\ readchar_bufp \in (2 .. BufSize + 1) \cup {NULL}
  /\ readchar_bufcnt = -1 => serial = "failed"
  /\ readchar_bufcnt # 0 => remote_desc = ConnFd /\ pc # "outside"
  /\ readchar_bufcnt > 0 =>
       /\ readchar_bufp \in Int /\ readchar_bufp + readchar_bufcnt <= BufSize + 1
       /\ readchar_callback # NOT_SCHEDULED \/ serial = "called"

\* The characters: what is in the buffer is what was taken last.
Stream ==
  /\ backlog \in Nat /\ conn \in Nat /\ conn + backlog <= MaxConn
  /\ port # "port" \/ remote_desc = ConnFd => conn > 0
  /\ peer \in {"none", "open", "closed"}
  /\ sent \in 0 .. MaxBytes /\ taken \in 0 .. sent /\ start \in 0 .. taken
  /\ readchar_buf \in [1 .. BufSize -> Cell]
  /\ chars \in Seq(Cell)
  /\ \A k \in 1 .. readchar_bufcnt :
       readchar_buf[readchar_bufp + k - 1] = <<conn, taken - readchar_bufcnt + k>>
  /\ StreamIntact
  /\ aborted \in BOOLEAN

LEMMA SessionInit == RemoteInit => Session
<1> SUFFICES ASSUME RemoteInit PROVE Session
  OBVIOUS
<1>1. Registered = {} /\ serial = "idle" /\ remote_desc = INVALID_DESCRIPTOR
  BY DEF RemoteInit, LoopInit, Registered, Members
<1>2. ConnFd # INVALID_DESCRIPTOR
  BY RemoteAssumption, FdAssumption DEF INVALID_DESCRIPTOR
<1> QED BY <1>1, <1>2 DEF Session, Serial

LEMMA SessionNext ==
  ASSUME Client, port \in Names, Session, Buffer, [RemoteNext]_serverVars
  PROVE  Session'
<1>0. /\ Own /\ LoopTypeOK /\ HandlersInv /\ pc \in PC
      /\ {ListenFd, ConnFd} \subseteq Fd /\ ListenFd # ConnFd
      /\ ConnFd # INVALID_DESCRIPTOR /\ ListenFd # INVALID_DESCRIPTOR
      /\ Proc = {"accept", "serial"} /\ proc \in [Fd -> Proc]
  BY RemoteAssumption, FdAssumption
  DEF Client, LoopInv, LoopTypeOK, INVALID_DESCRIPTOR
<1>a. ASSUME UNCHANGED <<file_handlers, proc>> PROVE UNCHANGED <<Registered, proc>>
  BY <1>a DEF Registered
<1>b. ASSUME NEW fd \in Fd, NEW q \in Proc, add_file_handler(fd, q)
      PROVE  Registered' = Registered \cup {fd} /\ proc' = [proc EXCEPT ![fd] = q]
  BY <1>0, <1>b, AddHandler DEF add_file_handler, create_file_handler
<1>c. ASSUME NEW fd \in Fd, delete_file_handler(fd)
      PROVE  Registered' = Registered \ {fd} /\ proc' = proc
  BY <1>0, <1>c, DeleteHandler
<1>1. CASE plain_step
  <2>1. UNCHANGED <<file_handlers, proc, port, remote_desc, serial>>
    BY <1>1 DEF plain_step, handlerVars, remoteVars, process_event_none, no_callback,
                no_sources, select_fails, scan_handler, scan_ends
  <2>2. pc' # "outside" \/ (no_sources /\ pc = "wait_for_event" /\ num_fds = 0)
    BY <1>1 DEF plain_step, process_event_none, no_callback,
                no_sources, select_fails, scan_handler, scan_ends
  <2>3. ASSUME num_fds = 0 PROVE Registered = {}
    <3>1. Registered \subseteq Fd
      BY <1>0 DEF LoopTypeOK, Registered, Members
    <3>2. \A fd \in Registered : fd < 0
      BY <1>0, <2>3 DEF HandlersInv, NumFdsExact
    <3> QED BY <3>1, <3>2, FdAssumption
  <2>4. pc' = "outside" => serial = "idle" /\ Registered = {}
    BY <1>0, <2>2, <2>3 DEF Own
  <2> QED BY <1>0, <1>a, <2>1, <2>4 DEF Session, Serial
<1>2. CASE select_readable
  <2>1. UNCHANGED <<file_handlers, proc, port, remote_desc, serial>> /\ pc' = "scan"
    BY <1>2 DEF select_readable, select, handlerVars, remoteVars
  <2> QED BY <1>a, <2>1 DEF Session
<1>3. CASE call_handler /\ port' = port
  <2>1. UNCHANGED <<file_handlers, proc, port, remote_desc>> /\ serial = "idle"
        /\ pc' # "outside"
    BY <1>0, <1>3 DEF call_handler, handle_file_event, Own
  <2>2. CASE pc' # "handler"
    <3>1. serial' = serial
      BY <1>3, <2>2 DEF call_handler
    <3> QED BY <1>a, <2>1, <3>1 DEF Session
  <2>3. CASE pc' = "handler"
    <3> DEFINE fd == Head(event_queue)
    <3>1. fd \in Registered /\ call'.fd = fd
      BY <1>0, <1>3, <2>3 DEF call_handler, handle_file_event
    <3>2. serial' = IF proc[fd] = "accept" THEN "accepting" ELSE "called"
      BY <1>3, <2>3, <3>1 DEF call_handler
    <3>3. \/ fd = ListenFd /\ serial' = "accepting" /\ remote_desc = INVALID_DESCRIPTOR
          \/ fd = ConnFd /\ serial' = "called" /\ remote_desc = ConnFd
      BY <3>1, <3>2 DEF Session
    <3>4. remote_desc = ConnFd => ConnFd \in Registered
      BY <2>1 DEF Session
    <3> QED BY <1>0, <1>a, <2>1, <2>3, <3>3, <3>4 DEF Session, Serial
  <2> QED BY <2>2, <2>3
<1>4. CASE process_remaining /\ port' = port
  <2>1. UNCHANGED <<file_handlers, proc, port, remote_desc>> /\ serial = "idle"
        /\ pc' = "callback" /\ serial' \in {"called", "nothing"}
        /\ (serial' = "called" => readchar_bufcnt > 0)
    BY <1>0, <1>4 DEF process_remaining, run_callback, handlerVars, Own
  <2>2. serial' = "called" => remote_desc = ConnFd
    BY <2>1, RemoteAssumption DEF Buffer
  <2>3. remote_desc = ConnFd => ConnFd \in Registered
    BY <2>1 DEF Session
  <2> QED BY <1>a, <2>1, <2>2, <2>3 DEF Session, Serial
<1>5. CASE accept /\ port' = port
  <2>1. /\ remote_desc = INVALID_DESCRIPTOR /\ remote_desc' \in {ConnFd, INVALID_DESCRIPTOR}
        /\ serial' = "accepted" /\ delete_file_handler(ListenFd) /\ pc' = pc
    BY <1>5 DEF accept, StopListening, Session
  <2>2. Registered' = {} /\ proc' = proc
    BY <1>0, <1>c, <2>1 DEF Session
  <2> QED BY <1>5, <2>1, <2>2 DEF Session, Serial
<1>6. CASE accept_registers /\ port' = port
  <2>1. serial = "accepted" /\ serial' = "done" /\ UNCHANGED <<remote_desc, pc>>
    BY <1>6 DEF accept_registers
  <2>2. CASE remote_desc = INVALID_DESCRIPTOR
    <3>1. UNCHANGED <<file_handlers, proc>>
      BY <1>6, <2>2 DEF accept_registers, add_invalid_descriptor, handlerVars
    <3> QED BY <1>0, <1>a, <1>6, <2>1, <2>2, <3>1 DEF Session, Serial
  <2>3. CASE remote_desc # INVALID_DESCRIPTOR
    <3>1. remote_desc = ConnFd /\ add_file_handler(ConnFd, "serial")
      BY <1>6, <2>3 DEF accept_registers, Session
    <3>2. Registered' = Registered \cup {ConnFd} /\ proc' = [proc EXCEPT ![ConnFd] = "serial"]
      BY <1>0, <1>b, <3>1
    <3>3. ListenFd \notin Registered /\ Registered' = {ConnFd}
      BY <1>0, <3>1, <3>2 DEF Session
    <3> QED BY <1>0, <1>6, <2>1, <3>1, <3>2, <3>3 DEF Session, Serial
  <2> QED BY <2>2, <2>3
<1>7. CASE (readchar_fails \/ readchar_refills \/ readchar_buffered) /\ port' = port
  <2>1. /\ UNCHANGED <<file_handlers, proc, remote_desc, pc>>
        /\ serial \in {"called", "reading"} /\ serial' \in {"failed", "reading"}
    BY <1>7 DEF readchar_fails, readchar_refills, readchar_buffered, Reading,
                loopVars, handlerVars
  <2> QED BY <1>0, <1>a, <1>7, <2>1 DEF Session, Serial
<1>8. CASE remote_close /\ port' = port
  <2>1. /\ remote_desc = ConnFd /\ delete_file_handler(ConnFd) /\ pc' = pc
        /\ remote_desc' = INVALID_DESCRIPTOR /\ serial' = "closed"
    BY <1>8 DEF remote_close, Session
  <2>2. Registered' = {} /\ proc' = proc
    BY <1>0, <1>c, <2>1 DEF Session
  <2> QED BY <1>0, <1>8, <2>1, <2>2 DEF Session, Serial
<1>9. CASE proc_returns /\ port' = port
  <2>1. /\ UNCHANGED <<file_handlers, proc, remote_desc>> /\ serial' = "idle"
        /\ serial \in {"reading", "closed", "nothing", "done"}
        /\ pc' = "outside" => serial = "closed"
    BY <1>9 DEF proc_returns, Result, handler_returns, callback_returns, handlerVars
  <2> QED BY <1>0, <1>a, <1>9, <2>1 DEF Session, Serial
<1>10. CASE main_opens /\ port' = port
  <2>1. remote_desc = INVALID_DESCRIPTOR /\ pc' = "outside" /\ serial' = "opened"
    BY <1>10 DEF main_opens, Session
  <2>2. ASSUME opened(ConnFd), port # "port" PROVE Session'
    <3>1. add_file_handler(ConnFd, "serial") /\ remote_desc' = ConnFd
      BY <2>2 DEF opened
    <3>2. Registered' = Registered \cup {ConnFd} /\ proc' = [proc EXCEPT ![ConnFd] = "serial"]
      BY <1>0, <1>b, <3>1
    <3>3. Registered' = {ConnFd} /\ proc'[ConnFd] = "serial"
      BY <1>0, <2>2, <3>2 DEF Session
    <3> QED BY <1>0, <1>10, <2>1, <3>1, <3>3 DEF Session, Serial
  <2>3. CASE port = "stdio"
    BY <1>10, <2>2, <2>3 DEF main_opens, remote_open
  <2>4. CASE port = "device"
    <3>1. CASE opened(ConnFd)
      BY <2>2, <2>4, <3>1
    <3>2. CASE remote_desc' = INVALID_DESCRIPTOR /\ add_invalid_descriptor
      BY <1>0, <1>a, <1>10, <2>1, <3>2
      DEF Session, Serial, add_invalid_descriptor, handlerVars
    <3> QED BY <1>10, <2>4, <3>1, <3>2 DEF main_opens, remote_open
  <2>5. CASE port = "port"
    <3>1. add_file_handler(ListenFd, "accept") /\ remote_desc' = remote_desc
      BY <1>10, <2>5 DEF main_opens, remote_open
    <3>2. Registered' = Registered \cup {ListenFd} /\ proc' = [proc EXCEPT ![ListenFd] = "accept"]
      BY <1>0, <1>b, <3>1
    <3>3. Registered' = {ListenFd} /\ proc'[ListenFd] = "accept"
      BY <1>0, <2>1, <3>2 DEF Session
    <3> QED BY <1>0, <1>10, <2>1, <2>5, <3>1, <3>3 DEF Session, Serial
  <2> QED BY <2>3, <2>4, <2>5, RemoteAssumption
<1>11. CASE main_serves /\ port' = port
  <2>1. /\ UNCHANGED <<file_handlers, proc, remote_desc>>
        /\ pc' = "process_event" /\ serial = "opened" /\ serial' = "idle"
    BY <1>11 DEF main_serves, start_event_loop, handlerVars
  <2> QED BY <1>0, <1>a, <1>11, <2>1 DEF Session, Serial
<1>12. CASE PeerStep \/ Gone \/ UNCHANGED serverVars
  <2>1. UNCHANGED <<file_handlers, proc, port, remote_desc, serial, pc>>
    BY <1>12 DEF PeerStep, Gone, serverVars, loopVars, handlerVars, remoteVars
  <2> QED BY <1>a, <2>1 DEF Session
<1> QED BY <1>1, <1>2, <1>3, <1>4, <1>5, <1>6, <1>7, <1>8, <1>9, <1>10, <1>11, <1>12
        DEF RemoteNext, ServerStep, RemoteLoopStep, ProcStep


LEMMA BufferInit == RemoteInit => Buffer
  BY RemoteAssumption DEF RemoteInit, Buffer

\* One character less in the buffer: the rest is scheduled.
LEMMA TakeBuffer ==
  ASSUME NEW i \in 1 .. BufSize, NEW left \in 0 .. BufSize - 1, i + left <= BufSize,
         readchar_callback \in Ids \cup {NOT_SCHEDULED}, num_callbacks \in Ids,
         NoWrap, take_char(i, left), remote_desc' = ConnFd, pc' # "outside"
  PROVE  Buffer'
<1>0. BufSize \in Nat \ {0}
  BY RemoteAssumption
<1>1. readchar_bufp' = i + 1 /\ readchar_bufcnt' = left
  BY DEF take_char
<1>2. left > 0 => readchar_callback' # NOT_SCHEDULED
  BY <1>0 DEF take_char, reschedule, NoWrap
<1> QED BY <1>0, <1>1, <1>2 DEF Buffer

LEMMA BufferNext ==
  ASSUME NoWrap, CloseOnError = TRUE, NULL \notin Int,
         Client, port \in Names, Session, Buffer, [RemoteNext]_serverVars
  PROVE  Buffer'
<1>0. /\ Own /\ num_callbacks \in Ids /\ BufSize \in Nat \ {0}
      /\ ConnFd # INVALID_DESCRIPTOR
  BY RemoteAssumption, FdAssumption
  DEF Client, LoopInv, LoopTypeOK, CallbackTypeOK, INVALID_DESCRIPTOR
<1>1. CASE plain_step
  <2>1. UNCHANGED <<remote_desc, serial, readVars, readchar_callback>>
    BY <1>1 DEF plain_step, remoteVars
  <2>2. pc' = "outside" => readchar_bufcnt = 0
    <3>1. SUFFICES ASSUME no_sources PROVE readchar_bufcnt = 0
      BY <1>1 DEF plain_step, process_event_none, no_callback, select_fails,
                  scan_handler, scan_ends
    <3>2. serial = "idle" /\ pc' = "outside" /\ serial' = "idle"
      BY <1>0, <2>1, <3>1 DEF Own, no_sources
    <3>3. Session'
      BY SessionNext
    <3> QED BY <1>0, <2>1, <3>2, <3>3 DEF Buffer, Session
  <2> QED BY <2>1, <2>2 DEF Buffer, readVars
<1>2. CASE select_readable
  <2>1. UNCHANGED <<remote_desc, serial, readVars, readchar_callback>> /\ pc' = "scan"
    BY <1>2 DEF select_readable, select, remoteVars
  <2> QED BY <2>1 DEF Buffer, readVars
<1>3. CASE call_handler
  <2>1. UNCHANGED <<remote_desc, readVars, readchar_callback>> /\ serial = "idle"
        /\ pc' # "outside"
    BY <1>0, <1>3 DEF call_handler, handle_file_event, Own
  <2> QED BY <2>1 DEF Buffer, readVars
<1>4. CASE process_remaining
  <2>1. UNCHANGED <<remote_desc, readVars>> /\ serial = "idle" /\ pc' = "callback"
        /\ serial' = IF readchar_bufcnt > 0 THEN "called" ELSE "nothing"
    BY <1>0, <1>4 DEF process_remaining, run_callback, Own
  <2> QED BY <2>1 DEF Buffer, readVars
<1>5. CASE accept \/ accept_registers
  <2>1. UNCHANGED <<readVars, readchar_callback, pc>> /\ pc # "outside"
        /\ serial \in {"accepting", "accepted"} /\ serial' \in {"accepted", "done"}
    BY <1>0, <1>5 DEF accept, accept_registers, Own
  <2>2. remote_desc = INVALID_DESCRIPTOR \/ remote_desc' = remote_desc
    BY <1>5 DEF accept, accept_registers, Session
  <2> QED BY <1>0, <2>1, <2>2 DEF Buffer, readVars
<1>6. CASE readchar_fails
  <2>1. UNCHANGED <<readchar_bufp, remote_desc, pc>> /\ pc # "outside"
        /\ serial' = "failed" /\ readchar_bufcnt' \in {0, -1} /\ remote_desc = ConnFd
    BY <1>0, <1>6 DEF readchar_fails, Reading, loopVars, Own, Session
  <2>2. readchar_bufcnt' \in -1 .. BufSize - 1 /\ ~(readchar_bufcnt' > 0)
    BY <1>0, <2>1
  <2> QED BY <2>1, <2>2 DEF Buffer
<1>7. CASE readchar_refills
  <2>1. remote_desc' = ConnFd /\ pc' # "outside"
    BY <1>0, <1>7 DEF readchar_refills, Reading, Own, Session
  <2>2. PICK n \in ReadCounts : take_char(1, n - 1)
    BY <1>7 DEF readchar_refills
  <2>3. n - 1 \in 0 .. BufSize - 1 /\ 1 + (n - 1) <= BufSize /\ 1 \in 1 .. BufSize
    BY <1>0 DEF ReadCounts
  <2> QED BY <1>0, <2>1, <2>2, <2>3, TakeBuffer DEF Own
<1>8. CASE readchar_buffered
  <2>1. remote_desc' = ConnFd /\ pc' # "outside" /\ serial \in {"called", "reading"}
    BY <1>0, <1>8 DEF readchar_buffered, Reading, Own, Session
  <2>2. readchar_bufcnt \in 1 .. BufSize - 1 /\ readchar_bufp \in 2 .. BufSize + 1
        /\ readchar_bufp + readchar_bufcnt <= BufSize + 1 /\ readchar_bufp # NULL
    BY <1>0, <1>8, <2>1 DEF readchar_buffered, Buffer
  <2>3. take_char(readchar_bufp, readchar_bufcnt - 1)
    BY <1>8, <2>2 DEF readchar_buffered
  <2>4. readchar_bufp \in 1 .. BufSize /\ readchar_bufcnt - 1 \in 0 .. BufSize - 1
        /\ readchar_bufp + (readchar_bufcnt - 1) <= BufSize
    BY <1>0, <2>2
  <2> QED BY <1>0, <2>1, <2>3, <2>4, TakeBuffer DEF Own
<1>9. CASE remote_close
  <2>1. readchar_bufcnt' = 0 /\ readchar_bufp' = readchar_bufp
    BY <1>9 DEF remote_close, ResetCount
  <2> QED BY <1>0, <2>1 DEF Buffer
<1>10. CASE proc_returns
  <2>1. /\ UNCHANGED <<remote_desc, readVars, readchar_callback>> /\ serial' = "idle"
        /\ serial \in {"reading", "closed", "nothing", "done"}
        /\ pc' = "outside" => serial = "closed"
    BY <1>10 DEF proc_returns, Result, handler_returns, callback_returns
  <2>2. pc' = "outside" => readchar_bufcnt = 0
    BY <1>0, <2>1 DEF Buffer, Session
  <2> QED BY <2>1, <2>2 DEF Buffer, readVars
<1>11. CASE main_opens \/ main_serves
  <2>1. readchar_bufcnt = 0 /\ UNCHANGED <<readVars>>
    BY <1>0, <1>11 DEF main_opens, main_serves, start_event_loop, Buffer
  <2> QED BY <1>0, <2>1 DEF Buffer, readVars
<1>12. CASE PeerStep \/ Gone \/ UNCHANGED serverVars
  <2>1. UNCHANGED <<readVars, readchar_callback, remote_desc, serial, pc>>
    BY <1>12 DEF PeerStep, Gone, serverVars, loopVars, remoteVars
  <2> QED BY <2>1 DEF Buffer, readVars
<1> QED BY <1>1, <1>2, <1>3, <1>4, <1>5, <1>6, <1>7, <1>8, <1>9, <1>10, <1>11, <1>12
        DEF RemoteNext, ServerStep, RemoteLoopStep, ProcStep


LEMMA StreamInit == RemoteInit => Stream
<1> SUFFICES ASSUME RemoteInit PROVE Stream
  OBVIOUS
<1>1. readchar_buf \in [1 .. BufSize -> Cell]
  BY DEF RemoteInit, Cell
<1>2. chars = <<>> /\ readchar_bufcnt = 0 /\ start = 0 /\ taken = 0 /\ sent = 0
  BY DEF RemoteInit
<1>3. conn \in {0, 1} /\ backlog = 0 /\ (port # "port" => conn = 1)
  BY DEF RemoteInit
<1>4. remote_desc # ConnFd
  BY RemoteAssumption, FdAssumption DEF RemoteInit, INVALID_DESCRIPTOR
<1>5. StreamIntact
  BY <1>2 DEF StreamIntact, NextCharFromRemote, NoCharLost
<1>6. aborted \in BOOLEAN /\ peer \in {"none", "open", "closed"}
  BY DEF RemoteInit
<1> QED BY <1>1, <1>2, <1>3, <1>4, <1>5, <1>6, RemoteAssumption DEF Stream

\* Nothing but the number of characters the other side has sent changes.
LEMMA SameStream ==
  ASSUME Stream, UNCHANGED <<readVars, conn, taken, start, chars>>,
         remote_desc' = remote_desc \/ remote_desc' = INVALID_DESCRIPTOR,
         port' = port, aborted' \in BOOLEAN,
         peer' \in {"none", "open", "closed"},
         backlog' \in Nat, conn + backlog' <= MaxConn,
         sent' \in 0 .. MaxBytes, sent <= sent'
  PROVE  Stream'
<1>1. ConnFd # INVALID_DESCRIPTOR /\ MaxBytes \in Nat
  BY RemoteAssumption, FdAssumption DEF INVALID_DESCRIPTOR
<1>2. StreamIntact'
  <2>1. NextCharFromRemote'
    BY DEF Stream, StreamIntact, NextCharFromRemote
  <2>2. NoCharLost'
    BY DEF Stream, StreamIntact, NoCharLost, readVars
  <2> QED BY <2>1, <2>2 DEF StreamIntact
<1>3. taken' \in 0 .. sent'
  BY <1>1 DEF Stream
<1> QED BY <1>1, <1>2, <1>3 DEF Stream, readVars

\* A new session starts with an empty buffer.
LEMMA NewStream ==
  ASSUME Stream, UNCHANGED readVars, readchar_bufcnt = 0,
         port' = port, aborted' \in BOOLEAN, peer' \in {"none", "open", "closed"},
         conn' \in Nat \ {0}, backlog' \in Nat, conn' + backlog' <= MaxConn,
         sent' \in 0 .. MaxBytes, taken' \in 0 .. sent', start' = taken', chars' = <<>>
  PROVE  Stream'
<1>1. StreamIntact'
  <2>1. start' \in Nat /\ Len(chars') = 0 /\ readchar_bufcnt' = 0
    BY DEF readVars
  <2>2. start' + Len(chars') + readchar_bufcnt' = taken'
    <3>1. start' = taken'
      OBVIOUS
    <3>2. \A n \in Nat : n + 0 + 0 = n
      OBVIOUS
    <3> QED BY <2>1, <3>1, <3>2
  <2>3. NextCharFromRemote'
    BY <2>1 DEF NextCharFromRemote
  <2>4. NoCharLost'
    BY <2>2 DEF NoCharLost
  <2> QED BY <2>3, <2>4 DEF StreamIntact
<1> QED BY <1>1 DEF Stream, readVars

\* readchar returns the character at position i: the one that was taken
\* after those it has returned before.
LEMMA TakeStream ==
  ASSUME Stream, NEW i \in 1 .. BufSize, NEW left \in 0 .. BufSize - 1,
         i + left <= BufSize, take_char(i, left),
         UNCHANGED <<port, remote_desc, netVars, start, aborted>>,
         taken' \in 0 .. sent, taken <= taken',
         readchar_buf' \in [1 .. BufSize -> Cell],
         \A k \in 0 .. left : readchar_buf'[i + k] = <<conn, taken' - left + k>>,
         start + Len(chars) + left + 1 = taken'
  PROVE  Stream'
<1>0. /\ BufSize \in Nat \ {0} /\ chars \in Seq(Cell) /\ Len(chars) \in Nat
      /\ start \in Nat /\ taken \in Nat /\ taken' \in Nat /\ left \in Nat /\ i \in Nat
      /\ start <= taken'
  BY RemoteAssumption DEF Stream
<1>1. /\ readchar_bufp' = i + 1 /\ readchar_bufcnt' = left
      /\ chars' = Append(chars, readchar_buf'[i])
  BY DEF take_char
<1>2. readchar_buf'[i] = <<conn, start + Len(chars) + 1>>
  BY <1>0
<1>3. readchar_buf'[i] \in Cell
  OBVIOUS
<1>4. chars' \in Seq(Cell) /\ Len(chars') = Len(chars) + 1
  BY <1>0, <1>1, <1>3
<1>5. NextCharFromRemote'
  <2>1. \A k \in 1 .. Len(chars) : chars[k] = <<conn, start + k>>
    BY DEF Stream, StreamIntact, NextCharFromRemote
  <2>2. ASSUME NEW k \in 1 .. Len(chars') PROVE chars'[k] = <<conn, start + k>>
    <3>1. CASE k = Len(chars) + 1
      <4>1. chars'[k] = readchar_buf'[i]
        BY <1>0, <1>1, <3>1
      <4> QED BY <1>0, <1>2, <3>1, <4>1
    <3>2. CASE k \in 1 .. Len(chars)
      BY <1>0, <1>1, <2>1, <3>2
    <3> QED BY <1>0, <1>4, <3>1, <3>2
  <2>3. conn' = conn /\ start' = start
    BY DEF netVars
  <2> QED BY <2>2, <2>3 DEF NextCharFromRemote
<1>6. NoCharLost'
  BY <1>0, <1>1, <1>4 DEF NoCharLost
<1>7. \A k \in 1 .. readchar_bufcnt' :
        readchar_buf'[readchar_bufp' + k - 1] = <<conn, taken' - readchar_bufcnt' + k>>
  <2> SUFFICES ASSUME NEW k \in 1 .. left
               PROVE  readchar_buf'[(i + 1) + k - 1] = <<conn, taken' - left + k>>
    BY <1>1
  <2>1. k \in 0 .. left /\ (i + 1) + k - 1 = i + k
    BY <1>0
  <2> QED BY <2>1
<1>8. UNCHANGED <<port, remote_desc, backlog, conn, peer, sent, start, aborted>>
  BY DEF netVars
<1>9. start' \in 0 .. taken' /\ taken' \in 0 .. sent'
  BY <1>0, <1>8
<1> HIDE DEF NextCharFromRemote, NoCharLost
<1> QED BY <1>4, <1>5, <1>6, <1>7, <1>8, <1>9 DEF Stream, StreamIntact


LEMMA StreamNext ==
  ASSUME CloseOnError = TRUE, NULL \notin Int, port \in Names,
         Client, Session, Buffer, Stream, [RemoteNext]_serverVars
  PROVE  Stream'
<1>0. /\ BufSize \in Nat \ {0} /\ MaxConn \in Nat \ {0} /\ MaxBytes \in Nat
      /\ ConnFd # INVALID_DESCRIPTOR
  BY RemoteAssumption, FdAssumption DEF INVALID_DESCRIPTOR
<1>a. /\ backlog \in Nat /\ conn \in Nat /\ conn + backlog <= MaxConn
      /\ peer \in {"none", "open", "closed"} /\ aborted \in BOOLEAN
      /\ sent \in 0 .. MaxBytes /\ taken \in 0 .. sent /\ start \in 0 .. taken
      /\ sent \in Nat /\ taken \in Nat /\ start \in Nat
  BY <1>0 DEF Stream
<1>1. CASE RemoteLoopStep /\ port' = port
  <2>1. UNCHANGED <<remote_desc, readVars, netVars, taken, start, chars, aborted>>
    BY <1>1 DEF RemoteLoopStep, plain_step, select_readable, call_handler,
                process_remaining, remoteVars
  <2> QED BY <1>a, <1>1, <2>1, SameStream DEF netVars
<1>2. CASE accept /\ port' = port
  <2>1. remote_desc = INVALID_DESCRIPTOR /\ readchar_bufcnt = 0
        /\ UNCHANGED <<readVars, aborted>> /\ backlog > 0
    BY <1>0, <1>2 DEF accept, Session, Buffer
  <2>2. CASE UNCHANGED <<netVars, taken, start, chars>> /\ remote_desc' = INVALID_DESCRIPTOR
    BY <1>a, <1>2, <2>1, <2>2, SameStream DEF netVars
  <2>3. CASE /\ conn' = conn + 1 /\ backlog' = backlog - 1 /\ peer' = "open"
             /\ sent' = 0 /\ taken' = 0 /\ start' = 0 /\ chars' = <<>>
    <3>1. conn' \in Nat \ {0} /\ backlog' \in Nat /\ conn' + backlog' <= MaxConn
      BY <1>0, <1>a, <2>1, <2>3
    <3>2. sent' \in 0 .. MaxBytes /\ taken' \in 0 .. sent' /\ aborted' \in BOOLEAN
      BY <1>0, <1>a, <2>1, <2>3
    <3> QED BY <1>2, <2>1, <2>3, <3>1, <3>2, NewStream
  <2> QED BY <1>2, <2>2, <2>3 DEF accept
<1>3. CASE accept_registers /\ port' = port
  <2>1. UNCHANGED <<remote_desc, readVars, netVars, taken, start, chars>>
        /\ aborted' \in BOOLEAN
    BY <1>a, <1>3 DEF accept_registers, add_invalid_descriptor
  <2> QED BY <1>a, <1>3, <2>1, SameStream DEF netVars
<1>4. CASE readchar_fails /\ port' = port
  <2>1. /\ UNCHANGED <<remote_desc, readchar_buf, readchar_bufp, netVars, taken, start,
                       chars, aborted>>
        /\ readchar_bufcnt = 0 /\ readchar_bufcnt' \in {0, -1}
    BY <1>4 DEF readchar_fails
  <2>2. StreamIntact'
    BY <2>1 DEF Stream, StreamIntact, NextCharFromRemote, NoCharLost, netVars
  <2>3. 1 .. readchar_bufcnt' = {}
    BY <2>1
  <2> HIDE DEF StreamIntact
  <2> QED BY <1>a, <1>4, <2>1, <2>2, <2>3 DEF Stream, netVars
<1>5. CASE readchar_refills /\ port' = port
  <2>1. PICK n \in ReadCounts :
          /\ readchar_buf' = [i \in 1 .. BufSize |-> IF i <= n THEN <<conn, taken + i>>
                                                     ELSE readchar_buf[i]]
          /\ taken' = taken + n
          /\ take_char(1, n - 1)
    BY <1>5 DEF readchar_refills
  <2>2. /\ UNCHANGED <<port, remote_desc, netVars, start, aborted>>
        /\ readchar_bufcnt = 0 /\ remote_desc = ConnFd
    BY <1>5 DEF readchar_refills, Reading, Session
  <2>3. n \in 1 .. BufSize /\ n <= sent - taken /\ n \in Nat
    BY <1>0 DEF ReadCounts
  <2>4. taken' \in 0 .. sent /\ taken <= taken'
    BY <1>a, <2>1, <2>3
  <2>5. readchar_buf' \in [1 .. BufSize -> Cell]
    <3>1. ASSUME NEW i \in 1 .. BufSize, i <= n PROVE <<conn, taken + i>> \in Cell
      <4>1. conn \in 1 .. MaxConn
        BY <1>0, <1>a, <2>2 DEF Stream
      <4>2. taken + i \in 1 .. MaxBytes
        BY <1>0, <1>a, <2>3, <3>1
      <4> QED BY <4>1, <4>2 DEF Cell
    <3>2. \A i \in 1 .. BufSize : readchar_buf[i] \in Cell
      BY DEF Stream
    <3> QED BY <2>1, <3>1, <3>2
  <2>6. \A k \in 0 .. n - 1 : readchar_buf'[1 + k] = <<conn, taken' - (n - 1) + k>>
    <3> SUFFICES ASSUME NEW k \in 0 .. n - 1
                 PROVE  readchar_buf'[1 + k] = <<conn, taken' - (n - 1) + k>>
      OBVIOUS
    <3>1. 1 + k \in 1 .. BufSize /\ 1 + k <= n
      BY <1>0, <2>3
    <3>2. readchar_buf'[1 + k] = <<conn, taken + (1 + k)>>
      BY <2>1, <3>1
    <3>3. taken + (1 + k) = taken' - (n - 1) + k
      BY <1>a, <2>1, <2>3
    <3> QED BY <3>2, <3>3
  <2>7. start + Len(chars) + (n - 1) + 1 = taken'
    <3>1. start + Len(chars) = taken /\ Len(chars) \in Nat
      BY <1>0, <1>a, <2>2 DEF Stream, StreamIntact, NoCharLost
    <3> QED BY <1>a, <2>1, <2>3, <3>1
  <2>8. n - 1 \in 0 .. BufSize - 1 /\ 1 + (n - 1) <= BufSize /\ 1 \in 1 .. BufSize
    BY <1>0, <2>3
  <2> QED BY <2>1, <2>2, <2>4, <2>5, <2>6, <2>7, <2>8, TakeStream
<1>6. CASE readchar_buffered /\ port' = port
  <2>1. /\ readchar_bufcnt \in 1 .. BufSize - 1 /\ readchar_bufp \in 2 .. BufSize + 1
        /\ readchar_bufp + readchar_bufcnt <= BufSize + 1 /\ readchar_bufp # NULL
        /\ remote_desc = ConnFd
    BY <1>0, <1>6 DEF readchar_buffered, Reading, Buffer, Session
  <2> DEFINE i == readchar_bufp  left == readchar_bufcnt - 1
  <2>2. /\ take_char(i, left)
        /\ UNCHANGED <<port, remote_desc, netVars, start, aborted, readchar_buf, taken>>
    BY <1>6, <2>1 DEF readchar_buffered
  <2>3. i \in 1 .. BufSize /\ left \in 0 .. BufSize - 1 /\ i + left <= BufSize
    BY <1>0, <2>1
  <2>4. \A k \in 0 .. left : readchar_buf'[i + k] = <<conn, taken' - left + k>>
    <3> SUFFICES ASSUME NEW k \in 0 .. left
                 PROVE  readchar_buf[i + k] = <<conn, taken - left + k>>
      BY <2>2
    <3>1. k + 1 \in 1 .. readchar_bufcnt /\ readchar_bufp + (k + 1) - 1 = i + k
          /\ taken - readchar_bufcnt + (k + 1) = taken - left + k
      BY <1>0, <1>a, <2>1
    <3>2. readchar_buf[readchar_bufp + (k + 1) - 1]
            = <<conn, taken - readchar_bufcnt + (k + 1)>>
      BY <3>1 DEF Stream
    <3> QED BY <3>1, <3>2
  <2>5. start + Len(chars) + left + 1 = taken'
    <3>1. start + Len(chars) + readchar_bufcnt = taken /\ Len(chars) \in Nat
      BY <1>0, <1>a, <2>1 DEF Stream, StreamIntact, NoCharLost
    <3> QED BY <1>0, <1>a, <2>1, <2>2, <3>1
  <2>6. readchar_buf' \in [1 .. BufSize -> Cell] /\ taken' \in 0 .. sent /\ taken <= taken'
    BY <1>a, <2>2 DEF Stream
  <2> HIDE DEF i, left
  <2> QED BY <2>2, <2>3, <2>4, <2>5, <2>6, TakeStream
<1>7. CASE remote_close /\ port' = port
  <2>1. /\ UNCHANGED <<readchar_buf, readchar_bufp, backlog, conn, sent, start, chars, aborted>>
        /\ readchar_bufcnt' = 0 /\ remote_desc' = INVALID_DESCRIPTOR
        /\ peer' \in {"none", peer}
        /\ taken' \in taken .. sent
    BY <1>a, <1>7 DEF remote_close, ResetCount
  <2>2. StreamIntact'
    BY <2>1 DEF Stream, StreamIntact, NextCharFromRemote, NoCharLost
  <2>3. 1 .. readchar_bufcnt' = {}
    BY <2>1
  <2>4. taken' \in 0 .. sent' /\ start' \in 0 .. taken' /\ remote_desc' # ConnFd
    BY <1>0, <1>a, <2>1
  <2> HIDE DEF StreamIntact
  <2> QED BY <1>a, <1>7, <2>1, <2>2, <2>3, <2>4 DEF Stream
<1>8. CASE proc_returns /\ port' = port
  <2>1. UNCHANGED <<remote_desc, readVars, netVars, taken, start, chars, aborted>>
    BY <1>8 DEF proc_returns
  <2> QED BY <1>a, <1>8, <2>1, SameStream DEF netVars
<1>9. CASE main_opens /\ port' = port
  <2>1. readchar_bufcnt = 0 /\ UNCHANGED <<readVars, netVars, taken>>
        /\ remote_desc = INVALID_DESCRIPTOR
    BY <1>0, <1>9 DEF main_opens, Buffer, Session
  <2>2. ASSUME opened(ConnFd), port # "port" PROVE Stream'
    <3>1. conn' \in Nat \ {0} /\ start' = taken' /\ chars' = <<>> /\ aborted' = aborted
      BY <1>a, <2>1, <2>2 DEF opened, Stream, netVars
    <3> QED BY <1>a, <1>9, <2>1, <3>1, NewStream DEF netVars
  <2>3. CASE UNCHANGED <<start, chars>> /\ remote_desc' = INVALID_DESCRIPTOR
             /\ aborted' \in BOOLEAN
    BY <1>a, <1>9, <2>1, <2>3, SameStream DEF netVars
  <2>4. remote_open
    BY <1>9 DEF main_opens
  <2>5. CASE port = "stdio"
    BY <2>2, <2>4, <2>5 DEF remote_open
  <2>6. CASE port = "device"
    BY <2>2, <2>3, <2>4, <2>6 DEF remote_open, add_invalid_descriptor
  <2>7. CASE port = "port"
    BY <1>a, <2>1, <2>3, <2>4, <2>7 DEF remote_open
  <2> QED BY <2>5, <2>6, <2>7, RemoteAssumption
<1>10. CASE main_serves /\ port' = port
  <2>1. UNCHANGED <<remote_desc, readVars, netVars, taken, start, chars, aborted>>
    BY <1>10 DEF main_serves
  <2> QED BY <1>a, <1>10, <2>1, SameStream DEF netVars
<1>11. CASE PeerStep
  <2>1. UNCHANGED <<port, remote_desc, readVars, conn, taken, start, chars, aborted>>
    BY <1>11 DEF PeerStep, peer_connects, peer_sends, peer_closes
  <2>2. /\ peer' \in {"none", "open", "closed"} /\ backlog' \in Nat
        /\ conn + backlog' <= MaxConn /\ sent' \in 0 .. MaxBytes /\ sent <= sent'
    BY <1>0, <1>a, <1>11 DEF PeerStep, peer_connects, peer_sends, peer_closes
  <2> QED BY <1>a, <2>1, <2>2, SameStream
<1>12. CASE Gone \/ UNCHANGED serverVars
  <2>1. UNCHANGED <<port, remote_desc, readVars, netVars, taken, start, chars, aborted>>
    BY <1>12 DEF Gone, serverVars, remoteVars
  <2> QED BY <1>a, <2>1, SameStream DEF netVars
<1> QED BY <1>1, <1>2, <1>3, <1>4, <1>5, <1>6, <1>7, <1>8, <1>9, <1>10, <1>11, <1>12
        DEF RemoteNext, ServerStep, ProcStep


-----------------------------------------------------------------------------

ServerInv == Client /\ port \in Names /\ Session /\ Buffer /\ Stream

LEMMA ServerAlways ==
  ASSUME NoWrap, CloseOnError = TRUE, NULL \notin Int
  PROVE  RemoteSpec => []ServerInv
<1>1. RemoteInit => ServerInv
  BY ClientInit, SessionInit, BufferInit, StreamInit DEF RemoteInit, ServerInv
<1>2. ServerInv /\ [RemoteNext]_serverVars => ServerInv'
  BY ClientNext, SessionNext, BufferNext, StreamNext DEF ServerInv
<1> QED BY <1>1, <1>2, PTL DEF RemoteSpec

(* readchar hands out the characters of the session it is called in, whole *)
(* and in order, for every size of the buffer (remote.c:349, BUFSIZ) and   *)
(* any number of connections and characters: a caller that closes when it  *)
(* is told of an error meets nothing stale, whatever accept and read do.   *)
THEOREM RemoteStreamIntact ==
  ASSUME NoWrap, CloseOnError = TRUE, NULL \notin Int
  PROVE  RemoteSpec => []StreamIntact
<1>1. ServerInv => StreamIntact
  BY DEF ServerInv, Stream
<1> QED BY <1>1, ServerAlways, PTL

(* The callback, the buffer and the registered descriptor agree: the loop  *)
(* never sleeps while characters are in the buffer, and the server listens *)
(* or is connected, never both (remote.c 29, 82 and 382).                  *)
THEOREM RemoteState ==
  ASSUME DeleteLast = FALSE, NoWrap, CloseOnError = TRUE, NULL \notin Int
  PROVE  RemoteSpec => []RemoteStateOK
<1>1. RemoteSpec => []SleepsOnlyWhenIdle
  BY RemoteIsLoopClient, LoopSleepsOnlyWhenIdle DEF IsLoopClient, LoopSpec
<1>2. ServerInv => CallbackStatus /\ readchar_callback \in Ids \cup {NOT_SCHEDULED}
  BY DEF ServerInv, Client, Own
<1>3. ServerInv => OneConnection
  BY RemoteAssumption, FdAssumption
  DEF ServerInv, Session, OneConnection, INVALID_DESCRIPTOR
<1>4. ServerInv /\ SleepsOnlyWhenIdle => NoSleepOnBuffered
  <2> SUFFICES ASSUME ServerInv, SleepsOnlyWhenIdle, pc \in {"wait_for_event", "outside"},
                      ~ (readchar_bufcnt <= 0)
               PROVE  FALSE
    BY DEF NoSleepOnBuffered
  <2>1. readchar_bufcnt \in Int
    BY RemoteAssumption DEF ServerInv, Buffer
  <2>2. readchar_bufcnt > 0 /\ readchar_bufcnt # 0
    BY <2>1
  <2>3. pc = "wait_for_event"
    BY <2>2 DEF ServerInv, Buffer
  <2>4. readchar_callback = NOT_SCHEDULED
    BY <1>2, <2>3 DEF SleepsOnlyWhenIdle, CallbackStatus
  <2>5. serial = "idle"
    BY <2>3 DEF ServerInv, Client, Own
  <2> QED BY <2>2, <2>4, <2>5 DEF ServerInv, Buffer
<1>5. ServerInv => RemoteTypeOK
  <2> SUFFICES ASSUME ServerInv PROVE RemoteTypeOK
    OBVIOUS
  <2>1. LoopTypeOK
    BY DEF ServerInv, Client, LoopInv
  <2>2. remote_desc \in Fd \cup {INVALID_DESCRIPTOR}
    BY RemoteAssumption DEF ServerInv, Session
  <2>3. backlog \in 0 .. MaxConn /\ conn \in 0 .. MaxConn
    BY RemoteAssumption DEF ServerInv, Stream
  <2> QED BY <1>2, <2>1, <2>2, <2>3
          DEF ServerInv, Session, Serial, Buffer, Stream, Cell, RemoteTypeOK
<1>6. ServerInv /\ SleepsOnlyWhenIdle => RemoteStateOK
  BY <1>2, <1>3, <1>4, <1>5 DEF RemoteStateOK
<1> QED BY <1>1, <1>6, ServerAlways, PTL


=============================================================================
