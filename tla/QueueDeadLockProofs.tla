------------------------ MODULE QueueDeadLockProofs ------------------------
(***************************************************************************)
(* Two small programs of code_collect.                                     *)
(*                                                                         *)
(* queue.h for any set of addresses and values, when OPERATE removes the   *)
(* tail only if it is alone: every element that is allocated is on the     *)
(* walk from head, so that nothing freed is met and nothing is left        *)
(* behind, and an iteration goes past every element it started with.       *)
(*                                                                         *)
(* pthread_dead_lock.c: until the operator unlocks a mutex each mutex has  *)
(* one holder; when one is unlocked under its holder, both players stand   *)
(* at their second lock, and from then on the one that was let in runs to  *)
(* its end before the other, the victim, takes a step.                     *)
(***************************************************************************)
EXTENDS MCQueue, DeadLock, Iteration, TLAPS

-----------------------------------------------------------------------------
(* What a walk meets that starts at h and follows n: the least set of      *)
(* elements that holds h and is closed under n.                            *)

Closed(S, h, n) ==
  /\ h \in Elem => h \in S
  /\ \A d \in S : n[d] \in Elem => n[d] \in S

Reach(h, n) == {e \in Elem : \A S \in SUBSET Elem : Closed(S, h, n) => e \in S}

LEMMA ChainIsReach == Chain = Reach(head, next)
  BY DEF Chain, Reach, Closed

LEMMA NextChainIsReach == Chain' = Reach(head', next')
  BY DEF Chain, Reach, Closed

LEMMA ReachClosed ==
  ASSUME NEW h, NEW n
  PROVE  Reach(h, n) \in SUBSET Elem /\ Closed(Reach(h, n), h, n)
  BY DEF Reach, Closed

LEMMA ReachLeast ==
  ASSUME NEW h, NEW n, NEW S \in SUBSET Elem, Closed(S, h, n)
  PROVE  Reach(h, n) \subseteq S
  BY DEF Reach

LEMMA ReachEmpty ==
  ASSUME NEW h, NEW n, h \notin Elem PROVE Reach(h, n) = {}
<1>1. Closed({}, h, n)
  BY DEF Closed
<1> QED BY <1>1, ReachLeast

\* The walk from h is h and the walk from its successor.
LEMMA ReachStep ==
  ASSUME NEW h, NEW n
  PROVE  Reach(h, n) \subseteq {h} \cup Reach(n[h], n)
<1>1. CASE h \in Elem
  <2> DEFINE S == {h} \cup Reach(n[h], n)
  <2>1. S \in SUBSET Elem /\ Closed(S, h, n)
    BY <1>1, ReachClosed DEF Closed
  <2> QED BY <2>1, ReachLeast
<1>2. CASE h \notin Elem
  BY <1>2, ReachEmpty
<1> QED BY <1>1, <1>2

\* What is met after the start has a predecessor other than itself.
LEMMA ReachPredecessor ==
  ASSUME NEW h, NEW n, NEW x \in Reach(h, n), x # h
  PROVE  \E p \in Reach(h, n) : p # x /\ n[p] = x
<1>1. SUFFICES ASSUME \A p \in Reach(h, n) : p # x => n[p] # x PROVE FALSE
  OBVIOUS
<1> DEFINE S == Reach(h, n) \ {x}
<1>2. S \in SUBSET Elem /\ Closed(S, h, n)
  BY <1>1, ReachClosed DEF Closed
<1>3. Reach(h, n) \subseteq S
  BY <1>2, ReachLeast
<1> QED BY <1>3

-----------------------------------------------------------------------------
(* The inductive invariant.  Shape: the live elements are those on the     *)
(* walk, and form a line that ends at tail.  Visit: where the iteration    *)
(* is, and that what it has still to visit is ahead of it.                 *)

Shape ==
  /\ Chain = live
  /\ head = NULL <=> tail = NULL
  /\ tail # NULL => tail \in live /\ next[tail] = NULL
  /\ \A e \in live : next[e] = NULL => e = tail
  /\ \A e \in live : next[e] # head
  /\ \A e, g \in live : next[e] = next[g] /\ next[e] # NULL => e = g

\* The element prev is in front of: the one OPERATE is called with, or the
\* one after it when it has been removed.
Target == IF iter.p # NULL THEN iter.p ELSE iter.next

Visit ==
  iter.on =>
    /\ iter.next \in live \cup {NULL}
    /\ iter.p # NULL => iter.p \in live /\ iter.next \in {next[iter.p], NULL}
    /\ Target # NULL => IF iter.prev = NULL THEN Target = head
                        ELSE iter.prev \in live /\ next[iter.prev] = Target
    /\ todo \subseteq Reach(iter.next, next)

QueueInv == QueueTypeOK /\ Shape /\ Visit /\ FreeLeaksNothing

LEMMA QueueInvInit == QueueInit => QueueInv
<1> SUFFICES ASSUME QueueInit PROVE QueueInv
  OBVIOUS
<1>1. Chain = {}
  BY QueueAssumption, ChainIsReach, ReachEmpty DEF QueueInit
<1>2. QueueTypeOK
  BY DEF QueueInit, QueueTypeOK, Idle
<1> QED BY <1>1, <1>2 DEF QueueInit, QueueInv, Shape, Visit, FreeLeaksNothing, Idle

\* The walk stays among what is live, and its pointers are elements or NULL.
LEMMA LiveFacts ==
  ASSUME QueueTypeOK, Shape
  PROVE  /\ live \subseteq Elem /\ head \in live \cup {NULL} /\ NULL \notin Elem
         /\ \A e \in live : next[e] \in live \cup {NULL}
         /\ Closed(live, head, next)
         /\ \A e \in live : next[e] # e
<1>1. live = Reach(head, next) /\ Closed(live, head, next) /\ NULL \notin Elem
  BY ChainIsReach, ReachClosed, QueueAssumption DEF Shape
<1>2. live \subseteq Elem
  BY DEF QueueTypeOK
<1>3. \A e \in live : next[e] \in Elem \cup {NULL}
  BY <1>2 DEF QueueTypeOK
<1>4. head \in live \cup {NULL} /\ \A e \in live : next[e] \in live \cup {NULL}
  BY <1>1, <1>3 DEF Closed, QueueTypeOK
<1>5. ASSUME NEW e \in live, next[e] = e PROVE FALSE
  <2>1. e # head /\ e # NULL
    BY <1>1, <1>2, <1>5 DEF Shape
  <2>2. PICK q \in live : q # e /\ next[q] = e
    BY <1>1, <2>1, ReachPredecessor
  <2> QED BY <1>5, <2>1, <2>2 DEF Shape
<1> QED BY <1>1, <1>2, <1>4, <1>5

\* The walk from the successor of an element does not come back to it.
LEMMA NoCycle ==
  ASSUME QueueTypeOK, Shape, NEW p \in live
  PROVE  p \notin Reach(next[p], next)
<1> DEFINE R == Reach(next[p], next)
           S == live \ R
<1>1. SUFFICES ASSUME p \in R PROVE FALSE
  OBVIOUS
<1>0. /\ live \subseteq Elem /\ NULL \notin Elem /\ Closed(live, head, next)
      /\ \A e \in live : next[e] \in live \cup {NULL}
      /\ live = Reach(head, next)
  BY LiveFacts, ChainIsReach DEF Shape
<1>2. next[p] \in live
  BY <1>0, <1>1, ReachEmpty
<1>3. R \subseteq live
  <2>1. Closed(live, next[p], next)
    BY <1>0, <1>2 DEF Closed
  <2> QED BY <1>0, <2>1, ReachLeast
<1>4. next[p] \in R
  BY <1>0, <1>2, ReachClosed DEF Closed
<1>5. head \notin R
  <2> SUFFICES ASSUME head \in R PROVE FALSE
    OBVIOUS
  <2>1. head # next[p]
    BY DEF Shape
  <2>2. PICK q \in R : next[q] = head
    BY <2>1, ReachPredecessor
  <2> QED BY <1>3, <2>2 DEF Shape
<1>6. ASSUME NEW d \in S, next[d] \in Elem PROVE next[d] \in S
  <2>1. next[d] \in live
    BY <1>0, <1>6
  <2>2. SUFFICES ASSUME next[d] \in R PROVE FALSE
    BY <2>1
  <2>3. CASE next[d] = next[p]
    BY <1>0, <1>1, <1>2, <2>3 DEF Shape
  <2>4. CASE next[d] # next[p]
    <3>1. PICK q \in R : next[q] = next[d]
      BY <2>2, <2>4, ReachPredecessor
    <3>2. q = d
      BY <1>0, <1>3, <2>1, <3>1 DEF Shape
    <3> QED BY <3>1, <3>2
  <2> QED BY <2>3, <2>4
<1>7. Closed(S, head, next)
  BY <1>0, <1>5, <1>6 DEF Closed
<1>8. live \subseteq S
  BY <1>0, <1>7, ReachLeast
<1> QED BY <1>2, <1>4, <1>8

-----------------------------------------------------------------------------
(* queue_enque: the new element is linked behind the tail.                 *)

LEMMA EnqueReach ==
  ASSUME QueueTypeOK, Shape, NEW p \in Elem \ live, next' = Linked(p),
         NEW h \in live \cup {NULL}
  PROVE  Reach(h, next) \subseteq Reach(h, next')
<1>0. /\ live \subseteq Elem /\ NULL \notin Elem
      /\ \A e \in live : next[e] \in live \cup {NULL}
  BY LiveFacts
<1> DEFINE T == Reach(h, next') \cap live
<1>1. ASSUME NEW d \in T, next[d] \in Elem PROVE next[d] \in T
  <2>1. d # p /\ d # tail
    BY <1>0, <1>1 DEF Shape
  <2>2. next'[d] = next[d]
    BY <1>0, <2>1 DEF Linked
  <2> QED BY <1>0, <1>1, <2>2, ReachClosed DEF Closed
<1>2. Closed(T, h, next)
  BY <1>0, <1>1, ReachClosed DEF Closed
<1> QED BY <1>0, <1>2, ReachLeast

LEMMA EnqueInv ==
  ASSUME QueueInv, ~freed, NEW v \in Value, queue_enque(v)
  PROVE  QueueInv'
<1>0. /\ QueueTypeOK /\ Shape /\ Visit
      /\ live \subseteq Elem /\ NULL \notin Elem /\ head \in live \cup {NULL}
      /\ \A e \in live : next[e] \in live \cup {NULL}
      /\ Closed(live, head, next)
  BY LiveFacts DEF QueueInv
<1>1. PICK p \in Elem \ live :
        /\ live' = live \cup {p}
        /\ data' = [data EXCEPT ![p] = v]
        /\ next' = Linked(p)
        /\ head' = IF tail = NULL THEN p ELSE head
        /\ tail' = p
        /\ UNCHANGED <<iter, freed, out, todo>>
  BY DEF queue_enque
<1>2. next' = [e \in Elem |-> IF e = p THEN NULL ELSE IF e = tail THEN p ELSE next[e]]
  BY <1>1 DEF Linked
<1>3. /\ next'[p] = NULL /\ p # NULL /\ p # tail
      /\ tail # NULL => next'[tail] = p
      /\ \A e \in live : e # p /\ (e # tail => next'[e] = next[e])
  BY <1>0, <1>1, <1>2 DEF Shape
<1>4. QueueTypeOK'
  <2>1. next' \in [Elem -> Elem \cup {NULL, Garbage}] /\ data' \in [Elem -> Value \cup {Garbage}]
    BY <1>0, <1>1, <1>2 DEF QueueTypeOK
  <2>2. \A e \in live' : next'[e] # Garbage /\ data'[e] # Garbage
    BY <1>0, <1>1, <1>2, QueueAssumption DEF QueueTypeOK
  <2> QED BY <1>0, <1>1, <2>1, <2>2 DEF QueueTypeOK
<1>5. Chain' = live'
  <2>1. Chain' = Reach(head', next')
    BY NextChainIsReach
  <2>2. Closed(live', head', next')
    BY <1>0, <1>1, <1>3 DEF Closed
  <2>3. Chain' \subseteq live'
    BY <1>0, <1>1, <2>1, <2>2, ReachLeast
  <2>4. live \subseteq Chain'
    <3>1. CASE tail = NULL
      BY <1>0, <3>1, ChainIsReach, ReachEmpty DEF Shape
    <3>2. CASE tail # NULL
      BY <1>0, <1>1, <2>1, <3>2, ChainIsReach, EnqueReach DEF Shape
    <3> QED BY <3>1, <3>2
  <2>5. p \in Chain'
    BY <1>0, <1>1, <1>3, <2>1, <2>4, ReachClosed DEF Closed, Shape
  <2> QED BY <1>1, <2>3, <2>4, <2>5
<1>6. Shape'
  <2>1. head' = NULL <=> tail' = NULL
    BY <1>0, <1>1, <1>3 DEF Shape
  <2>2. tail' # NULL => tail' \in live' /\ next'[tail'] = NULL
    BY <1>1, <1>3
  <2>3. \A e \in live' : next'[e] = NULL => e = tail'
    BY <1>0, <1>1, <1>3 DEF Shape
  <2>4. \A e \in live' : next'[e] # head'
    BY <1>0, <1>1, <1>3 DEF Shape
  <2>5. \A e, g \in live' : next'[e] = next'[g] /\ next'[e] # NULL => e = g
    BY <1>0, <1>1, <1>3 DEF Shape
  <2> QED BY <1>5, <2>1, <2>2, <2>3, <2>4, <2>5 DEF Shape
<1>7. Visit'
  <2> SUFFICES ASSUME iter.on PROVE Visit'
    BY <1>1 DEF Visit
  <2>1. iter.next \in live' \cup {NULL}
    BY <1>0, <1>1 DEF Visit
  <2>2. iter.p # NULL => iter.p \in live' /\ iter.next \in {next'[iter.p], NULL}
    BY <1>0, <1>1, <1>3 DEF Visit, Shape
  <2>3. Target # NULL => IF iter.prev = NULL THEN Target = head'
                         ELSE iter.prev \in live' /\ next'[iter.prev] = Target
    BY <1>0, <1>1, <1>3 DEF Visit, Shape
  <2>4. todo \subseteq Reach(iter.next, next')
    BY <1>0, <1>1, EnqueReach DEF Visit
  <2>5. Target' = Target
    BY <1>1 DEF Target
  <2> QED BY <1>1, <2>1, <2>2, <2>3, <2>4, <2>5 DEF Visit
<1> QED BY <1>1, <1>4, <1>6, <1>7 DEF QueueInv, FreeLeaksNothing

-----------------------------------------------------------------------------
(* Taking an element out: the first one, or one in the middle.             *)

LEMMA UnlinkHead ==
  ASSUME QueueTypeOK, Shape, head # NULL, head' = next[head],
         next' = Freed(next, head), live' = live \ {head}
  PROVE  Chain' = live'
<1>0. /\ live \subseteq Elem /\ NULL \notin Elem /\ head \in live
      /\ \A e \in live : next[e] \in live \cup {NULL}
      /\ next \in [Elem -> Elem \cup {NULL, Garbage}]
      /\ live = Reach(head, next) /\ Chain' = Reach(head', next')
  BY LiveFacts, ChainIsReach, NextChainIsReach DEF Shape, QueueTypeOK
<1>1. \A e \in live' : next'[e] = next[e] /\ next[e] # head
  BY <1>0 DEF Freed, Shape
<1>2. Closed(live', head', next')
  BY <1>0, <1>1 DEF Closed, Shape
<1>3. Chain' \subseteq live'
  BY <1>0, <1>2, ReachLeast
<1> DEFINE T == Chain' \cup {head}
<1>4. Closed(T, head, next)
  BY <1>0, <1>1, <1>3, ReachClosed DEF Closed
<1>5. live \subseteq T
  BY <1>0, <1>3, <1>4, ReachLeast
<1> QED BY <1>3, <1>5

LEMMA UnlinkMiddle ==
  ASSUME QueueTypeOK, Shape, NEW p \in live, NEW prev \in live, next[prev] = p,
         head' = head, live' = live \ {p},
         next' = Freed([next EXCEPT ![prev] = next[p]], p)
  PROVE  /\ Chain' = live' /\ prev # p
         /\ next'[prev] = next[p]
         /\ \A e \in live' : e # prev => next'[e] = next[e] /\ next[e] # p
<1>0. /\ live \subseteq Elem /\ NULL \notin Elem /\ head \in live \cup {NULL}
      /\ \A e \in live : next[e] \in live \cup {NULL}
      /\ \A e \in live : next[e] # e
      /\ next \in [Elem -> Elem \cup {NULL, Garbage}]
      /\ live = Reach(head, next) /\ Chain' = Reach(head', next')
      /\ Closed(live, head, next)
  BY LiveFacts, ChainIsReach, NextChainIsReach DEF Shape, QueueTypeOK
<1>1. prev # p /\ p # head /\ p # NULL
  BY <1>0 DEF Shape
<1>2. next'[prev] = next[p]
  BY <1>0, <1>1 DEF Freed
<1>3. \A e \in live' : e # prev => next'[e] = next[e] /\ next[e] # p
  BY <1>0, <1>1 DEF Freed, Shape
<1>4. Closed(live', head', next')
  <2>1. ASSUME NEW d \in live', next'[d] \in Elem PROVE next'[d] \in live'
    <3>1. CASE d = prev
      BY <1>0, <1>2, <2>1, <3>1
    <3>2. CASE d # prev
      <4>1. d \in live /\ next'[d] = next[d] /\ next[d] # p
        BY <1>3, <2>1, <3>2
      <4>2. next[d] \in live
        BY <1>0, <2>1, <4>1
      <4> QED BY <4>1, <4>2
    <3> QED BY <3>1, <3>2
  <2>2. head' \in Elem => head' \in live'
    BY <1>0, <1>1
  <2> QED BY <2>1, <2>2 DEF Closed
<1>5. Chain' \subseteq live'
  BY <1>0, <1>4, ReachLeast
<1>6. Closed(Chain', head', next')
  BY <1>0, ReachClosed
<1>7. prev \in Chain'
  <2> SUFFICES ASSUME prev \notin Chain' PROVE FALSE
    OBVIOUS
  <2>1. Closed(Chain', head, next)
    BY <1>0, <1>3, <1>5, <1>6 DEF Closed
  <2>2. live \subseteq Chain'
    BY <1>0, <1>5, <2>1, ReachLeast
  <2> QED BY <2>2
<1> DEFINE T == Chain' \cup {p}
<1>8. Closed(T, head, next)
  <2>1. head \in Elem => head \in T
    BY <1>6 DEF Closed
  <2>2. ASSUME NEW d \in T, next[d] \in Elem PROVE next[d] \in T
    <3>1. CASE d = p
      <4>1. next'[prev] \in Elem => next'[prev] \in Chain'
        BY <1>6, <1>7 DEF Closed
      <4> QED BY <1>2, <2>2, <3>1, <4>1
    <3>2. CASE d = prev
      BY <3>2
    <3>3. CASE d # p /\ d # prev
      <4>1. d \in Chain' /\ next'[d] = next[d]
        BY <1>3, <1>5, <3>3
      <4> QED BY <1>6, <2>2, <4>1 DEF Closed
    <3> QED BY <3>1, <3>2, <3>3
  <2> QED BY <2>1, <2>2 DEF Closed
<1>9. live \subseteq T
  <2>1. T \subseteq Elem
    <3>1. live \subseteq Elem /\ live' \subseteq live /\ p \in live
      BY <1>0
    <3> QED BY <1>5, <3>1
  <2> HIDE DEF T
  <2> QED BY <1>0, <1>8, <2>1, ReachLeast
<1> QED BY <1>1, <1>2, <1>3, <1>5, <1>9


\* The head, or an element in the middle, leaves the line.
LEMMA UnlinkShape ==
  ASSUME QueueTypeOK, Shape, NEW p \in live, live' = live \ {p},
         data' = Freed(data, p),
         \/ /\ p = head /\ head' = next[p] /\ next' = Freed(next, p)
            /\ tail' = IF p = tail THEN NULL ELSE tail
         \/ /\ p # tail /\ tail' = tail /\ head' = head
            /\ \E prev \in live :
                 next[prev] = p /\ next' = Freed([next EXCEPT ![prev] = next[p]], p)
  PROVE  /\ Shape' /\ head' \in live' \cup {NULL} /\ tail' \in live' \cup {NULL}
         /\ next' \in [Elem -> Elem \cup {NULL, Garbage}]
         /\ data' \in [Elem -> Value \cup {Garbage}]
         /\ \A e \in live' : next'[e] # Garbage /\ data'[e] # Garbage
<1>0. /\ live \subseteq Elem /\ NULL \notin Elem /\ head \in live \cup {NULL}
      /\ \A e \in live : next[e] \in live \cup {NULL}
      /\ \A e \in live : next[e] # e
      /\ next \in [Elem -> Elem \cup {NULL, Garbage}]
      /\ data \in [Elem -> Value \cup {Garbage}]
      /\ NULL # Garbage /\ Garbage \notin Elem
      /\ \A e \in live : data[e] # Garbage
  BY LiveFacts, QueueAssumption DEF QueueTypeOK
<1>1. /\ data' \in [Elem -> Value \cup {Garbage}]
      /\ \A e \in live' : data'[e] # Garbage
  BY <1>0 DEF Freed
<1>2. CASE /\ p = head /\ head' = next[p] /\ next' = Freed(next, p)
           /\ tail' = IF p = tail THEN NULL ELSE tail
  <2>1. Chain' = live'
    BY <1>0, <1>2, UnlinkHead
  <2>2. /\ next' \in [Elem -> Elem \cup {NULL, Garbage}]
        /\ \A e \in live' : next'[e] = next[e] /\ next'[e] # Garbage
    BY <1>0, <1>2 DEF Freed
  <2>3. head' \in live' \cup {NULL} /\ tail' \in live' \cup {NULL}
    BY <1>0, <1>2 DEF Shape
  <2>4. head' = NULL <=> tail' = NULL
    BY <1>0, <1>2 DEF Shape
  <2>5. tail' # NULL => tail' \in live' /\ next'[tail'] = NULL
    BY <1>0, <1>2, <2>2, <2>3 DEF Shape
  <2>6. \A e \in live' : next'[e] = NULL => e = tail'
    BY <1>0, <1>2, <2>2 DEF Shape
  <2>7. \A e \in live' : next'[e] # head'
    BY <1>0, <1>2, <2>2 DEF Shape
  <2>8. \A e, g \in live' : next'[e] = next'[g] /\ next'[e] # NULL => e = g
    BY <2>2 DEF Shape
  <2> QED BY <1>1, <2>1, <2>2, <2>3, <2>4, <2>5, <2>6, <2>7, <2>8 DEF Shape
<1>3. CASE /\ p # tail /\ tail' = tail /\ head' = head
           /\ \E prev \in live :
                 next[prev] = p /\ next' = Freed([next EXCEPT ![prev] = next[p]], p)
  <2>0. PICK prev \in live :
          next[prev] = p /\ next' = Freed([next EXCEPT ![prev] = next[p]], p)
    BY <1>3
  <2>1. /\ Chain' = live' /\ prev # p
        /\ next'[prev] = next[p]
        /\ \A e \in live' : e # prev => next'[e] = next[e] /\ next[e] # p
    <3>1. head' = head /\ live' = live \ {p} /\ next[prev] = p
          /\ next' = Freed([next EXCEPT ![prev] = next[p]], p)
      BY <1>3, <2>0
    <3> HIDE <1>3, <2>0
    <3> QED BY <3>1, UnlinkMiddle
  <2>2. next' \in [Elem -> Elem \cup {NULL, Garbage}]
    BY <1>0, <2>0 DEF Freed
  <2>3. p # head /\ next[p] # NULL
    BY <1>0, <1>3, <2>0 DEF Shape
  <2>5. head' \in live' \cup {NULL} /\ tail' \in live' \cup {NULL}
    BY <1>0, <1>3, <2>3 DEF Shape
  <2>6. tail' # NULL => tail' \in live' /\ next'[tail'] = NULL
    BY <1>0, <1>3, <2>0, <2>1, <2>5 DEF Shape
  <2>7. \A e \in live' : next'[e] = NULL => e = tail'
    BY <1>0, <1>3, <2>1, <2>3 DEF Shape
  <2>8. \A e \in live' : next'[e] # head'
    BY <1>0, <1>3, <2>1 DEF Shape
  <2>9. \A e, g \in live' : next'[e] = next'[g] /\ next'[e] # NULL => e = g
    BY <1>0, <2>1, <2>3 DEF Shape
  <2>10. \A e \in live' : next'[e] # Garbage
    BY <1>0, <2>1
  <2>11. head' = NULL <=> tail' = NULL
    BY <1>3 DEF Shape
  <2> QED BY <1>1, <2>1, <2>2, <2>5, <2>6, <2>7, <2>8, <2>9, <2>10, <2>11 DEF Shape
<1> QED BY <1>2, <1>3

\* What is ahead of a removed element stays ahead.
LEMMA UnlinkReach ==
  ASSUME QueueTypeOK, Shape, NEW p \in live,
         \/ next' = Freed(next, p)
         \/ \E prev \in live :
              next[prev] = p /\ next' = Freed([next EXCEPT ![prev] = next[p]], p),
         NEW h \in {next[p], NULL}
  PROVE  Reach(h, next) \subseteq Reach(h, next')
<1>0. /\ live \subseteq Elem /\ NULL \notin Elem
      /\ \A e \in live : next[e] \in live \cup {NULL}
      /\ next \in [Elem -> Elem \cup {NULL, Garbage}]
  BY LiveFacts DEF QueueTypeOK
<1>1. CASE h \notin Elem
  BY <1>1, ReachEmpty
<1>2. CASE h \in Elem
  <2> DEFINE R == Reach(next[p], next)
  <2>1. h = next[p] /\ p \notin R /\ R \in SUBSET Elem /\ Closed(R, next[p], next)
    BY <1>0, <1>2, NoCycle, ReachClosed
  <2>2. \A d \in R : next[d] # p
    BY <1>0, <2>1 DEF Closed
  <2>3. \A d \in R : next'[d] = next[d]
    BY <1>0, <2>1, <2>2 DEF Freed
  <2> DEFINE T == R \cap Reach(h, next')
  <2>4. Closed(T, next[p], next)
    BY <2>1, <2>3, ReachClosed DEF Closed
  <2> HIDE DEF R
  <2>5. T \in SUBSET Elem
    BY <2>1
  <2>6. R \subseteq T
    BY <2>4, <2>5, ReachLeast DEF R
  <2> QED BY <2>1, <2>6 DEF R
<1> QED BY <1>1, <1>2


LEMMA DequeInv ==
  ASSUME QueueInv, ~freed, ~iter.on, queue_deque
  PROVE  QueueInv'
<1>0. /\ QueueTypeOK /\ Shape /\ live \subseteq Elem /\ NULL \notin Elem
      /\ head \in live \cup {NULL} /\ head # NULL
  BY LiveFacts DEF QueueInv, queue_deque
<1>1. /\ live' = live \ {head} /\ data' = Freed(data, head) /\ next' = Freed(next, head)
      /\ tail' = IF head = tail THEN NULL ELSE tail
      /\ out' = data[head] /\ UNCHANGED <<iter, freed, todo>>
  BY DEF queue_deque, TailAfterDeque
<1>2. head' = next[head]
  BY <1>0 DEF queue_deque, Shape
<1>3. /\ Shape' /\ head' \in live' \cup {NULL} /\ tail' \in live' \cup {NULL}
      /\ next' \in [Elem -> Elem \cup {NULL, Garbage}]
      /\ data' \in [Elem -> Value \cup {Garbage}]
      /\ \A e \in live' : next'[e] # Garbage /\ data'[e] # Garbage
  BY <1>0, <1>1, <1>2, UnlinkShape
<1>4. out' \in Value \cup {NULL}
  BY <1>0, <1>1 DEF QueueTypeOK
<1>5. QueueTypeOK'
  BY <1>0, <1>1, <1>3, <1>4 DEF QueueTypeOK
<1> QED BY <1>1, <1>3, <1>5 DEF QueueInv, Visit, FreeLeaksNothing

\* Where the element that OPERATE removes is, and what changes around it.
LEMMA RemoveCases ==
  ASSUME QueueInv, RemoveTail = FALSE, queue_remove_elem
  PROVE  /\ iter.p \in live /\ live' = live \ {iter.p} /\ data' = Freed(data, iter.p)
         /\ UNCHANGED <<freed, out>>
         /\ iter.p = head => iter.prev = NULL
         /\ \/ /\ iter.p = head /\ head' = next[iter.p] /\ next' = Freed(next, iter.p)
               /\ tail' = IF iter.p = tail THEN NULL ELSE tail
            \/ /\ iter.p # tail /\ tail' = tail /\ head' = head /\ iter.p # head
               /\ iter.prev \in live /\ next[iter.prev] = iter.p
               /\ next' = Freed([next EXCEPT ![iter.prev] = next[iter.p]], iter.p)
<1> DEFINE p == iter.p  prev == iter.prev
<1>0. /\ QueueTypeOK /\ Shape /\ Visit /\ live \subseteq Elem /\ NULL \notin Elem
      /\ iter.on /\ p # NULL /\ (p # tail \/ p = head)
  BY LiveFacts DEF QueueInv, queue_remove_elem
<1>1. /\ p \in live
      /\ IF prev = NULL THEN p = head ELSE prev \in live /\ next[prev] = p
  BY <1>0 DEF Visit, Target
<1>2. /\ live' = live \ {p} /\ data' = Freed(data, p)
      /\ head' = IF p = head THEN next[p] ELSE head
      /\ tail' = IF p = tail THEN prev ELSE tail
      /\ next' = Freed(IF p \in {head, tail} THEN next
                       ELSE [next EXCEPT ![prev] = next[p]], p)
      /\ UNCHANGED <<freed, out>>
  BY DEF queue_remove_elem, HeadAfterRemove
<1>3. p = head => prev = NULL
  BY <1>0, <1>1 DEF Shape
<1> HIDE DEF p, prev
<1>4. \/ /\ p = head /\ head' = next[p] /\ next' = Freed(next, p)
         /\ tail' = IF p = tail THEN NULL ELSE tail
      \/ /\ p # tail /\ tail' = tail /\ head' = head /\ p # head
         /\ prev \in live /\ next[prev] = p
         /\ next' = Freed([next EXCEPT ![prev] = next[p]], p)
  <2>1. CASE p = head
    BY <1>2, <1>3, <2>1
  <2>2. CASE p # head
    BY <1>0, <1>1, <1>2, <2>2
  <2> QED BY <2>1, <2>2
<1> QED BY <1>1, <1>2, <1>3, <1>4 DEF p, prev

LEMMA RemoveInv ==
  ASSUME QueueInv, ~freed, RemoveTail = FALSE, queue_remove_elem
  PROVE  QueueInv'
<1> DEFINE p == iter.p  prev == iter.prev
<1>0. /\ QueueTypeOK /\ Shape /\ Visit /\ live \subseteq Elem /\ NULL \notin Elem
      /\ head \in live \cup {NULL} /\ \A e \in live : next[e] # e
      /\ iter.on /\ p # NULL /\ (p # tail \/ p = head)
  BY LiveFacts DEF QueueInv, queue_remove_elem
<1>1. /\ p \in live /\ iter.next \in {next[p], NULL} /\ iter.next \in live \cup {NULL}
      /\ IF prev = NULL THEN p = head ELSE prev \in live /\ next[prev] = p
      /\ todo \subseteq Reach(iter.next, next)
  BY <1>0 DEF Visit, Target
<1>2. /\ live' = live \ {p} /\ data' = Freed(data, p)
      /\ head' = IF p = head THEN next[p] ELSE head
      /\ tail' = IF p = tail THEN prev ELSE tail
      /\ next' = Freed(IF p \in {head, tail} THEN next
                       ELSE [next EXCEPT ![prev] = next[p]], p)
      /\ iter' = [iter EXCEPT !.p = NULL]
      /\ UNCHANGED <<freed, out, todo>>
  BY DEF queue_remove_elem, HeadAfterRemove
<1>3. p = head => prev = NULL
  BY RemoveCases
<1>4. \/ /\ p = head /\ head' = next[p] /\ next' = Freed(next, p)
         /\ tail' = IF p = tail THEN NULL ELSE tail
      \/ /\ p # tail /\ tail' = tail /\ head' = head /\ p # head
         /\ prev \in live /\ next[prev] = p
         /\ next' = Freed([next EXCEPT ![prev] = next[p]], p)
  BY RemoveCases
<1> HIDE DEF p, prev
<1>5. /\ Shape' /\ head' \in live' \cup {NULL} /\ tail' \in live' \cup {NULL}
      /\ next' \in [Elem -> Elem \cup {NULL, Garbage}]
      /\ data' \in [Elem -> Value \cup {Garbage}]
      /\ \A e \in live' : next'[e] # Garbage /\ data'[e] # Garbage
  BY <1>0, <1>1, <1>2, <1>4, UnlinkShape
<1>6. iter' \in [on : BOOLEAN, p : Elem \cup {NULL}, prev : Elem \cup {NULL},
                 next : Elem \cup {NULL, Garbage}]
      /\ iter'.p = NULL /\ iter'.prev = prev /\ iter'.next = iter.next /\ iter'.on
  BY <1>0, <1>2 DEF QueueTypeOK, prev
<1>7. QueueTypeOK'
  BY <1>0, <1>2, <1>5, <1>6 DEF QueueTypeOK
<1>8. Target' = iter.next
  BY <1>6 DEF Target
<1>9. iter.next \in live' \cup {NULL}
  BY <1>0, <1>1, <1>2
<1>10. ASSUME iter.next # NULL
       PROVE  IF prev = NULL THEN iter.next = head'
              ELSE prev \in live' /\ next'[prev] = iter.next
  <2>1. iter.next = next[p]
    BY <1>1, <1>10
  <2>2. CASE p = head
    BY <1>3, <1>4, <2>1, <2>2
  <2>3. CASE p # head
    <3>1. prev # NULL /\ prev \in live /\ next[prev] = p /\ prev # p
      BY <1>0, <1>1, <1>4, <2>3
    <3>2. next'[prev] = next[p]
      BY <1>0, <1>4, <2>3, <3>1 DEF Freed, QueueTypeOK
    <3> QED BY <1>2, <2>1, <3>1, <3>2
  <2> QED BY <2>2, <2>3
<1>11. todo' \subseteq Reach(iter.next, next')
  <2>1. \/ next' = Freed(next, p)
        \/ \E q \in live :
             next[q] = p /\ next' = Freed([next EXCEPT ![q] = next[p]], p)
    BY <1>4
  <2>2. Reach(iter.next, next) \subseteq Reach(iter.next, next')
    BY <1>0, <1>1, <2>1, UnlinkReach
  <2> QED BY <1>1, <1>2, <2>2
<1>12. Visit'
  BY <1>6, <1>8, <1>9, <1>10, <1>11 DEF Visit
<1> QED BY <1>2, <1>5, <1>7, <1>12 DEF QueueInv, FreeLeaksNothing

LEMMA FreeInv ==
  ASSUME QueueInv, queue_free
  PROVE  QueueInv'
<1>1. /\ QueueTypeOK /\ Chain = live /\ live' = {} /\ head' = NULL /\ tail' = NULL
      /\ ~iter'.on
  BY DEF QueueInv, Shape, queue_free
<1>2. Chain' = {}
  BY <1>1, NextChainIsReach, ReachEmpty, QueueAssumption
<1>3. QueueTypeOK'
  BY <1>1 DEF QueueTypeOK, queue_free
<1> QED BY <1>1, <1>2, <1>3 DEF QueueInv, Shape, Visit, FreeLeaksNothing

\* The iteration goes to an element that is in the queue.
LEMMA OperateInv ==
  ASSUME QueueInv, ~freed, NEW p \in live, NEW prev \in live \cup {NULL},
         IF prev = NULL THEN p = head ELSE next[prev] = p,
         operate_on(p, prev), todo' \subseteq Reach(p, next) \ {p},
         UNCHANGED <<head, tail, next, data, live, freed, out>>
  PROVE  QueueInv'
<1>0. /\ QueueTypeOK /\ Shape /\ live \subseteq Elem /\ NULL \notin Elem
      /\ \A e \in live : next[e] \in live \cup {NULL}
  BY LiveFacts DEF QueueInv
<1>1. iter' = [on |-> TRUE, p |-> p, prev |-> prev, next |-> next[p]]
  BY DEF operate_on
<1>2. todo' \subseteq Reach(next[p], next)
  BY ReachStep
<1>3. todo' \subseteq Elem
  BY <1>2, ReachClosed
<1>4. QueueTypeOK'
  BY <1>0, <1>1, <1>3 DEF QueueTypeOK
<1>5. Chain' = Chain
  BY ChainIsReach, NextChainIsReach
<1>6. Shape'
  BY <1>0, <1>5 DEF Shape
<1>7. Visit'
  BY <1>0, <1>1, <1>2 DEF Visit, Target
<1> QED BY <1>4, <1>6, <1>7 DEF QueueInv, FreeLeaksNothing

LEMMA QueueInvNext ==
  ASSUME RemoveTail = FALSE, QueueInv, [QueueNext]_queueVars
  PROVE  QueueInv'
<1>0. /\ QueueTypeOK /\ Shape /\ Visit /\ live \subseteq Elem /\ NULL \notin Elem
      /\ head \in live \cup {NULL}
  BY LiveFacts DEF QueueInv
<1>a. ASSUME UNCHANGED <<head, next>> PROVE Chain' = Chain
  BY <1>a, ChainIsReach, NextChainIsReach
<1>1. CASE ~freed /\ queue_iterate
  <2>1. /\ head # NULL /\ operate_on(head, NULL) /\ todo' = Chain \ {head}
        /\ UNCHANGED <<head, tail, next, data, live, freed, out>>
    BY <1>1 DEF queue_iterate
  <2>2. todo' \subseteq Reach(head, next) \ {head}
    BY <2>1, ChainIsReach
  <2> QED BY <1>0, <1>1, <2>1, <2>2, OperateInv
<1>2. CASE ~freed /\ operate_continues
  <2>1. /\ iter.on /\ iter.next \in Elem /\ operate_on(iter.next, PrevAfter)
        /\ todo' = todo \ {iter.next}
        /\ UNCHANGED <<head, tail, next, data, live, freed, out>>
    BY <1>2 DEF operate_continues
  <2>2. iter.next \in live /\ iter.next # NULL
    BY <1>0, <2>1 DEF Visit
  <2>3. /\ PrevAfter \in live \cup {NULL}
        /\ IF PrevAfter = NULL THEN iter.next = head ELSE next[PrevAfter] = iter.next
    BY <1>0, <2>1, <2>2 DEF Visit, Target, PrevAfter
  <2>4. todo' \subseteq Reach(iter.next, next) \ {iter.next}
    BY <1>0, <2>1 DEF Visit
  <2> QED BY <1>2, <2>1, <2>2, <2>3, <2>4, OperateInv
<1>3. CASE iterate_ends \/ iterate_stops
  <2>1. iter' = Idle /\ todo' = {} /\ UNCHANGED <<head, tail, next, data, live, freed, out>>
    BY <1>3 DEF iterate_ends, iterate_stops
  <2>2. QueueTypeOK'
    BY <1>0, <2>1 DEF QueueTypeOK, Idle
  <2>3. Shape'
    BY <1>0, <1>a, <2>1 DEF Shape
  <2> QED BY <2>1, <2>2, <2>3 DEF QueueInv, Visit, Idle, FreeLeaksNothing
<1>4. CASE UNCHANGED queueVars
  <2>1. Shape'
    BY <1>0, <1>4, <1>a DEF Shape, queueVars
  <2>2. QueueTypeOK'
    BY <1>0, <1>4 DEF QueueTypeOK, queueVars
  <2> QED BY <1>4, <2>1, <2>2 DEF QueueInv, queueVars, Visit, Target, FreeLeaksNothing
<1> QED BY <1>1, <1>2, <1>3, <1>4, EnqueInv, DequeInv, RemoveInv, FreeInv DEF QueueNext

LEMMA QueueInvAlways ==
  ASSUME RemoveTail = FALSE
  PROVE  QueueSpec => []QueueInv
<1>1. QueueInv /\ [QueueNext]_queueVars => QueueInv'
  BY QueueInvNext
<1> QED BY <1>1, QueueInvInit, PTL DEF QueueSpec

-----------------------------------------------------------------------------

(* No field is read before it was written, OPERATE is never called with an *)
(* element that was freed, and queue_free finds all that is left, for any  *)
(* number of elements and whatever OPERATE enqueues and removes (queue.h   *)
(* 108 to 253).                                                            *)
THEOREM QueueState ==
  ASSUME RemoveTail = FALSE
  PROVE  QueueSpec => []QueueStateOK
<1>1. QueueInv => QueueStateOK
  BY DEF QueueInv, QueueStateOK, OperateOnLive, Visit
<1> QED BY <1>1, QueueInvAlways, PTL

(* An iteration that comes to its end has passed every element that was in *)
(* the queue when it started, although OPERATE removes elements and        *)
(* enqueues others meanwhile (queue.h 229 to 253).                         *)
THEOREM QueueIterateVisitsAll ==
  ASSUME RemoveTail = FALSE
  PROVE  QueueSpec => IterateVisitsAll
<1>1. QueueInv /\ [QueueNext]_queueVars => [iterate_ends => todo = {}]_queueVars
  <2> SUFFICES ASSUME QueueInv, iterate_ends PROVE todo = {}
    OBVIOUS
  <2>1. iter.on /\ iter.next \notin Elem
    BY QueueAssumption DEF iterate_ends, AtEnd
  <2> QED BY <2>1, ReachEmpty DEF QueueInv, Visit
<1> QED BY <1>1, QueueInvAlways, PTL DEF QueueSpec, IterateVisitsAll

-----------------------------------------------------------------------------
(* The refinement: the live elements stand in a line that starts at head   *)
(* and ends at tail, and their data are the items of QueueFifo.            *)

InOrder(s) ==
  /\ Line(s, head, next, live)
  /\ tail = IF s = <<>> THEN NULL ELSE s[Len(s)]

QueueOrderInv == QueueInv /\ \E s : InOrder(s)

DataOf(s, d) == [i \in 1..Len(s) |-> d[s[i]]]

LEMMA ItemsAre ==
  ASSUME NEW s, Walk(head, next, live) = s
  PROVE  Items = DataOf(s, data)
BY DEF Items, DataOf

LEMMA ItemsAreNext ==
  ASSUME NEW s, Walk(head', next', live') = s
  PROVE  Items' = DataOf(s, data')
BY DEF Items, DataOf

LEMMA DataOfIn ==
  ASSUME NEW A, NEW C, NEW s \in Seq(C), NEW d, \A c \in C : d[c] \in A
  PROVE  DataOf(s, d) \in Seq(A)
BY DEF DataOf

LEMMA DataOfIs ==
  ASSUME NEW C, NEW s \in Seq(C), NEW d
  PROVE  /\ Len(DataOf(s, d)) = Len(s)
         /\ \A i \in 1..Len(s) : DataOf(s, d)[i] = d[s[i]]
BY DEF DataOf

LEMMA DataOfAppend ==
  \A C, s, e, d, d2 : s \in Seq(C) /\ (\A c \in C : d2[c] = d[c])
                       => DataOf(Append(s, e), d2) = Append(DataOf(s, d), d2[e])
<1> TAKE C, s, e, d, d2
<1> HAVE s \in Seq(C) /\ \A c \in C : d2[c] = d[c]
<1> DEFINE t == Append(s, e)
           a == DataOf(s, d)
           b == DataOf(t, d2)
           c == Append(a, d2[e])
           D == C \cup {e}
           A == {d2[x] : x \in D}
<1>1. s \in Seq(D) /\ e \in D /\ Len(s) \in Nat /\ \A i \in 1..Len(s) : s[i] \in C
  OBVIOUS
<1>0. d2[e] \in A /\ (\A x \in D : d2[x] \in A) /\ \A x \in C : d[x] \in A
  OBVIOUS
<1> HIDE DEF A
<1>2. a \in Seq(A) /\ Len(a) = Len(s) /\ \A i \in 1..Len(s) : a[i] = d[s[i]]
  BY <1>0, DataOfIn, DataOfIs
<1> HIDE DEF a, D
<1>3. /\ t \in Seq(D) /\ Len(t) = Len(s) + 1 /\ t[Len(s) + 1] = e
      /\ \A i \in 1..Len(s) : t[i] = s[i]
  BY <1>1, AppendProperties
<1> HIDE DEF t
<1>4. b \in Seq(A) /\ Len(b) = Len(t) /\ \A i \in 1..Len(t) : b[i] = d2[t[i]]
  BY <1>0, <1>3, DataOfIn, DataOfIs
<1> HIDE DEF b
<1>5. /\ c \in Seq(A) /\ Len(c) = Len(a) + 1 /\ c[Len(a) + 1] = d2[e]
      /\ \A i \in 1..Len(a) : c[i] = a[i]
  BY <1>0, <1>2, AppendProperties
<1> HIDE DEF c
<1>6. ASSUME NEW i \in 1..Len(b) PROVE b[i] = c[i]
  <2>1. CASE i = Len(s) + 1
    BY <1>2, <1>3, <1>4, <1>5, <2>1
  <2>2. CASE i # Len(s) + 1
    <3>1. i \in 1..Len(s) /\ i \in 1..Len(t)
      BY <1>1, <1>3, <1>4, <2>2
    <3>2. b[i] = d2[s[i]]
      BY <1>3, <1>4, <3>1
    <3>3. c[i] = d[s[i]]
      BY <1>2, <1>5, <3>1
    <3> QED BY <1>1, <3>1, <3>2, <3>3
  <2> QED BY <2>1, <2>2
<1>7. Len(b) = Len(c)
  BY <1>2, <1>3, <1>4, <1>5
<1>8. b = c
  BY <1>4, <1>5, <1>6, <1>7, SeqEqual
<1> QED BY <1>8 DEF a, b, c, t

LEMMA DataOfRemove ==
  ASSUME NEW C, NEW s \in Seq(C), NEW d, NEW d2, NEW k \in 1..Len(s),
         \A i, j \in 1..Len(s) : s[i] = s[j] => i = j,
         \A c \in C \ {s[k]} : d2[c] = d[c]
  PROVE  DataOf(RemoveAt(s, k), d2) = RemoveAt(DataOf(s, d), k)
<1> DEFINE N == Len(s)
           t == RemoveAt(s, k)
           a == DataOf(s, d)
           b == DataOf(t, d2)
           c == RemoveAt(a, k)
           A == {d[x] : x \in C} \cup {d2[x] : x \in C}
<1>1. N \in Nat /\ k \in 1..N /\ \A i \in 1..N : s[i] \in C
  OBVIOUS
<1>0. \A x \in C : d[x] \in A /\ d2[x] \in A
  OBVIOUS
<1> HIDE DEF A
<1>2. a \in Seq(A) /\ Len(a) = N /\ \A i \in 1..N : a[i] = d[s[i]]
  BY <1>0, DataOfIn, DataOfIs
<1> HIDE DEF a
<1>3. /\ t \in Seq(C) /\ Len(t) = N - 1
      /\ \A j \in 1..N - 1 : t[j] = IF j < k THEN s[j] ELSE s[j + 1]
  BY <1>1, RemoveAtIs
<1> HIDE DEF t
<1>4. b \in Seq(A) /\ Len(b) = Len(t) /\ \A i \in 1..Len(t) : b[i] = d2[t[i]]
  BY <1>0, <1>3, DataOfIn, DataOfIs
<1> HIDE DEF b
<1>5. /\ c \in Seq(A) /\ Len(c) = N - 1
      /\ \A j \in 1..N - 1 : c[j] = IF j < k THEN a[j] ELSE a[j + 1]
  BY <1>1, <1>2, RemoveAtIs
<1> HIDE DEF c
<1>6. \A i \in 1..N : i # k => d2[s[i]] = d[s[i]]
  BY <1>1
<1>7. ASSUME NEW j \in 1..N - 1 PROVE b[j] = c[j]
  <2> HIDE DEF N
  <2>1. j \in 1..N /\ j + 1 \in 1..N /\ (j < k => j # k) /\ (~ (j < k) => j + 1 # k)
    BY <1>1
  <2>2. b[j] = d2[t[j]]
    BY <1>3, <1>4
  <2>3. CASE j < k
    <3>1. t[j] = s[j] /\ c[j] = a[j]
      BY <1>3, <1>5, <2>3
    <3> QED BY <1>2, <1>6, <2>1, <2>2, <2>3, <3>1
  <2>4. CASE ~ (j < k)
    <3>1. t[j] = s[j + 1] /\ c[j] = a[j + 1]
      BY <1>3, <1>5, <2>4
    <3> QED BY <1>2, <1>6, <2>1, <2>2, <2>4, <3>1
  <2> QED BY <2>3, <2>4
<1>8. b = c
  <2> HIDE DEF N
  <2> QED BY <1>3, <1>4, <1>5, <1>7, SeqEqual
<1> QED BY <1>8 DEF a, b, c, t

\* An element is taken out of the line, wherever it stands.
LEMMA PassedOver ==
  ASSUME QueueInv, NEW s, InOrder(s), NEW k \in 1..Len(s), k # Len(s) \/ Len(s) = 1,
         head' = IF head = s[k] THEN next[s[k]] ELSE head,
         \A e \in live \ {s[k]} : next'[e] = IF next[e] = s[k] THEN next[s[k]] ELSE next[e],
         live' = live \ {s[k]}, data' = Freed(data, s[k]),
         tail' = IF Len(s) = 1 THEN NULL ELSE tail
  PROVE  /\ \E t : InOrder(t)'
         /\ Items = DataOf(s, data) /\ Items' = RemoveAt(Items, k)
         /\ Items \in Seq(Value \cup {Garbage}) /\ Len(Items) = Len(s)
         /\ \A i \in 1..Len(s) : Items[i] = data[s[i]]
<1> DEFINE t == RemoveAt(s, k)
           A == Value \cup {Garbage}
<1>1. Line(s, head, next, live) /\ tail = IF s = <<>> THEN NULL ELSE s[Len(s)]
  BY DEF InOrder
<1>2. /\ s \in Seq(live) /\ Len(s) \in Nat /\ Len(s) # 0 /\ s # <<>>
      /\ \A i \in 1..Len(s) : s[i] \in live
      /\ \A i, j \in 1..Len(s) : s[i] = s[j] => i = j
      /\ head = s[1]
  BY <1>1, LineFacts
<1>3. head' = IF k = 1 THEN next[s[k]] ELSE head
  <2>1. head = s[k] <=> k = 1
    BY <1>2
  <2> QED BY <2>1
<1>4. Line(t, head', next', live')
  BY <1>1, <1>3, LineRemove
<1>5. /\ t \in Seq(live) /\ Len(t) = Len(s) - 1
      /\ \A j \in 1..Len(s) - 1 : t[j] = IF j < k THEN s[j] ELSE s[j + 1]
  BY <1>2, RemoveAtIs
<1> HIDE DEF t
<1>6. tail' = IF t = <<>> THEN NULL ELSE t[Len(t)]
  <2>1. CASE Len(s) = 1
    BY <1>5, <2>1
  <2>2. CASE Len(s) # 1
    <3>1. Len(s) - 1 \in 1..Len(s) - 1 /\ ~ (Len(s) - 1 < k) /\ (Len(s) - 1) + 1 = Len(s)
      BY <1>2, <2>2
    <3>2. t # <<>>
      BY <1>2, <1>5, <2>2
    <3>3. t[Len(t)] = s[Len(s)]
      BY <1>5, <3>1
    <3> QED BY <1>1, <1>2, <2>2, <3>2, <3>3
  <2> QED BY <2>1, <2>2
<1>7. \E u : InOrder(u)'
  BY <1>4, <1>6 DEF InOrder
<1>8. /\ live \subseteq Elem /\ s[k] \in live
      /\ data \in [Elem -> A] /\ data' = [data EXCEPT ![s[k]] = Garbage]
  BY <1>2 DEF QueueInv, QueueTypeOK, Freed
<1>9. Walk(head, next, live) = s /\ Walk(head', next', live') = t
  BY <1>1, <1>4, WalkAlong
<1>10. Items = DataOf(s, data) /\ Items' = DataOf(t, data')
  BY <1>9, ItemsAre, ItemsAreNext
<1>11. /\ \A c \in live : data[c] \in A
       /\ \A c \in live \ {s[k]} : data'[c] = data[c]
  BY <1>8
<1> HIDE DEF A
<1>12. DataOf(t, data') = RemoveAt(DataOf(s, data), k)
  BY <1>2, <1>11, DataOfRemove DEF t
<1>13. /\ DataOf(s, data) \in Seq(A) /\ Len(DataOf(s, data)) = Len(s)
       /\ \A i \in 1..Len(s) : DataOf(s, data)[i] = data[s[i]]
  BY <1>2, <1>11, DataOfIn, DataOfIs
<1> QED BY <1>7, <1>10, <1>12, <1>13 DEF A

LEMMA OrderFacts ==
  ASSUME QueueInv, NEW s, InOrder(s)
  PROVE  /\ live \subseteq Elem /\ NULL \notin Elem
         /\ s \in Seq(live) /\ Len(s) \in Nat
         /\ \A i \in 1..Len(s) : s[i] \in live
         /\ \A c \in live : \E i \in 1..Len(s) : c = s[i]
         /\ \A i, j \in 1..Len(s) : s[i] = s[j] => i = j
         /\ s = <<>> <=> Len(s) = 0
         /\ s = <<>> <=> head = NULL
         /\ s = <<>> => tail = NULL
         /\ s # <<>> => 1 \in 1..Len(s) /\ Len(s) \in 1..Len(s) /\ head = s[1] /\ tail = s[Len(s)]
<1>1. /\ s \in Seq(live) /\ Len(s) \in Nat
      /\ \A i \in 1..Len(s) : s[i] \in live
      /\ \A c \in live : \E i \in 1..Len(s) : c = s[i]
      /\ \A i, j \in 1..Len(s) : s[i] = s[j] => i = j
      /\ s = <<>> <=> Len(s) = 0
      /\ Len(s) = 0 => head \notin live
      /\ Len(s) # 0 => head = s[1]
  BY LineFacts DEF InOrder
<1>2. live \subseteq Elem /\ NULL \notin Elem /\ head \in live \cup {NULL}
  BY LiveFacts DEF QueueInv
<1>3. s # <<>> => 1 \in 1..Len(s) /\ Len(s) \in 1..Len(s)
  <2> DEFINE N == Len(s)
  <2>1. N \in Nat /\ (s # <<>> => N # 0)
    BY <1>1
  <2> HIDE DEF N
  <2>2. s # <<>> => 1 \in 1..N /\ N \in 1..N
    BY <2>1
  <2> QED BY <2>2 DEF N
<1>4. s = <<>> => head = NULL /\ tail = NULL
  BY <1>1, <1>2 DEF InOrder
<1>5. s # <<>> => head = s[1] /\ tail = s[Len(s)] /\ head # NULL
  BY <1>1, <1>2, <1>3 DEF InOrder
<1> QED BY <1>1, <1>2, <1>3, <1>4, <1>5

LEMMA EnqueIsFifo ==
  ASSUME QueueInv, NEW s, InOrder(s), NEW v \in Value, queue_enque(v)
  PROVE  Fifo!Enque /\ \E t : InOrder(t)'
<1>1. PICK p \in Elem \ live :
        /\ live' = live \cup {p}
        /\ data' = [data EXCEPT ![p] = v]
        /\ next' = [e \in Elem |-> IF e = p THEN NULL ELSE IF e = tail THEN p ELSE next[e]]
        /\ head' = IF tail = NULL THEN p ELSE head
        /\ tail' = p
        /\ UNCHANGED <<freed, out>>
  BY DEF queue_enque, Linked
<1> DEFINE t == Append(s, p)
<1>2. /\ live \subseteq Elem /\ NULL \notin Elem
      /\ s \in Seq(live) /\ Len(s) \in Nat
      /\ \A c \in live : \E i \in 1..Len(s) : c = s[i]
      /\ s = <<>> <=> Len(s) = 0
      /\ s = <<>> => tail = NULL
      /\ s # <<>> => 1 \in 1..Len(s) /\ Len(s) \in 1..Len(s) /\ tail = s[Len(s)]
      /\ \A i \in 1..Len(s) : s[i] \in live
  BY OrderFacts
<1>3. tail = NULL <=> s = <<>>
  BY <1>2
<1>4. \A c \in live : next'[c] = IF c = s[Len(s)] THEN p ELSE next[c]
  <2> SUFFICES ASSUME NEW c \in live PROVE next'[c] = IF c = s[Len(s)] THEN p ELSE next[c]
    OBVIOUS
  <2>1. s # <<>>
    BY <1>2
  <2>2. tail = s[Len(s)] /\ c \in Elem /\ c # p
    BY <1>2, <2>1
  <2> QED BY <1>1, <2>2
<1>5. next'[p] \notin live \cup {p}
  BY <1>1, <1>2
<1>6. Line(s, head, next, live)
  BY DEF InOrder
<1>7. head' = IF s = <<>> THEN p ELSE head
  BY <1>1, <1>3
<1>8. Line(t, head', next', live')
  <2>1. Line(t, head', next', live \cup {p})
    BY <1>4, <1>5, <1>6, <1>7, LineAppend
  <2> QED BY <1>1, <2>1
<1>9. t # <<>> /\ t[Len(t)] = p
  <2>1. s \in Seq(Elem) /\ p \in Elem
    BY <1>2
  <2> QED BY <1>2, <2>1, AppendProperties
<1>10. \E u : InOrder(u)'
  <2> HIDE DEF t
  <2>1. Line(t, head', next', live') /\ tail' = IF t = <<>> THEN NULL ELSE t[Len(t)]
    BY <1>1, <1>8, <1>9
  <2> QED BY <2>1 DEF InOrder
<1>11. Walk(head, next, live) = s /\ Walk(head', next', live') = t
  BY <1>6, <1>8, WalkAlong
<1>12. Items = DataOf(s, data) /\ Items' = DataOf(t, data')
  BY <1>11, ItemsAre, ItemsAreNext
<1>13. (\A c \in live : data'[c] = data[c]) /\ data'[p] = v
  BY <1>1, <1>2 DEF QueueInv, QueueTypeOK
<1>14. DataOf(t, data') = Append(DataOf(s, data), data'[p])
  <2>1. s \in Seq(live) /\ \A c \in live : data'[c] = data[c]
    BY <1>2, <1>13
  <2> QED BY ONLY <2>1, DataOfAppend
<1>15. Items' = Append(Items, v)
  BY <1>12, <1>13, <1>14
<1>16. Fifo!Enque
  BY <1>1, <1>15 DEF Fifo!Enque
<1> QED BY <1>10, <1>16

LEMMA DequeIsFifo ==
  ASSUME QueueInv, NEW s, InOrder(s), queue_deque
  PROVE  Fifo!Deque /\ \E t : InOrder(t)'
<1>1. /\ head # NULL
      /\ live' = live \ {head} /\ data' = Freed(data, head) /\ next' = Freed(next, head)
      /\ tail' = IF head = tail THEN NULL ELSE tail
      /\ out' = data[head] /\ freed' = freed
  BY DEF queue_deque, TailAfterDeque
<1>2. head' = next[head]
  BY <1>1 DEF queue_deque, QueueInv, Shape
<1>3. /\ live \subseteq Elem /\ s \in Seq(live) /\ Len(s) \in Nat /\ s # <<>>
      /\ 1 \in 1..Len(s) /\ Len(s) \in 1..Len(s) /\ head = s[1] /\ tail = s[Len(s)]
      /\ head \in live
      /\ \A i, j \in 1..Len(s) : s[i] = s[j] => i = j
  BY <1>1, OrderFacts
<1>4. \A e \in live \ {s[1]} : next'[e] = IF next[e] = s[1] THEN next[s[1]] ELSE next[e]
  BY <1>1, <1>3 DEF Freed, QueueInv, QueueTypeOK, Shape
<1>5. head = tail <=> Len(s) = 1
  BY <1>3
<1>6. /\ \E t : InOrder(t)'
      /\ Items' = RemoveAt(Items, 1)
      /\ Items \in Seq(Value \cup {Garbage}) /\ Len(Items) = Len(s)
      /\ \A i \in 1..Len(s) : Items[i] = data[s[i]]
  <2>1. head' = IF head = s[1] THEN next[s[1]] ELSE head
    BY <1>2, <1>3
  <2>2. live' = live \ {s[1]} /\ data' = Freed(data, s[1]) /\ tail' = IF Len(s) = 1 THEN NULL ELSE tail
    BY <1>1, <1>3, <1>5
  <2>3. 1 # Len(s) \/ Len(s) = 1
    OBVIOUS
  <2> QED BY <1>3, <1>4, <2>1, <2>2, <2>3, PassedOver
<1> DEFINE q == Items
<1>7. Items # <<>> /\ Items' = Tail(Items) /\ out' = Head(Items)
  <2>1. q \in Seq(Value \cup {Garbage}) /\ Len(q) = Len(s) /\ q[1] = data[s[1]]
    BY <1>3, <1>6
  <2> HIDE DEF q
  <2>2. q # <<>>
    BY <1>3, <2>1
  <2>3. RemoveAt(q, 1) = Tail(q) /\ Head(q) = q[1]
    BY <2>1, <2>2, RemoveAtFirst
  <2> QED BY <1>1, <1>3, <1>6, <2>1, <2>2, <2>3 DEF q
<1> HIDE DEF q
<1>8. Fifo!Deque
  BY <1>1, <1>7 DEF Fifo!Deque
<1> QED BY <1>6, <1>8

LEMMA FifoRemoveAt == \A s, i : Fifo!RemoveAt(s, i) = RemoveAt(s, i)
BY DEF Fifo!RemoveAt, RemoveAt

LEMMA RemoveIsFifo ==
  ASSUME QueueInv, NEW s, InOrder(s), RemoveTail = FALSE, queue_remove_elem
  PROVE  Fifo!RemoveOne /\ \E t : InOrder(t)'
<1> DEFINE p == iter.p  prev == iter.prev
<1>1. /\ p \in live /\ live' = live \ {p} /\ data' = Freed(data, p)
      /\ UNCHANGED <<freed, out>>
      /\ \/ /\ p = head /\ head' = next[p] /\ next' = Freed(next, p)
            /\ tail' = IF p = tail THEN NULL ELSE tail
         \/ /\ p # tail /\ tail' = tail /\ head' = head /\ p # head
            /\ prev \in live /\ next[prev] = p
            /\ next' = Freed([next EXCEPT ![prev] = next[p]], p)
  BY RemoveCases
<1> HIDE DEF p, prev
<1>2. /\ live \subseteq Elem /\ NULL \notin Elem /\ Len(s) \in Nat
      /\ \A c \in live : \E i \in 1..Len(s) : c = s[i]
      /\ \A i, j \in 1..Len(s) : s[i] = s[j] => i = j
      /\ s = <<>> <=> Len(s) = 0
      /\ s # <<>> => 1 \in 1..Len(s) /\ Len(s) \in 1..Len(s) /\ head = s[1] /\ tail = s[Len(s)]
  BY OrderFacts
<1>3. PICK k \in 1..Len(s) : s[k] = p
  BY <1>1, <1>2
<1>4. /\ 1 \in 1..Len(s) /\ Len(s) \in 1..Len(s) /\ s # <<>>
      /\ p = head <=> k = 1
      /\ p = tail <=> k = Len(s)
  <2>1. s # <<>>
    BY <1>2, <1>3
  <2> QED BY <1>2, <1>3, <2>1
<1>5. k # Len(s) \/ Len(s) = 1
  BY <1>1, <1>4
<1>6. head' = IF head = p THEN next[p] ELSE head
  BY <1>1
<1>7. tail' = IF Len(s) = 1 THEN NULL ELSE tail
  <2>1. CASE p = head
    BY <1>1, <1>4, <2>1
  <2>2. CASE p # head
    <3> DEFINE N == Len(s)
    <3>1. k \in 1..N /\ N \in Nat /\ k # 1
      BY <1>2, <1>4, <2>2
    <3> HIDE DEF N
    <3>2. N # 1
      BY <3>1
    <3> QED BY <1>1, <2>2, <3>2 DEF N
  <2> QED BY <2>1, <2>2
<1>8. \A e \in live \ {p} : next'[e] = IF next[e] = p THEN next[p] ELSE next[e]
  <2>0. /\ next \in [Elem -> Elem \cup {NULL, Garbage}] /\ p # NULL
        /\ \A e \in live : next[e] # head
        /\ \A e, g \in live : next[e] = next[g] /\ next[e] # NULL => e = g
    BY <1>1, <1>2 DEF QueueInv, QueueTypeOK, Shape
  <2>1. CASE p = head
    BY <1>1, <1>2, <2>0, <2>1 DEF Freed
  <2>2. CASE p # head
    BY <1>1, <1>2, <2>0, <2>2 DEF Freed
  <2> QED BY <2>1, <2>2
<1>9. /\ \E t : InOrder(t)'
      /\ Items' = RemoveAt(Items, k) /\ Len(Items) = Len(s)
  BY <1>1, <1>3, <1>5, <1>6, <1>7, <1>8, PassedOver
<1>10. Fifo!RemoveOne
  BY <1>1, <1>9, FifoRemoveAt DEF Fifo!RemoveOne
<1> QED BY <1>9, <1>10

LEMMA FreeIsFifo ==
  ASSUME QueueInv, queue_free
  PROVE  Fifo!FreeAll /\ \E t : InOrder(t)'
<1>1. live' = {} /\ head' = NULL /\ tail' = NULL /\ freed' = TRUE /\ out' = out
  BY DEF QueueInv, Shape, queue_free
<1>2. Line(<<>>, head', next', live')
  BY <1>1, LineEmpty
<1>3. Items' = DataOf(<<>>, data')
  BY <1>2, WalkAlong, ItemsAreNext
<1>4. Items' = <<>>
  BY <1>3 DEF DataOf
<1>5. \E t : InOrder(t)'
  BY <1>1, <1>2 DEF InOrder
<1> QED BY <1>1, <1>4, <1>5 DEF Fifo!FreeAll

(* Values leave the queue in the order they came, except for the ones an   *)
(* iteration removes, for any number of elements and whatever OPERATE      *)
(* enqueues and removes meanwhile (queue.h:108-188).                       *)
THEOREM QueueIsFifo ==
  ASSUME RemoveTail = FALSE
  PROVE  QueueSpec => ImplementsFifo
<1>1. QueueInit => Fifo!FifoInit /\ QueueOrderInv
  <2> SUFFICES ASSUME QueueInit PROVE Fifo!FifoInit /\ QueueOrderInv
    OBVIOUS
  <2>1. Line(<<>>, head, next, live)
    BY LineEmpty DEF QueueInit
  <2>2. Items = DataOf(<<>>, data)
    BY <2>1, WalkAlong, ItemsAre
  <2>3. Items = <<>>
    BY <2>2 DEF DataOf
  <2>4. InOrder(<<>>)
    BY <2>1 DEF InOrder, QueueInit
  <2>5. QueueInv
    BY QueueInvInit
  <2> QED BY <2>3, <2>4, <2>5 DEF Fifo!FifoInit, QueueInit, QueueOrderInv
<1>2. QueueOrderInv /\ [QueueNext]_queueVars => QueueOrderInv' /\ [Fifo!FifoNext]_(Fifo!fifoVars)
  <2> SUFFICES ASSUME QueueOrderInv, [QueueNext]_queueVars
               PROVE  QueueOrderInv' /\ [Fifo!FifoNext]_(Fifo!fifoVars)
    OBVIOUS
  <2>1. QueueInv /\ QueueInv'
    BY QueueInvNext DEF QueueOrderInv
  <2>2. PICK s : InOrder(s)
    BY DEF QueueOrderInv
  <2>3. ASSUME NEW v \in Value, ~freed, queue_enque(v)
        PROVE  QueueOrderInv' /\ [Fifo!FifoNext]_(Fifo!fifoVars)
    BY <2>1, <2>2, <2>3, EnqueIsFifo DEF QueueOrderInv, Fifo!FifoNext
  <2>4. CASE ~freed /\ queue_deque
    BY <2>1, <2>2, <2>4, DequeIsFifo DEF QueueOrderInv, Fifo!FifoNext
  <2>5. CASE ~freed /\ queue_remove_elem
    BY <2>1, <2>2, <2>5, RemoveIsFifo DEF QueueOrderInv, Fifo!FifoNext
  <2>6. CASE ~freed /\ queue_free
    BY <2>1, <2>6, FreeIsFifo DEF QueueOrderInv, Fifo!FifoNext
  <2>7. ASSUME UNCHANGED <<head, tail, next, data, live, freed, out>>
        PROVE  QueueOrderInv' /\ [Fifo!FifoNext]_(Fifo!fifoVars)
    <3>1. Items' = Items
      BY <2>7 DEF Items
    <3> QED BY <2>1, <2>2, <2>7, <3>1 DEF QueueOrderInv, InOrder, Fifo!fifoVars
  <2>8. CASE queue_iterate \/ operate_continues \/ iterate_ends \/ iterate_stops
    BY <2>7, <2>8 DEF queue_iterate, operate_continues, iterate_ends, iterate_stops
  <2>9. CASE UNCHANGED queueVars
    BY <2>7, <2>9 DEF queueVars
  <2> QED BY <2>3, <2>4, <2>5, <2>6, <2>8, <2>9 DEF QueueNext
<1> QED BY <1>1, <1>2, PTL DEF QueueSpec, ImplementsFifo, Fifo!FifoSpec

-----------------------------------------------------------------------------
(* The dead lock detector.                                                  *)

HasFirst(p)  == pc[p] \in {"mark1", "add", "lock2", "mark2", "load", "store", "clear2", "unlock2",
                           "clear1", "unlock1"}
HasSecond(p) == pc[p] \in {"mark2", "load", "store", "clear2", "unlock2"}
DetectHas(m) == detect \in {"count", "unlock"} /\ index = m

\* Has p yet to add, and has it stored its second value?
Before(p) == pc[p] \in {"lock1", "mark1", "add"}
Past(p)   == pc[p] \in {"clear2", "unlock2", "clear1", "unlock1", "done"}

\* As long as the operator has unlocked nothing: a mutex is locked if somebody
\* has it, and one thread has it.
Owned ==
  \A p \in Player :
    /\ locked[p] <=> HasFirst(p) \/ HasSecond(Other(p)) \/ DetectHas(p)
    /\ ~(HasFirst(p) /\ HasSecond(Other(p))) /\ ~(HasFirst(p) /\ DetectHas(p))
    /\ ~(HasSecond(Other(p)) /\ DetectHas(p))

Listed == \A p \in Player :
  pc[p] \in {"add", "lock2", "mark2", "load", "store", "clear2", "unlock2", "clear1"} /\ monitor # "unlock" =>
    mute_status[p]

SharesSoFar ==
  /\ \A p \in Player :
       /\ share[p] = IF Before(p) THEN 0
                     ELSE IF ~Past(p) \/ ~Past(Other(p)) THEN Step[p] ELSE share[p]
       /\ pc[p] = "store" => loaded[p] = share[Other(p)]
  /\ Past("A") /\ Past("B") => <<share["A"], share["B"]>> \in {<<2, 5>>, <<5, 3>>}

Undisturbed == Owned /\ Listed /\ SharesSoFar

\* The mutex of victim was unlocked under it: the other player ends first.
FirstEnds(v, o) ==
  /\ pc[v] = "lock2" /\ ~Before(o) /\ pc[o] # "done"
  /\ locked[o] /\ ~DetectHas(o)
  /\ locked[v] <=> HasSecond(o) \/ DetectHas(v)
  /\ ~(HasSecond(o) /\ DetectHas(v))
  /\ share[v] = Step[v] /\ share[o] = IF Past(o) THEN 5 ELSE Step[o]
  /\ pc[o] = "store" => loaded[o] = share[v]

ThenVictimEnds(v, o) ==
  /\ ~Before(v) /\ pc[o] = "done"
  /\ locked[o] <=> HasSecond(v) \/ DetectHas(o)
  /\ ~(HasSecond(v) /\ DetectHas(o))
  /\ locked[v] => DetectHas(v)
  /\ share[o] = 5 /\ share[v] = IF Past(v) THEN 5 + Step[v] ELSE Step[v]
  /\ pc[v] = "store" => loaded[v] = share[o]

Disturbed ==
  /\ monitor \in {"load", "compare", "gone"}
  /\ FirstEnds(chosen, Other(chosen)) \/ ThenVictimEnds(chosen, Other(chosen))

Reported == monitor \in {"report", "unlock"} =>
  detect = "lock" /\ \A p \in Player : pc[p] = "lock2"

Ending ==
  /\ main # "join A" => pc["A"] = "done"
  /\ main \notin {"join A", "join B"} => pc["B"] = "done"
  /\ cancelled # {} \/ monitor = "gone" \/ detect = "gone" => pc["A"] = "done" /\ pc["B"] = "done"
  /\ main \in {"join detect", "destroy", "done"} => monitor = "gone"
  /\ main \in {"destroy", "done"} => detect = "gone"

DeadInv ==
  /\ DeadLockTypeOK /\ Reported /\ Ending
  /\ IF forced THEN Disturbed ELSE Undisturbed

-----------------------------------------------------------------------------

LEMMA Players ==
  /\ "A" \in Player /\ "B" \in Player /\ Other("A") = "B" /\ Other("B") = "A"
  /\ Step["A"] = 2 /\ Step["B"] = 3
  /\ \A p \in Player : p = "A" \/ p = "B"
  /\ \A p \in Player : Other(p) \in Player /\ Other(p) # p /\ Other(Other(p)) = p
  /\ \A p, q \in Player : q = p \/ q = Other(p)
  /\ \A p \in Player : Step[p] \in {2, 3} /\ Step[p] + Step[Other(p)] = 5
  BY DEF Player, Other, Step

LEMMA Types ==
  ASSUME DeadInv
  PROVE  /\ pc \in [Player -> {"lock1", "mark1", "add", "lock2", "mark2", "load", "store",
                               "clear2", "unlock2", "clear1", "unlock1", "done"}]
         /\ share \in [Player -> 0..8] /\ loaded \in [Player -> 0..8]
         /\ locked \in [Player -> BOOLEAN] /\ mute_status \in [Player -> BOOLEAN]
  BY DEF DeadInv, DeadLockTypeOK

LEMMA MutexTypes ==
  ASSUME DeadInv, NEW p \in Player, NEW m \in Player, NEW from,
         NEW to \in {"mark1", "add", "mark2", "load", "unlock2", "clear1", "unlock1", "done"},
         \/ lock(p, m, from, to) \/ unlock(p, m, from, to)
         \/ set_status(p, m, TRUE, from, to) \/ set_status(p, m, FALSE, from, to)
  PROVE  DeadLockTypeOK'
<1>1. UNCHANGED <<share, loaded, detect, index, moved, monitor, chosen, main, cancelled, forced>>
  BY DEF lock, unlock, set_status, otherVars
<1>2. pc' = [pc EXCEPT ![p] = to]
  BY DEF lock, unlock, set_status, goes
<1>3. pc' \in [Player -> {"lock1", "mark1", "add", "lock2", "mark2", "load", "store",
                         "clear2", "unlock2", "clear1", "unlock1", "done"}]
  BY <1>2, Types
<1>4. locked' \in [Player -> BOOLEAN]
  <2>1. locked' = locked \/ locked' = [locked EXCEPT ![m] = TRUE]
        \/ locked' = [locked EXCEPT ![m] = FALSE]
    BY DEF lock, unlock, set_status
  <2>2. QED BY <2>1, Types
<1>5. mute_status' \in [Player -> BOOLEAN]
  <2>1. mute_status' = mute_status \/ mute_status' = [mute_status EXCEPT ![m] = TRUE]
        \/ mute_status' = [mute_status EXCEPT ![m] = FALSE]
    BY DEF lock, unlock, set_status
  <2>2. QED BY <2>1, Types
<1>6. QED BY <1>1, <1>3, <1>4, <1>5 DEF DeadInv, DeadLockTypeOK

LEMMA LoadTypes ==
  ASSUME DeadInv, NEW p \in Player, load_other(p)
  PROVE  DeadLockTypeOK'
<1>1. UNCHANGED <<share, locked, mute_status, detect, index, moved, monitor, chosen, main,
                  cancelled, forced>>
  BY DEF load_other, mutexVars, otherVars
<1>2. pc' = [pc EXCEPT ![p] = "store"] /\ loaded' = [loaded EXCEPT ![p] = share[Other(p)]]
  BY DEF load_other, goes
<1>3. share[Other(p)] \in 0..8
  BY Types, Players
<1>4. loaded' \in [Player -> 0..8]
  BY <1>2, <1>3, Types
<1>5. pc' \in [Player -> {"lock1", "mark1", "add", "lock2", "mark2", "load", "store",
                         "clear2", "unlock2", "clear1", "unlock1", "done"}]
  BY <1>2, Types
<1>6. QED BY <1>1, <1>4, <1>5 DEF DeadInv, DeadLockTypeOK

\* A thread that can go on is not one of a dead lock that was reported.
LEMMA ThreadMoves ==
  ASSUME DeadInv, NEW p \in Player, thread_fun(p)
  PROVE  /\ monitor \notin {"report", "unlock"} /\ UNCHANGED otherVars
         /\ pc[p] # "done" /\ pc' = [pc EXCEPT ![p] = pc'[p]]
<1>1. \E from \in {"lock1", "mark1", "add", "lock2", "mark2", "load", "store",
                   "clear2", "unlock2", "clear1", "unlock1"},
         to \in {"mark1", "add", "lock2", "mark2", "load", "store",
                   "clear2", "unlock2", "clear1", "unlock1", "done"} : goes(p, from, to)
  BY DEF thread_fun, FirstLock, lock, set_status, unlock, add, load_other, store
<1>2. UNCHANGED otherVars
  BY DEF thread_fun, FirstLock, lock, set_status, unlock, add, load_other, store
<1>3. pc[p] # "done" /\ pc' = [pc EXCEPT ![p] = pc'[p]]
  BY <1>1, Types DEF goes
<1>4. ASSUME monitor \in {"report", "unlock"} PROVE FALSE
  <2>1. pc[p] = "lock2" /\ pc[Other(p)] = "lock2" /\ ~forced
    BY <1>4, Players DEF DeadInv, Reported, Disturbed
  <2>2. locked[Other(p)]
    BY <2>1, Players DEF DeadInv, Undisturbed, Owned, HasFirst
  <2>3. ~locked[Other(p)]
    BY <2>1 DEF thread_fun, FirstLock, lock, set_status, unlock, add, load_other, store, goes
  <2>4. QED BY <2>2, <2>3
<1>5. QED BY <1>2, <1>3, <1>4

\* What a step of a thread leaves to be shown.
LEMMA ThreadKeepsEnding ==
  ASSUME DeadInv, NEW p \in Player, thread_fun(p)
  PROVE  Reported' /\ Ending'
<1>1. /\ monitor' = monitor /\ main' = main /\ cancelled' = cancelled /\ detect' = detect
      /\ monitor \notin {"report", "unlock"} /\ pc[p] # "done" /\ pc' = [pc EXCEPT ![p] = pc'[p]]
  BY ThreadMoves DEF otherVars
<1>2. Reported'
  BY <1>1 DEF Reported
<1>3. /\ pc["A"] = "done" => pc'["A"] = "done"
      /\ pc["B"] = "done" => pc'["B"] = "done"
  BY <1>1, Types, Players
<1>4. Ending'
  BY <1>1, <1>3 DEF Ending, DeadInv
<1>5. QED BY <1>2, <1>4

LEMMA ThreadKeepsFree ==
  ASSUME DeadInv, ~forced, NEW p \in Player, thread_fun(p)
  PROVE  DeadLockTypeOK' /\ Undisturbed'
<1> DEFINE o == Other(p)
<1>1. /\ o \in Player /\ o # p /\ Other(o) = p /\ \A q \in Player : q = p \/ q = o
      /\ UNCHANGED otherVars /\ monitor \notin {"report", "unlock"}
  BY Players, ThreadMoves
<1>2. Owned /\ Listed /\ SharesSoFar /\ DeadLockTypeOK
  BY DEF DeadInv, Undisturbed
<1>3. detect' = detect /\ index' = index /\ monitor' = monitor
  BY <1>1 DEF otherVars
<1> HIDE DEF o
<1>4. CASE FirstLock(p)
  <2>1. /\ pc[p] = "lock1" /\ pc'[p] = "mark1" /\ pc'[o] = pc[o]
    BY <1>1, <1>4, Types DEF FirstLock, lock, goes
  <2>2. Owned'
    BY <1>1, <1>2, <1>3, <1>4, <2>1, Types DEF o, Owned, HasFirst, HasSecond, DetectHas, FirstLock, lock
  <2>3. Listed'
    BY <1>1, <1>2, <1>3, <1>4, <2>1, Types DEF o, Listed, Owned, HasFirst, HasSecond, FirstLock, lock
  <2>4. SharesSoFar'
    BY <1>1, <1>2, <1>3, <1>4, <2>1, Types, Players DEF o, SharesSoFar, Owned, HasFirst, HasSecond, Before, Past, FirstLock, lock
  <2>5. DeadLockTypeOK'
    BY <1>1, <1>2, <1>4, <2>1, Types, Players DEF DeadLockTypeOK, otherVars, FirstLock, lock, goes
  <2>6. QED BY <2>2, <2>3, <2>4, <2>5 DEF Undisturbed
<1>5. CASE set_status(p, p, TRUE, "mark1", "add")
  <2>1. /\ pc[p] = "mark1" /\ pc'[p] = "add" /\ pc'[o] = pc[o]
    BY <1>1, <1>5, Types DEF set_status, goes
  <2>2. Owned'
    BY <1>1, <1>2, <1>3, <1>5, <2>1, Types DEF o, Owned, HasFirst, HasSecond, DetectHas, set_status
  <2>3. Listed'
    BY <1>1, <1>2, <1>3, <1>5, <2>1, Types DEF o, Listed, Owned, HasFirst, HasSecond, set_status
  <2>4. SharesSoFar'
    BY <1>1, <1>2, <1>3, <1>5, <2>1, Types, Players DEF o, SharesSoFar, Owned, HasFirst, HasSecond, Before, Past, set_status
  <2>5. DeadLockTypeOK'
    BY <1>5, Players, MutexTypes
  <2>6. QED BY <2>2, <2>3, <2>4, <2>5 DEF Undisturbed
<1>6. CASE add(p)
  <2>1. /\ pc[p] = "add" /\ pc'[p] = "lock2" /\ pc'[o] = pc[o]
    BY <1>1, <1>6, Types DEF add, goes, mutexVars
  <2>2. Owned'
    BY <1>1, <1>2, <1>3, <1>6, <2>1, Types DEF o, Owned, HasFirst, HasSecond, DetectHas, add, mutexVars
  <2>3. Listed'
    BY <1>1, <1>2, <1>3, <1>6, <2>1, Types DEF o, Listed, Owned, HasFirst, HasSecond, add, mutexVars
  <2>4. SharesSoFar'
    BY <1>1, <1>2, <1>3, <1>6, <2>1, Types, Players DEF o, SharesSoFar, Owned, HasFirst, HasSecond, Before, Past, add, mutexVars
  <2>5. DeadLockTypeOK'
    <3>1. share[p] + Step[p] \in 0..8
      BY <1>1, <1>2, <2>1, Types, Players DEF o, SharesSoFar, Before, Past
    <3>2. share' = [share EXCEPT ![p] = share[p] + Step[p]]
      BY <1>6 DEF add
    <3>3. share' \in [Player -> 0..8]
      BY <3>1, <3>2, Types
    <3>4. QED BY <1>1, <1>2, <1>6, <2>1, <3>3, Types DEF DeadLockTypeOK, otherVars, add, goes, mutexVars
  <2>6. QED BY <2>2, <2>3, <2>4, <2>5 DEF Undisturbed
<1>7. CASE lock(p, Other(p), "lock2", "mark2")
  <2>1. /\ pc[p] = "lock2" /\ pc'[p] = "mark2" /\ pc'[o] = pc[o]
    BY <1>1, <1>7, Types DEF lock, goes
  <2>2. Owned'
    BY <1>1, <1>2, <1>3, <1>7, <2>1, Types DEF o, Owned, HasFirst, HasSecond, DetectHas, lock
  <2>3. Listed'
    BY <1>1, <1>2, <1>3, <1>7, <2>1, Types DEF o, Listed, Owned, HasFirst, HasSecond, lock
  <2>4. SharesSoFar'
    BY <1>1, <1>2, <1>3, <1>7, <2>1, Types, Players DEF o, SharesSoFar, Owned, HasFirst, HasSecond, Before, Past, lock
  <2>5. DeadLockTypeOK'
    BY <1>7, Players, MutexTypes
  <2>6. QED BY <2>2, <2>3, <2>4, <2>5 DEF Undisturbed
<1>8. CASE set_status(p, Other(p), TRUE, "mark2", "load")
  <2>1. /\ pc[p] = "mark2" /\ pc'[p] = "load" /\ pc'[o] = pc[o]
    BY <1>1, <1>8, Types DEF set_status, goes
  <2>2. Owned'
    BY <1>1, <1>2, <1>3, <1>8, <2>1, Types DEF o, Owned, HasFirst, HasSecond, DetectHas, set_status
  <2>3. Listed'
    BY <1>1, <1>2, <1>3, <1>8, <2>1, Types DEF o, Listed, Owned, HasFirst, HasSecond, set_status
  <2>4. SharesSoFar'
    BY <1>1, <1>2, <1>3, <1>8, <2>1, Types, Players DEF o, SharesSoFar, Owned, HasFirst, HasSecond, Before, Past, set_status
  <2>5. DeadLockTypeOK'
    BY <1>8, Players, MutexTypes
  <2>6. QED BY <2>2, <2>3, <2>4, <2>5 DEF Undisturbed
<1>9. CASE load_other(p)
  <2>1. /\ pc[p] = "load" /\ pc'[p] = "store" /\ pc'[o] = pc[o]
    BY <1>1, <1>9, Types DEF load_other, goes, mutexVars
  <2>2. Owned'
    BY <1>1, <1>2, <1>3, <1>9, <2>1, Types DEF o, Owned, HasFirst, HasSecond, DetectHas, load_other, mutexVars
  <2>3. Listed'
    BY <1>1, <1>2, <1>3, <1>9, <2>1, Types DEF o, Listed, Owned, HasFirst, HasSecond, load_other, mutexVars
  <2>4. SharesSoFar'
    BY <1>1, <1>2, <1>3, <1>9, <2>1, Types, Players DEF o, SharesSoFar, Owned, HasFirst, HasSecond, Before, Past, load_other, mutexVars
  <2>5. DeadLockTypeOK'
    BY <1>1, <1>2, <1>9, LoadTypes
  <2>6. QED BY <2>2, <2>3, <2>4, <2>5 DEF Undisturbed
<1>10. CASE store(p)
  <2>1. /\ pc[p] = "store" /\ pc'[p] = "clear2" /\ pc'[o] = pc[o]
    BY <1>1, <1>10, Types DEF store, goes, mutexVars
  <2>2. Owned'
    BY <1>1, <1>2, <1>3, <1>10, <2>1, Types DEF o, Owned, HasFirst, HasSecond, DetectHas, store, mutexVars
  <2>3. Listed'
    BY <1>1, <1>2, <1>3, <1>10, <2>1, Types DEF o, Listed, Owned, HasFirst, HasSecond, store, mutexVars
  <2>4. SharesSoFar'
    BY <1>1, <1>2, <1>3, <1>10, <2>1, Types, Players DEF o, SharesSoFar, Owned, HasFirst, HasSecond, Before, Past, store, mutexVars
  <2>5. DeadLockTypeOK'
    <3>1. loaded[p] + Step[p] \in 0..8
      BY <1>1, <1>2, <2>1, Types, Players DEF o, SharesSoFar, Before, Past
    <3>2. share' = [share EXCEPT ![p] = loaded[p] + Step[p]]
      BY <1>10 DEF store
    <3>3. share' \in [Player -> 0..8]
      BY <3>1, <3>2, Types
    <3>4. QED BY <1>1, <1>2, <1>10, <2>1, <3>3, Types DEF DeadLockTypeOK, otherVars, store, goes, mutexVars
  <2>6. QED BY <2>2, <2>3, <2>4, <2>5 DEF Undisturbed
<1>11. CASE set_status(p, Other(p), FALSE, "clear2", "unlock2")
  <2>1. /\ pc[p] = "clear2" /\ pc'[p] = "unlock2" /\ pc'[o] = pc[o]
    BY <1>1, <1>11, Types DEF set_status, goes
  <2>2. Owned'
    BY <1>1, <1>2, <1>3, <1>11, <2>1, Types DEF o, Owned, HasFirst, HasSecond, DetectHas, set_status
  <2>3. Listed'
    BY <1>1, <1>2, <1>3, <1>11, <2>1, Types DEF o, Listed, Owned, HasFirst, HasSecond, set_status
  <2>4. SharesSoFar'
    BY <1>1, <1>2, <1>3, <1>11, <2>1, Types, Players DEF o, SharesSoFar, Owned, HasFirst, HasSecond, Before, Past, set_status
  <2>5. DeadLockTypeOK'
    BY <1>11, Players, MutexTypes
  <2>6. QED BY <2>2, <2>3, <2>4, <2>5 DEF Undisturbed
<1>12. CASE unlock(p, Other(p), "unlock2", "clear1")
  <2>1. /\ pc[p] = "unlock2" /\ pc'[p] = "clear1" /\ pc'[o] = pc[o]
    BY <1>1, <1>12, Types DEF unlock, goes
  <2>2. Owned'
    BY <1>1, <1>2, <1>3, <1>12, <2>1, Types DEF o, Owned, HasFirst, HasSecond, DetectHas, unlock
  <2>3. Listed'
    BY <1>1, <1>2, <1>3, <1>12, <2>1, Types DEF o, Listed, Owned, HasFirst, HasSecond, unlock
  <2>4. SharesSoFar'
    BY <1>1, <1>2, <1>3, <1>12, <2>1, Types, Players DEF o, SharesSoFar, Owned, HasFirst, HasSecond, Before, Past, unlock
  <2>5. DeadLockTypeOK'
    BY <1>12, Players, MutexTypes
  <2>6. QED BY <2>2, <2>3, <2>4, <2>5 DEF Undisturbed
<1>13. CASE set_status(p, p, FALSE, "clear1", "unlock1")
  <2>1. /\ pc[p] = "clear1" /\ pc'[p] = "unlock1" /\ pc'[o] = pc[o]
    BY <1>1, <1>13, Types DEF set_status, goes
  <2>2. Owned'
    BY <1>1, <1>2, <1>3, <1>13, <2>1, Types DEF o, Owned, HasFirst, HasSecond, DetectHas, set_status
  <2>3. Listed'
    BY <1>1, <1>2, <1>3, <1>13, <2>1, Types DEF o, Listed, Owned, HasFirst, HasSecond, set_status
  <2>4. SharesSoFar'
    BY <1>1, <1>2, <1>3, <1>13, <2>1, Types, Players DEF o, SharesSoFar, Owned, HasFirst, HasSecond, Before, Past, set_status
  <2>5. DeadLockTypeOK'
    BY <1>13, Players, MutexTypes
  <2>6. QED BY <2>2, <2>3, <2>4, <2>5 DEF Undisturbed
<1>14. CASE unlock(p, p, "unlock1", "done")
  <2>1. /\ pc[p] = "unlock1" /\ pc'[p] = "done" /\ pc'[o] = pc[o]
    BY <1>1, <1>14, Types DEF unlock, goes
  <2>2. Owned'
    BY <1>1, <1>2, <1>3, <1>14, <2>1, Types DEF o, Owned, HasFirst, HasSecond, DetectHas, unlock
  <2>3. Listed'
    BY <1>1, <1>2, <1>3, <1>14, <2>1, Types DEF o, Listed, Owned, HasFirst, HasSecond, unlock
  <2>4. SharesSoFar'
    BY <1>1, <1>2, <1>3, <1>14, <2>1, Types, Players DEF o, SharesSoFar, Owned, HasFirst, HasSecond, Before, Past, unlock
  <2>5. DeadLockTypeOK'
    BY <1>14, Players, MutexTypes
  <2>6. QED BY <2>2, <2>3, <2>4, <2>5 DEF Undisturbed
<1>15. QED
  BY <1>4, <1>5, <1>6, <1>7, <1>8, <1>9, <1>10, <1>11, <1>12, <1>13, <1>14 DEF thread_fun

-----------------------------------------------------------------------------
(* The threads once the operator has unlocked a mutex.                     *)

LEMMA FirstEndsKeeps ==
  ASSUME DeadInv, NEW v \in Player, NEW o \in Player, o = Other(v), FirstEnds(v, o),
         NEW p \in Player, thread_fun(p)
  PROVE  DeadLockTypeOK' /\ (FirstEnds(v, o)' \/ ThenVictimEnds(v, o)')
<1>1. /\ v # o /\ Other(o) = v /\ (p = v \/ p = o) /\ UNCHANGED otherVars /\ DeadLockTypeOK
      /\ Step[o] + Step[v] = 5 /\ Step[o] \in {2, 3} /\ Step[v] \in {2, 3}
  BY Players, ThreadMoves DEF DeadInv
<1>2. p = o
  <2>1. CASE p = v
    BY <1>1, <2>1
    DEF FirstEnds, thread_fun, FirstLock, lock, set_status, unlock, add, load_other, store, goes
  <2>2. QED BY <1>1, <2>1
<1>3. detect' = detect /\ index' = index
  BY <1>1 DEF otherVars
<1>4. CASE lock(o, v, "lock2", "mark2")
  <2>1. pc[o] = "lock2" /\ pc'[o] = "mark2" /\ pc'[v] = pc[v]
    BY <1>1, <1>4, Types DEF lock, goes
  <2>2. FirstEnds(v, o)'
    BY <1>1, <1>3, <1>4, <2>1, Types DEF FirstEnds, HasSecond, DetectHas, Before, Past, lock
  <2>3. DeadLockTypeOK'
    BY <1>1, <1>4, MutexTypes
  <2>4. QED BY <2>2, <2>3
<1>5. CASE set_status(o, v, TRUE, "mark2", "load")
  <2>1. pc[o] = "mark2" /\ pc'[o] = "load" /\ pc'[v] = pc[v]
    BY <1>1, <1>5, Types DEF set_status, goes
  <2>2. FirstEnds(v, o)'
    BY <1>1, <1>3, <1>5, <2>1, Types DEF FirstEnds, HasSecond, DetectHas, Before, Past, set_status
  <2>3. DeadLockTypeOK'
    BY <1>1, <1>5, MutexTypes
  <2>4. QED BY <2>2, <2>3
<1>6. CASE load_other(o)
  <2>1. pc[o] = "load" /\ pc'[o] = "store" /\ pc'[v] = pc[v]
    BY <1>1, <1>6, Types DEF load_other, goes, mutexVars
  <2>2. FirstEnds(v, o)'
    BY <1>1, <1>3, <1>6, <2>1, Types DEF FirstEnds, HasSecond, DetectHas, Before, Past, load_other, mutexVars
  <2>3. DeadLockTypeOK'
    BY <1>1, <1>2, <1>6, LoadTypes
  <2>4. QED BY <2>2, <2>3
<1>7. CASE store(o)
  <2>1. pc[o] = "store" /\ pc'[o] = "clear2" /\ pc'[v] = pc[v]
    BY <1>1, <1>7, Types DEF store, goes, mutexVars
  <2>2. FirstEnds(v, o)'
    BY <1>1, <1>3, <1>7, <2>1, Types DEF FirstEnds, HasSecond, DetectHas, Before, Past, store, mutexVars
  <2>3. DeadLockTypeOK'
    <3>1. loaded[o] + Step[o] \in 0..8
      BY <1>1, <2>1 DEF FirstEnds, Before, Past
    <3>2. share' = [share EXCEPT ![o] = loaded[o] + Step[o]]
      BY <1>7 DEF store
    <3>3. share' \in [Player -> 0..8]
      BY <3>1, <3>2, Types
    <3>4. QED BY <1>1, <1>7, <2>1, <3>3, Types DEF DeadLockTypeOK, otherVars, store, goes, mutexVars
  <2>4. QED BY <2>2, <2>3
<1>8. CASE set_status(o, v, FALSE, "clear2", "unlock2")
  <2>1. pc[o] = "clear2" /\ pc'[o] = "unlock2" /\ pc'[v] = pc[v]
    BY <1>1, <1>8, Types DEF set_status, goes
  <2>2. FirstEnds(v, o)'
    BY <1>1, <1>3, <1>8, <2>1, Types DEF FirstEnds, HasSecond, DetectHas, Before, Past, set_status
  <2>3. DeadLockTypeOK'
    BY <1>1, <1>8, MutexTypes
  <2>4. QED BY <2>2, <2>3
<1>9. CASE unlock(o, v, "unlock2", "clear1")
  <2>1. pc[o] = "unlock2" /\ pc'[o] = "clear1" /\ pc'[v] = pc[v]
    BY <1>1, <1>9, Types DEF unlock, goes
  <2>2. FirstEnds(v, o)'
    BY <1>1, <1>3, <1>9, <2>1, Types DEF FirstEnds, HasSecond, DetectHas, Before, Past, unlock
  <2>3. DeadLockTypeOK'
    BY <1>1, <1>9, MutexTypes
  <2>4. QED BY <2>2, <2>3
<1>10. CASE set_status(o, o, FALSE, "clear1", "unlock1")
  <2>1. pc[o] = "clear1" /\ pc'[o] = "unlock1" /\ pc'[v] = pc[v]
    BY <1>1, <1>10, Types DEF set_status, goes
  <2>2. FirstEnds(v, o)'
    BY <1>1, <1>3, <1>10, <2>1, Types DEF FirstEnds, HasSecond, DetectHas, Before, Past, set_status
  <2>3. DeadLockTypeOK'
    BY <1>1, <1>10, MutexTypes
  <2>4. QED BY <2>2, <2>3
<1>11. CASE unlock(o, o, "unlock1", "done")
  <2>1. pc[o] = "unlock1" /\ pc'[o] = "done" /\ pc'[v] = pc[v]
    BY <1>1, <1>11, Types DEF unlock, goes
  <2>2. ThenVictimEnds(v, o)'
    BY <1>1, <1>3, <1>11, <2>1, Types DEF FirstEnds, ThenVictimEnds, HasSecond, DetectHas, Before, Past, unlock
  <2>3. DeadLockTypeOK'
    BY <1>1, <1>11, MutexTypes
  <2>4. QED BY <2>2, <2>3
<1>12. QED
  BY <1>1, <1>2, <1>4, <1>5, <1>6, <1>7, <1>8, <1>9, <1>10, <1>11
  DEF FirstEnds, Before, thread_fun, FirstLock, lock, set_status, unlock, add, load_other, store, goes

LEMMA VictimEndsKeeps ==
  ASSUME DeadInv, NEW v \in Player, NEW o \in Player, o = Other(v), ThenVictimEnds(v, o),
         NEW p \in Player, thread_fun(p)
  PROVE  DeadLockTypeOK' /\ ThenVictimEnds(v, o)'
<1>1. /\ v # o /\ Other(o) = v /\ (p = v \/ p = o) /\ UNCHANGED otherVars /\ DeadLockTypeOK
      /\ Step[o] + Step[v] = 5 /\ Step[o] \in {2, 3} /\ Step[v] \in {2, 3}
  BY Players, ThreadMoves DEF DeadInv
<1>2. p = v
  BY <1>1, ThreadMoves DEF ThenVictimEnds
<1>3. detect' = detect /\ index' = index
  BY <1>1 DEF otherVars
<1>4. CASE lock(v, o, "lock2", "mark2")
  <2>1. pc[v] = "lock2" /\ pc'[v] = "mark2" /\ pc'[o] = pc[o]
    BY <1>1, <1>4, Types DEF lock, goes
  <2>2. ThenVictimEnds(v, o)'
    BY <1>1, <1>3, <1>4, <2>1, Types DEF ThenVictimEnds, HasSecond, DetectHas, Before, Past, lock
  <2>3. DeadLockTypeOK'
    BY <1>1, <1>4, MutexTypes
  <2>4. QED BY <2>2, <2>3
<1>5. CASE set_status(v, o, TRUE, "mark2", "load")
  <2>1. pc[v] = "mark2" /\ pc'[v] = "load" /\ pc'[o] = pc[o]
    BY <1>1, <1>5, Types DEF set_status, goes
  <2>2. ThenVictimEnds(v, o)'
    BY <1>1, <1>3, <1>5, <2>1, Types DEF ThenVictimEnds, HasSecond, DetectHas, Before, Past, set_status
  <2>3. DeadLockTypeOK'
    BY <1>1, <1>5, MutexTypes
  <2>4. QED BY <2>2, <2>3
<1>6. CASE load_other(v)
  <2>1. pc[v] = "load" /\ pc'[v] = "store" /\ pc'[o] = pc[o]
    BY <1>1, <1>6, Types DEF load_other, goes, mutexVars
  <2>2. ThenVictimEnds(v, o)'
    BY <1>1, <1>3, <1>6, <2>1, Types DEF ThenVictimEnds, HasSecond, DetectHas, Before, Past, load_other, mutexVars
  <2>3. DeadLockTypeOK'
    BY <1>1, <1>2, <1>6, LoadTypes
  <2>4. QED BY <2>2, <2>3
<1>7. CASE store(v)
  <2>1. pc[v] = "store" /\ pc'[v] = "clear2" /\ pc'[o] = pc[o]
    BY <1>1, <1>7, Types DEF store, goes, mutexVars
  <2>2. ThenVictimEnds(v, o)'
    BY <1>1, <1>3, <1>7, <2>1, Types DEF ThenVictimEnds, HasSecond, DetectHas, Before, Past, store, mutexVars
  <2>3. DeadLockTypeOK'
    <3>1. loaded[v] + Step[v] \in 0..8
      BY <1>1, <2>1 DEF ThenVictimEnds, Before, Past
    <3>2. share' = [share EXCEPT ![v] = loaded[v] + Step[v]]
      BY <1>7 DEF store
    <3>3. share' \in [Player -> 0..8]
      BY <3>1, <3>2, Types
    <3>4. QED BY <1>1, <1>7, <2>1, <3>3, Types DEF DeadLockTypeOK, otherVars, store, goes, mutexVars
  <2>4. QED BY <2>2, <2>3
<1>8. CASE set_status(v, o, FALSE, "clear2", "unlock2")
  <2>1. pc[v] = "clear2" /\ pc'[v] = "unlock2" /\ pc'[o] = pc[o]
    BY <1>1, <1>8, Types DEF set_status, goes
  <2>2. ThenVictimEnds(v, o)'
    BY <1>1, <1>3, <1>8, <2>1, Types DEF ThenVictimEnds, HasSecond, DetectHas, Before, Past, set_status
  <2>3. DeadLockTypeOK'
    BY <1>1, <1>8, MutexTypes
  <2>4. QED BY <2>2, <2>3
<1>9. CASE unlock(v, o, "unlock2", "clear1")
  <2>1. pc[v] = "unlock2" /\ pc'[v] = "clear1" /\ pc'[o] = pc[o]
    BY <1>1, <1>9, Types DEF unlock, goes
  <2>2. ThenVictimEnds(v, o)'
    BY <1>1, <1>3, <1>9, <2>1, Types DEF ThenVictimEnds, HasSecond, DetectHas, Before, Past, unlock
  <2>3. DeadLockTypeOK'
    BY <1>1, <1>9, MutexTypes
  <2>4. QED BY <2>2, <2>3
<1>10. CASE set_status(v, v, FALSE, "clear1", "unlock1")
  <2>1. pc[v] = "clear1" /\ pc'[v] = "unlock1" /\ pc'[o] = pc[o]
    BY <1>1, <1>10, Types DEF set_status, goes
  <2>2. ThenVictimEnds(v, o)'
    BY <1>1, <1>3, <1>10, <2>1, Types DEF ThenVictimEnds, HasSecond, DetectHas, Before, Past, set_status
  <2>3. DeadLockTypeOK'
    BY <1>1, <1>10, MutexTypes
  <2>4. QED BY <2>2, <2>3
<1>11. CASE unlock(v, v, "unlock1", "done")
  <2>1. pc[v] = "unlock1" /\ pc'[v] = "done" /\ pc'[o] = pc[o]
    BY <1>1, <1>11, Types DEF unlock, goes
  <2>2. ThenVictimEnds(v, o)'
    BY <1>1, <1>3, <1>11, <2>1, Types DEF ThenVictimEnds, HasSecond, DetectHas, Before, Past, unlock
  <2>3. DeadLockTypeOK'
    BY <1>1, <1>11, MutexTypes
  <2>4. QED BY <2>2, <2>3
<1>12. QED
  BY <1>1, <1>2, <1>4, <1>5, <1>6, <1>7, <1>8, <1>9, <1>10, <1>11
  DEF ThenVictimEnds, Before, thread_fun, FirstLock, lock, set_status, unlock, add, load_other, store, goes

LEMMA ThreadKeeps ==
  ASSUME DeadInv, NEW p \in Player, thread_fun(p)
  PROVE  DeadInv'
<1>1. Reported' /\ Ending' /\ UNCHANGED otherVars
  BY ThreadMoves, ThreadKeepsEnding
<1>2. CASE ~forced
  BY <1>1, <1>2, ThreadKeepsFree DEF DeadInv, otherVars
<1>3. CASE forced
  <2> DEFINE v == chosen
             o == Other(chosen)
  <2>1. v \in Player /\ o \in Player /\ Disturbed
    BY <1>3, Players DEF DeadInv, DeadLockTypeOK
  <2>2. DeadLockTypeOK' /\ (FirstEnds(v, o) \/ ThenVictimEnds(v, o))'
    <3>1. PICK w \in Player, q \in Player : w = chosen /\ q = Other(w)
      BY <2>1
    <3>2. DeadLockTypeOK' /\ (FirstEnds(w, q) \/ ThenVictimEnds(w, q))'
      BY <2>1, <3>1, FirstEndsKeeps, VictimEndsKeeps DEF Disturbed
    <3>3. (w = chosen)'
      BY <1>1, <3>1 DEF otherVars
    <3>4. QED BY <3>1, <3>2, <3>3 DEF FirstEnds, ThenVictimEnds
  <2>3. Disturbed'
    BY <1>1, <2>1, <2>2 DEF Disturbed, otherVars
  <2>4. QED BY <1>1, <1>3, <2>2, <2>3 DEF DeadInv, otherVars
<1>4. QED BY <1>2, <1>3

-----------------------------------------------------------------------------
(* The detector, the monitor with its operator, and main.                  *)

LEMMA DetectorKeeps ==
  ASSUME DeadInv, loop_detect_deadlock_thread
  PROVE  DeadInv'
<1>1. /\ UNCHANGED <<workVars, mute_status, monitor, chosen, main, cancelled, forced>>
      /\ DeadLockTypeOK /\ Ending /\ Reported
  BY DEF loop_detect_deadlock_thread, detects, DeadInv
<1>2. pc' = pc /\ share' = share /\ loaded' = loaded
  BY <1>1 DEF workVars
<1>3. monitor \notin {"report", "unlock"}
  <2> SUFFICES ASSUME monitor \in {"report", "unlock"} PROVE FALSE
    OBVIOUS
  <2>1. detect = "lock" /\ pc["A"] = "lock2" /\ pc["B"] = "lock2" /\ ~forced
    BY <1>1, Players DEF Reported, DeadInv, Disturbed
  <2>2. locked["A"] /\ locked["B"]
    BY <2>1, Players DEF DeadInv, Undisturbed, Owned, HasFirst
  <2>3. locked[index]
    BY <1>1, <2>2, Players DEF DeadLockTypeOK
  <2>4. QED BY <2>1, <2>3 DEF loop_detect_deadlock_thread, detects, CancelPoint
<1>4. Reported'
  BY <1>1, <1>3 DEF Reported
<1>5. /\ detect' = "gone" => detect = "gone" \/ cancelled # {}
      /\ detect # "gone"
  BY DEF loop_detect_deadlock_thread, detects, CancelPoint
<1>6. Ending'
  BY <1>1, <1>2, <1>5 DEF Ending
<1>7. /\ detect' \in {"lock", "count", "unlock", "test", "gone"} /\ index' \in Player /\ moved' \in BOOLEAN
      /\ locked' \in [Player -> BOOLEAN]
  BY <1>1 DEF loop_detect_deadlock_thread, detects, DeadLockTypeOK, NextIndex, AfterUnlock, Player
<1>8. DeadLockTypeOK'
  BY <1>1, <1>2, <1>7 DEF DeadLockTypeOK
<1> DEFINE had(m) == DetectHas(m)
           has(m) == detect' \in {"count", "unlock"} /\ index' = m
<1>9. \/ locked' = locked /\ \A m \in Player : has(m) <=> had(m)
      \/ /\ ~locked[index] /\ locked' = [locked EXCEPT ![index] = TRUE]
         /\ \A m \in Player : ~had(m) /\ (has(m) <=> m = index)
      \/ /\ locked' = [locked EXCEPT ![index] = FALSE]
         /\ \A m \in Player : ~has(m) /\ (had(m) <=> m = index)
  BY DEF loop_detect_deadlock_thread, detects, AfterUnlock, DetectHas, CancelPoint
<1>10. \A m \in Player : DetectHas(m)' <=> has(m)
  BY DEF DetectHas
<1> HIDE DEF had, has
<1>11. CASE ~forced
  <2>1. Owned /\ Listed /\ SharesSoFar
    BY <1>11 DEF DeadInv, Undisturbed
  <2>2. Owned'
    <3> SUFFICES ASSUME NEW p \in Player
                 PROVE  /\ locked'[p] <=> HasFirst(p) \/ HasSecond(Other(p)) \/ has(p)
                        /\ ~(HasFirst(p) /\ HasSecond(Other(p))) /\ ~(HasFirst(p) /\ has(p))
                        /\ ~(HasSecond(Other(p)) /\ has(p))
      BY <1>2, <1>10 DEF Owned, HasFirst, HasSecond
    <3>1. /\ locked[p] <=> HasFirst(p) \/ HasSecond(Other(p)) \/ had(p)
          /\ ~(HasFirst(p) /\ HasSecond(Other(p))) /\ ~(HasFirst(p) /\ had(p))
          /\ ~(HasSecond(Other(p)) /\ had(p))
      BY <2>1 DEF Owned, had
    <3>2. QED BY <1>1, <1>9, <3>1 DEF DeadLockTypeOK
  <2>3. Listed' /\ SharesSoFar'
    BY <1>1, <1>2, <2>1 DEF Listed, SharesSoFar, Before, Past
  <2>4. QED BY <1>1, <1>4, <1>6, <1>8, <1>11, <2>2, <2>3 DEF DeadInv, Undisturbed
<1>12. CASE forced
  <2>1. Disturbed /\ chosen \in Player
    BY <1>1, <1>12 DEF DeadInv, DeadLockTypeOK
  <2>2. PICK v \in Player, o \in Player : v = chosen /\ o = Other(v) /\ v # o /\ v = Other(o)
    BY <2>1, Players
  <2>3. FirstEnds(v, o) => FirstEnds(v, o)'
    BY <1>1, <1>2, <1>9, <1>10, <2>2 DEF FirstEnds, had, DeadLockTypeOK, HasSecond, Before, Past
  <2>4. ThenVictimEnds(v, o) => ThenVictimEnds(v, o)'
    BY <1>1, <1>2, <1>9, <1>10, <2>2 DEF ThenVictimEnds, had, DeadLockTypeOK, HasSecond, Before, Past
  <2>5. (FirstEnds(v, o) \/ ThenVictimEnds(v, o))'
    BY <2>1, <2>2, <2>3, <2>4 DEF Disturbed
  <2>6. (FirstEnds(chosen, Other(chosen)) \/ ThenVictimEnds(chosen, Other(chosen)))'
    <3>1. (v = chosen)'
      BY <1>1, <2>2
    <3>2. QED BY <2>2, <2>5, <3>1 DEF FirstEnds, ThenVictimEnds
  <2>7. Disturbed'
    BY <1>1, <2>1, <2>6 DEF Disturbed
  <2>8. QED BY <1>1, <1>4, <1>6, <1>8, <1>12, <2>7 DEF DeadInv
<1>13. QED BY <1>11, <1>12

\* The count stands still only in a dead lock: a thread that waits for a mutex
\* which the other one does not have, or that is done, leaves one that can run.
LEMMA OnlyDeadLockStandsStill ==
  ASSUME DeadInv, NobodyRuns
  PROVE  ~forced /\ \A p \in Player : pc[p] = "lock2"
<1>1. /\ detect = "lock" /\ locked[index] /\ index \in Player /\ \A m \in Player : ~DetectHas(m)
      /\ \A p \in Player : Waiting(p)
  BY DEF NobodyRuns, DetectHas, DeadInv, DeadLockTypeOK
<1>2. CASE forced
  <2>1. PICK v \in Player, o \in Player :
          /\ v # o /\ o = Other(v) /\ v = Other(o) /\ (index = v \/ index = o)
          /\ FirstEnds(v, o) \/ ThenVictimEnds(v, o)
    BY <1>1, <1>2, Players DEF DeadInv, Disturbed, DeadLockTypeOK
  <2>2. CASE FirstEnds(v, o)
    BY <1>1, <2>1, <2>2 DEF FirstEnds, Waiting, HasSecond, Before
  <2>3. CASE ThenVictimEnds(v, o)
    BY <1>1, <2>1, <2>3 DEF ThenVictimEnds, Waiting, HasSecond, Before
  <2>4. QED BY <2>1, <2>2, <2>3
<1>3. CASE ~forced
  <2>1. \A p \in Player : locked[p] <=> HasFirst(p) \/ HasSecond(Other(p))
    BY <1>1, <1>3 DEF DeadInv, Undisturbed, Owned
  <2>2. \A p \in Player : ~HasSecond(p) /\ (HasFirst(p) => pc[p] = "lock2")
    BY <1>1 DEF Waiting, HasFirst, HasSecond
  <2>3. \A p \in Player : locked[p] <=> pc[p] = "lock2"
    BY <2>1, <2>2, Players DEF HasFirst
  <2>4. \A p \in Player : pc[p] = "lock2" => locked[Other(p)]
    BY <1>1 DEF Waiting
  <2>5. \A p \in Player : pc[p] = "lock2" => pc[Other(p)] = "lock2"
    BY <2>3, <2>4, Players
  <2>6. pc[index] = "lock2"
    BY <1>1, <2>3
  <2>7. QED BY <1>1, <1>3, <2>5, <2>6, Players
<1>4. QED BY <1>2, <1>3

\* What is said of the mutexes and of the shares, whatever else changes.
LEMMA WorkUnchanged ==
  ASSUME UNCHANGED <<workVars, locked, detect, index, chosen>>
  PROVE  /\ Owned => Owned' /\ (SharesSoFar => SharesSoFar')
         /\ FirstEnds(chosen, Other(chosen)) => FirstEnds(chosen, Other(chosen))'
         /\ ThenVictimEnds(chosen, Other(chosen)) => ThenVictimEnds(chosen, Other(chosen))'
<1>1. pc' = pc /\ share' = share /\ loaded' = loaded /\ locked' = locked /\ detect' = detect
      /\ index' = index /\ chosen' = chosen
  BY DEF workVars
<1>2. Owned => Owned'
  BY <1>1 DEF Owned, HasFirst, HasSecond, DetectHas
<1>3. SharesSoFar => SharesSoFar'
  BY <1>1 DEF SharesSoFar, Before, Past
<1>4. FirstEnds(chosen, Other(chosen)) => FirstEnds(chosen, Other(chosen))'
  BY <1>1 DEF FirstEnds, HasSecond, DetectHas, Before, Past
<1>5. ThenVictimEnds(chosen, Other(chosen)) => ThenVictimEnds(chosen, Other(chosen))'
  BY <1>1 DEF ThenVictimEnds, HasSecond, DetectHas, Before, Past
<1>6. QED BY <1>2, <1>3, <1>4, <1>5

LEMMA MonitorKeeps ==
  ASSUME DeadInv, loop_detect_count_thread
  PROVE  DeadInv'
<1>1. /\ UNCHANGED <<workVars, locked, mute_status, detect, index, main, cancelled, chosen, forced>>
      /\ monitor \in {"load", "compare"} /\ monitor' \in {"load", "compare", "report"}
      /\ monitor' = "report" => NobodyRuns
      /\ moved' \in BOOLEAN
  BY DEF loop_detect_count_thread, monitors, mutexVars, DeadInv, DeadLockTypeOK
<1>2. pc' = pc /\ share' = share /\ loaded' = loaded /\ DeadLockTypeOK /\ Ending
  BY <1>1 DEF workVars, DeadInv
<1>3. DeadLockTypeOK'
  BY <1>1, <1>2 DEF DeadLockTypeOK
<1>4. Reported'
  BY <1>1, <1>2, OnlyDeadLockStandsStill DEF Reported, NobodyRuns
<1>5. Ending'
  BY <1>1, <1>2 DEF Ending
<1>6. CASE ~forced
  <2>1. Owned' /\ SharesSoFar'
    BY <1>1, <1>6, WorkUnchanged DEF DeadInv, Undisturbed
  <2>2. Listed'
    BY <1>1, <1>2, <1>6 DEF DeadInv, Undisturbed, Listed
  <2>3. QED BY <1>1, <1>3, <1>4, <1>5, <1>6, <2>1, <2>2 DEF DeadInv, Undisturbed
<1>7. CASE forced
  <2>1. monitor' # "report"
    BY <1>1, <1>7, OnlyDeadLockStandsStill
  <2>2. (FirstEnds(chosen, Other(chosen)) \/ ThenVictimEnds(chosen, Other(chosen)))'
    BY <1>1, <1>7, WorkUnchanged DEF DeadInv, Disturbed
  <2>3. Disturbed'
    BY <1>1, <2>1, <2>2 DEF Disturbed
  <2>4. QED BY <1>1, <1>3, <1>4, <1>5, <1>7, <2>3 DEF DeadInv
<1>8. QED BY <1>6, <1>7

LEMMA OperatorKeeps ==
  ASSUME DeadInv, handle_dead_lock
  PROVE  DeadInv'
<1>1. /\ UNCHANGED <<workVars, detect, index, main, cancelled, moved>>
      /\ monitor \in {"report", "unlock"}
  BY DEF handle_dead_lock, monitors
<1>2. pc' = pc /\ share' = share /\ loaded' = loaded /\ DeadLockTypeOK /\ Ending
  BY <1>1 DEF workVars, DeadInv
<1>3. /\ ~forced /\ Owned /\ SharesSoFar /\ detect = "lock" /\ \A p \in Player : pc[p] = "lock2"
  BY <1>1 DEF DeadInv, Disturbed, Undisturbed, Reported
<1>4. CASE monitor = "report"
  <2>1. PICK m \in Player :
          /\ monitor' = "unlock" /\ chosen' = m /\ mute_status' = [mute_status EXCEPT ![m] = FALSE]
          /\ UNCHANGED <<locked, forced>>
    BY <1>4 DEF handle_dead_lock, monitors
  <2>2. DeadLockTypeOK'
    BY <1>1, <1>2, <2>1 DEF DeadLockTypeOK
  <2>3. Owned' /\ SharesSoFar' /\ Listed'
    BY <1>1, <1>2, <1>3, <2>1
    DEF Owned, SharesSoFar, Listed, HasFirst, HasSecond, DetectHas, Before, Past
  <2>4. Reported' /\ Ending'
    BY <1>1, <1>2, <1>3, <2>1 DEF Reported, Ending
  <2>5. QED BY <1>3, <2>1, <2>2, <2>3, <2>4 DEF DeadInv, Undisturbed
<1>5. CASE monitor = "unlock"
  <2>1. /\ monitor' = "load" /\ locked' = [locked EXCEPT ![chosen] = FALSE] /\ forced' = TRUE
        /\ UNCHANGED <<mute_status, chosen>>
    BY <1>5 DEF handle_dead_lock, monitors, OperatorUnlocks
  <2>2. DeadLockTypeOK'
    BY <1>1, <1>2, <2>1 DEF DeadLockTypeOK
  <2>3. Reported' /\ Ending'
    BY <1>1, <1>2, <2>1 DEF Reported, Ending
  <2>4. PICK v \in Player, o \in Player : v = chosen /\ o = Other(v) /\ v # o /\ v = Other(o)
    BY <1>2, Players DEF DeadLockTypeOK
  <2>5. locked[o] /\ share[v] = Step[v] /\ share[o] = Step[o]
    BY <1>3, <2>4 DEF Owned, SharesSoFar, HasFirst, Before, Past
  <2>6. FirstEnds(v, o)'
    BY <1>1, <1>2, <1>3, <2>1, <2>4, <2>5 DEF FirstEnds, Before, Past, HasSecond, DetectHas, DeadLockTypeOK
  <2>7. FirstEnds(chosen, Other(chosen))'
    <3>1. (v = chosen)'
      BY <2>1, <2>4
    <3>2. QED BY <2>4, <2>6, <3>1 DEF FirstEnds
  <2>8. Disturbed'
    BY <2>1, <2>7 DEF Disturbed
  <2>9. QED BY <2>1, <2>2, <2>3, <2>8 DEF DeadInv
<1>6. QED BY <1>1, <1>4, <1>5

LEMMA CancelKeeps ==
  ASSUME DeadInv, count_thread_cancelled
  PROVE  DeadInv'
<1>1. /\ UNCHANGED <<workVars, locked, mute_status, detect, index, main, cancelled, chosen, forced, moved>>
      /\ monitor' = "gone" /\ cancelled # {}
  BY DEF count_thread_cancelled, monitors, mutexVars
<1>2. pc' = pc /\ share' = share /\ loaded' = loaded /\ DeadLockTypeOK /\ Ending /\ Reported
  BY <1>1 DEF workVars, DeadInv
<1>3. pc["A"] = "done" /\ pc["B"] = "done" /\ monitor \notin {"report", "unlock"}
  BY <1>1, <1>2, Players DEF Ending, Reported
<1>4. DeadLockTypeOK'
  BY <1>1, <1>2 DEF DeadLockTypeOK
<1>5. Reported' /\ Ending'
  BY <1>1, <1>2, <1>3 DEF Reported, Ending
<1>6. CASE ~forced
  <2>1. Owned' /\ SharesSoFar'
    BY <1>1, <1>6, WorkUnchanged DEF DeadInv, Undisturbed
  <2>2. Listed'
    BY <1>1, <1>2, <1>3, <1>6 DEF DeadInv, Undisturbed, Listed
  <2>3. QED BY <1>1, <1>4, <1>5, <1>6, <2>1, <2>2 DEF DeadInv, Undisturbed
<1>7. CASE forced
  <2>1. (FirstEnds(chosen, Other(chosen)) \/ ThenVictimEnds(chosen, Other(chosen)))'
    BY <1>1, <1>7, WorkUnchanged DEF DeadInv, Disturbed
  <2>2. Disturbed'
    BY <1>1, <2>1 DEF Disturbed
  <2>3. QED BY <1>1, <1>4, <1>5, <1>7, <2>2 DEF DeadInv
<1>8. QED BY <1>6, <1>7

LEMMA MainKeeps ==
  ASSUME DeadInv, main_thread
  PROVE  DeadInv'
<1>1. /\ UNCHANGED <<workVars, locked, mute_status, detect, index, moved, monitor, chosen, forced>>
      /\ cancelled' \subseteq cancelled \cup {"detect", "monitor"}
      /\ cancelled' # cancelled => main \in {"cancel count", "cancel detect"}
      /\ main' \in {"join A", "join B", "cancel count", "cancel detect", "join count",
                    "join detect", "destroy", "done"}
  BY DEF main_thread, join, cancel, mains, mutexVars
<1>2. pc' = pc /\ share' = share /\ loaded' = loaded /\ DeadLockTypeOK /\ Ending /\ Reported
  BY <1>1 DEF workVars, DeadInv
<1>3. DeadLockTypeOK' /\ Reported'
  BY <1>1, <1>2 DEF DeadLockTypeOK, Reported
<1>4. Ending'
  BY <1>1, <1>2 DEF Ending, main_thread, join, cancel, mains
<1>5. CASE ~forced
  <2>1. Owned' /\ SharesSoFar'
    BY <1>1, <1>5, WorkUnchanged DEF DeadInv, Undisturbed
  <2>2. Listed'
    BY <1>1, <1>2, <1>5 DEF DeadInv, Undisturbed, Listed
  <2>3. QED BY <1>1, <1>3, <1>4, <1>5, <2>1, <2>2 DEF DeadInv, Undisturbed
<1>6. CASE forced
  <2>1. (FirstEnds(chosen, Other(chosen)) \/ ThenVictimEnds(chosen, Other(chosen)))'
    BY <1>1, <1>6, WorkUnchanged DEF DeadInv, Disturbed
  <2>2. Disturbed'
    BY <1>1, <1>6, <2>1 DEF Disturbed, DeadInv
  <2>3. QED BY <1>1, <1>3, <1>4, <1>6, <2>2 DEF DeadInv
<1>7. QED BY <1>5, <1>6

LEMMA StutterKeeps ==
  ASSUME DeadInv, UNCHANGED lockVars
  PROVE  DeadInv'
<1>1. /\ UNCHANGED <<workVars, locked, mute_status, detect, index, moved, monitor, chosen, main,
                     cancelled, forced>>
  BY DEF lockVars, mutexVars, otherVars
<1>2. pc' = pc /\ share' = share /\ loaded' = loaded /\ DeadLockTypeOK /\ Ending /\ Reported
  BY <1>1 DEF workVars, DeadInv
<1>3. DeadLockTypeOK' /\ Reported' /\ Ending'
  BY <1>1, <1>2 DEF DeadLockTypeOK, Reported, Ending
<1>4. CASE ~forced
  <2>1. Owned' /\ SharesSoFar' /\ Listed'
    BY <1>1, <1>2, <1>4, WorkUnchanged DEF DeadInv, Undisturbed, Listed
  <2>2. QED BY <1>1, <1>3, <1>4, <2>1 DEF DeadInv, Undisturbed
<1>5. CASE forced
  <2>1. (FirstEnds(chosen, Other(chosen)) \/ ThenVictimEnds(chosen, Other(chosen)))'
    BY <1>1, <1>5, WorkUnchanged DEF DeadInv, Disturbed
  <2>2. Disturbed'
    BY <1>1, <1>5, <2>1 DEF Disturbed, DeadInv
  <2>3. QED BY <1>1, <1>3, <1>5, <2>2 DEF DeadInv
<1>6. QED BY <1>4, <1>5

LEMMA DeadLockInitInv ==
  ASSUME DeadLockInit
  PROVE  DeadInv
<1>1. DeadLockTypeOK
  <2>1. pc \in [Player -> {"lock1", "mark1", "add", "lock2", "mark2", "load", "store",
                           "clear2", "unlock2", "clear1", "unlock1", "done"}]
    BY DEF DeadLockInit
  <2>2. share \in [Player -> 0..8] /\ loaded \in [Player -> 0..8]
    <3>1. 0 \in 0..8
      OBVIOUS
    <3>2. QED BY <3>1, Zenon DEF DeadLockInit
  <2>3. locked \in [Player -> BOOLEAN] /\ mute_status \in [Player -> BOOLEAN]
    BY Zenon DEF DeadLockInit
  <2>4. moved \in BOOLEAN /\ forced \in BOOLEAN
    BY Zenon DEF DeadLockInit
  <2>5. index \in Player /\ chosen \in Player
    BY Players DEF DeadLockInit
  <2>6. QED BY <2>1, <2>2, <2>3, <2>4, <2>5 DEF DeadLockInit, DeadLockTypeOK
<1>2. Reported /\ Ending
  BY DEF DeadLockInit, Reported, Ending
<1>3. \A p \in Player : pc[p] = "lock1" /\ ~locked[p] /\ share[p] = 0
  BY DEF DeadLockInit
<1>4. Owned /\ Listed /\ SharesSoFar
  BY <1>3, Players DEF DeadLockInit, Owned, Listed, SharesSoFar, HasFirst, HasSecond, DetectHas, Before, Past
<1>5. ~forced
  BY DEF DeadLockInit
<1>6. QED BY <1>1, <1>2, <1>4, <1>5 DEF DeadInv, Undisturbed

\* Until the operator unlocks a mutex each mutex has one holder; then one
\* thread runs to its end before the other goes on.
THEOREM DeadLockInvariant == DeadLockSpec => []DeadInv
<1>1. DeadLockInit => DeadInv
  BY DeadLockInitInv
<1>2. DeadInv /\ [DeadLockNext]_lockVars => DeadInv'
  <2> SUFFICES ASSUME DeadInv, [DeadLockNext]_lockVars PROVE DeadInv'
    OBVIOUS
  <2>1. CASE \E p \in Player : thread_fun(p)
    BY <2>1, ThreadKeeps
  <2>2. CASE loop_detect_deadlock_thread
    BY <2>2, DetectorKeeps
  <2>3. CASE loop_detect_count_thread
    BY <2>3, MonitorKeeps
  <2>4. CASE handle_dead_lock
    BY <2>4, OperatorKeeps
  <2>5. CASE count_thread_cancelled
    BY <2>5, CancelKeeps
  <2>6. CASE main_thread
    BY <2>6, MainKeeps
  <2>7. CASE Ended \/ UNCHANGED lockVars
    BY <2>7, StutterKeeps DEF Ended
  <2>8. QED BY <2>1, <2>2, <2>3, <2>4, <2>5, <2>6, <2>7 DEF DeadLockNext
<1>3. QED BY <1>1, <1>2, PTL DEF DeadLockSpec

\* main destroys the mutexes (line 256) only when no thread holds or could
\* still take one, although the operator may have unlocked one under its holder.
THEOREM DeadLockStateCorrect == DeadLockSpec => []DeadLockStateOK
<1>1. DeadInv => DeadLockStateOK
  <2> SUFFICES ASSUME DeadInv PROVE DeadLockStateOK
    OBVIOUS
  <2>1. ASSUME main = "destroy" PROVE NothingLockedAtDestroy
    <3>1. /\ pc["A"] = "done" /\ pc["B"] = "done" /\ monitor = "gone" /\ detect = "gone"
      BY <2>1 DEF DeadInv, Ending
    <3>2. \A p \in Player : pc[p] = "done" /\ pc[Other(p)] = "done" /\ ~DetectHas(p)
      BY <3>1, Players DEF DetectHas
    <3>3. CASE ~forced
      BY <3>1, <3>2, <3>3 DEF DeadInv, Undisturbed, Owned, HasFirst, HasSecond, NothingLockedAtDestroy
    <3>4. CASE forced
      <4>1. PICK v \in Player, o \in Player :
              /\ o = Other(v) /\ (FirstEnds(v, o) \/ ThenVictimEnds(v, o))
        BY <3>4, Players DEF DeadInv, Disturbed, DeadLockTypeOK
      <4>2. ThenVictimEnds(v, o)
        BY <3>2, <4>1 DEF FirstEnds
      <4>3. ~locked[v] /\ ~locked[o]
        BY <3>2, <4>2 DEF ThenVictimEnds, HasSecond
      <4>4. \A m \in Player : m = v \/ m = o
        BY <4>1, Players
      <4>5. \A m \in Player : ~locked[m]
        BY <4>3, <4>4
      <4>6. QED BY <3>1, <3>2, <4>5 DEF NothingLockedAtDestroy
    <3>5. QED BY <3>3, <3>4
  <2>2. QED BY <2>1 DEF DeadLockStateOK, NothingLockedAtDestroy, DeadInv
<1>2. QED BY <1>1, DeadLockInvariant, PTL

\* The two assignments of lines 151 and 177 never overlap, not even when the
\* mutex of a thread was unlocked under it.
THEOREM DeadLockSharesSerial == DeadLockSpec => []SharesAreSerial
<1>1. DeadInv => SharesAreSerial
  <2> SUFFICES ASSUME DeadInv, main = "done" PROVE SharesAreSerial
    BY DEF SharesAreSerial
  <2>1. pc["A"] = "done" /\ pc["B"] = "done"
    BY DEF DeadInv, Ending
  <2>2. CASE ~forced
    BY <2>1, <2>2 DEF DeadInv, Undisturbed, SharesSoFar, Past, SharesAreSerial
  <2>3. CASE forced
    <3>1. chosen \in Player /\ (FirstEnds(chosen, Other(chosen)) \/ ThenVictimEnds(chosen, Other(chosen)))
      BY <2>3 DEF DeadInv, Disturbed, DeadLockTypeOK
    <3>2. CASE chosen = "A"
      BY <2>1, <2>3, <3>1, <3>2, Players DEF FirstEnds, ThenVictimEnds, Past, SharesAreSerial
    <3>3. CASE chosen = "B"
      BY <2>1, <2>3, <3>1, <3>3, Players DEF FirstEnds, ThenVictimEnds, Past, SharesAreSerial
    <3>4. QED BY <3>1, <3>2, <3>3, Players
  <2>4. QED BY <2>2, <2>3
<1>2. QED BY <1>1, DeadLockInvariant, PTL

\* A count that stands still is a dead lock: each player waits for the mutex
\* the other one holds when line 122 reports one.
THEOREM DeadLockAlarm == DeadLockSpec => []AlarmOnlyOnDeadlock
<1>1. DeadInv => AlarmOnlyOnDeadlock
  <2> SUFFICES ASSUME DeadInv, monitor = "report", NEW p \in Player
               PROVE  pc[p] = "lock2" /\ locked[p] /\ mute_status[p]
    BY DEF AlarmOnlyOnDeadlock
  <2>1. pc[p] = "lock2" /\ ~forced
    BY DEF DeadInv, Reported, Disturbed
  <2>2. QED BY <2>1 DEF DeadInv, Undisturbed, Owned, Listed, HasFirst
<1>2. QED BY <1>1, DeadLockInvariant, PTL

=============================================================================
