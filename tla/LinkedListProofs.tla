-------------------------- MODULE LinkedListProofs --------------------------
(***************************************************************************)
(* The rings of list.h stay rings, for every number of heads and entries.  *)
(* Wired says that next and prev are inverse within a list; that alone     *)
(* would let a call cut off a ring of entries without a head, so Headed    *)
(* says of every set that is closed under next that it holds a head.  Both *)
(* are kept by __list_add, __list_del, __list_splice and list_swap, from   *)
(* which all calls are made.                                               *)
(*                                                                         *)
(* A walk meets every entry that was in its list when it began and that    *)
(* stays there, in the order of the list: DueInv says that what is still   *)
(* due lies on the way from its position to the head, each entry behind    *)
(* the ones before it.                                                     *)
(*                                                                         *)
(* Every head stands for a sequence of entries, and each call does to the  *)
(* sequences what its name says: Ring ties the pointers of one list to its *)
(* sequence, Stands all of them, and Order computes the sequence a ring    *)
(* is tied to.  A call is followed through the ring it changes, then       *)
(* through all sequences, and last to the step of ListSeq it is.           *)
(***************************************************************************)
EXTENDS LinkedList, Iteration, FiniteSetTheorems

Owners == [Nodes -> Heads \cup {NULL}]

HeadsOwn(own) == \A h \in Heads : own[h] \in {h, NULL}

Wired(m, own) ==
  \A x \in Nodes : own[x] # NULL =>
    /\ m.next[x] \in Nodes /\ m.prev[x] \in Nodes
    /\ own[m.next[x]] = own[x] /\ own[m.prev[x]] = own[x]
    /\ m.prev[m.next[x]] = x /\ m.next[m.prev[x]] = x

Headed(m, own) ==
  \A S \in SUBSET Nodes :
    (S # {} /\ \A x \in S : own[x] # NULL /\ m.next[x] \in S) => S \cap Heads # {}

Rings(m, own) ==
  m \in Mem /\ own \in Owners /\ HeadsOwn(own) /\ Wired(m, own) /\ Headed(m, own)

\* A node in no list is cleared, or stands for itself; a head is not cleared.
Loose(m, own) ==
  /\ \A e \in Entries : own[e] = NULL => m.next[e] \in {e, NULL} /\ m.prev[e] = m.next[e]
  /\ \A h \in Heads : m.next[h] # NULL /\ m.prev[h] # NULL

-----------------------------------------------------------------------------
(* What the assignments do, node by node.                                  *)

LEMMA SetNextMem ==
  ASSUME NEW m \in Mem, NEW x \in Nodes, NEW y \in Nodes \cup {NULL}
  PROVE  /\ SetNext(m, x, y) \in Mem
         /\ SetNext(m, x, y).prev = m.prev
         /\ \A z \in Nodes : SetNext(m, x, y).next[z] = IF z = x THEN y ELSE m.next[z]
BY DEF SetNext, Mem

LEMMA SetPrevMem ==
  ASSUME NEW m \in Mem, NEW x \in Nodes, NEW y \in Nodes \cup {NULL}
  PROVE  /\ SetPrev(m, x, y) \in Mem
         /\ SetPrev(m, x, y).next = m.next
         /\ \A z \in Nodes : SetPrev(m, x, y).prev[z] = IF z = x THEN y ELSE m.prev[z]
BY DEF SetPrev, Mem

LEMMA ListAddMem ==
  ASSUME NEW m \in Mem, NEW new \in Nodes, NEW p \in Nodes, NEW n \in Nodes
  PROVE  /\ ListAdd(m, new, p, n) \in Mem
         /\ \A z \in Nodes :
              /\ ListAdd(m, new, p, n).next[z] =
                   IF z = p THEN new ELSE IF z = new THEN n ELSE m.next[z]
              /\ ListAdd(m, new, p, n).prev[z] =
                   IF z = new THEN p ELSE IF z = n THEN new ELSE m.prev[z]
BY DEF ListAdd, SetNext, SetPrev, Mem

LEMMA ListDelMem ==
  ASSUME NEW m \in Mem, NEW x \in Nodes, m.prev[x] \in Nodes, m.next[x] \in Nodes
  PROVE  /\ ListDel(m, x) \in Mem
         /\ \A z \in Nodes :
              /\ ListDel(m, x).next[z] = IF z = m.prev[x] THEN m.next[x] ELSE m.next[z]
              /\ ListDel(m, x).prev[z] = IF z = m.next[x] THEN m.prev[x] ELSE m.prev[z]
BY DEF ListDel, SetNext, SetPrev, Mem

LEMMA InitListHeadMem ==
  ASSUME NEW m \in Mem, NEW x \in Nodes
  PROVE  /\ InitListHead(m, x) \in Mem
         /\ \A z \in Nodes :
              /\ InitListHead(m, x).next[z] = IF z = x THEN x ELSE m.next[z]
              /\ InitListHead(m, x).prev[z] = IF z = x THEN x ELSE m.prev[z]
BY DEF InitListHead, SetNext, SetPrev, Mem

LEMMA ListSpliceMem ==
  ASSUME NEW m \in Mem, NEW h \in Nodes, NEW g \in Nodes,
         m.next[h] \in Nodes, m.prev[h] \in Nodes, m.next[g] \in Nodes
  PROVE  /\ ListSplice(m, h, g) \in Mem
         /\ \A z \in Nodes :
              /\ ListSplice(m, h, g).next[z] =
                   IF z = m.prev[h] THEN m.next[g]
                   ELSE IF z = g THEN m.next[h] ELSE m.next[z]
              /\ ListSplice(m, h, g).prev[z] =
                   IF z = m.next[g] THEN m.prev[h]
                   ELSE IF z = m.next[h] THEN g ELSE m.prev[z]
BY DEF ListSplice, SetNext, SetPrev, Mem

\* list_swap exchanges the places of d and e, be they apart, neighbours in
\* either order, or the same.
Exchange(d, e, z) == IF z = d THEN e ELSE IF z = e THEN d ELSE z

LEMMA ListSwapMem ==
  ASSUME NEW m \in Mem, NEW d \in Nodes, NEW e \in Nodes,
         \A x \in {d, e} : /\ m.next[x] \in Nodes /\ m.prev[x] \in Nodes
                           /\ m.prev[m.next[x]] = x /\ m.next[m.prev[x]] = x
                           /\ m.next[x] # x
  PROVE  /\ ListSwap(m, d, e) \in Mem
         /\ \A z \in Nodes :
              /\ ListSwap(m, d, e).next[z] =
                   IF z = d THEN Exchange(d, e, m.next[e])
                   ELSE IF z = e THEN Exchange(d, e, m.next[d])
                   ELSE IF z = m.prev[e] THEN d ELSE IF z = m.prev[d] THEN e ELSE m.next[z]
              /\ ListSwap(m, d, e).prev[z] =
                   IF z = d THEN Exchange(d, e, m.prev[e])
                   ELSE IF z = e THEN Exchange(d, e, m.prev[d])
                   ELSE IF z = m.next[e] THEN d ELSE IF z = m.next[d] THEN e ELSE m.prev[z]
<1> DEFINE f  == m.next
           b  == m.prev
           m2 == SetNext(SetNext(m, b[d], e), b[e], d)
           m4 == SetPrev(SetPrev(m2, d, b[e]), e, b[d])
           m6 == SetPrev(SetPrev(m4, m2.next[d], e), m2.next[e], d)
           m8 == SetNext(SetNext(m6, d, m2.next[e]), e, m2.next[d])
<1>1. /\ \A z \in {d, e} : f[z] \in Nodes /\ b[z] \in Nodes
      /\ \A z \in {d, e} : b[f[z]] = z /\ f[b[z]] = z /\ f[z] # z
  OBVIOUS
<1>2. /\ m2 \in Mem /\ m2.prev = b
      /\ \A z \in Nodes : m2.next[z] = IF z = b[e] THEN d ELSE IF z = b[d] THEN e ELSE f[z]
  BY <1>1 DEF SetNext, Mem
<1>3. m2.next[d] \in Nodes /\ m2.next[e] \in Nodes BY <1>1, <1>2
<1>4. ListSwap(m, d, e) = m8
  <2>1. m2.prev[e] = b[e] /\ SetNext(m, b[d], e).prev = b BY <1>1, <1>2 DEF SetNext, Mem
  <2>2. m4.next = m2.next BY DEF SetPrev, Mem
  <2>3. m6.next = m2.next BY DEF SetPrev, Mem
  <2>4. SetPrev(m4, m4.next[d], e).next = m2.next BY DEF SetPrev, Mem
  <2>5. SetNext(m, b[d], e).prev[e] = b[e]
    BY <2>1
  <2>6. m2 = SetNext(SetNext(m, b[d], e), SetNext(m, b[d], e).prev[e], d)
    BY <2>5
  <2>7. QED BY <2>1, <2>2, <2>3, <2>4, <2>6 DEF ListSwap
<1> HIDE DEF m2
<1>5. /\ m4 \in Mem /\ m4.next = m2.next
      /\ \A z \in Nodes : m4.prev[z] = IF z = e THEN b[d] ELSE IF z = d THEN b[e] ELSE b[z]
  BY <1>1, <1>2 DEF SetPrev, Mem
<1> HIDE DEF m4
<1>6. /\ m6 \in Mem /\ m6.next = m2.next
      /\ \A z \in Nodes : m6.prev[z] = IF z = m2.next[e] THEN d
                                       ELSE IF z = m2.next[d] THEN e ELSE m4.prev[z]
  BY <1>3, <1>5 DEF SetPrev, Mem
<1> HIDE DEF m6
<1>7. /\ m8 \in Mem /\ m8.prev = m6.prev
      /\ \A z \in Nodes : m8.next[z] = IF z = e THEN m2.next[d]
                                       ELSE IF z = d THEN m2.next[e] ELSE m2.next[z]
  BY <1>3, <1>6 DEF SetNext, Mem
<1> HIDE DEF m8
<1>8. ASSUME NEW z \in Nodes
      PROVE  m8.next[z] = IF z = d THEN Exchange(d, e, f[e])
                          ELSE IF z = e THEN Exchange(d, e, f[d])
                          ELSE IF z = b[e] THEN d ELSE IF z = b[d] THEN e ELSE f[z]
  BY <1>1, <1>2, <1>7 DEF Exchange
<1>9. ASSUME NEW z \in Nodes
      PROVE  m8.prev[z] = IF z = d THEN Exchange(d, e, b[e])
                          ELSE IF z = e THEN Exchange(d, e, b[d])
                          ELSE IF z = f[e] THEN d ELSE IF z = f[d] THEN e ELSE b[z]
  BY <1>1, <1>2, <1>5, <1>6, <1>7 DEF Exchange
<1>10. QED BY <1>4, <1>7, <1>8, <1>9

-----------------------------------------------------------------------------
(* The building blocks keep the rings.                                     *)

LEMMA AddRings ==
  ASSUME NEW m, NEW own, Rings(m, own),
         NEW e \in Nodes, own[e] = NULL, e \notin Heads,
         NEW p \in Nodes, own[p] # NULL
  PROVE  Rings(ListAdd(m, e, p, m.next[p]), [own EXCEPT ![e] = own[p]])
<1> DEFINE n  == m.next[p]
           m2 == ListAdd(m, e, p, n)
           o2 == [own EXCEPT ![e] = own[p]]
<1>1. m \in Mem /\ own \in Owners /\ HeadsOwn(own) /\ Wired(m, own) /\ Headed(m, own)
  BY DEF Rings
<1>2. n \in Nodes /\ own[n] = own[p] /\ m.prev[n] = p BY <1>1 DEF Wired
<1>3. p # e /\ n # e BY <1>2
<1>4. /\ m2 \in Mem
      /\ \A z \in Nodes :
           /\ m2.next[z] = IF z = p THEN e ELSE IF z = e THEN n ELSE m.next[z]
           /\ m2.prev[z] = IF z = e THEN p ELSE IF z = n THEN e ELSE m.prev[z]
  <2>1. \A k \in Nodes :
          /\ ListAdd(m, e, p, k) \in Mem
          /\ \A z \in Nodes :
               /\ ListAdd(m, e, p, k).next[z] =
                    IF z = p THEN e ELSE IF z = e THEN k ELSE m.next[z]
               /\ ListAdd(m, e, p, k).prev[z] =
                    IF z = e THEN p ELSE IF z = k THEN e ELSE m.prev[z]
    BY <1>1, ListAddMem
  <2>2. QED BY <1>2, <2>1
<1>5. o2 \in Owners /\ \A z \in Nodes : o2[z] = IF z = e THEN own[p] ELSE own[z]
  BY <1>1 DEF Owners
<1>6. HeadsOwn(o2) BY <1>1, <1>5 DEF HeadsOwn, Nodes
<1> HIDE DEF n, m2, o2
<1>7. Wired(m2, o2)
  <2> SUFFICES ASSUME NEW x \in Nodes, o2[x] # NULL
               PROVE  /\ m2.next[x] \in Nodes /\ m2.prev[x] \in Nodes
                      /\ o2[m2.next[x]] = o2[x] /\ o2[m2.prev[x]] = o2[x]
                      /\ m2.prev[m2.next[x]] = x /\ m2.next[m2.prev[x]] = x
    BY DEF Wired
  <2>1. CASE x = e BY <2>1, <1>2, <1>3, <1>4, <1>5
  <2>2. CASE x # e
    <3>1. /\ own[x] # NULL /\ m.next[x] \in Nodes /\ m.prev[x] \in Nodes
          /\ own[m.next[x]] = own[x] /\ own[m.prev[x]] = own[x]
          /\ m.prev[m.next[x]] = x /\ m.next[m.prev[x]] = x
      BY <2>2, <1>1, <1>5 DEF Wired
    <3>2. m.next[x] # e /\ m.prev[x] # e BY <3>1
    <3>3. x # p => m.next[x] # n BY <3>1, <1>2
    <3>4. x # n => m.prev[x] # p
      <4>1. m.next[p] = n BY DEF n
      <4>2. QED BY <3>1, <4>1
    <3>5. QED BY <2>2, <3>1, <3>2, <3>3, <3>4, <1>2, <1>3, <1>4, <1>5
  <2>3. QED BY <2>1, <2>2
<1>8. Headed(m2, o2)
  <2> SUFFICES ASSUME NEW S \in SUBSET Nodes, S # {},
                      \A x \in S : o2[x] # NULL /\ m2.next[x] \in S
               PROVE  S \cap Heads # {}
    BY DEF Headed
  <2> DEFINE T == S \ {e}
  <2>1. e \in S => n \in T BY <1>3, <1>4
  <2>2. T # {} BY <2>1
  <2>3. ASSUME NEW x \in T PROVE own[x] # NULL /\ m.next[x] \in T
    <3>1. x \in Nodes /\ x # e /\ x \in S OBVIOUS
    <3>2. own[x] # NULL BY <3>1, <1>5
    <3>3. CASE x = p
      <4>1. e \in S BY <3>1, <3>3, <1>4
      <4>2. m.next[x] = n BY <3>3 DEF n
      <4>3. QED BY <2>1, <3>2, <4>1, <4>2
    <3>4. CASE x # p
      <4>1. m.next[x] \in S BY <3>1, <3>4, <1>4
      <4>2. m.next[x] # e BY <3>1, <3>2, <1>1 DEF Wired
      <4>3. QED BY <3>2, <4>1, <4>2
    <3>5. QED BY <3>3, <3>4
  <2>4. T \cap Heads # {} BY <2>2, <2>3, <1>1 DEF Headed
  <2>5. QED BY <2>4
<1>9. QED BY <1>4, <1>5, <1>6, <1>7, <1>8 DEF Rings, n, m2, o2

\* What is left when e is taken out, whatever becomes of e's own pointers.
LEMMA DelRings ==
  ASSUME NEW m, NEW own, Rings(m, own),
         NEW e \in Nodes, own[e] # NULL, e \notin Heads,
         NEW m2 \in Mem,
         \A z \in Nodes \ {e} : /\ m2.next[z] = ListDel(m, e).next[z]
                                /\ m2.prev[z] = ListDel(m, e).prev[z]
  PROVE  Rings(m2, [own EXCEPT ![e] = NULL])
<1> DEFINE p  == m.prev[e]
           n  == m.next[e]
           o2 == [own EXCEPT ![e] = NULL]
<1>1. m \in Mem /\ own \in Owners /\ HeadsOwn(own) /\ Wired(m, own) /\ Headed(m, own)
  BY DEF Rings
<1>2. /\ n \in Nodes /\ own[n] = own[e] /\ m.prev[n] = e
      /\ p \in Nodes /\ own[p] = own[e] /\ m.next[p] = e
  BY <1>1 DEF Wired
<1>3. p # e /\ n # e
  <2>1. m.next[e] # e
    <3>1. SUFFICES ASSUME m.next[e] = e PROVE FALSE OBVIOUS
    <3>2. {e} \in SUBSET Nodes /\ {e} # {} OBVIOUS
    <3>3. \A x \in {e} : own[x] # NULL /\ m.next[x] \in {e} BY <3>1
    <3>4. {e} \cap Heads # {} BY <1>1, <3>2, <3>3 DEF Headed
    <3>5. QED BY <3>4
  <2>2. QED BY <2>1, <1>2
<1>4. \A z \in Nodes \ {e} : /\ m2.next[z] = IF z = p THEN n ELSE m.next[z]
                             /\ m2.prev[z] = IF z = n THEN p ELSE m.prev[z]
  BY <1>1, <1>2, ListDelMem
<1>5. o2 \in Owners /\ \A z \in Nodes : o2[z] = IF z = e THEN NULL ELSE own[z]
  BY <1>1 DEF Owners
<1>6. HeadsOwn(o2) BY <1>1, <1>5 DEF HeadsOwn, Nodes
<1>7. p = m.prev[e] /\ n = m.next[e] OBVIOUS
<1> HIDE DEF p, n, o2
<1>8. Wired(m2, o2)
  <2> SUFFICES ASSUME NEW x \in Nodes, o2[x] # NULL
               PROVE  /\ m2.next[x] \in Nodes /\ m2.prev[x] \in Nodes
                      /\ o2[m2.next[x]] = o2[x] /\ o2[m2.prev[x]] = o2[x]
                      /\ m2.prev[m2.next[x]] = x /\ m2.next[m2.prev[x]] = x
    BY DEF Wired
  <2>1. x # e /\ own[x] # NULL BY <1>1, <1>5
  <2>2. /\ m.next[x] \in Nodes /\ m.prev[x] \in Nodes
        /\ own[m.next[x]] = own[x] /\ own[m.prev[x]] = own[x]
        /\ m.prev[m.next[x]] = x /\ m.next[m.prev[x]] = x
    BY <2>1, <1>1 DEF Wired
  <2>3. /\ x # p => m.next[x] # e /\ m.next[x] # n
        /\ x # n => m.prev[x] # e /\ m.prev[x] # p
    BY <2>1, <2>2, <1>2, <1>7
  <2>4. m2.next[x] = (IF x = p THEN n ELSE m.next[x]) /\ m2.prev[x] = (IF x = n THEN p ELSE m.prev[x])
    BY <2>1, <1>4
  <2>5. m2.next[x] \in Nodes \ {e} /\ m2.prev[x] \in Nodes \ {e}
    BY <2>2, <2>3, <2>4, <1>2, <1>3
  <2>6. o2[m2.next[x]] = o2[x] /\ o2[m2.prev[x]] = o2[x]
    BY <2>1, <2>2, <2>4, <2>5, <1>2, <1>5
  <2>7. m2.prev[m2.next[x]] = x
    BY <2>2, <2>3, <2>4, <2>5, <1>2, <1>4
  <2>8. m2.next[m2.prev[x]] = x
    BY <2>2, <2>3, <2>4, <2>5, <1>2, <1>4
  <2>9. QED BY <2>5, <2>6, <2>7, <2>8
<1>9. Headed(m2, o2)
  <2> SUFFICES ASSUME NEW S \in SUBSET Nodes, S # {},
                      \A x \in S : o2[x] # NULL /\ m2.next[x] \in S
               PROVE  S \cap Heads # {}
    BY DEF Headed
  <2>1. e \notin S BY <1>5
  <2> DEFINE T == IF p \in S THEN S \cup {e} ELSE S
  <2>2. T \in SUBSET Nodes /\ T # {} OBVIOUS
  <2>3. ASSUME NEW x \in T PROVE own[x] # NULL /\ m.next[x] \in T
    <3>1. CASE x = e
      <4>1. p \in S BY <2>1, <3>1
      <4>2. m2.next[p] = n BY <1>2, <1>3, <1>4
      <4>3. n \in S BY <4>1, <4>2
      <4>4. QED BY <3>1, <4>1, <4>3, <1>7
    <3>2. CASE x # e
      <4>1. x \in S /\ x \in Nodes BY <3>2
      <4>2. own[x] # NULL /\ m2.next[x] \in S BY <4>1, <3>2, <1>5
      <4>3. CASE x = p BY <4>1, <4>2, <4>3, <1>2
      <4>4. CASE x # p BY <4>1, <4>2, <4>4, <3>2, <1>4
      <4>5. QED BY <4>3, <4>4
    <3>3. QED BY <3>1, <3>2
  <2>4. T \cap Heads # {} BY <2>2, <2>3, <1>1 DEF Headed
  <2>5. QED BY <2>4
<1>10. QED BY <1>5, <1>6, <1>8, <1>9 DEF Rings, o2

LEMMA InitRings ==
  ASSUME NEW m, NEW own, Rings(m, own), NEW h \in Heads, own[h] = NULL
  PROVE  Rings(InitListHead(m, h), [own EXCEPT ![h] = h])
<1> DEFINE m2 == InitListHead(m, h)
           o2 == [own EXCEPT ![h] = h]
<1>1. m \in Mem /\ own \in Owners /\ HeadsOwn(own) /\ Wired(m, own) /\ Headed(m, own)
  BY DEF Rings
<1>2. h \in Nodes /\ h # NULL BY ListAssumption DEF Nodes
<1>3. /\ m2 \in Mem
      /\ \A z \in Nodes : /\ m2.next[z] = IF z = h THEN h ELSE m.next[z]
                          /\ m2.prev[z] = IF z = h THEN h ELSE m.prev[z]
  BY <1>1, <1>2, InitListHeadMem
<1>4. o2 \in Owners /\ \A z \in Nodes : o2[z] = IF z = h THEN h ELSE own[z]
  BY <1>1, <1>2 DEF Owners
<1>5. HeadsOwn(o2) BY <1>1, <1>4 DEF HeadsOwn, Nodes
<1> HIDE DEF m2, o2
<1>6. Wired(m2, o2)
  <2> SUFFICES ASSUME NEW x \in Nodes, o2[x] # NULL
               PROVE  /\ m2.next[x] \in Nodes /\ m2.prev[x] \in Nodes
                      /\ o2[m2.next[x]] = o2[x] /\ o2[m2.prev[x]] = o2[x]
                      /\ m2.prev[m2.next[x]] = x /\ m2.next[m2.prev[x]] = x
    BY DEF Wired
  <2>1. CASE x = h BY <2>1, <1>2, <1>3, <1>4
  <2>2. CASE x # h
    <3>1. /\ own[x] # NULL /\ m.next[x] \in Nodes /\ m.prev[x] \in Nodes
          /\ own[m.next[x]] = own[x] /\ own[m.prev[x]] = own[x]
          /\ m.prev[m.next[x]] = x /\ m.next[m.prev[x]] = x
      BY <2>2, <1>1, <1>4 DEF Wired
    <3>2. QED BY <2>2, <3>1, <1>3, <1>4
  <2>3. QED BY <2>1, <2>2
<1>7. Headed(m2, o2)
  <2> SUFFICES ASSUME NEW S \in SUBSET Nodes, S # {}, h \notin S,
                      \A x \in S : o2[x] # NULL /\ m2.next[x] \in S
               PROVE  S \cap Heads # {}
    BY DEF Headed
  <2>1. \A x \in S : own[x] # NULL /\ m.next[x] \in S BY <1>3, <1>4
  <2>2. QED BY <2>1, <1>1 DEF Headed
<1>8. QED BY <1>3, <1>4, <1>5, <1>6, <1>7 DEF Rings, m2, o2

\* h leaves its list to g; its own pointers stay, or are renewed.
LEMMA SpliceRings ==
  ASSUME NEW m, NEW own, Rings(m, own),
         NEW h \in Heads, NEW g \in Heads, own[h] = h, own[g] = g, h # g, m.next[h] # h,
         NEW m2 \in Mem,
         \A z \in Nodes \ {h} : /\ m2.next[z] = ListSplice(m, h, g).next[z]
                                /\ m2.prev[z] = ListSplice(m, h, g).prev[z],
         NEW o2 \in Owners,
         \A z \in Nodes : o2[z] = IF z = h THEN NULL ELSE IF own[z] = h THEN g ELSE own[z]
  PROVE  Rings(m2, o2)
<1> DEFINE f == m.next
           b == m.prev
<1>1. m \in Mem /\ own \in Owners /\ HeadsOwn(own) /\ Wired(m, own) /\ Headed(m, own)
  BY DEF Rings
<1>2. h \in Nodes /\ g \in Nodes /\ h # NULL /\ g # NULL BY ListAssumption DEF Nodes
<1>3. \A x \in Nodes : own[x] # NULL =>
        /\ f[x] \in Nodes /\ b[x] \in Nodes /\ own[f[x]] = own[x] /\ own[b[x]] = own[x]
        /\ b[f[x]] = x /\ f[b[x]] = x
  BY <1>1 DEF Wired
<1>4. \A z \in Nodes \ {h} : /\ m2.next[z] = IF z = b[h] THEN f[g] ELSE IF z = g THEN f[h] ELSE f[z]
                             /\ m2.prev[z] = IF z = f[g] THEN b[h] ELSE IF z = f[h] THEN g ELSE b[z]
  BY <1>1, <1>2, <1>3, ListSpliceMem
<1>5. HeadsOwn(o2) BY <1>1, <1>2 DEF HeadsOwn, Nodes
<1>6. Wired(m2, o2)
  <2> SUFFICES ASSUME NEW x \in Nodes, o2[x] # NULL
               PROVE  /\ m2.next[x] \in Nodes /\ m2.prev[x] \in Nodes
                      /\ o2[m2.next[x]] = o2[x] /\ o2[m2.prev[x]] = o2[x]
                      /\ m2.prev[m2.next[x]] = x /\ m2.next[m2.prev[x]] = x
    BY DEF Wired
  <2>1. x # h /\ own[x] # NULL BY <1>2
  <2>2. /\ f[h] \in Nodes \ {h} /\ b[h] \in Nodes \ {h} /\ f[g] \in Nodes \ {h}
        /\ own[f[h]] = h /\ own[b[h]] = h /\ own[f[g]] = g
        /\ b[f[h]] = h /\ f[b[h]] = h /\ b[f[g]] = g
    BY <1>2, <1>3
  <2>3. /\ f[x] \in Nodes /\ own[f[x]] = own[x] /\ b[f[x]] = x
        /\ b[x] \in Nodes /\ own[b[x]] = own[x] /\ f[b[x]] = x
    BY <2>1, <1>3
  <2>4. /\ x # b[h] => f[x] # h
        /\ x # f[h] => b[x] # h
        /\ x # g => f[x] # f[g]
        /\ x # f[g] => b[x] # g
        /\ f[x] # f[h] /\ b[x] # b[h]
    BY <2>1, <2>2, <2>3
  <2>5. /\ m2.next[x] \in Nodes \ {h} /\ o2[m2.next[x]] = o2[x]
        /\ m2.prev[x] \in Nodes \ {h} /\ o2[m2.prev[x]] = o2[x]
    BY <2>1, <2>2, <2>3, <2>4, <1>2, <1>4
  <2>6. m2.prev[m2.next[x]] = x BY <2>1, <2>2, <2>3, <2>4, <2>5, <1>2, <1>4
  <2>7. m2.next[m2.prev[x]] = x BY <2>1, <2>2, <2>3, <2>4, <2>5, <1>2, <1>4
  <2>8. QED BY <2>5, <2>6, <2>7
<1>7. Headed(m2, o2)
  <2> SUFFICES ASSUME NEW S \in SUBSET Nodes, S # {}, g \notin S,
                      \A x \in S : o2[x] # NULL /\ m2.next[x] \in S
               PROVE  S \cap Heads # {}
    BY DEF Headed
  <2>1. h \notin S BY <1>2
  <2>2. f[g] \in Nodes /\ own[f[g]] = g BY <1>2, <1>3
  <2> DEFINE T == {x \in S : own[x] # h}
  <2>3. \A x \in T : own[x] # NULL /\ x # b[h] BY <2>1, <1>2, <1>3
  <2>4. \A x \in T : own[x] # NULL /\ f[x] \in T
    <3> SUFFICES ASSUME NEW x \in T PROVE own[x] # NULL /\ f[x] \in T OBVIOUS
    <3>1. own[x] # NULL /\ x # b[h] /\ x # g /\ x # h /\ x \in Nodes BY <2>1, <2>3
    <3>2. f[x] \in S BY <3>1, <1>4
    <3>3. QED BY <3>1, <3>2, <1>3
  <2>5. CASE T # {}
    <3>1. T \in SUBSET Nodes /\ T \cap Heads \subseteq S \cap Heads
      OBVIOUS
    <3> HIDE DEF T
    <3>2. T \cap Heads # {} BY <2>4, <2>5, <3>1, <1>1 DEF Headed
    <3>3. QED BY <3>1, <3>2
  <2>6. CASE T = {}
    <3>1. \A x \in S : own[x] = h BY <2>6
    <3>2. b[h] \notin S
      <4>1. b[h] # h BY <1>2, <1>3
      <4>2. b[h] \in Nodes BY <1>2, <1>3
      <4>3. m2.next[b[h]] = f[g] BY <4>1, <4>2, <1>4
      <4>4. QED BY <4>3, <3>1, <2>2
    <3>3. \A x \in S : own[x] # NULL /\ f[x] \in S BY <3>1, <3>2, <2>1, <1>2, <1>4
    <3>4. QED BY <3>3, <1>1 DEF Headed
  <2>7. QED BY <2>5, <2>6
<1>8. QED BY <1>5, <1>6, <1>7 DEF Rings

LEMMA SwapRings ==
  ASSUME NEW m, NEW own, Rings(m, own),
         NEW d \in Nodes \ Heads, NEW e \in Nodes \ Heads, own[d] # NULL, own[e] # NULL
  PROVE  Rings(ListSwap(m, d, e), [own EXCEPT ![d] = own[e], ![e] = own[d]])
<1> DEFINE f  == m.next
           b  == m.prev
           X(z) == Exchange(d, e, z)
           m2 == ListSwap(m, d, e)
           o2 == [own EXCEPT ![d] = own[e], ![e] = own[d]]
<1>1. m \in Mem /\ own \in Owners /\ HeadsOwn(own) /\ Wired(m, own) /\ Headed(m, own)
  BY DEF Rings
<1>2. \A x \in Nodes : own[x] # NULL =>
        /\ f[x] \in Nodes /\ b[x] \in Nodes /\ own[f[x]] = own[x] /\ own[b[x]] = own[x]
        /\ b[f[x]] = x /\ f[b[x]] = x
  BY <1>1 DEF Wired
<1>3. \A x \in {d, e} : f[x] # x
  <2> SUFFICES ASSUME NEW x \in {d, e}, f[x] = x PROVE FALSE OBVIOUS
  <2>1. {x} \in SUBSET Nodes /\ {x} # {} OBVIOUS
  <2>2. \A y \in {x} : own[y] # NULL /\ m.next[y] \in {x} OBVIOUS
  <2>3. {x} \cap Heads # {} BY <2>1, <2>2, <1>1 DEF Headed
  <2>4. QED BY <2>3
<1>4. m2 \in Mem /\ \A z \in Nodes :
        /\ m2.next[z] = IF z = d THEN X(f[e]) ELSE IF z = e THEN X(f[d])
                        ELSE IF z = b[e] THEN d ELSE IF z = b[d] THEN e ELSE f[z]
        /\ m2.prev[z] = IF z = d THEN X(b[e]) ELSE IF z = e THEN X(b[d])
                        ELSE IF z = f[e] THEN d ELSE IF z = f[d] THEN e ELSE b[z]
  BY <1>1, <1>2, <1>3, ListSwapMem
<1>5. o2 \in Owners /\ \A z \in Nodes : o2[z] = own[X(z)]
  BY <1>1 DEF Owners, Exchange
<1>6. HeadsOwn(o2) BY <1>1, <1>5 DEF HeadsOwn, Nodes, Exchange
<1> HIDE DEF m2, o2
<1>7. \A z \in Nodes : X(z) \in Nodes /\ X(X(z)) = z BY DEF Exchange
<1>8. \A z \in Nodes : o2[z] # NULL =>
        own[X(z)] # NULL /\ m2.next[z] = X(f[X(z)]) /\ m2.prev[z] = X(b[X(z)])
  BY <1>2, <1>4, <1>5 DEF Exchange
<1> HIDE DEF X
<1>9. Wired(m2, o2)
  <2> SUFFICES ASSUME NEW x \in Nodes, o2[x] # NULL
               PROVE  /\ m2.next[x] \in Nodes /\ m2.prev[x] \in Nodes
                      /\ o2[m2.next[x]] = o2[x] /\ o2[m2.prev[x]] = o2[x]
                      /\ m2.prev[m2.next[x]] = x /\ m2.next[m2.prev[x]] = x
    BY DEF Wired
  <2>1. /\ X(x) \in Nodes /\ f[X(x)] \in Nodes /\ b[X(x)] \in Nodes
        /\ own[f[X(x)]] = own[X(x)] /\ own[b[X(x)]] = own[X(x)]
        /\ b[f[X(x)]] = X(x) /\ f[b[X(x)]] = X(x)
        /\ m2.next[x] = X(f[X(x)]) /\ m2.prev[x] = X(b[X(x)])
    BY <1>2, <1>7, <1>8
  <2>2. /\ m2.next[x] \in Nodes /\ m2.prev[x] \in Nodes
        /\ X(m2.next[x]) = f[X(x)] /\ X(m2.prev[x]) = b[X(x)] /\ X(X(x)) = x
    BY <2>1, <1>7
  <2>3. o2[m2.next[x]] = o2[x] /\ o2[m2.prev[x]] = o2[x] BY <2>1, <2>2, <1>5
  <2>4. m2.prev[m2.next[x]] = x /\ m2.next[m2.prev[x]] = x BY <2>1, <2>2, <2>3, <1>8
  <2>5. QED BY <2>2, <2>3, <2>4
<1>10. Headed(m2, o2)
  <2> SUFFICES ASSUME NEW S \in SUBSET Nodes, S # {},
                      \A x \in S : o2[x] # NULL /\ m2.next[x] \in S
               PROVE  S \cap Heads # {}
    BY DEF Headed
  <2> DEFINE T == {X(x) : x \in S}
  <2>1. T \in SUBSET Nodes /\ T # {} BY <1>7
  <2>2. \A y \in T : own[y] # NULL /\ f[y] \in T
    <3> SUFFICES ASSUME NEW x \in S PROVE own[X(x)] # NULL /\ f[X(x)] \in T OBVIOUS
    <3>1. own[X(x)] # NULL /\ m2.next[x] = X(f[X(x)]) /\ m2.next[x] \in S BY <1>8
    <3>2. f[X(x)] \in Nodes BY <3>1, <1>2, <1>7
    <3>3. f[X(x)] = X(m2.next[x]) BY <3>1, <3>2, <1>7
    <3>4. QED BY <3>1, <3>3
  <2>3. PICK y \in T : y \in Heads BY <2>1, <2>2, <1>1 DEF Headed
  <2>4. X(y) = y BY <2>3 DEF X, Exchange
  <2>5. PICK x \in S : y = X(x) BY <2>3
  <2>6. x = y BY <2>4, <2>5, <1>7
  <2>7. QED BY <2>3, <2>5, <2>6
<1>11. QED BY <1>4, <1>5, <1>6, <1>9, <1>10 DEF Rings, m2, o2

-----------------------------------------------------------------------------
(* The invariant, and its three theorems.                                  *)

\* A walk stands on a node, and the next one is in its list.
WalkInv ==
  /\ walk \in {NULL} \cup [head : Heads, pos : Nodes, n : Nodes]
  /\ walk # NULL => owner[walk.n] = walk.head /\ (walk.pos # walk.head => walk.n # walk.pos)

ListInv == Rings(mem, owner) /\ Loose(mem, owner) /\ WalkInv

\* A ring of one node is a head's.
LEMMA NotAlone ==
  ASSUME NEW m, NEW own, Rings(m, own), NEW x \in Nodes \ Heads, own[x] # NULL
  PROVE  m.next[x] # x
<1> SUFFICES ASSUME m.next[x] = x PROVE FALSE OBVIOUS
<1>1. {x} \in SUBSET Nodes /\ {x} # {} OBVIOUS
<1>2. \A y \in {x} : own[y] # NULL /\ m.next[y] \in {x} OBVIOUS
<1>3. {x} \cap Heads # {} BY <1>1, <1>2 DEF Rings, Headed
<1>4. QED BY <1>3

LEMMA ListInitInv == ListInit => ListInv
<1> SUFFICES ASSUME ListInit PROVE ListInv OBVIOUS
<1> USE ListAssumption
<1>1. mem \in Mem /\ owner \in Owners /\ HeadsOwn(owner)
  BY DEF ListInit, Mem, Owners, HeadsOwn, Nodes
<1>2. Wired(mem, owner) BY DEF ListInit, Wired, Nodes
<1>3. Headed(mem, owner) BY DEF ListInit, Headed, Nodes
<1>4. Loose(mem, owner) BY DEF ListInit, Loose, Nodes
<1>5. WalkInv BY DEF ListInit, WalkInv
<1>6. QED BY <1>1, <1>2, <1>3, <1>4, <1>5 DEF Rings, ListInv

\* What every call may use.
LEMMA Pointers ==
  ASSUME ListInv
  PROVE  /\ mem \in Mem /\ owner \in Owners
         /\ \A x \in Nodes : Linked(x) => mem.next[x] \in Nodes /\ mem.prev[x] \in Nodes
         /\ \A x \in Nodes : Linked(x) => /\ mem.prev[mem.next[x]] = x
                                          /\ mem.next[mem.prev[x]] = x
                                          /\ owner[mem.next[x]] = owner[x]
                                          /\ owner[mem.prev[x]] = owner[x]
         /\ \A h \in Heads : h \in Nodes /\ h \notin Entries /\ h # NULL
         /\ \A h \in Heads : Linked(h) => owner[h] = h
         /\ \A e \in Entries : e \in Nodes \ Heads /\ e # NULL
         /\ NULL \notin Nodes
BY ListAssumption DEF ListInv, Rings, Wired, HeadsOwn, Linked, Nodes, Owners

LEMMA InitListHeadInv ==
  ASSUME ListInv, NEW h \in Heads, INIT_LIST_HEAD(h) PROVE ListInv'
<1> USE Pointers
<1>1. mem' = InitListHead(mem, h) /\ owner' = [owner EXCEPT ![h] = h] /\ owner[h] = NULL
  BY DEF INIT_LIST_HEAD, Linked
<1>2. Rings(mem, owner)' BY <1>1, InitRings DEF ListInv
<1>3. Loose(mem, owner)'
  <2>1. \A z \in Nodes : /\ mem'.next[z] = IF z = h THEN h ELSE mem.next[z]
                         /\ mem'.prev[z] = IF z = h THEN h ELSE mem.prev[z]
    BY <1>1, InitListHeadMem
  <2>2. \A z \in Nodes : owner'[z] = IF z = h THEN h ELSE owner[z] BY <1>1 DEF Owners
  <2>3. QED BY <2>1, <2>2 DEF ListInv, Loose
<1>4. WalkInv' BY DEF INIT_LIST_HEAD, WalkInv, UnchangedWalk
<1>5. QED BY <1>2, <1>3, <1>4 DEF ListInv

\* list_add and list_add_tail: behind p.
LEMMA AddInv ==
  ASSUME ListInv, NEW e \in Entries, ~Linked(e), NEW p \in Nodes, Linked(p),
         mem' = ListAdd(mem, e, p, mem.next[p]),
         owner' = [owner EXCEPT ![e] = owner[p]], UNCHANGED walk
  PROVE  ListInv'
<1>1. Rings(mem, owner)' BY Pointers, AddRings DEF ListInv, Linked
<1>2. Loose(mem, owner)'
  <2>1. mem.next[p] \in Nodes /\ owner[mem.next[p]] # NULL BY Pointers DEF Linked
  <2>2. \A z \in Nodes : /\ mem'.next[z] = IF z = p THEN e ELSE IF z = e THEN mem.next[p] ELSE mem.next[z]
                         /\ mem'.prev[z] = IF z = e THEN p ELSE IF z = mem.next[p] THEN e ELSE mem.prev[z]
    <3>1. \A k \in Nodes : \A z \in Nodes :
            /\ ListAdd(mem, e, p, k).next[z] = IF z = p THEN e ELSE IF z = e THEN k ELSE mem.next[z]
            /\ ListAdd(mem, e, p, k).prev[z] = IF z = e THEN p ELSE IF z = k THEN e ELSE mem.prev[z]
      BY Pointers, ListAddMem
    <3>2. QED BY <2>1, <3>1
  <2>3. \A z \in Nodes : owner'[z] = IF z = e THEN owner[p] ELSE owner[z] BY Pointers DEF Owners
  <2>4. QED BY <2>1, <2>2, <2>3, Pointers DEF Loose, Linked, ListInv
<1>3. WalkInv' BY Pointers DEF WalkInv, ListInv, Linked, Owners
<1>4. QED BY <1>1, <1>2, <1>3 DEF ListInv

LEMMA ListAddInv ==
  ASSUME ListInv, NEW e \in Entries, NEW x \in Nodes, list_add(e, x) \/ list_add_tail(e, x)
  PROVE  ListInv'
<1>1. CASE list_add(e, x) BY <1>1, AddInv DEF list_add, AddFirst, UnchangedWalk
<1>2. CASE list_add_tail(e, x)
  <2>1. /\ mem.prev[x] \in Nodes /\ mem.next[mem.prev[x]] = x
        /\ owner[mem.prev[x]] = owner[x] /\ Linked(x)
    BY <1>2, Pointers DEF list_add_tail
  <2>2. QED BY <1>2, <2>1, AddInv DEF list_add_tail, AddLast, UnchangedWalk, Linked
<1>3. QED BY <1>1, <1>2

\* The entry goes that the walk stands on, if there is one.
LEMMA DelInv ==
  ASSUME ListInv, NEW e \in Entries, InBody(e), Linked(e), mem' \in Mem,
         \A z \in Nodes \ {e} : /\ mem'.next[z] = ListDel(mem, e).next[z]
                                /\ mem'.prev[z] = ListDel(mem, e).prev[z],
         mem'.next[e] \in {e, NULL}, mem'.prev[e] = mem'.next[e],
         owner' = [owner EXCEPT ![e] = NULL], UNCHANGED walk
  PROVE  ListInv'
<1>1. Rings(mem, owner)'
  <2>1. e \in Nodes /\ e \notin Heads /\ owner[e] # NULL /\ Rings(mem, owner)
    BY Pointers DEF ListInv, Linked
  <2>2. Rings(mem', [owner EXCEPT ![e] = NULL]) BY <2>1, DelRings
  <2>3. QED BY <2>2
<1>2. Loose(mem, owner)'
  <2>1. /\ mem.next[e] \in Nodes /\ owner[mem.next[e]] # NULL
        /\ mem.prev[e] \in Nodes /\ owner[mem.prev[e]] # NULL
    BY Pointers DEF Linked
  <2>2. \A z \in Nodes \ {e} : /\ mem'.next[z] = IF z = mem.prev[e] THEN mem.next[e] ELSE mem.next[z]
                               /\ mem'.prev[z] = IF z = mem.next[e] THEN mem.prev[e] ELSE mem.prev[z]
    BY <2>1, Pointers, ListDelMem
  <2>3. \A z \in Nodes : owner'[z] = IF z = e THEN NULL ELSE owner[z] BY Pointers DEF Owners
  <2>4. QED BY <2>1, <2>2, <2>3, Pointers DEF Loose, Linked, ListInv
<1>3. WalkInv' BY Pointers DEF WalkInv, ListInv, InBody, Linked, Owners
<1>4. QED BY <1>1, <1>2, <1>3 DEF ListInv

\* list_del_init of a node in no list does nothing.
LEMMA DelOfLoose ==
  ASSUME ListInv, NEW e \in Entries, list_del_init(e), ~Linked(e)
  PROVE  mem' = mem /\ owner' = owner
<1>1. mem.next[e] = e /\ mem.prev[e] = e /\ owner[e] = NULL
  BY Pointers DEF list_del_init, list_empty, Linked, ListInv, Loose
<1>2. mem' = mem
  <2>1. e \in Nodes /\ mem \in Mem BY Pointers
  <2>2. SetPrev(mem, e, e) = mem BY <1>1, <2>1 DEF SetPrev, Mem
  <2>3. SetNext(mem, e, e) = mem BY <1>1, <2>1 DEF SetNext, Mem
  <2>4. ListDel(mem, e) = mem BY <1>1, <2>2, <2>3 DEF ListDel
  <2>5. QED BY <2>2, <2>3, <2>4 DEF list_del_init, InitListHead
<1>3. owner' = owner BY <1>1, Pointers DEF list_del_init, Owners
<1>4. QED BY <1>2, <1>3

LEMMA ListDelInv ==
  ASSUME ListInv, NEW e \in Entries, list_del(e) \/ list_del_init(e) PROVE ListInv'
<1>1. CASE list_del(e)
  <2>1. ListDel(mem, e) \in Mem BY <1>1, Pointers, ListDelMem DEF list_del
  <2>2. /\ mem' \in Mem /\ mem'.next[e] = NULL /\ mem'.prev[e] = NULL
        /\ \A z \in Nodes \ {e} : /\ mem'.next[z] = ListDel(mem, e).next[z]
                                  /\ mem'.prev[z] = ListDel(mem, e).prev[z]
    BY <1>1, <2>1, Pointers DEF list_del, SetNext, SetPrev, Mem
  <2>3. QED BY <1>1, <2>2, DelInv DEF list_del, UnchangedWalk
<1>2. CASE list_del_init(e) /\ Linked(e)
  <2>1. ListDel(mem, e) \in Mem BY <1>2, Pointers, ListDelMem
  <2>2. /\ mem' \in Mem /\ mem'.next[e] = e /\ mem'.prev[e] = e
        /\ \A z \in Nodes \ {e} : /\ mem'.next[z] = ListDel(mem, e).next[z]
                                  /\ mem'.prev[z] = ListDel(mem, e).prev[z]
    BY <1>2, <2>1, Pointers, InitListHeadMem DEF list_del_init
  <2>3. QED BY <1>2, <2>2, DelInv DEF list_del_init, UnchangedWalk
<1>3. CASE list_del_init(e) /\ ~Linked(e)
  <2>1. mem' = mem /\ owner' = owner BY <1>3, DelOfLoose
  <2>2. walk' = walk BY <1>3 DEF list_del_init, UnchangedWalk
  <2>3. QED BY <2>1, <2>2 DEF ListInv, WalkInv
<1>4. QED BY <1>1, <1>2, <1>3

\* To move a node is to delete it and to add it behind some other one.
LEMMA MoveIsDelAdd ==
  ASSUME ListInv, NEW e \in Entries, NEW x \in Nodes, list_move(e, x) \/ list_move_tail(e, x)
  PROVE  \E p \in Nodes :
           /\ [owner EXCEPT ![e] = NULL][p] = owner[x]
           /\ [owner EXCEPT ![e] = NULL][p] # NULL
           /\ mem' = ListAdd(ListDel(mem, e), e, p, ListDel(mem, e).next[p])
<1> DEFINE m1 == ListDel(mem, e)
           o1 == [owner EXCEPT ![e] = NULL]
<1>1. Linked(e) /\ Linked(x) /\ x # e
  BY DEF list_move, list_move_tail
<1>2. m1 \in Mem BY <1>1, Pointers, ListDelMem
<1>3. Rings(m1, o1) BY <1>1, <1>2, Pointers, DelRings DEF Linked, ListInv
<1>4. \A z \in Nodes : o1[z] = IF z = e THEN NULL ELSE owner[z] BY Pointers DEF Owners
<1>5. \E p \in Nodes : o1[p] = owner[x] /\ mem' = ListAdd(m1, e, p, m1.next[p])
  <2>1. m1.next[m1.prev[x]] = x /\ m1.prev[x] \in Nodes /\ o1[m1.prev[x]] = owner[x] /\ o1[x] = owner[x]
    BY <1>1, <1>3, <1>4 DEF Rings, Wired, Linked
  <2>2. CASE list_move(e, x) BY <2>1, <2>2 DEF list_move, AddFirst
  <2>3. CASE list_move_tail(e, x) BY <2>1, <2>3 DEF list_move_tail, AddLast
  <2>4. QED BY <2>2, <2>3
<1>6. QED BY <1>1, <1>5 DEF Linked

LEMMA ListMoveInv ==
  ASSUME ListInv, NEW e \in Entries, NEW x \in Nodes, list_move(e, x) \/ list_move_tail(e, x)
  PROVE  ListInv'
<1> DEFINE m1 == ListDel(mem, e)
           o1 == [owner EXCEPT ![e] = NULL]
<1>1. Linked(e) /\ Linked(x) /\ x # e /\ InBody(e) /\ owner' = [owner EXCEPT ![e] = owner[x]] /\ walk' = walk
  BY DEF list_move, list_move_tail, UnchangedWalk
<1>2. m1 \in Mem BY <1>1, Pointers, ListDelMem
<1>3. Rings(m1, o1) BY <1>1, <1>2, Pointers, DelRings DEF Linked, ListInv
<1>4. \A z \in Nodes : o1[z] = IF z = e THEN NULL ELSE owner[z] BY Pointers DEF Owners
<1>5. PICK p \in Nodes : o1[p] = owner[x] /\ mem' = ListAdd(m1, e, p, m1.next[p])
  BY MoveIsDelAdd
<1>6. o1[p] # NULL /\ o1[e] = NULL BY <1>1, <1>4, <1>5, Pointers DEF Linked
<1>7. owner' = [o1 EXCEPT ![e] = o1[p]] BY <1>1, <1>5, Pointers DEF Owners
<1>8. Rings(mem, owner)' BY <1>3, <1>5, <1>6, <1>7, Pointers, AddRings
<1>9. Loose(mem, owner)'
  <2>1. /\ mem.next[e] \in Nodes /\ owner[mem.next[e]] # NULL
        /\ mem.prev[e] \in Nodes /\ owner[mem.prev[e]] # NULL
    BY <1>1, Pointers DEF Linked
  <2>2. \A z \in Nodes : /\ m1.next[z] = IF z = mem.prev[e] THEN mem.next[e] ELSE mem.next[z]
                         /\ m1.prev[z] = IF z = mem.next[e] THEN mem.prev[e] ELSE mem.prev[z]
    BY <2>1, Pointers, ListDelMem
  <2>3. m1.next[p] \in Nodes /\ o1[m1.next[p]] # NULL BY <1>3, <1>6 DEF Rings, Wired
  <2> HIDE DEF m1, o1
  <2>4. \A k \in Nodes : \A z \in Nodes :
          /\ ListAdd(m1, e, p, k).next[z] = IF z = p THEN e ELSE IF z = e THEN k ELSE m1.next[z]
          /\ ListAdd(m1, e, p, k).prev[z] = IF z = e THEN p ELSE IF z = k THEN e ELSE m1.prev[z]
    BY <1>2, Pointers, ListAddMem
  <2>5. \A z \in Nodes : /\ mem'.next[z] = IF z = p THEN e ELSE IF z = e THEN m1.next[p] ELSE m1.next[z]
                         /\ mem'.prev[z] = IF z = e THEN p ELSE IF z = m1.next[p] THEN e ELSE m1.prev[z]
    BY <1>5, <2>3, <2>4
  <2>6. \A z \in Nodes : owner'[z] = IF z = e THEN owner[x] ELSE owner[z] BY <1>1, Pointers DEF Owners
  <2>7. \A z \in Entries : owner'[z] = NULL => mem'.next[z] = mem.next[z] /\ mem'.prev[z] = mem.prev[z]
    <3> SUFFICES ASSUME NEW z \in Entries, owner'[z] = NULL
                 PROVE mem'.next[z] = mem.next[z] /\ mem'.prev[z] = mem.prev[z]
      OBVIOUS
    <3>1. z \in Nodes /\ z # e /\ owner[z] = NULL BY <1>1, <2>6, Pointers DEF Linked
    <3>2. o1[z] = NULL BY <1>4, <3>1
    <3>3. z # p /\ z # m1.next[p] /\ z # mem.next[e] /\ z # mem.prev[e] BY <3>1, <3>2, <1>6, <2>1, <2>3
    <3>4. QED BY <3>1, <3>3, <2>2, <2>5
  <2>8. \A h \in Heads : mem'.next[h] # NULL /\ mem'.prev[h] # NULL
    BY <2>1, <2>2, <2>3, <2>5, Pointers DEF ListInv, Loose
  <2>9. QED BY <2>6, <2>7, <2>8, <1>1, Pointers DEF Loose, ListInv, Linked
<1>10. WalkInv' BY <1>1, Pointers DEF WalkInv, ListInv, InBody, Linked, Owners
<1>11. QED BY <1>8, <1>9, <1>10 DEF ListInv

LEMMA ListSpliceInv ==
  ASSUME ListInv, NEW h \in Heads, NEW g \in Heads,
         list_splice(h, g) \/ list_splice_init(h, g)
  PROVE  ListInv'
<1> DEFINE m2 == ListSplice(mem, h, g)
           o2 == [Moved(h, g) EXCEPT ![h] = NULL]
<1>1. owner[h] = h /\ owner[g] = g /\ h # g /\ walk = NULL /\ walk' = NULL /\ h \in Nodes /\ g \in Nodes
  BY Pointers DEF list_splice, list_splice_init, UnchangedWalk
<1>2. WalkInv' BY <1>1 DEF WalkInv
<1>3. CASE list_empty(h) BY <1>2, <1>3 DEF list_splice, list_splice_init, ListInv
<1>4. CASE ~list_empty(h)
  <2>1. mem.next[h] # h BY <1>4 DEF list_empty
  <2>2. /\ mem.next[h] \in Nodes /\ mem.prev[h] \in Nodes /\ mem.next[g] \in Nodes
        /\ owner[mem.next[h]] = h /\ owner[mem.prev[h]] = h /\ owner[mem.next[g]] = g
    BY <1>1, Pointers DEF Linked
  <2>3. m2 \in Mem /\ \A z \in Nodes :
          /\ m2.next[z] = IF z = mem.prev[h] THEN mem.next[g]
                          ELSE IF z = g THEN mem.next[h] ELSE mem.next[z]
          /\ m2.prev[z] = IF z = mem.next[g] THEN mem.prev[h]
                          ELSE IF z = mem.next[h] THEN g ELSE mem.prev[z]
    BY <1>1, <2>2, Pointers, ListSpliceMem
  <2>4. o2 \in Owners /\ \A z \in Nodes :
          o2[z] = IF z = h THEN NULL ELSE IF owner[z] = h THEN g ELSE owner[z]
    BY <1>1, Pointers DEF Owners, Moved
  <2>5. Rings(m2, o2)
    <3>1. \A z \in Nodes \ {h} : /\ m2.next[z] = ListSplice(mem, h, g).next[z]
                                 /\ m2.prev[z] = ListSplice(mem, h, g).prev[z]
      OBVIOUS
    <3>2. m2 \in Mem /\ o2 \in Owners /\ Rings(mem, owner) BY <2>3, <2>4 DEF ListInv
    <3> HIDE DEF m2, o2
    <3>3. QED BY <1>1, <2>1, <2>4, <3>1, <3>2, SpliceRings
  <2>6. Loose(m2, o2) BY <1>1, <2>2, <2>3, <2>4, Pointers DEF Loose, ListInv
  <2>7. CASE list_splice(h, g)
    <3>1. mem' = m2 /\ owner' = o2 BY <1>4, <2>7 DEF list_splice
    <3>2. QED BY <3>1, <2>5, <2>6, <1>2 DEF ListInv
  <2>8. CASE list_splice_init(h, g)
    <3>1. mem' = InitListHead(m2, h) /\ owner' = [Moved(h, g) EXCEPT ![h] = h]
      BY <1>4, <2>8 DEF list_splice_init
    <3>2. owner' = [o2 EXCEPT ![h] = h] /\ o2[h] = NULL BY <1>1, <3>1, <2>4 DEF Moved
    <3> HIDE DEF m2, o2
    <3>3. Rings(InitListHead(m2, h), [o2 EXCEPT ![h] = h]) BY <3>2, <2>5, InitRings
    <3>4. Rings(mem, owner)' BY <3>1, <3>2, <3>3
    <3>5. \A z \in Nodes : /\ mem'.next[z] = IF z = h THEN h ELSE m2.next[z]
                           /\ mem'.prev[z] = IF z = h THEN h ELSE m2.prev[z]
      BY <1>1, <2>3, <3>1, InitListHeadMem
    <3>6. \A z \in Nodes : owner'[z] = IF z = h THEN h ELSE o2[z] BY <1>1, <2>4, <3>2 DEF Owners
    <3>7. Loose(mem, owner)' BY <3>5, <3>6, <2>6, Pointers DEF Loose
    <3>8. QED BY <3>4, <3>7, <1>2 DEF ListInv
  <2>9. QED BY <2>7, <2>8
<1>5. QED BY <1>3, <1>4

LEMMA ListSwapInv ==
  ASSUME ListInv, NEW d \in Entries, NEW e \in Entries, list_swap(d, e) PROVE ListInv'
<1>1. /\ d \in Nodes \ Heads /\ e \in Nodes \ Heads /\ owner[d] # NULL /\ owner[e] # NULL
      /\ Rings(mem, owner)
  BY Pointers DEF list_swap, Linked, ListInv
<1>2. Rings(mem, owner)' BY <1>1, SwapRings DEF list_swap
<1>3. Loose(mem, owner)'
  <2>1. \A x \in {d, e} : /\ mem.next[x] \in Nodes /\ owner[mem.next[x]] # NULL
                          /\ mem.prev[x] \in Nodes /\ owner[mem.prev[x]] # NULL
                          /\ mem.prev[mem.next[x]] = x /\ mem.next[mem.prev[x]] = x
                          /\ mem.next[x] # x
    BY <1>1, Pointers, NotAlone DEF Linked
  <2>2. \A z \in Nodes \ {d, e} :
          /\ mem'.next[z] = IF z = mem.prev[e] THEN d ELSE IF z = mem.prev[d] THEN e ELSE mem.next[z]
          /\ mem'.prev[z] = IF z = mem.next[e] THEN d ELSE IF z = mem.next[d] THEN e ELSE mem.prev[z]
    BY <1>1, <2>1, Pointers, ListSwapMem DEF list_swap
  <2>3. \A z \in Nodes : owner'[z] = IF z = e THEN owner[d] ELSE IF z = d THEN owner[e] ELSE owner[z]
    BY <1>1, Pointers DEF list_swap, Owners
  <2>4. QED BY <1>1, <2>1, <2>2, <2>3, Pointers DEF Loose, ListInv
<1>4. WalkInv' BY DEF list_swap, UnchangedWalk, WalkInv
<1>5. QED BY <1>2, <1>3, <1>4 DEF ListInv

LEMMA WalkStepInv == ASSUME ListInv, list_for_each_safe PROVE ListInv'
<1>1. /\ UNCHANGED <<mem, owner>> /\ Rings(mem, owner) /\ Loose(mem, owner)
  BY DEF ListInv, list_for_each_safe, walk_begins, walk_continues, walk_ends
<1>2. \A x \in Nodes : x \notin Heads /\ owner[x] # NULL => mem.next[x] # x BY <1>1, NotAlone
<1>3. WalkInv'
  <2>1. CASE \E h \in Heads : walk_begins(h)
    <3>1. PICK h \in Heads : walk_begins(h) BY <2>1
    <3>2. walk' = [head |-> h, pos |-> mem.next[h], n |-> mem.next[mem.next[h]]] /\ owner' = owner
      BY <3>1 DEF walk_begins, Ahead
    <3>3. /\ h \in Nodes /\ owner[h] = h /\ h # NULL
          /\ mem.next[h] \in Nodes /\ owner[mem.next[h]] = h
      BY <3>1, Pointers DEF walk_begins, Linked
    <3>4. mem.next[mem.next[h]] \in Nodes /\ owner[mem.next[mem.next[h]]] = h
      BY <3>3, Pointers DEF Linked
    <3>5. mem.next[h] # h => mem.next[mem.next[h]] # mem.next[h]
      BY <1>2, <3>3, Pointers DEF Linked
    <3>6. QED BY <3>2, <3>3, <3>4, <3>5 DEF WalkInv
  <2>2. CASE walk_continues
    <3>1. /\ walk \in [head : Heads, pos : Nodes, n : Nodes] /\ owner[walk.n] = walk.head
      BY <2>2 DEF walk_continues, ListInv, WalkInv
    <3>2. walk' = [head |-> walk.head, pos |-> walk.n, n |-> mem.next[walk.n]] /\ owner' = owner
      BY <2>2, <3>1 DEF walk_continues, Ahead
    <3>3. mem.next[walk.n] \in Nodes /\ owner[mem.next[walk.n]] = walk.head
      BY <3>1, Pointers DEF Linked
    <3>4. walk.n # walk.head => mem.next[walk.n] # walk.n
      BY <1>2, <3>1, Pointers DEF Linked
    <3>5. QED BY <3>1, <3>2, <3>3, <3>4 DEF WalkInv
  <2>3. CASE walk_ends BY <2>3 DEF walk_ends, WalkInv
  <2>4. QED BY <2>1, <2>2, <2>3 DEF list_for_each_safe
<1>4. QED BY <1>1, <1>3 DEF ListInv

LEMMA ListNextInv == ListInv /\ [ListNext]_listVars => ListInv'
<1> SUFFICES ASSUME ListInv, [ListNext]_listVars PROVE ListInv' OBVIOUS
<1>1. ASSUME NEW e \in Entries, list_del(e) \/ list_del_init(e) PROVE ListInv'
  BY <1>1, ListDelInv
<1>2. ASSUME NEW e \in Entries, NEW x \in Nodes, list_add(e, x) \/ list_add_tail(e, x)
      PROVE  ListInv'
  BY <1>2, ListAddInv
<1>3. ASSUME NEW e \in Entries, NEW x \in Nodes, list_move(e, x) \/ list_move_tail(e, x)
      PROVE  ListInv'
  BY <1>3, ListMoveInv
<1>4. ASSUME NEW d \in Entries, NEW e \in Entries, list_swap(d, e) PROVE ListInv'
  BY <1>4, ListSwapInv
<1>5. ASSUME NEW h \in Heads, INIT_LIST_HEAD(h) PROVE ListInv'
  BY <1>5, InitListHeadInv
<1>6. ASSUME NEW h \in Heads, NEW g \in Heads, list_splice(h, g) \/ list_splice_init(h, g)
      PROVE  ListInv'
  BY <1>6, ListSpliceInv
<1>7. CASE list_for_each_safe BY <1>7, WalkStepInv
<1>8. CASE UNCHANGED listVars BY <1>8 DEF listVars, ListInv, WalkInv
<1>9. QED BY <1>1, <1>2, <1>3, <1>4, <1>5, <1>6, <1>7, <1>8 DEF ListNext

LEMMA ListInvariant == ListSpec => []ListInv
BY ListInitInv, ListNextInv, PTL DEF ListSpec

\* No head ever holds a NULL, and no walk comes to one.
THEOREM ListTypes == ListSpec => []ListTypeOK
<1>1. ListInv => ListTypeOK
  BY DEF ListInv, Rings, Loose, WalkInv, ListTypeOK, Owners
<1>2. QED BY <1>1, ListInvariant, PTL

\* Within a list next and prev are always inverse to each other, whatever
\* calls were made.
THEOREM ListWellLinked == ListSpec => []WellLinked
<1>1. ListInv => WellLinked BY DEF ListInv, Rings, Wired, WellLinked, Linked
<1>2. QED BY <1>1, ListInvariant, PTL

\* No call leaves a ring that no head is part of: what can be reached from a
\* linked node always comes round to a head.
THEOREM ListEveryRingHasHead == ListSpec => []EveryRingHasHead
<1>1. ListInv => EveryRingHasHead BY DEF ListInv, Rings, Headed, EveryRingHasHead, Linked
<1>2. QED BY <1>1, ListInvariant, PTL

\* Every list is sound after any sequence of calls, for any set of heads and
\* of nodes.
THEOREM ListIsSafe == ListSpec => []ListSafe
<1>1. ListTypeOK /\ WellLinked /\ EveryRingHasHead => ListSafe BY DEF ListSafe
<1>2. QED BY <1>1, ListTypes, ListWellLinked, ListEveryRingHasHead, PTL

-----------------------------------------------------------------------------
(* What a walk meets that starts at x, follows f and ends at h: the least  *)
(* set of nodes that holds x and is closed under f, h left out.            *)

Until(S, f, x, h) ==
  /\ x \in Nodes \ {h} => x \in S
  /\ \A y \in S : f[y] \in Nodes \ {h} => f[y] \in S

Met(f, x, h) == {y \in Nodes : \A S \in SUBSET Nodes : Until(S, f, x, h) => y \in S}

LEMMA MetUntil ==
  ASSUME NEW f, NEW x, NEW h
  PROVE  Met(f, x, h) \in SUBSET Nodes /\ Until(Met(f, x, h), f, x, h)
  BY DEF Met, Until

LEMMA MetLeast ==
  ASSUME NEW f, NEW x, NEW h, NEW S \in SUBSET Nodes, Until(S, f, x, h)
  PROVE  Met(f, x, h) \subseteq S
  BY DEF Met

\* What is met from x is x or is met from the node behind it.
LEMMA MetStep ==
  ASSUME NEW f, NEW x, NEW h
  PROVE  Met(f, x, h) \subseteq {x} \cup Met(f, f[x], h)
<1>1. CASE x \in Nodes
  <2> DEFINE S == {x} \cup Met(f, f[x], h)
  <2>1. S \in SUBSET Nodes /\ Until(S, f, x, h)
    BY <1>1, MetUntil DEF Until
  <2> QED BY <2>1, MetLeast
<1>2. CASE x \notin Nodes
  <2>1. {} \in SUBSET Nodes /\ Until({}, f, x, h)
    BY <1>2 DEF Until
  <2> QED BY <2>1, MetLeast
<1> QED BY <1>1, <1>2

\* What is met from something that is met.
LEMMA MetOnward ==
  ASSUME NEW f, NEW x, NEW h, NEW y \in Met(f, x, h)
  PROVE  Met(f, y, h) \subseteq Met(f, x, h)
<1>1. Met(f, x, h) \in SUBSET Nodes /\ Until(Met(f, x, h), f, y, h)
  BY MetUntil DEF Until
<1> QED BY <1>1, MetLeast

\* What is met after the start has a node before it.
LEMMA MetBehind ==
  ASSUME NEW f, NEW x, NEW h, NEW y \in Met(f, x, h), y # x
  PROVE  \E p \in Met(f, x, h) : f[p] = y
<1> SUFFICES ASSUME \A p \in Met(f, x, h) : f[p] # y PROVE FALSE
  OBVIOUS
<1> DEFINE S == Met(f, x, h) \ {y}
<1>1. S \in SUBSET Nodes /\ Until(S, f, x, h)
  BY MetUntil DEF Until
<1>2. QED BY <1>1, MetLeast

\* The head ends the walk: nothing is met outside of its list, nor the head.
LEMMA MetInList ==
  ASSUME NEW m, NEW own, Rings(m, own), NEW h \in Heads, NEW x \in Nodes, own[x] = h
  PROVE  Met(m.next, x, h) \subseteq {y \in Nodes \ {h} : own[y] = h}
<1> DEFINE S == {y \in Nodes \ {h} : own[y] = h}
<1>1. h # NULL
  BY ListAssumption DEF Nodes
<1>2. \A y \in S : own[m.next[y]] = h
  BY <1>1 DEF Rings, Wired
<1>3. S \in SUBSET Nodes /\ Until(S, m.next, x, h)
  BY <1>2 DEF Until
<1> QED BY <1>3, MetLeast

\* A walk from the node behind x does not come to x again.
LEMMA MetOnce ==
  ASSUME NEW m, NEW own, Rings(m, own), NEW h \in Heads, own[h] = h,
         NEW x \in Nodes \ {h}, own[x] = h
  PROVE  x \notin Met(m.next, m.next[x], h)
<1> SUFFICES ASSUME x \in Met(m.next, m.next[x], h) PROVE FALSE
  OBVIOUS
<1> DEFINE f == m.next
           T == Met(f, f[x], h)
           L == {y \in Nodes \ {h} : own[y] = h}
           A == Met(f, f[h], h)
           B == A \ T
<1>1. /\ h # NULL /\ h \in Nodes
      /\ \A y \in Nodes : own[y] = h => f[y] \in Nodes /\ own[f[y]] = h /\ m.prev[f[y]] = y
  BY ListAssumption DEF Rings, Wired, Nodes
<1>2. \A S \in SUBSET L : S # {} => \E y \in S : f[y] \notin S
  <2>1. SUFFICES ASSUME NEW S \in SUBSET L, S # {}, \A y \in S : f[y] \in S PROVE FALSE
    OBVIOUS
  <2>2. S \in SUBSET Nodes /\ \A y \in S : own[y] # NULL /\ f[y] \in S
    BY <1>1, <2>1
  <2>3. PICK g \in S : g \in Heads
    BY <2>1, <2>2 DEF Rings, Headed
  <2>4. own[g] = h /\ g # h /\ own[g] \in {g, NULL}
    BY <2>3 DEF Rings, HeadsOwn
  <2>5. QED BY <1>1, <2>4
<1>3. T \subseteq L /\ A \subseteq L
  BY <1>1, MetInList
<1> HIDE DEF f, L, T, A
<1>4. \A y \in Nodes : f[y] \in T /\ own[y] = h => y \in T
  <2>1. SUFFICES ASSUME NEW y \in Nodes, f[y] \in T, own[y] = h PROVE y \in T
    OBVIOUS
  <2>2. CASE f[y] = f[x]
    <3>1. y = x
      BY <1>1, <2>1, <2>2 DEF f
    <3>2. QED BY <3>1 DEF T, f
  <2>3. CASE f[y] # f[x]
    <3>1. PICK p \in T : f[p] = f[y]
      BY <2>1, <2>3, MetBehind DEF T
    <3>2. p \in Nodes /\ own[p] = h
      BY <1>3 DEF L
    <3>3. p = y
      BY <1>1, <2>1, <3>1, <3>2
    <3>4. QED BY <3>3
  <2>4. QED BY <2>2, <2>3
<1>5. PICK y \in T : f[y] = h
  <2>1. T # {}
    BY DEF T, f
  <2>2. PICK y \in T : f[y] \notin T
    BY <1>2, <1>3, <2>1
  <2>3. f[y] \in Nodes
    BY <1>1, <1>3 DEF L
  <2>4. QED BY <2>2, <2>3, MetUntil DEF Until, T
<1>6. \A z \in Nodes : own[z] = h /\ f[z] = h => z \in T
  <2>1. y \in Nodes /\ own[y] = h
    BY <1>3 DEF L
  <2>2. QED BY <1>1, <1>5, <2>1
<1>7. f[h] \notin T /\ h \notin T /\ f[h] # h
  BY <1>1, <1>3, <1>4, <1>6 DEF L
<1>8. f[h] \in B
  <2>1. f[h] \in A
    BY <1>1, <1>7, MetUntil DEF Until, A
  <2>2. QED BY <1>7, <2>1
<1>9. ASSUME NEW z \in B PROVE f[z] \in B
  <2>1. z \in Nodes /\ own[z] = h /\ z \in A /\ z \notin T
    BY <1>3, <1>9 DEF L
  <2>2. f[z] # h /\ f[z] \notin T /\ f[z] \in Nodes
    BY <1>1, <1>4, <1>6, <2>1
  <2>3. f[z] \in A
    BY <2>1, <2>2, MetUntil DEF Until, A
  <2>4. QED BY <2>2, <2>3
<1>10. QED
  BY <1>2, <1>3, <1>8, <1>9

-----------------------------------------------------------------------------
(* Sequences of nodes that a walk meets in their order, and what the calls *)
(* leave of them.                                                          *)

InLine(f, x, h, s) ==
  \A a \in 1..Len(s) :
    /\ s[a] \in Met(f, x, h)
    /\ \A b \in 1..Len(s) : a < b => s[a] # s[b] /\ s[b] \in Met(f, s[a], h)

\* Nothing is left out when a node is inserted.
LEMMA AddKeepsMet ==
  ASSUME NEW f, NEW f2, NEW h, NEW e \in Nodes \ {h}, NEW p \in Nodes \ {e},
         f[p] # e, f2[p] = e, f2[e] = f[p], \A z \in Nodes \ {p, e} : f2[z] = f[z],
         NEW x \in Nodes, e \notin Met(f, x, h)
  PROVE  Met(f, x, h) \subseteq Met(f2, x, h)
<1> DEFINE T  == Met(f, x, h)
           T2 == Met(f2, x, h)
           S  == T \cap T2
<1>1. /\ T \in SUBSET Nodes /\ Until(T, f, x, h) /\ e \notin T
      /\ T2 \in SUBSET Nodes /\ Until(T2, f2, x, h)
  BY MetUntil
<1> HIDE DEF T, T2
<1>2. Until(S, f, x, h)
  <2>1. x \in Nodes \ {h} => x \in S
    BY <1>1 DEF Until
  <2>2. ASSUME NEW y \in S, f[y] \in Nodes \ {h} PROVE f[y] \in S
    <3>1. f[y] \in T /\ y \in Nodes \ {e}
      BY <1>1, <2>2 DEF Until
    <3>2. CASE y = p
      <4>1. e \in T2
        BY <1>1, <3>2 DEF Until
      <4>2. QED BY <1>1, <2>2, <3>1, <3>2, <4>1 DEF Until
    <3>3. CASE y # p
      BY <1>1, <2>2, <3>1, <3>3 DEF Until
    <3>4. QED BY <3>2, <3>3
  <2>3. QED BY <2>1, <2>2 DEF Until
<1>3. S \in SUBSET Nodes
  BY <1>1
<1>4. Met(f, x, h) \subseteq S
  BY <1>2, <1>3, MetLeast
<1>5. QED BY <1>4 DEF T2

\* Nothing else is left out when e is taken away.
LEMMA DelKeepsMet ==
  ASSUME NEW f, NEW f2, NEW h, NEW e \in Nodes, NEW p \in Nodes, p # e,
         f[p] = e, f2[p] = f[e], \A z \in Nodes \ {p, e} : f2[z] = f[z],
         NEW x \in Nodes \ {e}, e \notin Met(f2, x, h)
  PROVE  Met(f, x, h) \ {e} \subseteq Met(f2, x, h)
<1> DEFINE T == Met(f2, x, h)
           S == T \cup (IF p \in T THEN {e} ELSE {})
<1>1. T \in SUBSET Nodes /\ Until(T, f2, x, h) /\ e \notin T
  BY MetUntil
<1> HIDE DEF T
<1>2. Until(S, f, x, h)
  <2>1. x \in Nodes \ {h} => x \in S
    BY <1>1 DEF Until
  <2>2. ASSUME NEW y \in S, f[y] \in Nodes \ {h} PROVE f[y] \in S
    <3>1. CASE y = p
      <4>1. p \in T
        BY <2>2, <3>1
      <4>2. QED BY <3>1, <4>1
    <3>2. CASE y = e
      <4>1. p \in T /\ f2[p] = f[e]
        BY <1>1, <2>2, <3>2
      <4>2. QED BY <1>1, <2>2, <3>2, <4>1 DEF Until
    <3>3. CASE y \notin {p, e}
      <4>1. y \in T
        BY <2>2, <3>3
      <4>2. QED BY <1>1, <2>2, <3>3, <4>1 DEF Until
    <3>4. QED BY <3>1, <3>2, <3>3
  <2>3. QED BY <2>1, <2>2 DEF Until
<1>3. S \in SUBSET Nodes
  BY <1>1
<1>4. Met(f, x, h) \subseteq S
  BY <1>2, <1>3, MetLeast
<1>5. QED BY <1>4 DEF T

LEMMA AddMet ==
  ASSUME NEW m, NEW own, Rings(m, own), NEW e \in Nodes, own[e] = NULL, e \notin Heads,
         NEW p \in Nodes, own[p] # NULL, NEW h \in Heads, NEW x \in Nodes, own[x] = h
  PROVE  Met(m.next, x, h) \subseteq Met(ListAdd(m, e, p, m.next[p]).next, x, h)
<1> DEFINE n  == m.next[p]
           f  == m.next
           f2 == ListAdd(m, e, p, n).next
<1>1. n \in Nodes /\ own[n] = own[p] /\ m \in Mem
  BY DEF Rings, Wired
<1>2. \A z \in Nodes : f2[z] = IF z = p THEN e ELSE IF z = e THEN n ELSE m.next[z]
  <2> HIDE DEF n
  <2> QED BY <1>1, ListAddMem
<1>3. h # NULL
  BY ListAssumption DEF Nodes
<1>4. e \notin Met(f, x, h)
  <2>1. Met(f, x, h) \subseteq {y \in Nodes \ {h} : own[y] = h}
    BY MetInList
  <2>2. QED BY <1>3, <2>1
<1>5. f[p] # e /\ p # e /\ e # h
  BY <1>1
<1>6. f2[p] = e /\ f2[e] = f[p] /\ \A z \in Nodes \ {p, e} : f2[z] = f[z]
  BY <1>2, <1>5
<1> HIDE DEF f, f2
<1>7. Met(f, x, h) \subseteq Met(f2, x, h)
  BY <1>4, <1>5, <1>6, AddKeepsMet
<1>8. QED BY <1>7 DEF f, f2

LEMMA DelMet ==
  ASSUME NEW m, NEW own, Rings(m, own), NEW e \in Nodes, own[e] # NULL, e \notin Heads,
         NEW m2 \in Mem,
         \A z \in Nodes \ {e} : /\ m2.next[z] = ListDel(m, e).next[z]
                                /\ m2.prev[z] = ListDel(m, e).prev[z],
         NEW h \in Heads, NEW x \in Nodes \ {e}, own[x] = h
  PROVE  Met(m.next, x, h) \ {e} \subseteq Met(m2.next, x, h)
<1> DEFINE p  == m.prev[e]
           o2 == [own EXCEPT ![e] = NULL]
<1>1. /\ p \in Nodes /\ m.next[p] = e /\ m.prev[e] \in Nodes /\ m.next[e] \in Nodes
      /\ own \in Owners /\ m \in Mem
  BY DEF Rings, Wired
<1>2. p # e
  BY <1>1, NotAlone
<1>3. \A z \in Nodes : ListDel(m, e).next[z] = IF z = m.prev[e] THEN m.next[e] ELSE m.next[z]
  BY <1>1, ListDelMem
<1>4. m2.next[p] = m.next[e] /\ \A z \in Nodes \ {p, e} : m2.next[z] = m.next[z]
  BY <1>1, <1>2, <1>3
<1>5. e \notin Met(m2.next, x, h)
  <2>1. Rings(m2, o2)
    BY DelRings
  <2>2. o2[x] = h /\ o2[e] = NULL /\ h # NULL
    BY <1>1, ListAssumption DEF Owners, Nodes
  <2>3. Met(m2.next, x, h) \subseteq {y \in Nodes \ {h} : o2[y] = h}
    <3> HIDE DEF o2
    <3> QED BY <2>1, <2>2, MetInList
  <2>4. QED BY <2>2, <2>3
<1>6. QED
  <2> DEFINE f == m.next
             f2 == m2.next
  <2>1. p \in Nodes /\ p # e /\ f[p] = e /\ f2[p] = f[e] /\ \A z \in Nodes \ {p, e} : f2[z] = f[z]
    BY <1>1, <1>2, <1>4
  <2>2. e \notin Met(f2, x, h)
    BY <1>5
  <2> HIDE DEF p, f, f2, o2
  <2>3. Met(f, x, h) \ {e} \subseteq Met(f2, x, h)
    BY <2>1, <2>2, DelKeepsMet
  <2>4. QED BY <2>3 DEF f, f2

-----------------------------------------------------------------------------
(* What the walk has still to meet lies ahead, in its order.               *)

Rest == IF due # <<>> /\ Head(due) = walk.pos THEN Tail(due) ELSE due

DueInv ==
  /\ due \in Seq(Nodes)
  /\ walk # NULL =>
       /\ owner[walk.head] = walk.head
       /\ walk.pos = walk.head => due = <<>>
       /\ InLine(mem.next, walk.n, walk.head, Rest)
       /\ \A a \in 1..Len(Rest) : Rest[a] # walk.pos

LEMMA RestSeq == ASSUME due \in Seq(Nodes) PROVE Rest \in Seq(Nodes) /\ Len(Rest) \in Nat
  BY DEF Rest

\* What a call in the body of the walk leaves to be shown.
LEMMA BodyKeepsDue ==
  ASSUME ListInv, DueInv, walk # NULL, UNCHANGED <<walk, due>>, NEW e \in Nodes, e \notin Heads,
         owner'[walk.head] = owner[walk.head], walk.n # e, \A a \in 1..Len(Rest) : Rest[a] # e,
         \A x \in Nodes \ {e} : owner[x] = walk.head =>
            Met(mem.next, x, walk.head) \ {e} \subseteq Met(mem'.next, x, walk.head)
  PROVE  DueInv'
<1> DEFINE h == walk.head
           n == walk.n
           s == Rest
           f == mem.next
           f2 == mem'.next
<1>1. h \in Heads /\ n \in Nodes /\ owner[n] = h /\ Rings(mem, owner)
  BY DEF ListInv, WalkInv
<1>2. InLine(f, n, h, s) /\ s \in Seq(Nodes) /\ Len(s) \in Nat
  BY RestSeq DEF DueInv
<1>3. Rest' = s
  BY DEF Rest
<1>4. Met(f, n, h) \subseteq {y \in Nodes \ {h} : owner[y] = h}
  BY <1>1, MetInList
<1> HIDE DEF s, f, f2, h, n
<1>5. \A x \in Nodes \ {e} : owner[x] = h => Met(f, x, h) \ {e} \subseteq Met(f2, x, h)
  BY DEF f, f2, h
<1>6. \A a \in 1..Len(s) : s[a] # e
  BY DEF s
<1>7. n # e
  BY DEF n
<1>8. InLine(f2, n, h, s)
  <2>1. ASSUME NEW a \in 1..Len(s)
        PROVE  /\ s[a] \in Met(f2, n, h)
               /\ \A b \in 1..Len(s) : a < b => s[a] # s[b] /\ s[b] \in Met(f2, s[a], h)
    <3>1. /\ s[a] \in Met(f, n, h)
          /\ \A b \in 1..Len(s) : a < b => s[a] # s[b] /\ s[b] \in Met(f, s[a], h)
      BY <1>2 DEF InLine
    <3>2. s[a] \in Nodes \ {e} /\ owner[s[a]] = h
      BY <1>4, <1>6, <3>1
    <3>3. s[a] \in Met(f2, n, h)
      BY <1>1, <1>5, <1>6, <1>7, <3>1
    <3>4. \A b \in 1..Len(s) : a < b => s[b] \in Met(f2, s[a], h)
      BY <1>5, <1>6, <3>1, <3>2
    <3>5. QED BY <3>1, <3>3, <3>4
  <2>2. QED BY <2>1 DEF InLine
<1>9. (InLine(mem.next, walk.n, walk.head, Rest))'
  BY <1>3, <1>8 DEF f2, n, h
<1>10. (\A a \in 1..Len(Rest) : Rest[a] # walk.pos)'
  BY <1>3 DEF DueInv, s
<1>11. QED BY <1>9, <1>10 DEF DueInv

\* The nodes that the walk has still to meet are in its list.
LEMMA RestInList ==
  ASSUME ListInv, DueInv, walk # NULL
  PROVE  /\ walk.head \in Heads /\ walk.n \in Nodes /\ owner[walk.n] = walk.head
         /\ walk.head # NULL
         /\ \A a \in 1..Len(Rest) : Rest[a] \in Nodes \ {walk.head} /\ owner[Rest[a]] = walk.head
<1>1. /\ walk.head \in Heads /\ walk.n \in Nodes /\ owner[walk.n] = walk.head
      /\ Rings(mem, owner)
  BY DEF ListInv, WalkInv
<1>2. walk.head # NULL
  BY <1>1, Pointers
<1>3. Met(mem.next, walk.n, walk.head) \subseteq {y \in Nodes \ {walk.head} : owner[y] = walk.head}
  BY <1>1, MetInList
<1>4. \A a \in 1..Len(Rest) : Rest[a] \in Met(mem.next, walk.n, walk.head)
  BY DEF DueInv, InLine
<1>5. QED BY <1>1, <1>2, <1>3, <1>4

LEMMA AddKeepsDue ==
  ASSUME ListInv, DueInv, walk # NULL, NEW e \in Entries, ~Linked(e), NEW p \in Nodes, Linked(p),
         mem' = ListAdd(mem, e, p, mem.next[p]),
         owner' = [owner EXCEPT ![e] = owner[p]], UNCHANGED <<walk, due>>
  PROVE  DueInv'
<1>1. /\ e \in Nodes /\ e \notin Heads /\ owner[e] = NULL /\ owner[p] # NULL /\ Rings(mem, owner)
      /\ owner \in Owners
  BY Pointers DEF Linked, ListInv
<1>2. walk.n # e /\ \A a \in 1..Len(Rest) : Rest[a] # e
  BY <1>1, RestInList
<1>3. owner'[walk.head] = owner[walk.head]
  BY <1>1, RestInList DEF Owners, Nodes
<1>4. \A x \in Nodes \ {e} : owner[x] = walk.head =>
        Met(mem.next, x, walk.head) \ {e} \subseteq Met(mem'.next, x, walk.head)
  BY <1>1, RestInList, AddMet
<1>5. QED BY <1>1, <1>2, <1>3, <1>4, BodyKeepsDue

\* The entry that the walk stands on is not one that it has still to meet.
LEMMA BodyIsPast ==
  ASSUME ListInv, DueInv, walk # NULL, NEW e \in Entries, InBody(e)
  PROVE  /\ e \in Nodes /\ e \notin Heads
         /\ walk.n # e /\ \A a \in 1..Len(Rest) : Rest[a] # e
<1>1. walk.pos = e /\ e \notin Heads /\ e \in Nodes
  BY Pointers DEF InBody
<1>2. walk.pos # walk.head
  BY <1>1, RestInList
<1>3. QED BY <1>1, <1>2 DEF ListInv, WalkInv, DueInv

LEMMA DelKeepsDue ==
  ASSUME ListInv, DueInv, walk # NULL, NEW e \in Entries, InBody(e), Linked(e), mem' \in Mem,
         \A z \in Nodes \ {e} : /\ mem'.next[z] = ListDel(mem, e).next[z]
                                /\ mem'.prev[z] = ListDel(mem, e).prev[z],
         owner' = [owner EXCEPT ![e] = NULL], UNCHANGED <<walk, due>>
  PROVE  DueInv'
<1>1. /\ e \in Nodes /\ e \notin Heads /\ owner[e] # NULL /\ Rings(mem, owner) /\ owner \in Owners
  BY Pointers DEF Linked, ListInv
<1>2. walk.n # e /\ \A a \in 1..Len(Rest) : Rest[a] # e
  BY BodyIsPast
<1>3. owner'[walk.head] = owner[walk.head]
  BY <1>1, RestInList DEF Owners, Nodes
<1>4. \A x \in Nodes \ {e} : owner[x] = walk.head =>
        Met(mem.next, x, walk.head) \ {e} \subseteq Met(mem'.next, x, walk.head)
  BY <1>1, RestInList, DelMet
<1>5. QED BY <1>1, <1>2, <1>3, <1>4, BodyKeepsDue

LEMMA ListAddDue ==
  ASSUME ListInv, DueInv, walk # NULL, NEW e \in Entries, NEW x \in Nodes,
         list_add(e, x) \/ list_add_tail(e, x)
  PROVE  DueInv'
<1>1. CASE list_add(e, x) BY <1>1, AddKeepsDue DEF list_add, AddFirst, UnchangedWalk
<1>2. CASE list_add_tail(e, x)
  <2>1. /\ mem.prev[x] \in Nodes /\ mem.next[mem.prev[x]] = x
        /\ owner[mem.prev[x]] = owner[x] /\ Linked(x)
    BY <1>2, Pointers DEF list_add_tail
  <2>2. QED BY <1>2, <2>1, AddKeepsDue DEF list_add_tail, AddLast, UnchangedWalk, Linked
<1>3. QED BY <1>1, <1>2

LEMMA ListDelDue ==
  ASSUME ListInv, DueInv, walk # NULL, NEW e \in Entries, list_del(e) \/ list_del_init(e)
  PROVE  DueInv'
<1>1. CASE list_del(e)
  <2>1. ListDel(mem, e) \in Mem BY <1>1, Pointers, ListDelMem DEF list_del
  <2>2. /\ mem' \in Mem
        /\ \A z \in Nodes \ {e} : /\ mem'.next[z] = ListDel(mem, e).next[z]
                                  /\ mem'.prev[z] = ListDel(mem, e).prev[z]
    BY <1>1, <2>1, Pointers DEF list_del, SetNext, SetPrev, Mem
  <2>3. QED BY <1>1, <2>2, DelKeepsDue DEF list_del, UnchangedWalk
<1>2. CASE list_del_init(e) /\ Linked(e)
  <2>1. ListDel(mem, e) \in Mem BY <1>2, Pointers, ListDelMem
  <2>2. /\ mem' \in Mem
        /\ \A z \in Nodes \ {e} : /\ mem'.next[z] = ListDel(mem, e).next[z]
                                  /\ mem'.prev[z] = ListDel(mem, e).prev[z]
    BY <1>2, <2>1, Pointers, InitListHeadMem DEF list_del_init
  <2>3. QED BY <1>2, <2>2, DelKeepsDue DEF list_del_init, UnchangedWalk
<1>3. CASE list_del_init(e) /\ ~Linked(e)
  <2>1. mem' = mem /\ owner' = owner
    BY <1>3, DelOfLoose
  <2>2. UNCHANGED <<walk, due>> BY <1>3 DEF list_del_init, UnchangedWalk
  <2>3. QED BY <2>1, <2>2 DEF DueInv, Rest
<1>4. QED BY <1>1, <1>2, <1>3

LEMMA ListMoveDue ==
  ASSUME ListInv, DueInv, walk # NULL, NEW e \in Entries, NEW x \in Nodes,
         list_move(e, x) \/ list_move_tail(e, x)
  PROVE  DueInv'
<1> DEFINE m1 == ListDel(mem, e)
           o1 == [owner EXCEPT ![e] = NULL]
<1>1. /\ Linked(e) /\ InBody(e) /\ owner' = [owner EXCEPT ![e] = owner[x]]
      /\ UNCHANGED <<walk, due>> /\ Rings(mem, owner) /\ owner \in Owners
  BY Pointers DEF list_move, list_move_tail, UnchangedWalk, ListInv
<1>2. /\ e \in Nodes /\ e \notin Heads /\ walk.n # e /\ \A a \in 1..Len(Rest) : Rest[a] # e
  BY <1>1, BodyIsPast
<1>3. PICK p \in Nodes : o1[p] # NULL /\ mem' = ListAdd(m1, e, p, m1.next[p])
  BY MoveIsDelAdd
<1>4. m1 \in Mem BY <1>1, Pointers, ListDelMem
<1>5. Rings(m1, o1) BY <1>1, <1>2, <1>4, DelRings DEF Linked
<1>6. \A z \in Nodes : o1[z] = IF z = e THEN NULL ELSE owner[z] BY <1>1 DEF Owners
<1>7. owner'[walk.head] = owner[walk.head]
  BY <1>1, <1>2, RestInList DEF Owners, Nodes
<1>8. ASSUME NEW y \in Nodes \ {e}, owner[y] = walk.head
      PROVE  Met(mem.next, y, walk.head) \ {e} \subseteq Met(mem'.next, y, walk.head)
  <2>1. Met(mem.next, y, walk.head) \ {e} \subseteq Met(m1.next, y, walk.head)
    BY <1>1, <1>2, <1>4, <1>8, RestInList, DelMet DEF Linked
  <2>2. o1[y] = walk.head /\ o1[e] = NULL
    BY <1>2, <1>6, <1>8
  <2> HIDE DEF m1, o1
  <2>3. Met(m1.next, y, walk.head) \subseteq Met(ListAdd(m1, e, p, m1.next[p]).next, y, walk.head)
    BY <1>2, <1>3, <1>5, <2>2, RestInList, AddMet
  <2>4. QED BY <1>3, <2>1, <2>3
<1>9. QED BY <1>1, <1>2, <1>7, <1>8, BodyKeepsDue

-----------------------------------------------------------------------------
(* Order is what a walk over the whole list meets.                         *)

\* The same for any memory, so that it can be said of the one after a step.
FollowingOf(m, h) ==
  LET nth[k \in Nat] == IF k = 0 THEN h
                        ELSE IF nth[k - 1] = NULL THEN NULL ELSE m.next[nth[k - 1]]
  IN nth

LEMMA FollowingOfIs ==
  ASSUME NEW m \in Mem, NEW h \in Nodes
  PROVE  /\ FollowingOf(m, h) \in [Nat -> Nodes \cup {NULL}] /\ FollowingOf(m, h)[0] = h
         /\ \A k \in Nat : k # 0 =>
              FollowingOf(m, h)[k] = IF FollowingOf(m, h)[k - 1] = NULL THEN NULL
                                ELSE m.next[FollowingOf(m, h)[k - 1]]
<1> DEFINE A == Nodes \cup {NULL}
           step == [x \in A |-> IF x = NULL THEN NULL ELSE m.next[x]]
           Is(g) == g = [k \in Nat |-> IF k = 0 THEN h
                                       ELSE IF g[k - 1] = NULL THEN NULL ELSE m.next[g[k - 1]]]
<1>1. step \in [A -> A] /\ h \in A
  BY DEF Mem
<1>2. PICK g \in [Nat -> A] : g = [k \in Nat |-> IF k = 0 THEN h ELSE step[g[k - 1]]]
  <2> HIDE DEF A, step
  <2> QED BY <1>1, IterationExists
<1>3. Is(g)
  <2>1. \A k \in Nat : k # 0 => g[k - 1] \in A
    <3> HIDE DEF A, step
    <3>1. \A k \in Nat : k # 0 => k - 1 \in Nat
      OBVIOUS
    <3>2. g \in [Nat -> A]
      BY <1>2
    <3>3. QED BY <3>1, <3>2
  <2>2. \A k \in Nat : k # 0 =>
          step[g[k - 1]] = IF g[k - 1] = NULL THEN NULL ELSE m.next[g[k - 1]]
    BY <2>1
  <2>3. QED BY <1>2, <2>2
<1>4. FollowingOf(m, h) = CHOOSE k : Is(k)
  BY DEF FollowingOf
<1>5. Is(FollowingOf(m, h))
  <2> HIDE DEF Is
  <2> QED BY <1>3, <1>4
<1> DEFINE F == FollowingOf(m, h)
<1> HIDE DEF F
<1>6. F = [k \in Nat |-> IF k = 0 THEN h ELSE IF F[k - 1] = NULL THEN NULL ELSE m.next[F[k - 1]]]
  BY <1>5 DEF F
<1>7. F[0] = h /\ \A k \in Nat : k # 0 =>
        F[k] = IF F[k - 1] = NULL THEN NULL ELSE m.next[F[k - 1]]
  BY <1>6
<1>8. \A k \in Nat : F[k] \in A
  <2> DEFINE S == {k \in Nat : F[k] \in A}
  <2>1. 0 \in S
    BY <1>1, <1>7
  <2>2. ASSUME NEW k \in S PROVE k + 1 \in S
    <3>1. k \in Nat /\ k + 1 \in Nat /\ k + 1 # 0 /\ (k + 1) - 1 = k /\ F[k] \in A
      OBVIOUS
    <3>2. F[k + 1] = IF F[k] = NULL THEN NULL ELSE m.next[F[k]]
      BY <1>7, <3>1
    <3>3. F[k + 1] \in A
      BY <3>1, <3>2 DEF Mem
    <3>4. QED BY <3>1, <3>3
  <2>3. S = Nat
    <3> HIDE DEF S
    <3>1. S \in SUBSET Nat
      BY DEF S
    <3>2. QED BY <2>1, <2>2, <3>1, Inductive
  <2>4. QED BY <2>3
<1>9. F \in [Nat -> A]
  <2> HIDE DEF A
  <2>1. F = [k \in Nat |-> F[k]]
    BY <1>6
  <2>2. QED BY <1>8, <2>1
<1>10. QED BY <1>7, <1>9 DEF F

LEMMA FollowingIs ==
  ASSUME mem \in Mem, NEW h \in Nodes
  PROVE  /\ Following(h) \in [Nat -> Nodes \cup {NULL}] /\ Following(h)[0] = h
         /\ \A k \in Nat : k # 0 =>
              Following(h)[k] = IF Following(h)[k - 1] = NULL THEN NULL
                                ELSE mem.next[Following(h)[k - 1]]
<1>1. Following(h) = FollowingOf(mem, h)
  BY DEF Following, FollowingOf
<1>2. QED BY <1>1, FollowingOfIs

LEMMA OrderInLine ==
  ASSUME ListInv, NEW h \in Heads, Linked(h)
  PROVE  /\ Order(h) \in Seq(Nodes)
         /\ mem.next[h] = h => Order(h) = <<>>
         /\ Order(h) # <<>> => Order(h)[1] = mem.next[h]
         /\ \A a \in 1..Len(Order(h)) :
              /\ Order(h)[a] \in Nodes \ {h} /\ owner[Order(h)[a]] = h
              /\ \A b \in 1..Len(Order(h)) : a < b =>
                   Order(h)[b] \in Met(mem.next, mem.next[Order(h)[a]], h)
<1> DEFINE g    == Following(h)
           f    == mem.next
           C    == Cardinality(Nodes)
           far  == {k \in 1..C : g[k] \in {h, NULL}}
           size == IF far = {} THEN C ELSE (CHOOSE k \in far : \A j \in far : k <= j) - 1
           s    == [k \in 1..size |-> g[k]]
<1>1. /\ h \in Nodes /\ h # NULL /\ owner[h] = h /\ mem \in Mem /\ NULL \notin Nodes
      /\ \A x \in Nodes : owner[x] = h => f[x] \in Nodes /\ owner[f[x]] = h
  BY Pointers DEF Linked
<1>2. Order(h) = IF f[h] = h THEN <<>> ELSE s
  BY DEF Order, list_empty
<1>3. C \in Nat
  BY ListAssumption, FS_CardinalityType
<1>4. g[0] = h /\ \A k \in Nat : k # 0 => g[k] = IF g[k - 1] = NULL THEN NULL ELSE f[g[k - 1]]
  BY <1>1, FollowingIs
<1> HIDE DEF g, f, C
<1>5. \A k \in Nat : g[k] \in Nodes /\ owner[g[k]] = h
  <2> DEFINE S == {k \in Nat : g[k] \in Nodes /\ owner[g[k]] = h}
  <2>1. 0 \in S
    BY <1>1, <1>4
  <2>2. ASSUME NEW k \in S PROVE k + 1 \in S
    <3>1. k \in Nat /\ k + 1 \in Nat /\ k + 1 # 0 /\ (k + 1) - 1 = k /\ g[k] \in Nodes /\ owner[g[k]] = h
      OBVIOUS
    <3>2. g[k + 1] = IF g[k] = NULL THEN NULL ELSE f[g[k]]
      BY <1>4, <3>1
    <3>3. g[k + 1] \in Nodes /\ owner[g[k + 1]] = h
      BY <1>1, <3>1, <3>2
    <3>4. QED BY <3>1, <3>3
  <2>3. S = Nat
    <3> HIDE DEF S
    <3>1. S \in SUBSET Nat
      BY DEF S
    <3>2. QED BY <2>1, <2>2, <3>1, Inductive
  <2>4. QED BY <2>3
<1>6. \A k \in Nat : g[k + 1] = f[g[k]]
  BY <1>1, <1>4, <1>5
<1>7. /\ size \in Nat /\ size <= C
      /\ \A k \in 1..size : g[k] # h
  <2>1. CASE far = {}
    <3>1. size = C
      BY <2>1
    <3>2. QED BY <1>3, <2>1, <3>1
  <2>2. CASE far # {}
    <3>0. far \in SUBSET Nat
      BY <1>3
    <3>1. \E k \in far : \A j \in far : k <= j
      <4> HIDE DEF far
      <4> QED BY <2>2, <3>0, Least
    <3>2. PICK k : k = CHOOSE b \in far : \A j \in far : b <= j
      OBVIOUS
    <3>3. k \in far /\ \A j \in far : k <= j
      <4> HIDE DEF far
      <4> QED BY <3>1, <3>2
    <3>4. k \in 1..C /\ size = k - 1
      BY <2>2, <3>2, <3>3
    <3>5. ASSUME NEW j \in 1..k - 1 PROVE g[j] # h
      <4>1. j \in 1..C /\ ~(k <= j)
        BY <1>3, <3>4
      <4>2. QED BY <3>3, <4>1
    <3> HIDE DEF far, size
    <3>6. QED BY <1>3, <3>4, <3>5
  <2>3. QED BY <2>1, <2>2
<1> HIDE DEF far, size
<1>8. ASSUME NEW a \in 1..size, NEW b \in 1..size, a < b PROVE g[b] \in Met(f, f[g[a]], h)
  <2> DEFINE M == Met(f, f[g[a]], h)
             S == {d \in Nat : a + d + 1 <= size => g[a + d + 1] \in M}
  <2>1. M \in SUBSET Nodes /\ Until(M, f, f[g[a]], h)
    BY MetUntil
  <2> HIDE DEF M
  <2>2. 0 \in S
    <3>1. SUFFICES ASSUME a + 1 <= size PROVE g[a + 1] \in M
      BY <1>7
    <3>2. a + 1 \in 1..size /\ a \in Nat /\ a + 1 \in Nat
      BY <1>7, <3>1
    <3>3. g[a + 1] \in Nodes \ {h} /\ g[a + 1] = f[g[a]]
      BY <1>5, <1>6, <1>7, <3>2
    <3>4. QED BY <2>1, <3>3 DEF Until
  <2>3. ASSUME NEW d \in S PROVE d + 1 \in S
    <3>1. SUFFICES ASSUME a + (d + 1) + 1 <= size PROVE g[a + (d + 1) + 1] \in M
      OBVIOUS
    <3> DEFINE c == a + d + 1
    <3>2. d \in Nat /\ c \in Nat /\ c <= size /\ a + (d + 1) + 1 = c + 1 /\ c + 1 \in 1..size
      BY <1>7, <3>1
    <3>3. g[c] \in M
      BY <3>2
    <3> HIDE DEF c
    <3>4. g[c + 1] = f[g[c]] /\ g[c + 1] \in Nodes \ {h}
      BY <1>5, <1>6, <1>7, <3>2
    <3>5. QED BY <2>1, <3>2, <3>3, <3>4 DEF Until
  <2>4. S = Nat
    <3> HIDE DEF S
    <3>1. S \in SUBSET Nat
      BY DEF S
    <3>2. QED BY <2>2, <2>3, <3>1, Inductive
  <2>5. b - a - 1 \in Nat /\ a + (b - a - 1) + 1 = b /\ b <= size
    BY <1>7, <1>8
  <2>6. b - a - 1 \in S
    BY <2>4, <2>5
  <2>7. QED BY <2>5, <2>6 DEF M
<1>9. \A a \in 1..size : a \in Nat /\ g[a] \in Nodes \ {h} /\ owner[g[a]] = h
  BY <1>5, <1>7
<1>10. s \in Seq(Nodes) /\ Len(s) = size /\ \A a \in 1..size : s[a] = g[a]
  BY <1>7, <1>9
<1>11. s # <<>> => s[1] = f[h]
  <2>1. SUFFICES ASSUME s # <<>> PROVE s[1] = f[h]
    OBVIOUS
  <2>2. 1 \in 1..size
    BY <1>7, <1>10, <2>1
  <2>3. g[0 + 1] = f[g[0]]
    BY <1>6
  <2>4. QED BY <1>4, <1>10, <2>2, <2>3
<1>12. CASE f[h] = h
  <2>1. Order(h) = <<>>
    BY <1>2, <1>12
  <2>2. QED BY <2>1
<1>13. CASE f[h] # h
  <2>1. Order(h) = s
    BY <1>2, <1>13
  <2> HIDE DEF s
  <2>2. \A a \in 1..Len(s) :
          /\ s[a] \in Nodes \ {h} /\ owner[s[a]] = h
          /\ \A b \in 1..Len(s) : a < b => s[b] \in Met(f, f[s[a]], h)
    BY <1>8, <1>9, <1>10
  <2>3. QED BY <1>10, <1>11, <1>13, <2>1, <2>2 DEF f
<1>14. QED BY <1>12, <1>13

-----------------------------------------------------------------------------
(* The steps of the walk.                                                  *)

\* One goes on from the node that comes first.
LEMMA TailInLine ==
  ASSUME NEW f, NEW h, NEW s \in Seq(Nodes), s # <<>>, InLine(f, s[1], h, s)
  PROVE  /\ InLine(f, f[s[1]], h, Tail(s))
         /\ \A a \in 1..Len(Tail(s)) : Tail(s)[a] # s[1]
<1> DEFINE t == Tail(s)
<1>1. /\ Len(s) \in Nat /\ 1 \in 1..Len(s) /\ Len(t) = Len(s) - 1
      /\ \A a \in 1..Len(t) : t[a] = s[a + 1] /\ a + 1 \in 1..Len(s) /\ 1 < a + 1
  OBVIOUS
<1> HIDE DEF t
<1>2. ASSUME NEW a \in 1..Len(t)
      PROVE  /\ t[a] # s[1] /\ t[a] \in Met(f, f[s[1]], h)
             /\ \A b \in 1..Len(t) : a < b => t[a] # t[b] /\ t[b] \in Met(f, t[a], h)
  <2>1. s[1] # s[a + 1] /\ s[a + 1] \in Met(f, s[1], h)
    BY <1>1, <1>2 DEF InLine
  <2>2. s[a + 1] \in Met(f, f[s[1]], h)
    BY <2>1, MetStep
  <2>3. ASSUME NEW b \in 1..Len(t), a < b PROVE t[a] # t[b] /\ t[b] \in Met(f, t[a], h)
    <3>1. a + 1 < b + 1 /\ a + 1 \in 1..Len(s) /\ b + 1 \in 1..Len(s)
      BY <1>1, <2>3
    <3>2. s[a + 1] # s[b + 1] /\ s[b + 1] \in Met(f, s[a + 1], h)
      BY <3>1 DEF InLine
    <3>3. QED BY <1>1, <2>3, <3>2
  <2>4. QED BY <1>1, <2>1, <2>2, <2>3
<1>3. QED BY <1>2 DEF InLine, t

LEMMA WalkBeginsDue ==
  ASSUME ListInv, NEW h \in Heads, walk_begins(h)
  PROVE  DueInv'
<1> DEFINE s == Order(h)
           f == mem.next
<1>1. /\ walk = NULL /\ Linked(h) /\ mem' = mem /\ owner' = owner /\ due' = s
      /\ walk' = [head |-> h, pos |-> f[h], n |-> f[f[h]]]
  BY DEF walk_begins, Ahead
<1>2. Rings(mem, owner) /\ owner[h] = h /\ h \in Nodes
  BY <1>1, Pointers DEF ListInv, Linked
<1>3. /\ s \in Seq(Nodes) /\ (f[h] = h => s = <<>>) /\ (s # <<>> => s[1] = f[h])
      /\ \A a \in 1..Len(s) :
           /\ s[a] \in Nodes \ {h} /\ owner[s[a]] = h
           /\ \A b \in 1..Len(s) : a < b => s[b] \in Met(f, f[s[a]], h)
  BY <1>1, OrderInLine
<1> HIDE DEF s
<1>4. CASE s = <<>>
  <2>1. Rest' = <<>>
    BY <1>1, <1>4 DEF Rest
  <2>2. (InLine(mem.next, walk.n, walk.head, Rest))' /\ (\A a \in 1..Len(Rest) : Rest[a] # walk.pos)'
    BY <2>1 DEF InLine
  <2>3. QED BY <1>1, <1>2, <1>3, <1>4, <2>2 DEF DueInv
<1>5. CASE s # <<>>
  <2>1. s[1] = f[h] /\ 1 \in 1..Len(s) /\ Len(s) \in Nat /\ Head(s) = s[1]
    BY <1>3, <1>5
  <2>2. InLine(f, s[1], h, s)
    <3>1. \A y \in Nodes \ {h} : y \in Met(f, y, h) /\ Met(f, f[y], h) \subseteq Met(f, y, h)
      <4>1. SUFFICES ASSUME NEW y \in Nodes \ {h}
                     PROVE  y \in Met(f, y, h) /\ Met(f, f[y], h) \subseteq Met(f, y, h)
        OBVIOUS
      <4>2. Met(f, y, h) \in SUBSET Nodes /\ Until(Met(f, y, h), f, y, h)
        BY MetUntil
      <4>3. y \in Met(f, y, h) /\ Until(Met(f, y, h), f, f[y], h)
        BY <4>2 DEF Until
      <4>4. QED BY <4>2, <4>3, MetLeast
    <3>2. ASSUME NEW a \in 1..Len(s), NEW b \in 1..Len(s), a < b
          PROVE  s[a] # s[b] /\ s[b] \in Met(f, s[a], h)
      <4>1. s[b] \in Met(f, f[s[a]], h) /\ s[a] \in Nodes \ {h} /\ owner[s[a]] = h
        BY <1>3, <3>2
      <4>2. s[a] \notin Met(f, f[s[a]], h)
        BY <1>2, <4>1, MetOnce
      <4>3. QED BY <3>1, <4>1, <4>2
    <3>3. ASSUME NEW a \in 1..Len(s) PROVE s[a] \in Met(f, s[1], h)
      <4>1. CASE a = 1
        BY <1>3, <2>1, <3>1, <4>1
      <4>2. CASE a # 1
        BY <2>1, <3>2, <4>2
      <4>3. QED BY <4>1, <4>2
    <3>4. QED BY <3>2, <3>3 DEF InLine
  <2>3. InLine(f, f[s[1]], h, Tail(s)) /\ \A a \in 1..Len(Tail(s)) : Tail(s)[a] # s[1]
    BY <1>3, <1>5, <2>2, TailInLine
  <2>4. Rest' = Tail(s)
    BY <1>1, <1>5, <2>1 DEF Rest
  <2>5. (InLine(mem.next, walk.n, walk.head, Rest))'
    BY <1>1, <2>1, <2>3, <2>4
  <2>6. (\A a \in 1..Len(Rest) : Rest[a] # walk.pos)'
    BY <1>1, <2>1, <2>3, <2>4
  <2>7. f[h] # h
    BY <1>3, <1>5
  <2>8. QED BY <1>1, <1>2, <1>3, <2>5, <2>6, <2>7 DEF DueInv
<1>6. QED BY <1>4, <1>5

LEMMA WalkContinuesDue ==
  ASSUME ListInv, DueInv, walk_continues
  PROVE  DueInv'
<1> DEFINE s == Rest
           f == mem.next
           h == walk.head
           n == walk.n
<1>1. /\ walk # NULL /\ mem' = mem /\ owner' = owner
      /\ due' = IF due # <<>> /\ walk.pos = Head(due) THEN Tail(due) ELSE due
      /\ walk' = [walk EXCEPT !.pos = n, !.n = f[n]]
  BY DEF walk_continues, Ahead
<1>2. due' = s
  BY <1>1 DEF Rest
<1>3. /\ walk \in [head : Heads, pos : Nodes, n : Nodes] /\ owner[n] = h /\ Rings(mem, owner)
      /\ owner[h] = h
  BY <1>1 DEF ListInv, WalkInv, DueInv
<1>4. walk'.head = h /\ walk'.pos = n /\ walk'.n = f[n]
  BY <1>1, <1>3
<1>5. h \in Heads /\ n \in Nodes
  BY <1>3
<1>6. s \in Seq(Nodes) /\ Len(s) \in Nat /\ InLine(f, n, h, s)
  BY <1>1, RestSeq DEF DueInv
<1> HIDE DEF s, n, h
<1>7. CASE n = h
  <2>1. Met(f, n, h) = {}
    <3>1. Until({}, f, n, h)
      BY <1>7 DEF Until
    <3>2. QED BY <3>1, MetLeast
  <2>2. s = <<>>
    <3>1. \A a \in 1..Len(s) : s[a] \in Met(f, n, h)
      BY <1>6 DEF InLine
    <3>2. 1 \notin 1..Len(s)
      BY <2>1, <3>1
    <3>3. QED BY <1>6, <3>2
  <2>3. due' = <<>> /\ Rest' = <<>>
    BY <1>2, <2>2 DEF Rest
  <2>4. (InLine(mem.next, walk.n, walk.head, Rest))' /\ (\A a \in 1..Len(Rest) : Rest[a] # walk.pos)'
    BY <2>3 DEF InLine
  <2>5. QED BY <1>1, <1>3, <1>4, <2>3, <2>4 DEF DueInv
<1>8. CASE n # h
  <2>1. n \notin Met(f, f[n], h)
    BY <1>3, <1>5, <1>8, MetOnce
  <2>2. CASE s # <<>> /\ Head(s) = n
    <3>1. s[1] = n
      BY <1>6, <2>2
    <3>2. InLine(f, f[n], h, Tail(s)) /\ \A a \in 1..Len(Tail(s)) : Tail(s)[a] # n
      BY <1>6, <2>2, <3>1, TailInLine
    <3>3. Rest' = Tail(s)
      BY <1>2, <1>4, <2>2 DEF Rest
    <3>4. (InLine(mem.next, walk.n, walk.head, Rest))' /\ (\A a \in 1..Len(Rest) : Rest[a] # walk.pos)'
      BY <1>1, <1>4, <3>2, <3>3
    <3>5. due' \in Seq(Nodes)
      BY <1>2, <1>6
    <3>6. QED BY <1>1, <1>3, <1>4, <1>8, <3>4, <3>5 DEF DueInv
  <2>3. CASE ~(s # <<>> /\ Head(s) = n)
    <3>1. \A a \in 1..Len(s) : s[a] # n
      <4>1. SUFFICES ASSUME NEW a \in 1..Len(s), s[a] = n PROVE FALSE
        OBVIOUS
      <4>2. s # <<>> /\ 1 \in 1..Len(s) /\ Head(s) = s[1]
        BY <1>6, <4>1
      <4>3. s[1] # n /\ a # 1 /\ 1 < a
        BY <1>6, <2>3, <4>1, <4>2
      <4>4. s[1] \in Met(f, n, h) /\ n \in Met(f, s[1], h)
        BY <1>6, <4>1, <4>2, <4>3 DEF InLine
      <4>5. s[1] \in Met(f, f[n], h)
        BY <4>3, <4>4, MetStep
      <4>6. n \in Met(f, f[n], h)
        BY <4>4, <4>5, MetOnward
      <4>7. QED BY <2>1, <4>6
    <3>2. InLine(f, f[n], h, s)
      <4>1. \A a \in 1..Len(s) : s[a] \in Met(f, f[n], h)
        <5>1. \A a \in 1..Len(s) : s[a] \in Met(f, n, h)
          BY <1>6 DEF InLine
        <5>2. QED BY <3>1, <5>1, MetStep
      <4>2. QED BY <1>6, <4>1 DEF InLine
    <3>3. Rest' = s
      BY <1>2, <1>4, <2>3 DEF Rest
    <3>4. (InLine(mem.next, walk.n, walk.head, Rest))' /\ (\A a \in 1..Len(Rest) : Rest[a] # walk.pos)'
      BY <1>1, <1>4, <3>1, <3>2, <3>3
    <3>5. due' \in Seq(Nodes)
      BY <1>2, <1>6
    <3>6. QED BY <1>1, <1>3, <1>4, <1>8, <3>4, <3>5 DEF DueInv
  <2>4. QED BY <2>2, <2>3
<1>9. QED BY <1>7, <1>8

\* A call that is made while no walk is under way.
LEMMA IdleKeepsDue ==
  ASSUME DueInv, walk = NULL, UNCHANGED <<walk, due>>
  PROVE  DueInv'
  BY DEF DueInv

LEMMA DueInvNext == ListInv /\ DueInv /\ [ListNext]_listVars => DueInv'
<1> SUFFICES ASSUME ListInv, DueInv, [ListNext]_listVars PROVE DueInv' OBVIOUS
<1>1. CASE walk # NULL
  <2>1. ASSUME NEW e \in Entries, list_del(e) \/ list_del_init(e) PROVE DueInv'
    BY <1>1, <2>1, ListDelDue
  <2>2. ASSUME NEW e \in Entries, NEW x \in Nodes, list_add(e, x) \/ list_add_tail(e, x)
        PROVE  DueInv'
    BY <1>1, <2>2, ListAddDue
  <2>3. ASSUME NEW e \in Entries, NEW x \in Nodes, list_move(e, x) \/ list_move_tail(e, x)
        PROVE  DueInv'
    BY <1>1, <2>3, ListMoveDue
  <2>4. CASE list_for_each_safe
    <3>1. CASE walk_continues BY <3>1, WalkContinuesDue
    <3>2. CASE walk_ends BY <3>2 DEF walk_ends, DueInv
    <3>3. QED BY <1>1, <2>4, <3>1, <3>2 DEF list_for_each_safe, walk_begins
  <2>5. CASE UNCHANGED listVars BY <2>5 DEF listVars, DueInv, Rest
  <2>6. QED
    BY <1>1, <2>1, <2>2, <2>3, <2>4, <2>5
    DEF ListNext, list_swap, INIT_LIST_HEAD, list_splice, list_splice_init
<1>2. CASE walk = NULL
  <2>1. CASE list_for_each_safe
    <3>1. PICK h \in Heads : walk_begins(h)
      BY <1>2, <2>1 DEF list_for_each_safe, walk_continues, walk_ends
    <3>2. QED BY <3>1, WalkBeginsDue
  <2>2. CASE UNCHANGED <<walk, due>> BY <1>2, <2>2, IdleKeepsDue
  <2>3. list_for_each_safe \/ UNCHANGED <<walk, due>>
    BY DEF ListNext, listVars, UnchangedWalk, list_del, list_del_init, list_add, list_add_tail,
           list_move, list_move_tail, list_swap, INIT_LIST_HEAD, list_splice, list_splice_init
  <2>4. QED BY <2>1, <2>2, <2>3
<1>3. QED BY <1>1, <1>2

\* The entries that a walk has still to meet lie ahead of it in their order,
\* whatever its body takes out, moves or puts in: it misses none of them.
THEOREM ListWalkMissesNothing == ListSpec => []WalkMissesNothing
<1>1. ListInit => DueInv
  BY DEF ListInit, DueInv
<1>2. DueInv => WalkMissesNothing
  <2>1. SUFFICES ASSUME DueInv, walk # NULL, walk.pos # walk.head,
                        NEW a \in DOMAIN due, due[a] = walk.pos
                 PROVE  walk.pos = Head(due)
    BY DEF WalkMissesNothing, DueInv
  <2>2. SUFFICES ASSUME walk.pos # Head(due) PROVE FALSE
    OBVIOUS
  <2>3. Rest = due /\ due \in Seq(Nodes)
    <3>1. ~(due # <<>> /\ Head(due) = walk.pos)
      BY <2>2
    <3>2. Rest = due
      BY <3>1, Zenon DEF Rest
    <3>3. QED BY <2>1, <3>2 DEF DueInv
  <2>4. a \in 1..Len(Rest) /\ Rest[a] = walk.pos
    BY <2>1, <2>3
  <2>5. QED BY <2>1, <2>4 DEF DueInv
<1>3. QED BY <1>1, <1>2, DueInvNext, ListInvariant, PTL DEF ListSpec

-----------------------------------------------------------------------------
(* A ring as a sequence: the head is at both ends of the entries s.        *)

At(s, h, a) == IF a \in 1..Len(s) THEN s[a] ELSE h

Ring(f, own, h, s) ==
  /\ s \in Seq(Entries)
  /\ \A a, b \in 1..Len(s) : s[a] = s[b] => a = b
  /\ \A e \in Entries : own[e] = h <=> \E a \in 1..Len(s) : s[a] = e
  /\ \A a \in 0..Len(s) : f[At(s, h, a)] = At(s, h, a + 1)

LEMMA AtIs ==
  ASSUME NEW h \in Heads, NEW s \in Seq(Entries)
  PROVE  /\ Len(s) \in Nat /\ h \in Nodes /\ h \notin Entries /\ h # NULL
         /\ \A a \in 1..Len(s) : At(s, h, a) = s[a] /\ s[a] \in Entries /\ s[a] \in Nodes /\ s[a] # h
         /\ At(s, h, 0) = h /\ At(s, h, Len(s) + 1) = h
         /\ \A a \in 0..Len(s) + 1 : At(s, h, a) \in Nodes
<1>1. Len(s) \in Nat /\ \A a \in 1..Len(s) : s[a] \in Entries
  BY ToSetOf
<1>2. h \in Nodes /\ h \notin Entries /\ h # NULL
  BY ListAssumption DEF Nodes
<1>3. \A a \in 1..Len(s) : At(s, h, a) = s[a] /\ s[a] \in Entries /\ s[a] \in Nodes /\ s[a] # h
  BY <1>1, <1>2 DEF At, Nodes
<1>4. 0 \notin 1..Len(s) /\ Len(s) + 1 \notin 1..Len(s)
  BY <1>1
<1>5. \A a : a \notin 1..Len(s) => At(s, h, a) = h
  BY DEF At
<1>6. QED BY <1>1, <1>2, <1>3, <1>4, <1>5

LEMMA RingSeq ==
  ASSUME NEW f, NEW own, NEW h \in Heads, NEW s, Ring(f, own, h, s)
  PROVE  /\ s \in Seq(Entries) /\ Len(s) \in Nat
         /\ h \in Nodes /\ h \notin Entries /\ h # NULL
         /\ At(s, h, 0) = h /\ At(s, h, Len(s) + 1) = h
BY AtIs DEF Ring

LEMMA RingEntries ==
  ASSUME NEW f, NEW own, NEW h \in Heads, NEW s, Ring(f, own, h, s)
  PROVE  \A a \in 1..Len(s) : /\ At(s, h, a) = s[a] /\ s[a] \in Entries /\ s[a] \in Nodes
                               /\ s[a] # h /\ own[s[a]] = h
<1>1. s \in Seq(Entries) /\ \A e \in Entries : own[e] = h <=> \E a \in 1..Len(s) : s[a] = e
  BY DEF Ring
<1>2. \A a \in 1..Len(s) : At(s, h, a) = s[a] /\ s[a] \in Entries /\ s[a] \in Nodes /\ s[a] # h
  BY <1>1, AtIs
<1>3. QED BY <1>1, <1>2

LEMMA RingNodes ==
  ASSUME NEW f, NEW own, NEW h \in Heads, NEW s, Ring(f, own, h, s)
  PROVE  \A a \in 0..Len(s) + 1 : At(s, h, a) \in Nodes
<1>1. s \in Seq(Entries)
  BY DEF Ring
<1>2. QED BY <1>1, AtIs

LEMMA RingOnce ==
  ASSUME NEW f, NEW own, NEW h \in Heads, NEW s, Ring(f, own, h, s)
  PROVE  \A a, b \in 0..Len(s) : At(s, h, a) = At(s, h, b) => a = b
<1>1. \A a, b \in 1..Len(s) : s[a] = s[b] => a = b
  BY DEF Ring
<1>2. \A a \in 1..Len(s) : At(s, h, a) = s[a] /\ s[a] # h
  BY RingEntries
<1>3. Len(s) \in Nat /\ At(s, h, 0) = h
  BY RingSeq
<1>4. \A a \in 0..Len(s) : a = 0 \/ a \in 1..Len(s)
  BY <1>3
<1>5. QED BY <1>1, <1>2, <1>3, <1>4

-----------------------------------------------------------------------------
(* Order reads the sequence off the pointers.                              *)

OrderOf(m, h) ==
  LET nth  == FollowingOf(m, h)
      far  == {k \in 1..Cardinality(Nodes) : nth[k] \in {h, NULL}}
      size == IF far = {} THEN Cardinality(Nodes)
              ELSE (CHOOSE k \in far : \A j \in far : k <= j) - 1
  IN IF m.next[h] = h THEN <<>> ELSE [k \in 1..size |-> nth[k]]

\* There are at least as many nodes as the ring has.
LEMMA RingFits ==
  ASSUME NEW f, NEW own, NEW h \in Heads, NEW s, Ring(f, own, h, s)
  PROVE  Cardinality(Nodes) \in Nat /\ Len(s) + 1 <= Cardinality(Nodes)
<1> DEFINE g == [a \in 0..Len(s) |-> At(s, h, a)]
<1>1. Len(s) \in Nat
  BY RingSeq
<1>2. \A a \in 0..Len(s) + 1 : At(s, h, a) \in Nodes
  BY RingNodes
<1>3. \A a, b \in 0..Len(s) : At(s, h, a) = At(s, h, b) => a = b
  BY RingOnce
<1>4. g \in Injection(0..Len(s), Nodes)
  <2>1. \A a \in 0..Len(s) : a \in 0..Len(s) + 1
    BY <1>1
  <2>2. g \in [0..Len(s) -> Nodes]
    BY <1>2, <2>1
  <2>3. QED BY <1>1, <2>2 DEF Injection, IsInjective
<1>5. IsFiniteSet(Nodes)
  BY ListAssumption
<1> HIDE DEF g
<1>6. Cardinality(0..Len(s)) <= Cardinality(Nodes)
  BY <1>4, <1>5, FS_Injection
<1>7. Cardinality(0..Len(s)) = Len(s) + 1
  <2>1. 0 \in Int /\ Len(s) \in Int /\ ~ (0 > Len(s)) /\ Len(s) - 0 + 1 = Len(s) + 1
    BY <1>1
  <2>2. QED BY <2>1, FS_Interval
<1>8. Cardinality(Nodes) \in Nat
  BY <1>5, FS_CardinalityType
<1>9. QED BY <1>6, <1>7, <1>8

LEMMA RingOrder ==
  ASSUME NEW m \in Mem, NEW own, NEW h \in Heads, NEW s, Ring(m.next, own, h, s)
  PROVE  OrderOf(m, h) = s
<1> DEFINE g    == FollowingOf(m, h)
           f    == m.next
           C    == Cardinality(Nodes)
           n    == Len(s)
           far  == {k \in 1..C : g[k] \in {h, NULL}}
           size == IF far = {} THEN C ELSE (CHOOSE k \in far : \A j \in far : k <= j) - 1
<1>1. s \in Seq(Entries) /\ n \in Nat /\ h \in Nodes /\ h # NULL /\ At(s, h, 0) = h /\ At(s, h, n + 1) = h
  BY RingSeq
<1>2. \A a \in 1..n : At(s, h, a) = s[a] /\ s[a] \in Nodes /\ s[a] # h
  BY RingEntries
<1>3. \A a \in 0..n : f[At(s, h, a)] = At(s, h, a + 1)
  BY DEF Ring
<1>4. C \in Nat /\ n + 1 <= C
  BY RingFits
<1>5. /\ g[0] = h
      /\ \A k \in Nat : k # 0 => g[k] = IF g[k - 1] = NULL THEN NULL ELSE f[g[k - 1]]
  BY <1>1, FollowingOfIs
<1>6. NULL \notin Nodes
  BY ListAssumption
<1>7. OrderOf(m, h) = IF f[h] = h THEN <<>> ELSE [k \in 1..size |-> g[k]]
  BY DEF OrderOf
<1> HIDE DEF g, f, C, n
<1>8. \A k \in Nat : k <= n + 1 => g[k] = At(s, h, k)
  <2> DEFINE S == {k \in Nat : k <= n + 1 => g[k] = At(s, h, k)}
  <2>1. 0 \in S
    BY <1>1, <1>5
  <2>2. ASSUME NEW k \in S PROVE k + 1 \in S
    <3>1. SUFFICES ASSUME k + 1 <= n + 1 PROVE g[k + 1] = At(s, h, k + 1)
      OBVIOUS
    <3>2. k \in Nat /\ k + 1 \in Nat /\ k + 1 # 0 /\ (k + 1) - 1 = k /\ k \in 0..n /\ k <= n + 1
      BY <1>1, <3>1
    <3>3. g[k] = At(s, h, k)
      BY <3>2
    <3>4. At(s, h, k) \in Nodes
      <4>1. k = 0 \/ k \in 1..n
        BY <1>1, <3>2
      <4>2. QED BY <1>1, <1>2, <4>1
    <3>5. g[k + 1] = f[g[k]]
      BY <1>5, <1>6, <3>2, <3>3, <3>4
    <3>6. QED BY <1>3, <3>2, <3>3, <3>5
  <2>3. S \in SUBSET Nat
    OBVIOUS
  <2> HIDE DEF S
  <2>4. S = Nat
    BY <2>1, <2>2, <2>3, Inductive
  <2>5. QED BY <2>4 DEF S
<1>9. \A k \in 1..n : g[k] = s[k] /\ g[k] \notin {h, NULL}
  <2>1. \A k \in 1..n : k \in Nat /\ k <= n + 1
    BY <1>1
  <2>2. QED BY <1>2, <1>6, <1>8, <2>1
<1>10. n + 1 \in far /\ \A j \in far : n + 1 <= j
  <2>1. n + 1 \in Nat /\ n + 1 <= n + 1 /\ n + 1 \in 1..C
    BY <1>1, <1>4
  <2>2. g[n + 1] = h
    BY <1>1, <1>8, <2>1
  <2>3. \A j \in 1..C : j \in 1..n \/ n + 1 <= j
    BY <1>1, <1>4
  <2>4. QED BY <1>9, <2>1, <2>2, <2>3
<1>11. size = n
  <2>1. \A j \in far : j \in Nat
    BY <1>4
  <2> HIDE DEF far
  <2>2. \A k \in far : (\A j \in far : k <= j) => k = n + 1
    BY <1>1, <1>10, <2>1
  <2>3. (CHOOSE k \in far : \A j \in far : k <= j) = n + 1
    BY <1>10, <2>2
  <2>4. far # {} /\ (n + 1) - 1 = n
    BY <1>1, <1>10
  <2>5. QED BY <2>3, <2>4
<1> HIDE DEF far, size
<1>12. s = [k \in 1..n |-> s[k]]
  BY <1>1 DEF n
<1>13. CASE n = 0
  <2>1. f[h] = h
    <3>1. 0 \in 0..n /\ 0 + 1 = n + 1
      BY <1>13
    <3>2. QED BY <1>1, <1>3, <3>1
  <2>2. s = <<>>
    BY <1>1, <1>13 DEF n
  <2>3. QED BY <1>7, <2>1, <2>2
<1>14. CASE n # 0
  <2>1. f[h] # h
    <3>1. 0 \in 0..n /\ 1 \in 1..n /\ 0 + 1 = 1
      BY <1>1, <1>14
    <3>2. QED BY <1>1, <1>2, <1>3, <3>1
  <2>2. OrderOf(m, h) = [k \in 1..n |-> g[k]]
    BY <1>7, <1>11, <2>1
  <2>3. QED BY <1>9, <1>12, <2>2
<1>15. QED BY <1>13, <1>14

-----------------------------------------------------------------------------
(* What the calls do to one ring.                                          *)

\* s2 is s with e put in behind the first k.
Inserted(s, k, e, s2) ==
  /\ s2 \in Seq(Entries) /\ Len(s2) = Len(s) + 1
  /\ \A a \in 1..Len(s) + 1 : s2[a] = IF a <= k THEN s[a] ELSE IF a = k + 1 THEN e ELSE s[a - 1]

LEMMA RingInsert ==
  ASSUME NEW f, NEW own, NEW h \in Heads, NEW s, Ring(f, own, h, s),
         NEW k \in 0..Len(s), NEW e \in Entries, own[e] # h, NEW s2, Inserted(s, k, e, s2),
         NEW f2, f2[At(s, h, k)] = e, f2[e] = f[At(s, h, k)],
         \A z \in Nodes \ {At(s, h, k), e} : f2[z] = f[z],
         NEW own2, \A z \in Entries : own2[z] = IF z = e THEN h ELSE own[z]
  PROVE  Ring(f2, own2, h, s2)
<1> DEFINE n == Len(s)
           p == At(s, h, k)
<1>1. s \in Seq(Entries) /\ n \in Nat /\ h \in Nodes /\ h \notin Entries /\ At(s, h, 0) = h /\ At(s, h, n + 1) = h
  BY RingSeq
<1>2. \A a \in 1..n : At(s, h, a) = s[a] /\ s[a] \in Entries /\ s[a] # h /\ own[s[a]] = h
  BY RingEntries
<1>3. \A a \in 0..n + 1 : At(s, h, a) \in Nodes
  BY RingNodes
<1>4. \A a, b \in 0..n : At(s, h, a) = At(s, h, b) => a = b
  BY RingOnce
<1>5. \A x \in Entries : own[x] = h => \E a \in 1..n : s[a] = x
  BY DEF Ring
<1>6. \A a \in 0..n : f[At(s, h, a)] = At(s, h, a + 1)
  BY DEF Ring
<1>7. /\ s2 \in Seq(Entries) /\ Len(s2) = n + 1
      /\ \A a \in 1..n + 1 : s2[a] = IF a <= k THEN s[a] ELSE IF a = k + 1 THEN e ELSE s[a - 1]
  BY DEF Inserted
<1>8. /\ At(s2, h, 0) = h /\ At(s2, h, n + 2) = h
      /\ \A a \in 1..n + 1 : At(s2, h, a) = s2[a]
  <2>1. (n + 1) + 1 = n + 2
    BY <1>1
  <2>2. QED BY <1>7, <2>1, AtIs
<1> HIDE DEF n
<1>9. k \in Nat /\ k <= n /\ k + 1 \in 1..n + 1
  BY <1>1 DEF n
<1>10. \A a \in 0..k : At(s2, h, a) = At(s, h, a)
  <2> TAKE a \in 0..k
  <2>1. CASE a = 0
    BY <1>1, <1>8, <2>1
  <2>2. CASE a # 0
    <3>1. a \in 1..n /\ a \in 1..n + 1 /\ a <= k
      BY <1>1, <1>9, <2>2
    <3>2. QED BY <1>2, <1>7, <1>8, <3>1
  <2>3. QED BY <2>1, <2>2
<1>11. At(s2, h, k + 1) = e
  <2>1. ~ (k + 1 <= k)
    BY <1>9
  <2>2. QED BY <1>7, <1>8, <1>9, <2>1
<1>12. \A a \in k + 1..n + 1 : At(s2, h, a + 1) = At(s, h, a)
  <2> TAKE a \in k + 1..n + 1
  <2>1. CASE a = n + 1
    <3>1. a + 1 = n + 2
      BY <1>1, <2>1
    <3>2. QED BY <1>1, <1>8, <2>1, <3>1
  <2>2. CASE a # n + 1
    <3>1. a \in 1..n /\ a + 1 \in 1..n + 1 /\ ~ (a + 1 <= k) /\ a + 1 # k + 1 /\ (a + 1) - 1 = a
      BY <1>1, <1>9, <2>2
    <3>2. QED BY <1>2, <1>7, <1>8, <3>1
  <2>3. QED BY <2>1, <2>2
<1>13. \A a \in 1..n + 1 : a \in 0..k \/ a = k + 1 \/ a - 1 \in k + 1..n
  BY <1>1, <1>9
<1>14. \A a \in 0..n : At(s, h, a) # e
  BY <1>1, <1>2
<1>15. ASSUME NEW a \in 1..n + 1, NEW b \in 1..n + 1, s2[a] = s2[b] PROVE a = b
  <2> DEFINE Old(c) == \E d \in 1..n : s2[c] = s[d] /\ (d = c \/ d + 1 = c) /\ (d = c <=> c <= k)
  <2>1. \A c \in 1..n + 1 : c = k + 1 \/ Old(c)
    <3> TAKE c \in 1..n + 1
    <3>1. CASE c <= k
      <4>1. c \in 1..n
        BY <1>1, <1>9, <3>1
      <4>2. s2[c] = s[c]
        BY <1>7, <3>1
      <4>3. QED BY <3>1, <4>1, <4>2
    <3>2. CASE ~ (c <= k) /\ c # k + 1
      <4>1. c - 1 \in 1..n /\ (c - 1) + 1 = c /\ c - 1 # c
        BY <1>1, <1>9, <3>2
      <4>2. s2[c] = s[c - 1]
        BY <1>7, <3>2
      <4>3. QED BY <3>2, <4>1, <4>2
    <3>3. QED BY <3>1, <3>2
  <2>2. s2[k + 1] = e
    BY <1>8, <1>9, <1>11
  <2>3. \A d \in 1..n : s[d] # e
    BY <1>2
  <2>4. CASE a = k + 1 \/ b = k + 1
    <3>1. \A c \in 1..n + 1 : c # k + 1 => s2[c] # e
      BY <2>1, <2>3
    <3>2. QED BY <1>15, <2>2, <2>4, <3>1
  <2>5. CASE a # k + 1 /\ b # k + 1
    <3>1. PICK d \in 1..n : s2[a] = s[d] /\ (d = a \/ d + 1 = a) /\ (d = a <=> a <= k)
      BY <2>1, <2>5
    <3>2. PICK c \in 1..n : s2[b] = s[c] /\ (c = b \/ c + 1 = b) /\ (c = b <=> b <= k)
      BY <2>1, <2>5
    <3>3. c = d
      <4>1. c \in 0..n /\ d \in 0..n
        BY <1>1
      <4>2. At(s, h, c) = At(s, h, d)
        <5>1. s[c] = s[d]
          BY <1>15, <3>1, <3>2
        <5>2. QED BY <1>2, <5>1
      <4>3. QED BY <1>4, <4>1, <4>2
    <3>4. (d = a \/ d + 1 = a) /\ (d = a <=> a <= k) /\ (d = b \/ d + 1 = b) /\ (d = b <=> b <= k)
      BY <3>1, <3>2, <3>3
    <3>5. QED BY <1>1, <1>9, <2>5, <3>4
  <2>6. QED BY <2>4, <2>5
<1>16. ASSUME NEW x \in Entries PROVE own2[x] = h <=> \E a \in 1..n + 1 : s2[a] = x
  <2>1. CASE x = e
    BY <1>8, <1>9, <1>11, <2>1
  <2>2. CASE x # e
    <3>1. own2[x] = own[x]
      BY <2>2
    <3>2. ASSUME own[x] = h PROVE \E a \in 1..n + 1 : s2[a] = x
      <4>1. PICK d \in 1..n : s[d] = x
        BY <1>5, <3>2
      <4>2. CASE d <= k
        <5>1. d \in 0..k /\ d \in 1..n + 1
          BY <1>1, <1>9, <4>2
        <5>2. QED BY <1>2, <1>8, <1>10, <4>1, <5>1
      <4>3. CASE ~ (d <= k)
        <5>1. d \in k + 1..n + 1 /\ d + 1 \in 1..n + 1
          BY <1>1, <1>9, <4>3
        <5>2. QED BY <1>2, <1>8, <1>12, <4>1, <5>1
      <4>4. QED BY <4>2, <4>3
    <3>3. ASSUME NEW a \in 1..n + 1, s2[a] = x PROVE own[x] = h
      <4>1. a # k + 1
        BY <1>8, <1>9, <1>11, <2>2, <3>3
      <4>2. CASE a <= k
        <5>1. a \in 1..n
          BY <1>1, <1>9, <4>2
        <5>2. QED BY <1>2, <1>7, <3>3, <4>2, <5>1
      <4>3. CASE ~ (a <= k)
        <5>1. a - 1 \in 1..n
          BY <1>1, <1>9, <4>1, <4>3
        <5>2. QED BY <1>2, <1>7, <3>3, <4>1, <4>3, <5>1
      <4>4. QED BY <4>2, <4>3
    <3>4. QED BY <3>1, <3>2, <3>3
  <2>3. QED BY <2>1, <2>2
<1>17. ASSUME NEW a \in 0..n + 1 PROVE f2[At(s2, h, a)] = At(s2, h, a + 1)
  <2>1. CASE a < k
    <3>1. a \in 0..k /\ a + 1 \in 0..k /\ a \in 0..n /\ a # k /\ k \in 0..n /\ a \in 0..n + 1
      BY <1>1, <1>9, <2>1
    <3>2. At(s, h, a) \in Nodes \ {p, e}
      BY <1>3, <1>4, <1>14, <3>1
    <3>3. QED BY <1>6, <1>10, <3>1, <3>2
  <2>2. CASE a = k
    <3>1. k \in 0..k
      BY <1>9
    <3>2. QED BY <1>10, <1>11, <2>2, <3>1
  <2>3. CASE a = k + 1
    <3>1. k \in 0..n /\ k + 1 \in k + 1..n + 1
      BY <1>1, <1>9
    <3>2. QED BY <1>6, <1>11, <1>12, <2>3, <3>1
  <2>4. CASE a > k + 1
    <3>1. /\ a - 1 \in k + 1..n + 1 /\ (a - 1) + 1 = a /\ a \in k + 1..n + 1 /\ a - 1 \in 0..n
          /\ a - 1 # k /\ k \in 0..n /\ a - 1 \in 0..n + 1
      BY <1>1, <1>9, <2>4
    <3>2. At(s, h, a - 1) \in Nodes \ {p, e}
      BY <1>3, <1>4, <1>14, <3>1
    <3>3. At(s2, h, a) = At(s, h, a - 1) /\ At(s2, h, a + 1) = At(s, h, a)
      BY <1>12, <3>1
    <3>4. f2[At(s, h, a - 1)] = At(s, h, a)
      BY <1>6, <3>1, <3>2
    <3>5. QED BY <3>3, <3>4
  <2>5. QED BY <1>1, <1>9, <2>1, <2>2, <2>3, <2>4
<1>18. QED BY <1>7, <1>15, <1>16, <1>17 DEF Ring

LEMMA RingDelete ==
  ASSUME NEW f, NEW own, NEW h \in Heads, NEW s, Ring(f, own, h, s),
         NEW k \in 1..Len(s),
         NEW f2, f2[At(s, h, k - 1)] = f[s[k]],
         \A z \in Nodes \ {At(s, h, k - 1), s[k]} : f2[z] = f[z],
         NEW own2, own2[s[k]] # h, \A z \in Entries \ {s[k]} : own2[z] = own[z]
  PROVE  Ring(f2, own2, h, RemoveAt(s, k))
<1> DEFINE n == Len(s)
           p == At(s, h, k - 1)
           s2 == RemoveAt(s, k)
<1>1. s \in Seq(Entries) /\ n \in Nat /\ h \in Nodes /\ h \notin Entries /\ At(s, h, 0) = h /\ At(s, h, n + 1) = h
  BY RingSeq
<1>2. \A a \in 1..n : At(s, h, a) = s[a] /\ s[a] \in Entries /\ s[a] # h /\ own[s[a]] = h
  BY RingEntries
<1>3. \A a \in 0..n + 1 : At(s, h, a) \in Nodes
  BY RingNodes
<1>4. \A a, b \in 0..n : At(s, h, a) = At(s, h, b) => a = b
  BY RingOnce
<1>5. \A x \in Entries : own[x] = h => \E a \in 1..n : s[a] = x
  BY DEF Ring
<1>6. \A a \in 0..n : f[At(s, h, a)] = At(s, h, a + 1)
  BY DEF Ring
<1>7. /\ s2 \in Seq(Entries) /\ Len(s2) = n - 1
      /\ \A a \in 1..n - 1 : s2[a] = IF a < k THEN s[a] ELSE s[a + 1]
  BY <1>1, RemoveAtIs
<1>8. /\ At(s2, h, 0) = h /\ At(s2, h, n) = h
      /\ \A a \in 1..n - 1 : At(s2, h, a) = s2[a]
  <2>1. (n - 1) + 1 = n
    BY <1>1
  <2> HIDE DEF s2
  <2>2. QED BY <1>7, <2>1, AtIs
<1> HIDE DEF n, s2
<1>9. k \in Nat /\ 1 <= k /\ k <= n /\ k - 1 \in 0..n /\ k \in 0..n /\ k \in 1..n /\ (k - 1) + 1 = k
  BY <1>1 DEF n
<1>10. \A a \in 0..k - 1 : At(s2, h, a) = At(s, h, a)
  <2> TAKE a \in 0..k - 1
  <2>1. CASE a = 0
    BY <1>1, <1>8, <2>1
  <2>2. CASE a # 0
    <3>1. a \in 1..n /\ a \in 1..n - 1 /\ a < k
      BY <1>1, <1>9, <2>2
    <3>2. QED BY <1>2, <1>7, <1>8, <3>1
  <2>3. QED BY <2>1, <2>2
<1>11. \A a \in k..n : At(s2, h, a) = At(s, h, a + 1)
  <2> TAKE a \in k..n
  <2>1. CASE a = n
    BY <1>1, <1>8, <2>1
  <2>2. CASE a # n
    <3>1. a + 1 \in 1..n /\ a \in 1..n - 1 /\ ~ (a < k)
      BY <1>1, <1>9, <2>2
    <3>2. QED BY <1>2, <1>7, <1>8, <3>1
  <2>3. QED BY <2>1, <2>2
<1>12. \A a \in 0..n : a # k => At(s, h, a) # s[k]
  BY <1>2, <1>4, <1>9
<1>13. ASSUME NEW a \in 1..n - 1
      PROVE  \E d \in 1..n : s2[a] = s[d] /\ d # k /\ (d = a \/ d = a + 1) /\ (d = a <=> a < k)
  <2>1. CASE a < k
    <3>1. a \in 1..n /\ a # k
      BY <1>1, <1>9, <2>1
    <3>2. QED BY <1>7, <2>1, <3>1
  <2>2. CASE ~ (a < k)
    <3>1. a + 1 \in 1..n /\ a + 1 # k /\ a + 1 # a
      BY <1>1, <1>9, <2>2
    <3>2. QED BY <1>7, <2>2, <3>1
  <2>3. QED BY <2>1, <2>2
<1>14. ASSUME NEW a \in 1..n - 1, NEW b \in 1..n - 1, s2[a] = s2[b] PROVE a = b
  <2>1. PICK d \in 1..n : s2[a] = s[d] /\ (d = a \/ d = a + 1) /\ (d = a <=> a < k)
    BY <1>13
  <2>2. PICK c \in 1..n : s2[b] = s[c] /\ (c = b \/ c = b + 1) /\ (c = b <=> b < k)
    BY <1>13
  <2>3. c = d
    <3>1. c \in 0..n /\ d \in 0..n
      BY <1>1
    <3>2. At(s, h, c) = At(s, h, d)
      <4>1. s[c] = s[d]
        BY <1>14, <2>1, <2>2
      <4>2. QED BY <1>2, <4>1
    <3>3. QED BY <1>4, <3>1, <3>2
  <2>4. QED BY <1>1, <1>9, <2>1, <2>2, <2>3
<1>15. ASSUME NEW x \in Entries PROVE own2[x] = h <=> \E a \in 1..n - 1 : s2[a] = x
  <2>1. CASE x = s[k]
    <3>1. \A a \in 1..n - 1 : s2[a] # s[k]
      <4> TAKE a \in 1..n - 1
      <4>1. PICK d \in 1..n : s2[a] = s[d] /\ d # k
        BY <1>13
      <4>2. d \in 0..n
        BY <1>1
      <4>3. QED BY <1>2, <1>12, <4>1, <4>2
    <3>2. QED BY <2>1, <3>1
  <2>2. CASE x # s[k]
    <3>1. own2[x] = own[x]
      BY <2>2
    <3>2. ASSUME own[x] = h PROVE \E a \in 1..n - 1 : s2[a] = x
      <4>1. PICK d \in 1..n : s[d] = x
        BY <1>5, <3>2
      <4>2. CASE d < k
        <5>1. d \in 0..k - 1 /\ d \in 1..n - 1
          BY <1>1, <1>9, <4>2
        <5>2. QED BY <1>2, <1>8, <1>10, <4>1, <5>1
      <4>3. CASE ~ (d < k)
        <5>1. d - 1 \in k..n /\ d - 1 \in 1..n - 1 /\ (d - 1) + 1 = d
          BY <1>1, <1>9, <2>2, <4>1, <4>3
        <5>2. QED BY <1>2, <1>8, <1>11, <4>1, <5>1
      <4>4. QED BY <4>2, <4>3
    <3>3. ASSUME NEW a \in 1..n - 1, s2[a] = x PROVE own[x] = h
      BY <1>2, <1>13, <3>3
    <3>4. QED BY <3>1, <3>2, <3>3
  <2>3. QED BY <2>1, <2>2
<1>16. ASSUME NEW a \in 0..n - 1 PROVE f2[At(s2, h, a)] = At(s2, h, a + 1)
  <2>1. CASE a < k - 1
    <3>1. a \in 0..k - 1 /\ a + 1 \in 0..k - 1 /\ a \in 0..n /\ a # k /\ a # k - 1 /\ a \in 0..n + 1
      BY <1>1, <1>9, <2>1
    <3>2. At(s, h, a) \in Nodes \ {p, s[k]}
      BY <1>3, <1>4, <1>9, <1>12, <3>1
    <3>3. QED BY <1>6, <1>10, <3>1, <3>2
  <2>2. CASE a = k - 1
    <3>1. k - 1 \in 0..k - 1 /\ k \in k..n
      BY <1>9
    <3>2. f2[p] = At(s, h, k + 1)
      BY <1>2, <1>6, <1>9
    <3>3. QED BY <1>9, <1>10, <1>11, <2>2, <3>1, <3>2
  <2>3. CASE a >= k
    <3>1. /\ a \in k..n /\ a + 1 \in k..n /\ a + 1 \in 0..n /\ a + 1 \in 0..n + 1
          /\ a + 1 # k /\ a + 1 # k - 1
      BY <1>1, <1>9, <2>3
    <3>2. At(s, h, a + 1) \in Nodes \ {p, s[k]}
      BY <1>3, <1>4, <1>9, <1>12, <3>1
    <3>3. QED BY <1>6, <1>11, <3>1, <3>2
  <2>4. QED BY <1>1, <1>9, <2>1, <2>2, <2>3
<1>17. QED BY <1>7, <1>14, <1>15, <1>16 DEF Ring, s2

LEMMA RingKept ==
  ASSUME NEW f, NEW own, NEW h \in Heads, NEW s, Ring(f, own, h, s),
         NEW f2, \A z \in Nodes : z = h \/ own[z] = h => f2[z] = f[z],
         NEW own2, \A z \in Entries : own2[z] = h <=> own[z] = h
  PROVE  Ring(f2, own2, h, s)
<1>1. Len(s) \in Nat /\ h \in Nodes /\ At(s, h, 0) = h
  BY RingSeq
<1>2. \A a \in 1..Len(s) : At(s, h, a) = s[a] /\ s[a] \in Nodes /\ own[s[a]] = h
  BY RingEntries
<1>3. \A a \in 0..Len(s) : f2[At(s, h, a)] = f[At(s, h, a)]
  <2> TAKE a \in 0..Len(s)
  <2>1. a = 0 \/ a \in 1..Len(s)
    BY <1>1
  <2>2. QED BY <1>1, <1>2, <2>1
<1>4. QED BY <1>3 DEF Ring

LEMMA RingEmpty ==
  ASSUME NEW f, NEW own, NEW h \in Heads, f[h] = h, \A z \in Entries : own[z] # h
  PROVE  Ring(f, own, h, <<>>)
<1>1. <<>> \in Seq(Entries) /\ Len(<<>>) = 0 /\ 1..0 = {}
  OBVIOUS
<1>2. \A a : At(<<>>, h, a) = h
  BY <1>1 DEF At
<1>3. QED BY <1>1, <1>2 DEF Ring

LEMMA RingSwapped ==
  ASSUME NEW f, NEW own, NEW h \in Heads, NEW s, Ring(f, own, h, s),
         NEW d \in Entries, NEW e \in Entries,
         NEW f2, \A z \in Nodes : z = h \/ own[z] = h => f2[Exchange(d, e, z)] = Exchange(d, e, f[z]),
         NEW own2, \A z \in Entries : own2[Exchange(d, e, z)] = own[z],
         NEW s2 \in Seq(Entries), Len(s2) = Len(s), \A k \in 1..Len(s) : s2[k] = Exchange(d, e, s[k])
  PROVE  Ring(f2, own2, h, s2)
<1> DEFINE n == Len(s)
           X(z) == Exchange(d, e, z)
<1>1. s \in Seq(Entries) /\ n \in Nat /\ h \in Nodes /\ h \notin Entries /\ At(s, h, 0) = h /\ At(s, h, n + 1) = h
  BY RingSeq
<1>2. \A a \in 1..n : At(s, h, a) = s[a] /\ s[a] \in Entries /\ s[a] \in Nodes /\ own[s[a]] = h
  <2>1. \A a \in 1..n : At(s, h, a) = s[a] /\ s[a] \in Entries /\ s[a] \in Nodes
    BY <1>1, AtIs
  <2>2. \A a \in 1..n : own[s[a]] = h
    BY <2>1 DEF Ring
  <2>3. QED BY <2>1, <2>2
<1>3. \A a \in 0..n : f[At(s, h, a)] = At(s, h, a + 1)
  BY DEF Ring
<1>4. /\ \A a, b \in 1..n : s[a] = s[b] => a = b
      /\ \A x \in Entries : own[x] = h <=> \E a \in 1..n : s[a] = x
  BY DEF Ring
<1>5. /\ X(h) = h
      /\ \A x \in Entries : X(x) \in Entries /\ X(X(x)) = x
  BY <1>1 DEF Exchange
<1>6. s2 \in Seq(Entries) /\ Len(s2) = n /\ \A a \in 1..n : s2[a] = X(s[a])
  OBVIOUS
<1> HIDE DEF n
<1>7. \A a, b \in 1..n : s2[a] = s2[b] => a = b
  <2> HIDE DEF X
  <2>1. SUFFICES ASSUME NEW a \in 1..n, NEW b \in 1..n, s2[a] = s2[b] PROVE a = b
    OBVIOUS
  <2>2. X(s[a]) = X(s[b]) /\ s[a] \in Entries /\ s[b] \in Entries
    BY <1>2, <1>6, <2>1
  <2>3. X(X(s[a])) = s[a] /\ X(X(s[b])) = s[b]
    BY <1>5, <2>2
  <2>4. s[a] = s[b]
    BY <2>2, <2>3
  <2>5. QED BY <1>4, <2>4
<1>8. \A x \in Entries : own2[x] = h <=> \E a \in 1..n : s2[a] = x
  <2> TAKE x \in Entries
  <2>0. \A z \in Entries : own2[X(z)] = own[z]
    OBVIOUS
  <2> HIDE DEF X
  <2>1. X(x) \in Entries /\ X(X(x)) = x
    BY <1>5
  <2>2. own2[x] = own[X(x)]
    BY <2>0, <2>1
  <2>3. \A a \in 1..n : s2[a] = x <=> s[a] = X(x)
    <3> TAKE a \in 1..n
    <3>1. s2[a] = X(s[a]) /\ s[a] \in Entries
      BY <1>2, <1>6
    <3>2. X(X(s[a])) = s[a]
      BY <1>5, <3>1
    <3>3. QED BY <2>1, <3>1, <3>2
  <2>4. QED BY <1>4, <2>1, <2>2, <2>3
<1>9. At(s2, h, 0) = h /\ At(s2, h, n + 1) = h /\ \A a \in 1..n : At(s2, h, a) = s2[a]
  BY <1>6, AtIs
<1>10. \A a \in 0..n + 1 : At(s2, h, a) = X(At(s, h, a))
  <2> TAKE a \in 0..n + 1
  <2>1. a = 0 \/ a = n + 1 \/ a \in 1..n
    BY <1>1
  <2> HIDE DEF X
  <2>2. QED BY <1>1, <1>2, <1>5, <1>6, <1>9, <2>1
<1>11. \A a \in 0..n : f2[At(s2, h, a)] = At(s2, h, a + 1)
  <2> TAKE a \in 0..n
  <2>0. \A z \in Nodes : z = h \/ own[z] = h => f2[X(z)] = X(f[z])
    OBVIOUS
  <2>1. a = 0 \/ a \in 1..n
    BY <1>1
  <2>2. a \in 0..n + 1 /\ a + 1 \in 0..n + 1
    BY <1>1
  <2> DEFINE z == At(s, h, a)
  <2>3. z \in Nodes /\ (z = h \/ own[z] = h)
    BY <1>1, <1>2, <2>1
  <2> HIDE DEF X, z
  <2>4. f2[X(z)] = X(f[z])
    BY <2>0, <2>3
  <2>5. QED BY <1>3, <1>10, <2>2, <2>4 DEF z
<1>12. QED BY <1>6, <1>7, <1>8, <1>11 DEF Ring

LEMMA RingJoined ==
  ASSUME NEW f, NEW own, NEW h \in Heads, NEW g \in Heads, g # h, NEW s, NEW t,
         Ring(f, own, h, s), Ring(f, own, g, t), s # <<>>,
         NEW f2, f2[g] = f[h], f2[s[Len(s)]] = f[g],
         \A z \in Nodes \ {g, h, s[Len(s)]} : f2[z] = f[z],
         NEW own2, \A z \in Entries : own2[z] = IF own[z] = h THEN g ELSE own[z]
  PROVE  Ring(f2, own2, g, s \o t)
<1> DEFINE m == Len(s)
           n == Len(t)
           c == s \o t
<1>1. s \in Seq(Entries) /\ m \in Nat /\ h \in Nodes /\ h \notin Entries /\ At(s, h, 0) = h
  BY RingSeq
<1>2. \A a \in 1..m : At(s, h, a) = s[a] /\ s[a] \in Entries /\ s[a] \in Nodes /\ s[a] # h /\ own[s[a]] = h
  <2>1. \A a \in 1..m : At(s, h, a) = s[a] /\ s[a] \in Entries /\ s[a] \in Nodes /\ s[a] # h
    BY <1>1, AtIs
  <2>2. \A a \in 1..m : own[s[a]] = h
    BY <2>1 DEF Ring
  <2>3. QED BY <2>1, <2>2
<1>3. \A x \in Entries : own[x] = h => \E a \in 1..m : s[a] = x
  BY DEF Ring
<1>4. \A a \in 0..m : f[At(s, h, a)] = At(s, h, a + 1)
  BY DEF Ring
<1>5. t \in Seq(Entries) /\ n \in Nat /\ g \in Nodes /\ g \notin Entries /\ At(t, g, 0) = g /\ At(t, g, n + 1) = g
  BY RingSeq
<1>6. \A a \in 1..n : At(t, g, a) = t[a] /\ t[a] \in Entries /\ t[a] \in Nodes /\ t[a] # g /\ own[t[a]] = g
  <2>1. \A a \in 1..n : At(t, g, a) = t[a] /\ t[a] \in Entries /\ t[a] \in Nodes /\ t[a] # g
    BY <1>5, AtIs
  <2>2. \A a \in 1..n : own[t[a]] = g
    BY <2>1 DEF Ring
  <2>3. QED BY <2>1, <2>2
<1>7. \A x \in Entries : own[x] = g => \E a \in 1..n : t[a] = x
  BY DEF Ring
<1>8. \A a \in 0..n : f[At(t, g, a)] = At(t, g, a + 1)
  BY DEF Ring
<1>9. f2[s[m]] = f[g] /\ \A z \in Nodes \ {g, h, s[m]} : f2[z] = f[z]
  OBVIOUS
<1>10. /\ \A a, b \in 1..m : s[a] = s[b] => a = b
       /\ \A a, b \in 1..n : t[a] = t[b] => a = b
  BY DEF Ring
<1>11. c \in Seq(Entries) /\ Len(c) = m + n
  BY <1>1, <1>5, ConcatIs
<1>12. (\A a \in 1..m : c[a] = s[a]) /\ \A a \in 1..n : c[m + a] = t[a]
  BY <1>1, <1>5, ConcatIs
<1>13. \A a \in 1..m + n : a \in 1..m \/ a - m \in 1..n
  BY <1>1, <1>5
<1>14. m # 0
  BY <1>1
<1> HIDE DEF m, n, c
<1>15. /\ At(c, g, 0) = g /\ At(c, g, m + n + 1) = g
      /\ \A a \in 1..m + n : At(c, g, a) = c[a]
  BY <1>11, AtIs
<1>16. \A a \in 1..m : At(c, g, a) = s[a]
  <2> TAKE a \in 1..m
  <2>1. a \in 1..m + n
    BY <1>1, <1>5
  <2>2. QED BY <1>12, <1>15, <2>1
<1>17. \A a \in 1..n + 1 : At(c, g, m + a) = At(t, g, a)
  <2> TAKE a \in 1..n + 1
  <2>1. CASE a = n + 1
    <3>1. m + a = m + n + 1
      BY <1>1, <1>5, <2>1
    <3>2. QED BY <1>5, <1>15, <2>1, <3>1
  <2>2. CASE a # n + 1
    <3>1. a \in 1..n /\ m + a \in 1..m + n
      BY <1>1, <1>5, <2>2
    <3>2. At(c, g, m + a) = t[a]
      BY <1>12, <1>15, <3>1
    <3>3. QED BY <1>6, <3>1, <3>2
  <2>3. QED BY <2>1, <2>2
<1>18. ASSUME NEW a \in 1..m + n, NEW b \in 1..m + n, c[a] = c[b] PROVE a = b
  <2>1. \A k \in 1..m + n : m + (k - m) = k
    BY <1>1, <1>5
  <2>2. \A k \in 1..m + n : k - m \in 1..n => c[k] = t[k - m]
    BY <1>12, <2>1
  <2>3. \A j \in 1..m, k \in 1..n : s[j] # t[k]
    BY <1>2, <1>6
  <2>4. CASE a \in 1..m /\ b \in 1..m
    BY <1>10, <1>12, <1>18, <2>4
  <2>5. CASE a \in 1..m /\ b - m \in 1..n
    BY <1>12, <1>18, <2>2, <2>3, <2>5
  <2>6. CASE a - m \in 1..n /\ b \in 1..m
    BY <1>12, <1>18, <2>2, <2>3, <2>6
  <2>7. CASE a - m \in 1..n /\ b - m \in 1..n
    <3>1. a - m = b - m
      BY <1>10, <1>18, <2>2, <2>7
    <3>2. QED BY <2>1, <3>1
  <2>8. QED BY <1>13, <2>4, <2>5, <2>6, <2>7
<1>19. ASSUME NEW x \in Entries PROVE own2[x] = g <=> \E a \in 1..m + n : c[a] = x
  <2>1. own2[x] = g <=> own[x] \in {g, h}
    OBVIOUS
  <2>2. ASSUME own[x] = h PROVE \E a \in 1..m + n : c[a] = x
    <3>1. PICK a \in 1..m : s[a] = x
      BY <1>3, <2>2
    <3>2. a \in 1..m + n
      BY <1>1, <1>5
    <3>3. QED BY <1>12, <3>1, <3>2
  <2>3. ASSUME own[x] = g PROVE \E a \in 1..m + n : c[a] = x
    <3>1. PICK a \in 1..n : t[a] = x
      BY <1>7, <2>3
    <3>2. m + a \in 1..m + n
      BY <1>1, <1>5
    <3>3. QED BY <1>12, <3>1, <3>2
  <2>4. ASSUME NEW a \in 1..m + n, c[a] = x PROVE own[x] \in {g, h}
    <3>1. CASE a \in 1..m
      BY <1>2, <1>12, <2>4, <3>1
    <3>2. CASE a - m \in 1..n
      <4>1. m + (a - m) = a
        BY <1>1, <1>5
      <4>2. c[a] = t[a - m]
        BY <1>12, <3>2, <4>1
      <4>3. QED BY <1>6, <2>4, <3>2, <4>2
    <3>3. QED BY <1>13, <3>1, <3>2
  <2>5. QED BY <2>1, <2>2, <2>3, <2>4
<1>20. ASSUME NEW a \in 0..m + n PROVE f2[At(c, g, a)] = At(c, g, a + 1)
  <2>1. CASE a = 0
    <3>1. 0 \in 0..m /\ 1 \in 1..m /\ 0 + 1 = 1
      BY <1>1, <1>14
    <3>2. f[h] = s[1]
      BY <1>1, <1>2, <1>4, <3>1
    <3>3. QED BY <1>15, <1>16, <2>1, <3>1, <3>2
  <2>2. CASE a \in 1..m /\ a # m
    <3>1. a + 1 \in 1..m /\ a \in 0..m
      BY <1>1, <2>2
    <3>2. m \in 1..m
      BY <1>1, <1>14
    <3>3. s[a] \in Nodes \ {g, h, s[m]}
      BY <1>2, <1>5, <1>10, <2>2, <3>2
    <3>4. f[s[a]] = s[a + 1]
      BY <1>2, <1>4, <2>2, <3>1
    <3>5. QED BY <1>9, <1>16, <2>2, <3>1, <3>3, <3>4
  <2>3. CASE a = m
    <3>1. m \in 1..m /\ 0 \in 0..n /\ 0 + 1 = 1 /\ 1 \in 1..n + 1
      BY <1>1, <1>5, <1>14
    <3>2. f[g] = At(t, g, 1)
      BY <1>5, <1>8, <3>1
    <3>3. QED BY <1>9, <1>16, <1>17, <2>3, <3>1, <3>2
  <2>4. CASE a > m
    <3> DEFINE b == a - m
    <3>1. /\ b \in 1..n /\ b \in 0..n /\ b \in 1..n + 1 /\ b + 1 \in 1..n + 1
          /\ m + b = a /\ m + (b + 1) = a + 1 /\ m \in 1..m
      BY <1>1, <1>5, <1>14, <2>4
    <3> HIDE DEF b
    <3>2. At(c, g, a) = t[b] /\ At(c, g, a + 1) = At(t, g, b + 1)
      <4>1. At(c, g, m + b) = At(t, g, b) /\ At(c, g, m + (b + 1)) = At(t, g, b + 1)
        BY <1>17, <3>1
      <4>2. QED BY <1>6, <3>1, <4>1
    <3>3. t[b] \in Nodes \ {g, h, s[m]}
      BY <1>2, <1>6, <1>1, <3>1
    <3>4. f[t[b]] = At(t, g, b + 1)
      BY <1>6, <1>8, <3>1
    <3>5. QED BY <1>9, <3>2, <3>3, <3>4
  <2>5. QED BY <1>1, <1>5, <2>1, <2>2, <2>3, <2>4
<1>21. QED BY <1>11, <1>18, <1>19, <1>20 DEF Ring, m, n, c

LEMMA RingPrev ==
  ASSUME NEW m, NEW own, Rings(m, own), NEW h \in Heads, own[h] = h, NEW s, Ring(m.next, own, h, s)
  PROVE  \A a \in 0..Len(s) : m.prev[At(s, h, a + 1)] = At(s, h, a)
<1>1. Len(s) \in Nat /\ h \in Nodes /\ h # NULL /\ At(s, h, 0) = h
  BY RingSeq
<1>2. \A a \in 1..Len(s) : At(s, h, a) = s[a] /\ s[a] \in Nodes /\ own[s[a]] = h
  BY RingEntries
<1>3. \A a \in 0..Len(s) : m.next[At(s, h, a)] = At(s, h, a + 1)
  BY DEF Ring
<1>4. \A x \in Nodes : own[x] # NULL => m.prev[m.next[x]] = x
  BY DEF Rings, Wired
<1>5. \A a \in 0..Len(s) : At(s, h, a) \in Nodes /\ own[At(s, h, a)] = h
  <2> TAKE a \in 0..Len(s)
  <2>1. a = 0 \/ a \in 1..Len(s)
    BY <1>1
  <2>2. QED BY <1>1, <1>2, <2>1
<1>6. QED BY <1>1, <1>3, <1>4, <1>5

-----------------------------------------------------------------------------
(* Sequences of entries: where one stands, is taken out and put in.        *)

\* The operators the abstract lists take from the library are the library's.
LEMMA ListsMin == \A S : Lists!Min(S) = Min(S)
BY DEF Lists!Min, Min

LEMMA ListsToSet == \A s : Lists!ToSet(s) = ToSet(s)
BY DEF Lists!ToSet, ToSet

LEMMA ListsRemoveAt == \A s, k : Lists!RemoveAt(s, k) = RemoveAt(s, k)
BY DEF Lists!RemoveAt, RemoveAt

LEMMA ListsRemoveFirst ==
  ASSUME NEW s, NEW x
  PROVE  Lists!RemoveFirst(s, x) =
           IF \E a \in 1..Len(s) : s[a] = x THEN Lists!RemoveAt(s, Lists!Place(s, x)) ELSE s
BY DEF Lists!RemoveFirst, Lists!Place, Lists!SelectInSeq

LEMMA ListsPlace ==
  ASSUME NEW s, NEW x
  PROVE  Lists!Place(s, x) = LET S == {a \in 1..Len(s) : s[a] = x}
                             IN  IF S # {} THEN Lists!Min(S) ELSE 0
BY DEF Lists!Place, Lists!SelectInSeq

LEMMA ListsInsertAt ==
  ASSUME NEW s, NEW k, NEW x
  PROVE  Lists!InsertAt(s, k, x) = SubSeq(s, 1, k - 1) \o <<x>> \o SubSeq(s, k, Len(s))
BY DEF Lists!InsertAt

\* Place and RemoveFirst find the entry where it is.
LEMMA PlaceIs ==
  ASSUME NEW A, NEW s \in Seq(A), \A a, b \in 1..Len(s) : s[a] = s[b] => a = b,
         NEW k \in 1..Len(s), NEW x, s[k] = x
  PROVE  Lists!Place(s, x) = k /\ Lists!RemoveFirst(s, x) = RemoveAt(s, k)
<1> DEFINE S == {a \in 1..Len(s) : s[a] = x}
<1>1. S = {k}
  OBVIOUS
<1>2. Len(s) \in Nat /\ S \in SUBSET Nat /\ S # {}
  BY <1>1
<1>3. Min(S) = k
  <2> HIDE DEF S
  <2>1. Min(S) \in S
    BY <1>2, MinIs
  <2>2. QED BY <1>1, <2>1
<1>4. Lists!Place(s, x) = IF S # {} THEN Min(S) ELSE 0
  BY ListsPlace, ListsMin
<1>5. (\E a \in 1..Len(s) : s[a] = x) /\ Lists!Place(s, x) = k
  <2> HIDE DEF S
  <2>1. Lists!Place(s, x) = k
    BY <1>2, <1>3, <1>4
  <2>2. QED BY <2>1
<1>6. QED BY <1>5, ListsRemoveFirst, ListsRemoveAt

LEMMA NotThere ==
  ASSUME NEW s, NEW x, \A a \in 1..Len(s) : s[a] # x
  PROVE  Lists!RemoveFirst(s, x) = s
BY ListsRemoveFirst

LEMMA InsertFirst ==
  ASSUME NEW s \in Seq(Entries), NEW e \in Entries
  PROVE  Inserted(s, 0, e, <<e>> \o s)
<1> DEFINE n == Len(s)
           c == <<e>> \o s
<1>1. n \in Nat /\ <<e>> \in Seq(Entries) /\ Len(<<e>>) = 1 /\ <<e>>[1] = e
  OBVIOUS
<1>2. c \in Seq(Entries) /\ Len(c) = 1 + n /\ c[1] = e /\ \A a \in 1..n : c[1 + a] = s[a]
  <2>1. 1 \in 1..1
    OBVIOUS
  <2>2. QED BY <1>1, <2>1, ConcatIs
<1> HIDE DEF c, n
<1>3. ASSUME NEW a \in 1..n + 1
      PROVE  c[a] = IF a <= 0 THEN s[a] ELSE IF a = 0 + 1 THEN e ELSE s[a - 1]
  <2>1. CASE a = 1
    BY <1>2, <2>1
  <2>2. CASE a # 1
    <3>1. a - 1 \in 1..n /\ 1 + (a - 1) = a /\ ~ (a <= 0) /\ a # 0 + 1
      BY <1>1, <2>2
    <3>2. c[a] = s[a - 1]
      BY <1>2, <3>1
    <3>3. QED BY <3>1, <3>2
  <2>3. QED BY <2>1, <2>2
<1>4. 1 + n = n + 1
  BY <1>1
<1>5. QED BY <1>2, <1>3, <1>4 DEF Inserted, c, n

LEMMA InsertLast ==
  ASSUME NEW s \in Seq(Entries), NEW e \in Entries
  PROVE  Inserted(s, Len(s), e, Append(s, e))
<1> DEFINE n == Len(s)
           c == Append(s, e)
<1>1. /\ n \in Nat /\ c \in Seq(Entries) /\ Len(c) = n + 1 /\ c[n + 1] = e
      /\ \A a \in 1..n : c[a] = s[a]
  OBVIOUS
<1> HIDE DEF c, n
<1>2. ASSUME NEW a \in 1..n + 1
      PROVE  c[a] = IF a <= n THEN s[a] ELSE IF a = n + 1 THEN e ELSE s[a - 1]
  <2>1. (a \in 1..n /\ a <= n) \/ (a = n + 1 /\ ~ (a <= n))
    BY <1>1
  <2>2. QED BY <1>1, <2>1
<1>3. QED BY <1>1, <1>2 DEF Inserted, c, n

LEMMA InsertAtIs ==
  ASSUME NEW s \in Seq(Entries), NEW k \in 0..Len(s), NEW e \in Entries
  PROVE  Inserted(s, k, e, Lists!InsertAt(s, k + 1, e))
<1> DEFINE n == Len(s)
           u == SubSeq(s, 1, k)
           v == SubSeq(s, k + 1, n)
           c == (u \o <<e>>) \o v
<1>1. n \in Nat /\ k \in Nat /\ k <= n /\ (k + 1) - 1 = k
  OBVIOUS
<1>2. Lists!InsertAt(s, k + 1, e) = c
  BY <1>1, ListsInsertAt
<1>3. u \in Seq(Entries) /\ Len(u) = k /\ \A a \in 1..k : u[a] = s[a]
  <2>1. 1 \in 1..n + 1 /\ k \in 0..n
    BY <1>1
  <2>2. QED BY <1>1
<1>4. v \in Seq(Entries) /\ Len(v) = n - k /\ \A a \in 1..n - k : v[a] = s[k + a]
  BY <1>1
<1>5. <<e>> \in Seq(Entries) /\ Len(<<e>>) = 1 /\ <<e>>[1] = e /\ 1 \in 1..1
  OBVIOUS
<1> DEFINE w == u \o <<e>>
<1> HIDE DEF u, v, n
<1>6. w \in Seq(Entries) /\ Len(w) = k + 1 /\ w[k + 1] = e /\ \A a \in 1..k : w[a] = s[a]
  BY <1>3, <1>5, ConcatIs
<1> HIDE DEF w
<1>7. c = w \o v
  BY DEF w
<1> HIDE DEF c
<1>8. /\ c \in Seq(Entries) /\ Len(c) = (k + 1) + (n - k)
      /\ \A a \in 1..k + 1 : c[a] = w[a]
      /\ \A a \in 1..n - k : c[(k + 1) + a] = v[a]
  <2>1. c \in Seq(Entries) /\ Len(c) = Len(w) + Len(v)
    BY <1>4, <1>6, <1>7, ConcatIs
  <2>2. \A a \in 1..Len(w) : c[a] = w[a]
    BY <1>4, <1>6, <1>7, ConcatIs
  <2>3. \A a \in 1..Len(v) : c[Len(w) + a] = v[a]
    BY <1>4, <1>6, <1>7, ConcatIs
  <2>4. QED BY <1>4, <1>6, <2>1, <2>2, <2>3
<1>9. (k + 1) + (n - k) = n + 1
  BY <1>1
<1>10. ASSUME NEW a \in 1..n + 1
      PROVE  c[a] = IF a <= k THEN s[a] ELSE IF a = k + 1 THEN e ELSE s[a - 1]
  <2>1. CASE a <= k
    <3>1. a \in 1..k + 1 /\ a \in 1..k
      BY <1>1, <2>1
    <3>2. c[a] = s[a]
      BY <1>6, <1>8, <3>1
    <3>3. QED BY <2>1, <3>2
  <2>2. CASE a = k + 1
    <3>1. k + 1 \in 1..k + 1 /\ ~ (k + 1 <= k)
      BY <1>1
    <3>2. c[a] = e
      BY <1>6, <1>8, <2>2, <3>1
    <3>3. QED BY <2>2, <3>1, <3>2
  <2>3. CASE a > k + 1
    <3> DEFINE b == a - (k + 1)
    <3>1. b \in 1..n - k /\ (k + 1) + b = a /\ k + b = a - 1 /\ ~ (a <= k) /\ a # k + 1
      BY <1>1, <2>3
    <3> HIDE DEF b
    <3>2. c[a] = s[a - 1]
      BY <1>4, <1>8, <3>1
    <3>3. QED BY <3>1, <3>2
  <2>4. QED BY <1>1, <2>1, <2>2, <2>3
<1>11. QED BY <1>2, <1>8, <1>9, <1>10 DEF Inserted, n

-----------------------------------------------------------------------------
(* The sequences L stand for the rings: NULL for a head without one.       *)

Stands(f, own, L) ==
  /\ L = [h \in Heads |-> L[h]]
  /\ \A h \in Heads : IF own[h] = h THEN Ring(f, own, h, L[h]) ELSE L[h] = NULL

LEMMA OwnerOwns ==
  ASSUME NEW m, NEW own, Rings(m, own), NEW x \in Nodes, own[x] # NULL
  PROVE  own[x] \in Heads /\ own[own[x]] = own[x]
<1> DEFINE S == {z \in Nodes : own[z] = own[x]}
<1>1. S # {} /\ S \in SUBSET Nodes /\ \A z \in S : own[z] # NULL /\ m.next[z] \in S
  BY DEF Rings, Wired
<1>2. S \cap Heads # {}
  <2> HIDE DEF S
  <2>1. Headed(m, own)
    BY DEF Rings
  <2>2. QED BY <1>1, <2>1 DEF Headed
<1>3. PICK h \in Heads : own[h] = own[x]
  BY <1>2
<1>4. own[h] \in {h, NULL}
  BY DEF Rings, HeadsOwn
<1>5. QED BY <1>3, <1>4

LEMMA StandsAt ==
  ASSUME NEW f, NEW own, NEW L, Stands(f, own, L), NEW h \in Heads
  PROVE  /\ own[h] = h => Ring(f, own, h, L[h]) /\ L[h] \in Seq(Entries) /\ L[h] # NULL
         /\ own[h] # h => L[h] = NULL
<1>1. CASE own[h] = h
  <2>1. Ring(f, own, h, L[h])
    BY <1>1 DEF Stands
  <2>2. L[h] \in Seq(Entries)
    BY <2>1 DEF Ring
  <2>3. L[h] # NULL
    BY <2>2, ListAssumption
  <2>4. QED BY <1>1, <2>1, <2>2, <2>3
<1>2. CASE own[h] # h
  BY <1>2 DEF Stands
<1>3. QED BY <1>1, <1>2

\* An entry is within the sequence of its owner, and in no other one.
LEMMA WithinIs ==
  ASSUME NEW f, NEW own, NEW L, Stands(f, own, L), NEW h \in Heads, NEW x \in Entries
  PROVE  Lists!Within(L[h], x) <=> own[h] = h /\ own[x] = h
<1>1. CASE own[h] = h
  <2>1. Ring(f, own, h, L[h]) /\ L[h] \in Seq(Entries) /\ L[h] # NULL
    BY <1>1, StandsAt
  <2>2. own[x] = h <=> \E a \in 1..Len(L[h]) : L[h][a] = x
    BY <2>1 DEF Ring
  <2>3. ToSet(L[h]) = {L[h][a] : a \in 1..Len(L[h])}
    BY <2>1, ToSetOf
  <2>4. x \in ToSet(L[h]) <=> \E a \in 1..Len(L[h]) : L[h][a] = x
    BY <2>3
  <2>5. Lists!Within(L[h], x) <=> L[h] # NULL /\ x \in ToSet(L[h])
    BY ListsToSet DEF Lists!Within
  <2>6. QED BY <1>1, <2>1, <2>2, <2>4, <2>5
<1>2. CASE own[h] # h
  BY <1>2, StandsAt DEF Lists!Within
<1>3. QED BY <1>1, <1>2

LEMMA HeldIs ==
  ASSUME NEW m, NEW own, Rings(m, own), NEW L, Stands(m.next, own, L), NEW x \in Entries
  PROVE  (\E h \in Heads : Lists!Within(L[h], x)) <=> own[x] # NULL
<1>1. ASSUME own[x] # NULL PROVE \E h \in Heads : Lists!Within(L[h], x)
  <2>1. own[x] \in Heads /\ own[own[x]] = own[x]
    BY <1>1, OwnerOwns DEF Nodes
  <2>2. Lists!Within(L[own[x]], x)
    BY <2>1, WithinIs
  <2>3. QED BY <2>1, <2>2
<1>2. ASSUME NEW h \in Heads, Lists!Within(L[h], x) PROVE own[x] # NULL
  <2>1. own[x] = h
    BY <1>2, WithinIs
  <2>2. QED BY <2>1, ListAssumption DEF Nodes
<1>3. QED BY <1>1, <1>2

\* What After and Before make of the sequence of x's owner, g: e is put in.
PutBehind(L, g, x, e, L2) ==
  /\ \E k \in 0..Len(L[g]) : At(L[g], g, k) = x /\ Inserted(L[g], k, e, L2[g])
  /\ \A h \in Heads \ {g} : L2[h] = L[h]
  /\ L2 = [h \in Heads |-> L2[h]]

PutBefore(L, g, x, e, L2) ==
  /\ \E k \in 0..Len(L[g]) : At(L[g], g, k + 1) = x /\ Inserted(L[g], k, e, L2[g])
  /\ \A h \in Heads \ {g} : L2[h] = L[h]
  /\ L2 = [h \in Heads |-> L2[h]]

LEMMA AfterIs ==
  ASSUME NEW f, NEW own, HeadsOwn(own), NEW L, Stands(f, own, L), NEW e \in Entries,
         NEW x \in Nodes, NEW g \in Heads, own[x] = g, own[g] = g
  PROVE  PutBehind(L, g, x, e, Lists!After(L, e, x))
<1> DEFINE s == L[g]
           Of(h) == IF h = x THEN <<e>> \o L[h]
                    ELSE IF Lists!Within(L[h], x) THEN Lists!InsertAt(L[h], Lists!Place(L[h], x) + 1, e)
                    ELSE L[h]
<1>1. Lists!After(L, e, x) = [h \in Heads |-> Of(h)]
  BY DEF Lists!After
<1>2. Ring(f, own, g, s) /\ s \in Seq(Entries)
  BY StandsAt
<1>3. Len(s) \in Nat /\ g \notin Entries /\ At(s, g, 0) = g
  BY <1>2, RingSeq
<1>4. x = g \/ (x \in Entries /\ x \notin Heads)
  BY ListAssumption DEF HeadsOwn, Nodes
<1>5. ASSUME NEW h \in Heads \ {g} PROVE Of(h) = L[h]
  <2>1. h # x
    BY <1>4
  <2>2. ~ Lists!Within(L[h], x)
    <3>1. CASE x = g
      <4>1. CASE own[h] = h
        <5>1. ToSet(L[h]) \subseteq Entries
          BY <4>1, StandsAt, ToSetOf
        <5>2. QED BY <1>3, <3>1, <5>1, ListsToSet DEF Lists!Within
      <4>2. CASE own[h] # h
        BY <4>2, StandsAt DEF Lists!Within
      <4>3. QED BY <4>1, <4>2
    <3>2. CASE x \in Entries
      BY <3>2, WithinIs
    <3>3. QED BY <1>4, <3>1, <3>2
  <2>3. QED BY <2>1, <2>2
<1>6. \E k \in 0..Len(s) : At(s, g, k) = x /\ Inserted(s, k, e, Of(g))
  <2>1. CASE x = g
    <3>1. Of(g) = <<e>> \o s
      BY <2>1
    <3>2. 0 \in 0..Len(s)
      BY <1>3
    <3>3. Inserted(s, 0, e, <<e>> \o s)
      BY <1>2, InsertFirst
    <3> HIDE DEF s, Of
    <3>4. QED BY <1>3, <2>1, <3>1, <3>2, <3>3
  <2>2. CASE x \in Entries /\ x # g
    <3>1. Lists!Within(L[g], x)
      BY <2>2, WithinIs
    <3>2. PICK k \in 1..Len(s) : s[k] = x
      BY <1>2, <2>2 DEF Ring
    <3>3. \A a, b \in 1..Len(s) : s[a] = s[b] => a = b
      BY <1>2 DEF Ring
    <3>4. Lists!Place(s, x) = k
      <4> HIDE DEF s
      <4>1. QED BY <1>2, <3>2, <3>3, PlaceIs
    <3>5. Of(g) = Lists!InsertAt(s, k + 1, e)
      BY <2>2, <3>1, <3>4
    <3>6. k \in 0..Len(s)
      BY <1>3
    <3>7. Inserted(s, k, e, Lists!InsertAt(s, k + 1, e))
      BY <1>2, <3>6, InsertAtIs
    <3>8. At(s, g, k) = x
      BY <3>2 DEF At
    <3> HIDE DEF s, Of
    <3>9. QED BY <3>5, <3>6, <3>7, <3>8
  <2>3. QED BY <1>4, <2>1, <2>2
<1> HIDE DEF Of
<1>7. \A h \in Heads : Lists!After(L, e, x)[h] = Of(h)
  BY <1>1
<1>8. Lists!After(L, e, x) = [h \in Heads |-> Lists!After(L, e, x)[h]]
  BY <1>1
<1>9. QED BY <1>5, <1>6, <1>7, <1>8 DEF PutBehind

LEMMA BeforeIs ==
  ASSUME NEW f, NEW own, HeadsOwn(own), NEW L, Stands(f, own, L), NEW e \in Entries,
         NEW x \in Nodes, NEW g \in Heads, own[x] = g, own[g] = g
  PROVE  PutBefore(L, g, x, e, Lists!Before(L, e, x))
<1> DEFINE s == L[g]
           Of(h) == IF h = x THEN Append(L[h], e)
                    ELSE IF Lists!Within(L[h], x) THEN Lists!InsertAt(L[h], Lists!Place(L[h], x), e)
                    ELSE L[h]
<1>1. Lists!Before(L, e, x) = [h \in Heads |-> Of(h)]
  BY DEF Lists!Before
<1>2. Ring(f, own, g, s) /\ s \in Seq(Entries)
  BY StandsAt
<1>3. Len(s) \in Nat /\ g \notin Entries /\ At(s, g, Len(s) + 1) = g
  BY <1>2, RingSeq
<1>4. x = g \/ (x \in Entries /\ x \notin Heads)
  BY ListAssumption DEF HeadsOwn, Nodes
<1>5. ASSUME NEW h \in Heads \ {g} PROVE Of(h) = L[h]
  <2>1. h # x
    BY <1>4
  <2>2. ~ Lists!Within(L[h], x)
    <3>1. CASE x = g
      <4>1. CASE own[h] = h
        <5>1. ToSet(L[h]) \subseteq Entries
          BY <4>1, StandsAt, ToSetOf
        <5>2. QED BY <1>3, <3>1, <5>1, ListsToSet DEF Lists!Within
      <4>2. CASE own[h] # h
        BY <4>2, StandsAt DEF Lists!Within
      <4>3. QED BY <4>1, <4>2
    <3>2. CASE x \in Entries
      BY <3>2, WithinIs
    <3>3. QED BY <1>4, <3>1, <3>2
  <2>3. QED BY <2>1, <2>2
<1>6. \E k \in 0..Len(s) : At(s, g, k + 1) = x /\ Inserted(s, k, e, Of(g))
  <2>1. CASE x = g
    <3>1. Of(g) = Append(s, e)
      BY <2>1
    <3>2. Len(s) \in 0..Len(s)
      BY <1>3
    <3>3. Inserted(s, Len(s), e, Append(s, e))
      BY <1>2, InsertLast
    <3> HIDE DEF s, Of
    <3>4. QED BY <1>3, <2>1, <3>1, <3>2, <3>3
  <2>2. CASE x \in Entries /\ x # g
    <3>1. Lists!Within(L[g], x)
      BY <2>2, WithinIs
    <3>2. PICK k \in 1..Len(s) : s[k] = x
      BY <1>2, <2>2 DEF Ring
    <3>3. \A a, b \in 1..Len(s) : s[a] = s[b] => a = b
      BY <1>2 DEF Ring
    <3>4. Lists!Place(s, x) = k
      <4> HIDE DEF s
      <4>1. QED BY <1>2, <3>2, <3>3, PlaceIs
    <3>5. Of(g) = Lists!InsertAt(s, k, e)
      BY <2>2, <3>1, <3>4
    <3>6. k - 1 \in 0..Len(s) /\ (k - 1) + 1 = k
      BY <1>3
    <3>7. Inserted(s, k - 1, e, Lists!InsertAt(s, (k - 1) + 1, e))
      BY <1>2, <3>6, InsertAtIs
    <3>8. At(s, g, k) = x
      BY <3>2 DEF At
    <3> HIDE DEF s, Of
    <3>9. QED BY <3>5, <3>6, <3>7, <3>8
  <2>3. QED BY <1>4, <2>1, <2>2
<1> HIDE DEF Of
<1>7. \A h \in Heads : Lists!Before(L, e, x)[h] = Of(h)
  BY <1>1
<1>8. Lists!Before(L, e, x) = [h \in Heads |-> Lists!Before(L, e, x)[h]]
  BY <1>1
<1>9. QED BY <1>5, <1>6, <1>7, <1>8 DEF PutBefore

-----------------------------------------------------------------------------
(* What __list_add and __list_del do to all sequences.                     *)

\* e is put in behind the first k of the sequence of g.
LEMMA AddStands ==
  ASSUME NEW f, NEW own, HeadsOwn(own), NEW L, Stands(f, own, L), NEW g \in Heads, own[g] = g,
         NEW e \in Entries, own[e] = NULL, NEW k \in 0..Len(L[g]),
         NEW L2, L2 = [h \in Heads |-> L2[h]], \A h \in Heads \ {g} : L2[h] = L[h],
         Inserted(L[g], k, e, L2[g]),
         NEW f2, f2[At(L[g], g, k)] = e, f2[e] = f[At(L[g], g, k)],
         \A z \in Nodes \ {At(L[g], g, k), e} : f2[z] = f[z],
         NEW own2, \A z \in Nodes : own2[z] = IF z = e THEN g ELSE own[z]
  PROVE  Stands(f2, own2, L2)
<1>1. Ring(f, own, g, L[g])
  BY StandsAt
<1>2. g \in Nodes /\ g \notin Entries /\ g # NULL /\ Len(L[g]) \in Nat
  BY <1>1, RingSeq
<1>3. At(L[g], g, k) = g \/ own[At(L[g], g, k)] = g
  <2>1. k \in 1..Len(L[g]) => own[L[g][k]] = g
    BY <1>1, RingEntries
  <2>2. QED BY <2>1 DEF At
<1>4. \A z \in Entries : z \in Nodes
  BY DEF Nodes
<1>5. Ring(f2, own2, g, L2[g])
  <2>1. \A z \in Entries : own2[z] = IF z = e THEN g ELSE own[z]
    BY <1>4
  <2>2. own[e] # g
    BY <1>2
  <2>3. QED BY <1>1, <2>1, <2>2, RingInsert
<1>6. ASSUME NEW h \in Heads \ {g}
      PROVE  IF own2[h] = h THEN Ring(f2, own2, h, L2[h]) ELSE L2[h] = NULL
  <2>1. own2[h] = own[h] /\ L2[h] = L[h] /\ h # NULL
    BY ListAssumption DEF Nodes
  <2>2. CASE own[h] = h
    <3>1. Ring(f, own, h, L[h])
      BY <2>2, StandsAt
    <3>2. \A z \in Nodes : z = h \/ own[z] = h => f2[z] = f[z]
      <4> SUFFICES ASSUME NEW z \in Nodes, z = h \/ own[z] = h PROVE f2[z] = f[z]
        OBVIOUS
      <4>1. z # e
        BY <2>1, ListAssumption DEF Nodes
      <4>2. z # At(L[g], g, k)
        BY <1>3, <2>2
      <4>3. QED BY <4>1, <4>2
    <3>3. \A z \in Entries : own2[z] = h <=> own[z] = h
      BY <1>4, <2>1
    <3>4. Ring(f2, own2, h, L[h])
      BY <3>1, <3>2, <3>3, RingKept
    <3>5. QED BY <2>1, <2>2, <3>4
  <2>3. CASE own[h] # h
    BY <2>1, <2>3, StandsAt
  <2>4. QED BY <2>2, <2>3
<1>7. own2[g] = g
  BY <1>2
<1>8. QED BY <1>5, <1>6, <1>7 DEF Stands

LEMMA WithoutIs ==
  ASSUME NEW f, NEW own, NEW L, Stands(f, own, L), NEW e \in Entries, NEW h \in Heads, own[h] = h
  PROVE  /\ own[e] # h => Lists!RemoveFirst(L[h], e) = L[h]
         /\ \A k \in 1..Len(L[h]) : L[h][k] = e => Lists!RemoveFirst(L[h], e) = RemoveAt(L[h], k)
<1>1. Ring(f, own, h, L[h]) /\ L[h] \in Seq(Entries)
  BY StandsAt
<1>2. /\ \A a, b \in 1..Len(L[h]) : L[h][a] = L[h][b] => a = b
      /\ own[e] = h <=> \E a \in 1..Len(L[h]) : L[h][a] = e
  BY <1>1 DEF Ring
<1>3. own[e] # h => Lists!RemoveFirst(L[h], e) = L[h]
  BY <1>2, NotThere
<1>4. ASSUME NEW k \in 1..Len(L[h]), L[h][k] = e PROVE Lists!RemoveFirst(L[h], e) = RemoveAt(L[h], k)
  BY <1>1, <1>2, <1>4, PlaceIs
<1>5. QED BY <1>3, <1>4

\* e is taken out, whatever becomes of its own pointers.
LEMMA DelStands ==
  ASSUME NEW m, NEW own, Rings(m, own), NEW L, Stands(m.next, own, L),
         NEW e \in Entries, own[e] # NULL,
         NEW f2, \A z \in Nodes \ {e} : f2[z] = ListDel(m, e).next[z],
         NEW L2, L2 = [h \in Heads |-> IF L[h] = NULL THEN NULL ELSE Lists!RemoveFirst(L[h], e)]
  PROVE  Stands(f2, [own EXCEPT ![e] = NULL], L2)
<1> DEFINE f == m.next
           g == own[e]
           own2 == [own EXCEPT ![e] = NULL]
<1>1. e \in Nodes /\ \A z \in Entries : z \in Nodes
  BY DEF Nodes
<1>2. g \in Heads /\ own[g] = g /\ g # NULL
  BY <1>1, OwnerOwns
<1>3. m \in Mem /\ own \in Owners /\ m.prev[e] \in Nodes /\ m.next[e] \in Nodes
  BY <1>1 DEF Rings, Wired
<1>4. \A z \in Nodes : own2[z] = IF z = e THEN NULL ELSE own[z]
  BY <1>3 DEF Owners
<1>5. \A z \in Nodes \ {e} : f2[z] = IF z = m.prev[e] THEN f[e] ELSE f[z]
  BY <1>1, <1>3, ListDelMem
<1>6. Ring(f, own, g, L[g]) /\ L[g] \in Seq(Entries)
  BY <1>2, StandsAt
<1>7. PICK k \in 1..Len(L[g]) : L[g][k] = e
  BY <1>6 DEF Ring
<1>8. /\ Len(L[g]) \in Nat /\ g \in Nodes /\ g \notin Entries
      /\ \A a \in 0..Len(L[g]) : m.prev[At(L[g], g, a + 1)] = At(L[g], g, a)
  BY <1>2, <1>6, RingSeq, RingPrev
<1> HIDE DEF f, g, own2
<1>9. k - 1 \in 0..Len(L[g]) /\ (k - 1) + 1 = k /\ k \in 0..Len(L[g]) /\ k # k - 1
  BY <1>8
<1>10. At(L[g], g, k) = e
  BY <1>7 DEF At
<1>11. m.prev[e] = At(L[g], g, k - 1)
  BY <1>8, <1>9, <1>10
<1>12. m.prev[e] # e
  <2>1. \A a, b \in 0..Len(L[g]) : At(L[g], g, a) = At(L[g], g, b) => a = b
    BY <1>2, <1>6, RingOnce
  <2>2. QED BY <1>9, <1>10, <1>11, <2>1
<1>13. m.prev[e] = g \/ own[m.prev[e]] = g
  <2>1. \A a \in 1..Len(L[g]) : L[g][a] \in Entries /\ own[L[g][a]] = g
    BY <1>6 DEF Ring
  <2>2. QED BY <1>11, <2>1 DEF At
<1>14. Ring(f2, own2, g, L2[g])
  <2>1. L2[g] = RemoveAt(L[g], k)
    BY <1>2, <1>6, <1>7, StandsAt, WithoutIs
  <2>2. f2[At(L[g], g, k - 1)] = f[L[g][k]]
    BY <1>3, <1>5, <1>7, <1>11, <1>12
  <2>3. \A z \in Nodes \ {At(L[g], g, k - 1), L[g][k]} : f2[z] = f[z]
    BY <1>5, <1>7, <1>11
  <2>4. own2[L[g][k]] # g
    BY <1>1, <1>2, <1>4, <1>7
  <2>5. \A z \in Entries \ {L[g][k]} : own2[z] = own[z]
    BY <1>1, <1>4, <1>7
  <2> DEFINE s == L[g]
  <2>6. Ring(f, own, g, s) /\ k \in 1..Len(s) /\ L2[g] = RemoveAt(s, k)
    BY <1>6, <2>1
  <2>7. f2[At(s, g, k - 1)] = f[s[k]] /\ \A z \in Nodes \ {At(s, g, k - 1), s[k]} : f2[z] = f[z]
    BY <2>2, <2>3
  <2>8. own2[s[k]] # g /\ \A z \in Entries \ {s[k]} : own2[z] = own[z]
    BY <2>4, <2>5
  <2> HIDE DEF s
  <2>9. Ring(f2, own2, g, RemoveAt(s, k))
    BY <1>2, <2>6, <2>7, <2>8, RingDelete
  <2>10. QED BY <2>6, <2>9
<1>15. ASSUME NEW h \in Heads \ {g}
       PROVE  IF own2[h] = h THEN Ring(f2, own2, h, L2[h]) ELSE L2[h] = NULL
  <2>1. own2[h] = own[h] /\ h # NULL /\ own[e] # h
    BY <1>4, ListAssumption DEF Nodes, g
  <2>2. CASE own[h] = h
    <3>1. Ring(f, own, h, L[h]) /\ L[h] # NULL /\ Lists!RemoveFirst(L[h], e) = L[h]
      BY <2>1, <2>2, StandsAt, WithoutIs DEF f
    <3>2. \A z \in Nodes : z = h \/ own[z] = h => f2[z] = f[z]
      <4> SUFFICES ASSUME NEW z \in Nodes, z = h \/ own[z] = h PROVE f2[z] = f[z]
        OBVIOUS
      <4>1. z # e
        BY <2>1, ListAssumption DEF Nodes
      <4>2. z # m.prev[e]
        BY <1>2, <1>13, <2>2
      <4>3. QED BY <1>5, <4>1, <4>2
    <3>3. \A z \in Entries : own2[z] = h <=> own[z] = h
      BY <1>1, <1>4, <2>1
    <3>4. Ring(f2, own2, h, L[h])
      BY <3>1, <3>2, <3>3, RingKept
    <3>5. L2[h] = L[h]
      BY <3>1
    <3>6. QED BY <2>1, <2>2, <3>4, <3>5
  <2>3. CASE own[h] # h
    BY <2>1, <2>3, StandsAt DEF f
  <2>4. QED BY <2>2, <2>3
<1>16. own2[g] = g
  BY <1>2, <1>4, <1>8
<1>17. L2 = [h \in Heads |-> L2[h]]
  OBVIOUS
<1>18. QED BY <1>14, <1>15, <1>16, <1>17 DEF Stands, own2

LEMMA AddFirstStands ==
  ASSUME NEW m, NEW own, Rings(m, own), NEW L, Stands(m.next, own, L),
         NEW e \in Entries, own[e] = NULL, NEW x \in Nodes, own[x] # NULL
  PROVE  Stands(AddFirst(m, e, x).next, [own EXCEPT ![e] = own[x]], Lists!After(L, e, x))
<1> DEFINE f    == m.next
           g    == own[x]
           f2   == AddFirst(m, e, x).next
           own2 == [own EXCEPT ![e] = own[x]]
           L2   == Lists!After(L, e, x)
<1>1. e \in Nodes /\ m \in Mem /\ own \in Owners /\ HeadsOwn(own) /\ f[x] \in Nodes
  BY DEF Nodes, Rings, Wired
<1>2. g \in Heads /\ own[g] = g /\ own[x] = g
  BY OwnerOwns
<1>3. \A z \in Nodes : own2[z] = IF z = e THEN g ELSE own[z]
  BY <1>1 DEF Owners
<1>4. \A z \in Nodes : f2[z] = IF z = x THEN e ELSE IF z = e THEN f[x] ELSE f[z]
  <2>1. \A k, z \in Nodes :
          ListAdd(m, e, x, k).next[z] = IF z = x THEN e ELSE IF z = e THEN k ELSE m.next[z]
    BY <1>1, ListAddMem
  <2>2. QED BY <1>1, <2>1 DEF AddFirst
<1>5. f2[x] = e /\ f2[e] = f[x] /\ \A z \in Nodes \ {x, e} : f2[z] = f[z]
  BY <1>1, <1>4
<1>6. Stands(f, own, L)
  OBVIOUS
<1> HIDE DEF f, g, f2, own2
<1>7. PutBehind(L, g, x, e, L2)
  BY <1>1, <1>2, <1>6, AfterIs
<1> HIDE DEF L2
<1>8. PICK k \in 0..Len(L[g]) : At(L[g], g, k) = x /\ Inserted(L[g], k, e, L2[g])
  BY <1>7 DEF PutBehind
<1>9. Stands(f2, own2, L2)
  BY <1>1, <1>2, <1>3, <1>5, <1>6, <1>7, <1>8, AddStands DEF PutBehind
<1>10. QED BY <1>9 DEF f2, own2, L2

LEMMA AddLastStands ==
  ASSUME NEW m, NEW own, Rings(m, own), NEW L, Stands(m.next, own, L),
         NEW e \in Entries, own[e] = NULL, NEW x \in Nodes, own[x] # NULL
  PROVE  Stands(AddLast(m, e, x).next, [own EXCEPT ![e] = own[x]], Lists!Before(L, e, x))
<1> DEFINE f    == m.next
           g    == own[x]
           p    == m.prev[x]
           f2   == AddLast(m, e, x).next
           own2 == [own EXCEPT ![e] = own[x]]
           L2   == Lists!Before(L, e, x)
<1>1. e \in Nodes /\ m \in Mem /\ own \in Owners /\ HeadsOwn(own) /\ p \in Nodes /\ f[p] = x
  BY DEF Nodes, Rings, Wired
<1>2. g \in Heads /\ own[g] = g /\ own[x] = g
  BY OwnerOwns
<1>3. \A z \in Nodes : own2[z] = IF z = e THEN g ELSE own[z]
  BY <1>1 DEF Owners
<1>4. \A z \in Nodes : f2[z] = IF z = p THEN e ELSE IF z = e THEN x ELSE f[z]
  <2>1. \A k, z \in Nodes :
          ListAdd(m, e, k, x).next[z] = IF z = k THEN e ELSE IF z = e THEN x ELSE m.next[z]
    BY <1>1, ListAddMem
  <2>2. QED BY <1>1, <2>1 DEF AddLast
<1>5. p # e
  <2>1. own[p] = own[x]
    BY DEF Rings, Wired
  <2>2. QED BY <2>1
<1>6. f2[p] = e /\ f2[e] = f[p] /\ \A z \in Nodes \ {p, e} : f2[z] = f[z]
  BY <1>1, <1>4, <1>5
<1>7. Stands(f, own, L)
  OBVIOUS
<1>8. Ring(m.next, own, g, L[g])
  BY <1>2, <1>7, StandsAt
<1>9. PutBefore(L, g, x, e, L2)
  BY <1>1, <1>2, <1>7, BeforeIs
<1>10. PICK k \in 0..Len(L[g]) : At(L[g], g, k + 1) = x /\ Inserted(L[g], k, e, L2[g])
  BY <1>9 DEF PutBefore
<1>11. At(L[g], g, k) = p
  <2>1. \A a \in 0..Len(L[g]) : m.prev[At(L[g], g, a + 1)] = At(L[g], g, a)
    BY <1>2, <1>8, RingPrev
  <2>2. QED BY <1>10, <2>1
<1> HIDE DEF f, g, p, f2, own2, L2
<1>12. Stands(f2, own2, L2)
  BY <1>1, <1>2, <1>3, <1>6, <1>7, <1>9, <1>10, <1>11, AddStands DEF PutBefore
<1>13. QED BY <1>12 DEF f2, own2, L2

LEMMA InitStands ==
  ASSUME NEW m, NEW own, Rings(m, own), NEW L, Stands(m.next, own, L), NEW h \in Heads, own[h] = NULL
  PROVE  Stands(InitListHead(m, h).next, [own EXCEPT ![h] = h], [L EXCEPT ![h] = <<>>])
<1> DEFINE f    == m.next
           f2   == InitListHead(m, h).next
           own2 == [own EXCEPT ![h] = h]
           L2   == [L EXCEPT ![h] = <<>>]
<1>1. h \in Nodes /\ h # NULL /\ m \in Mem /\ own \in Owners /\ \A z \in Entries : z \in Nodes /\ z # h
  BY ListAssumption DEF Nodes, Rings
<1>2. \A z \in Nodes : own2[z] = IF z = h THEN h ELSE own[z]
  BY <1>1 DEF Owners
<1>3. \A z \in Nodes : f2[z] = IF z = h THEN h ELSE f[z]
  BY <1>1, InitListHeadMem
<1>4. L2 = [g \in Heads |-> IF g = h THEN <<>> ELSE L[g]]
  BY DEF Stands
<1>5. \A z \in Entries : own[z] # h
  BY <1>1, OwnerOwns
<1>6. Stands(f, own, L)
  OBVIOUS
<1> HIDE DEF f, f2, own2, L2
<1>7. Ring(f2, own2, h, L2[h])
  <2>1. f2[h] = h /\ L2[h] = <<>> /\ \A z \in Entries : own2[z] # h
    BY <1>1, <1>2, <1>3, <1>4, <1>5
  <2>2. QED BY <2>1, RingEmpty
<1>8. ASSUME NEW g \in Heads \ {h}
      PROVE  IF own2[g] = g THEN Ring(f2, own2, g, L2[g]) ELSE L2[g] = NULL
  <2>1. own2[g] = own[g] /\ L2[g] = L[g] /\ g # NULL
    BY <1>2, <1>4, ListAssumption DEF Nodes
  <2>2. CASE own[g] = g
    <3>1. Ring(f, own, g, L[g])
      BY <1>6, <2>2, StandsAt
    <3>2. \A z \in Nodes : z = g \/ own[z] = g => f2[z] = f[z]
      BY <1>3, <2>1
    <3>3. \A z \in Entries : own2[z] = g <=> own[z] = g
      BY <1>1, <1>2
    <3>4. Ring(f2, own2, g, L[g])
      BY <3>1, <3>2, <3>3, RingKept
    <3>5. QED BY <2>1, <2>2, <3>4
  <2>3. CASE own[g] # g
    BY <1>6, <2>1, <2>3, StandsAt
  <2>4. QED BY <2>2, <2>3
<1>9. own2[h] = h /\ L2 = [g \in Heads |-> L2[g]]
  BY <1>1, <1>2, <1>4
<1>10. Stands(f2, own2, L2)
  BY <1>7, <1>8, <1>9 DEF Stands
<1>11. QED BY <1>10 DEF f2, own2, L2

\* The list of h is put into the one of g; h is left without a list, or gets
\* the empty one.
Spliced(m, own, L, h, g, f2, own2, L2) ==
  /\ \A z \in Nodes \ {h} : /\ f2[z] = ListSplice(m, h, g).next[z]
                            /\ own2[z] = IF own[z] = h THEN g ELSE own[z]
  /\ L2 = [x \in Heads |-> L2[x]]
  /\ \A x \in Heads \ {h} : L2[x] = IF x = g THEN L[h] \o L[g] ELSE L[x]
  /\ \/ own2[h] = h /\ L2[h] = <<>> /\ f2[h] = h
     \/ own2[h] = NULL /\ L2[h] = NULL

LEMMA SpliceStands ==
  ASSUME NEW m, NEW own, Rings(m, own), NEW L, Stands(m.next, own, L),
         NEW h \in Heads, NEW g \in Heads, own[h] = h, own[g] = g, h # g, m.next[h] # h,
         NEW f2, NEW own2, NEW L2, Spliced(m, own, L, h, g, f2, own2, L2)
  PROVE  Stands(f2, own2, L2)
<1> DEFINE f == m.next
           s == L[h]
           t == L[g]
<1> USE DEF Spliced
<1>1. /\ h \in Nodes /\ g \in Nodes /\ h # NULL /\ g # NULL
      /\ \A z \in Entries : z \in Nodes /\ z # h /\ z # g
  BY ListAssumption DEF Nodes
<1>2. /\ m \in Mem /\ own \in Owners
      /\ f[h] \in Nodes /\ m.prev[h] \in Nodes /\ f[g] \in Nodes
  BY <1>1 DEF Rings, Wired
<1>3. Ring(f, own, h, s) /\ Ring(f, own, g, t)
  BY StandsAt
<1>4. Len(s) \in Nat /\ At(s, h, 0) = h /\ At(s, h, Len(s) + 1) = h
  BY <1>3, RingSeq
<1>5. Len(s) # 0
  <2>1. 0 \in 0..Len(s) /\ 0 + 1 = 1
    BY <1>4
  <2>2. f[h] = At(s, h, 1)
    BY <1>3, <1>4, <2>1 DEF Ring
  <2>3. QED BY <1>4, <2>2
<1>6. s # <<>>
  BY <1>5
<1>7. m.prev[h] = s[Len(s)]
  <2>1. Len(s) \in 0..Len(s) /\ Len(s) \in 1..Len(s)
    BY <1>4, <1>5
  <2>2. \A a \in 0..Len(s) : m.prev[At(s, h, a + 1)] = At(s, h, a)
    BY <1>3, RingPrev
  <2>3. m.prev[h] = At(s, h, Len(s))
    BY <1>4, <2>1, <2>2
  <2>4. QED BY <2>1, <2>3 DEF At
<1>8. own[s[Len(s)]] = h /\ s[Len(s)] \in Entries
  <2>1. Len(s) \in 1..Len(s)
    BY <1>4, <1>5
  <2>2. s \in Seq(Entries)
    BY <1>3 DEF Ring
  <2>3. s[Len(s)] \in Entries
    BY <2>1, <2>2
  <2>4. QED BY <1>3, <2>1, <2>3 DEF Ring
<1>9. \A z \in Nodes \ {h} : f2[z] = IF z = s[Len(s)] THEN f[g] ELSE IF z = g THEN f[h] ELSE f[z]
  BY <1>1, <1>2, <1>7, ListSpliceMem
<1> HIDE DEF f, s, t
<1>10. f2[g] = f[h] /\ f2[s[Len(s)]] = f[g] /\ \A z \in Nodes \ {g, h, s[Len(s)]} : f2[z] = f[z]
  BY <1>1, <1>8, <1>9
<1>11. \A z \in Entries : own2[z] = IF own[z] = h THEN g ELSE own[z]
  BY <1>1
<1>12. Ring(f2, own2, g, s \o t)
  BY <1>3, <1>6, <1>10, <1>11, RingJoined
<1>13. L2 = [x \in Heads |-> L2[x]] /\ L2[g] = s \o t
  BY DEF s, t
<1>14. own2[g] = g
  BY <1>1
<1>15. IF own2[h] = h THEN Ring(f2, own2, h, L2[h]) ELSE L2[h] = NULL
  <2>1. CASE own2[h] = h
    <3>1. f2[h] = h /\ \A z \in Entries : own2[z] # h
      BY <1>1, <1>11, <2>1
    <3>2. Ring(f2, own2, h, <<>>)
      BY <3>1, RingEmpty
    <3>3. L2[h] = <<>>
      BY <1>1, <2>1
    <3>4. QED BY <1>13, <1>14, <2>1, <3>2, <3>3
  <2>2. CASE own2[h] # h
    BY <1>13, <1>14, <2>2
  <2>3. QED BY <2>1, <2>2
<1>16. ASSUME NEW x \in Heads \ {g, h}
       PROVE  IF own2[x] = x THEN Ring(f2, own2, x, L2[x]) ELSE L2[x] = NULL
  <2>1. x \in Nodes /\ x # NULL /\ L2[x] = L[x] /\ own2[x] = IF own[x] = h THEN g ELSE own[x]
    BY ListAssumption DEF Nodes
  <2>2. CASE own[x] = x
    <3>1. Ring(f, own, x, L[x])
      BY <2>2, StandsAt DEF f
    <3>2. \A z \in Nodes : z = x \/ own[z] = x => f2[z] = f[z]
      BY <1>8, <1>10, <2>2
    <3>3. \A z \in Entries : own2[z] = x <=> own[z] = x
      BY <1>11
    <3>4. Ring(f2, own2, x, L[x])
      BY <3>1, <3>2, <3>3, RingKept
    <3>5. QED BY <2>1, <2>2, <3>4
  <2>3. CASE own[x] # x
    <3>1. own2[x] # x /\ L[x] = NULL
      BY <2>1, <2>3, StandsAt
    <3>2. QED BY <2>1, <3>1
  <2>4. QED BY <2>2, <2>3
<1>17. \A x \in Heads : IF own2[x] = x THEN Ring(f2, own2, x, L2[x]) ELSE L2[x] = NULL
  <2> TAKE x \in Heads
  <2>1. CASE x = g
    BY <1>12, <1>13, <1>14, <2>1
  <2>2. CASE x = h
    BY <1>15, <2>2
  <2>3. CASE x \in Heads \ {g, h}
    BY <1>16, <2>3
  <2>4. QED BY <2>1, <2>2, <2>3
<1>18. QED BY <1>13, <1>17 DEF Stands

LEMMA SwapStands ==
  ASSUME NEW m, NEW own, Rings(m, own), NEW L, Stands(m.next, own, L),
         NEW d \in Entries, NEW e \in Entries, own[d] # NULL, own[e] # NULL,
         NEW L2, L2 = [h \in Heads |-> IF L[h] = NULL THEN NULL ELSE Lists!Swapped(L[h], d, e)]
  PROVE  Stands(ListSwap(m, d, e).next, [own EXCEPT ![d] = own[e], ![e] = own[d]], L2)
<1> DEFINE f == m.next
           b == m.prev
           f2 == ListSwap(m, d, e).next
           own2 == [own EXCEPT ![d] = own[e], ![e] = own[d]]
<1>1. /\ m \in Mem /\ own \in Owners /\ d \in Nodes \ Heads /\ e \in Nodes \ Heads
      /\ \A z \in Entries : z \in Nodes
  BY ListAssumption DEF Nodes, Rings
<1>2. \A x \in Nodes : own[x] # NULL => f[x] \in Nodes /\ b[x] \in Nodes /\ b[f[x]] = x /\ f[b[x]] = x
  BY DEF Rings, Wired
<1>3. \A x \in {d, e} : /\ m.next[x] \in Nodes /\ m.prev[x] \in Nodes
                        /\ m.prev[m.next[x]] = x /\ m.next[m.prev[x]] = x
                        /\ m.next[x] # x
  BY <1>1, <1>2, NotAlone
<1>4. \A z \in Nodes : f2[z] = IF z = d THEN Exchange(d, e, f[e])
                               ELSE IF z = e THEN Exchange(d, e, f[d])
                               ELSE IF z = b[e] THEN d ELSE IF z = b[d] THEN e ELSE f[z]
  BY <1>1, <1>3, ListSwapMem
<1>5. \A z \in Nodes : own2[z] = IF z = e THEN own[d] ELSE IF z = d THEN own[e] ELSE own[z]
  BY <1>1 DEF Owners
<1>6. Stands(f, own, L)
  OBVIOUS
<1>7. \A x \in {d, e} : b[f[x]] = x /\ f[b[x]] = x
  BY <1>3
<1> HIDE DEF f, b, f2, own2
<1>8. ASSUME NEW h \in Heads, own[h] = h
      PROVE  Ring(f2, own2, h, L2[h])
  <2>1. Ring(f, own, h, L[h]) /\ L[h] \in Seq(Entries) /\ L[h] # NULL
    BY <1>6, <1>8, StandsAt
  <2>2. h # NULL
    BY ListAssumption DEF Nodes
  <2>3. \A z \in Nodes : z = h \/ own[z] = h => f2[Exchange(d, e, z)] = Exchange(d, e, f[z])
    <3> SUFFICES ASSUME NEW z \in Nodes, z = h \/ own[z] = h
                 PROVE  f2[Exchange(d, e, z)] = Exchange(d, e, f[z])
      OBVIOUS
    <3>1. own[z] # NULL
      BY <1>8, <2>2
    <3>2. b[f[z]] = z
      BY <1>2, <3>1
    <3>3. CASE z = d
      BY <1>1, <1>4, <3>3 DEF Exchange
    <3>4. CASE z = e
      BY <1>1, <1>4, <3>4 DEF Exchange
    <3>5. CASE z # d /\ z # e
      <4>1. Exchange(d, e, z) = z
        BY <3>5 DEF Exchange
      <4>2. f2[z] = IF z = b[e] THEN d ELSE IF z = b[d] THEN e ELSE f[z]
        BY <1>4, <3>5
      <4>3. f[z] = e <=> z = b[e]
        BY <1>7, <3>2
      <4>4. f[z] = d <=> z = b[d]
        BY <1>7, <3>2
      <4>5. QED BY <4>1, <4>2, <4>3, <4>4 DEF Exchange
    <3>6. QED BY <3>3, <3>4, <3>5
  <2>4. \A z \in Entries : own2[Exchange(d, e, z)] = own[z]
    BY <1>1, <1>5 DEF Exchange
  <2>5. L2[h] \in Seq(Entries) /\ Len(L2[h]) = Len(L[h])
        /\ \A k \in 1..Len(L[h]) : L2[h][k] = Exchange(d, e, L[h][k])
    <3> DEFINE s == L[h]
    <3>1. Len(s) \in Nat /\ DOMAIN s = 1..Len(s) /\ \A k \in 1..Len(s) : s[k] \in Entries
      BY <2>1, ToSetOf
    <3>2. L2[h] = Lists!Swapped(s, d, e)
      BY <2>1
    <3> HIDE DEF s
    <3>3. L2[h] = [k \in 1..Len(s) |-> Exchange(d, e, s[k])]
      BY <3>1, <3>2 DEF Lists!Swapped, Exchange
    <3>4. \A k \in 1..Len(s) : Exchange(d, e, s[k]) \in Entries
      BY <3>1 DEF Exchange
    <3>5. [k \in 1..Len(s) |-> Exchange(d, e, s[k])] \in Seq(Entries)
      BY <3>1, <3>4
    <3>6. QED BY <3>1, <3>3, <3>5 DEF s
  <2>6. QED BY <2>1, <2>3, <2>4, <2>5, RingSwapped, SMTT(30)
<1>9. ASSUME NEW h \in Heads
      PROVE  IF own2[h] = h THEN Ring(f2, own2, h, L2[h]) ELSE L2[h] = NULL
  <2>1. own2[h] = own[h]
    BY <1>1, <1>5 DEF Nodes
  <2>2. CASE own[h] = h
    BY <1>8, <2>1, <2>2
  <2>3. CASE own[h] # h
    BY <1>6, <2>1, <2>3, StandsAt
  <2>4. QED BY <2>2, <2>3
<1>10. L2 = [h \in Heads |-> L2[h]]
  OBVIOUS
<1>11. QED BY <1>9, <1>10 DEF Stands, f2, own2

-----------------------------------------------------------------------------
(* The refinement.                                                         *)

\* What the abstract list module sees.
Shown == [h \in Heads |-> IF owner[h] = h THEN Order(h) ELSE NULL]

ShownInv == Stands(mem.next, owner, Shown)

LEMMA ShownNext ==
  ASSUME mem' \in Mem, NEW L, Stands(mem'.next, owner', L)
  PROVE  ShownInv' /\ Shown' = L
<1>1. ASSUME NEW h \in Heads PROVE (IF owner'[h] = h THEN Order(h)' ELSE NULL) = L[h]
  <2>1. CASE owner'[h] = h
    <3>1. Ring(mem'.next, owner', h, L[h])
      BY <2>1, StandsAt
    <3>2. OrderOf(mem', h) = L[h]
      BY <3>1, RingOrder
    <3>3. Order(h)' = OrderOf(mem', h)
      BY DEF Order, OrderOf, Following, FollowingOf, list_empty
    <3>4. QED BY <2>1, <3>2, <3>3
  <2>2. CASE owner'[h] # h
    BY <2>2, StandsAt
  <2>3. QED BY <2>1, <2>2
<1>2. L = [h \in Heads |-> L[h]]
  BY DEF Stands
<1>3. Shown' = [h \in Heads |-> IF owner'[h] = h THEN Order(h)' ELSE NULL]
  BY DEF Shown
<1>4. Shown' = L
  BY <1>1, <1>2, <1>3
<1>5. QED BY <1>4 DEF ShownInv

\* The name of a call and its arguments.
LEMMA Pair ==
  ASSUME NEW name, NEW e
  PROVE  <<name>> \o <<e>> = <<name, e>>
<1> DEFINE A == {name, e}
           s == <<name>> \o <<e>>
<1>1. <<name>> \in Seq(A) /\ <<e>> \in Seq(A) /\ Len(<<name>>) = 1 /\ Len(<<e>>) = 1
  OBVIOUS
<1>2. s \in Seq(A) /\ Len(s) = 1 + 1
  BY <1>1, ConcatIs
<1>3. (\A k \in 1..1 : s[k] = <<name>>[k]) /\ \A k \in 1..1 : s[1 + k] = <<e>>[k]
  BY <1>1, ConcatIs
<1>4. s[1] = name /\ s[2] = e
  <2>1. 1 \in 1..1 /\ 1 + 1 = 2
    OBVIOUS
  <2> HIDE DEF s
  <2>2. QED BY <1>3, <2>1
<1>5. <<name, e>> \in Seq(A) /\ Len(<<name, e>>) = 2 /\ <<name, e>>[1] = name /\ <<name, e>>[2] = e
  OBVIOUS
<1> DEFINE t == <<name, e>>
<1>6. \A k \in 1..2 : k = 1 \/ k = 2
  OBVIOUS
<1> HIDE DEF s, t, A
<1>7. Len(s) = Len(t) /\ \A k \in 1..Len(s) : s[k] = t[k]
  BY <1>2, <1>4, <1>5, <1>6 DEF t
<1>8. s = t
  BY <1>2, <1>5, <1>7, SeqEqual DEF t
<1>9. QED BY <1>8 DEF s, t

LEMMA Triple ==
  ASSUME NEW name, NEW e, NEW x
  PROVE  <<name>> \o <<e, x>> = <<name, e, x>>
<1> DEFINE A == {name, e, x}
           s == <<name>> \o <<e, x>>
<1>1. <<name>> \in Seq(A) /\ <<e, x>> \in Seq(A) /\ Len(<<name>>) = 1 /\ Len(<<e, x>>) = 2
  OBVIOUS
<1>2. s \in Seq(A) /\ Len(s) = 1 + 2
  BY <1>1, ConcatIs
<1>3. (\A k \in 1..1 : s[k] = <<name>>[k]) /\ \A k \in 1..2 : s[1 + k] = <<e, x>>[k]
  BY <1>1, ConcatIs
<1>4. s[1] = name /\ s[2] = e /\ s[3] = x
  <2>1. 1 \in 1..1 /\ 1 \in 1..2 /\ 2 \in 1..2 /\ 1 + 1 = 2 /\ 1 + 2 = 3
    OBVIOUS
  <2> HIDE DEF s
  <2>2. QED BY <1>3, <2>1
<1>5. <<name, e, x>> \in Seq(A) /\ Len(<<name, e, x>>) = 3
  OBVIOUS
<1> DEFINE t == <<name, e, x>>
<1>6. (\A k \in 1..3 : k = 1 \/ k = 2 \/ k = 3) /\ t[1] = name /\ t[2] = e /\ t[3] = x
  OBVIOUS
<1> HIDE DEF s, t, A
<1>7. Len(s) = Len(t) /\ \A k \in 1..Len(s) : s[k] = t[k]
  BY <1>2, <1>4, <1>5, <1>6 DEF t
<1>8. s = t
  BY <1>2, <1>5, <1>7, SeqEqual DEF t
<1>9. QED BY <1>8 DEF s, t

LEMMA ShownAt ==
  ASSUME ListInv, ShownInv
  PROVE  /\ mem \in Mem /\ Rings(mem, owner) /\ Stands(mem.next, owner, Shown)
         /\ \A x \in Entries : Lists!Held(x) <=> Linked(x)
         /\ \A h \in Heads : Linked(h) => owner[h] = h /\ Shown[h] # NULL
<1>1. mem \in Mem /\ Rings(mem, owner) /\ Stands(mem.next, owner, Shown)
  BY DEF ListInv, Rings, ShownInv
<1>2. ASSUME NEW x \in Entries PROVE Lists!Held(x) <=> Linked(x)
  <2>1. (\E h \in Heads : Lists!Within(Shown[h], x)) <=> owner[x] # NULL
    BY <1>1, HeldIs
  <2>2. Lists!Held(x) <=> \E h \in Heads : Lists!Within(Shown[h], x)
    BY DEF Lists!Held, Shown
  <2>3. QED BY <2>1, <2>2 DEF Linked
<1>3. ASSUME NEW h \in Heads, Linked(h) PROVE owner[h] = h /\ Shown[h] # NULL
  <2>1. owner[h] = h
    BY <1>3, Pointers
  <2>2. QED BY <1>1, <2>1, StandsAt
<1>4. QED BY <1>1, <1>2, <1>3

LEMMA AddIsAdd ==
  ASSUME ListInv, ShownInv, mem' \in Mem, NEW e \in Entries, NEW x \in Nodes,
         list_add(e, x) \/ list_add_tail(e, x)
  PROVE  ShownInv' /\ Lists!Add(e, x) /\ call' # <<>>
<1>1. owner[e] = NULL /\ owner[x] # NULL /\ owner' = [owner EXCEPT ![e] = owner[x]] /\ ~ Lists!Held(e)
  BY ShownAt DEF list_add, list_add_tail, Linked
<1>2. CASE list_add(e, x)
  <2>1. Stands(mem'.next, owner', Lists!After(Shown, e, x))
    <3>1. mem' = AddFirst(mem, e, x) /\ Rings(mem, owner) /\ Stands(mem.next, owner, Shown)
      BY <1>2, ShownAt DEF list_add
    <3>2. Stands(AddFirst(mem, e, x).next, [owner EXCEPT ![e] = owner[x]], Lists!After(Shown, e, x))
      BY <1>1, <3>1, AddFirstStands
    <3>3. QED BY <1>1, <3>1, <3>2
  <2>2. ShownInv' /\ Shown' = Lists!After(Shown, e, x)
    BY <2>1, ShownNext
  <2>3. call' = <<"list_add", e, x>> /\ call' # <<>>
    BY <1>2, Triple DEF list_add, Calls
  <2>4. QED BY <1>1, <2>2, <2>3 DEF Lists!Add, Shown
<1>3. CASE list_add_tail(e, x)
  <2>1. Stands(mem'.next, owner', Lists!Before(Shown, e, x))
    <3>1. mem' = AddLast(mem, e, x) /\ Rings(mem, owner) /\ Stands(mem.next, owner, Shown)
      BY <1>3, ShownAt DEF list_add_tail
    <3>2. Stands(AddLast(mem, e, x).next, [owner EXCEPT ![e] = owner[x]], Lists!Before(Shown, e, x))
      BY <1>1, <3>1, AddLastStands
    <3>3. QED BY <1>1, <3>1, <3>2
  <2>2. ShownInv' /\ Shown' = Lists!Before(Shown, e, x)
    BY <2>1, ShownNext
  <2>3. call' = <<"list_add_tail", e, x>> /\ call' # <<>>
    BY <1>3, Triple DEF list_add_tail, Calls
  <2>4. QED BY <1>1, <2>2, <2>3 DEF Lists!Add, Shown
<1>4. QED BY <1>2, <1>3

LEMMA NotHeld ==
  ASSUME NEW f, NEW own, NEW L, Stands(f, own, L), NEW e \in Entries, own[e] = NULL
  PROVE  [h \in Heads |-> IF L[h] = NULL THEN NULL ELSE Lists!RemoveFirst(L[h], e)] = L
<1>1. ASSUME NEW h \in Heads
      PROVE  (IF L[h] = NULL THEN NULL ELSE Lists!RemoveFirst(L[h], e)) = L[h]
  <2>1. own[e] # h
    BY ListAssumption DEF Nodes
  <2>2. CASE own[h] = h
    <3>1. Lists!RemoveFirst(L[h], e) = L[h]
      BY <2>1, <2>2, WithoutIs
    <3>2. QED BY <3>1
  <2>3. CASE own[h] # h
    BY <2>3, StandsAt
  <2>4. QED BY <2>2, <2>3
<1>2. L = [h \in Heads |-> L[h]]
  BY DEF Stands
<1>3. QED BY <1>1, <1>2

LEMMA WithoutShown ==
  \A e : Lists!Without(e) =
           [h \in Heads |-> IF Shown[h] = NULL THEN NULL ELSE Lists!RemoveFirst(Shown[h], e)]
BY DEF Lists!Without, Shown

LEMMA DelIsDel ==
  ASSUME ListInv, ShownInv, mem' \in Mem, NEW e \in Entries, list_del(e) \/ list_del_init(e)
  PROVE  ShownInv' /\ Lists!Del(e) /\ call' # <<>>
<1>1. e \in Nodes /\ owner' = [owner EXCEPT ![e] = NULL]
  BY Pointers DEF list_del, list_del_init
<1>2. Stands(mem'.next, owner', Lists!Without(e))
  <2>1. CASE Linked(e)
    <3>1. ListDel(mem, e) \in Mem
      BY <1>1, <2>1, Pointers, ListDelMem
    <3>2. \A z \in Nodes \ {e} : mem'.next[z] = ListDel(mem, e).next[z]
      <4>1. CASE list_del(e)
        BY <1>1, <3>1, <4>1 DEF list_del, SetNext, SetPrev, Mem
      <4>2. CASE list_del_init(e)
        BY <1>1, <3>1, <4>2, InitListHeadMem DEF list_del_init
      <4>3. QED BY <4>1, <4>2
    <3>3. Rings(mem, owner) /\ Stands(mem.next, owner, Shown) /\ owner[e] # NULL
      BY <2>1, ShownAt DEF Linked
    <3>4. Stands(mem'.next, [owner EXCEPT ![e] = NULL], Lists!Without(e))
      BY <3>2, <3>3, WithoutShown, DelStands
    <3>5. QED BY <1>1, <3>4
  <2>2. CASE ~Linked(e)
    <3>1. mem' = mem /\ owner' = owner
      BY <2>2, DelOfLoose DEF list_del
    <3>2. Stands(mem.next, owner, Shown) /\ owner[e] = NULL
      BY <2>2, ShownAt DEF Linked
    <3>3. Lists!Without(e) = Shown
      BY <3>2, WithoutShown, NotHeld
    <3>4. QED BY <3>1, <3>2, <3>3
  <2>3. QED BY <2>1, <2>2
<1>3. ShownInv' /\ Shown' = Lists!Without(e)
  BY <1>2, ShownNext
<1>4. call' \in {<<"list_del", e>>, <<"list_del_init", e>>} /\ call' # <<>>
  BY Pair DEF list_del, list_del_init, Calls
<1>5. QED BY <1>3, <1>4 DEF Lists!Del, Shown

\* To move an entry is to delete it and to add it again.
LEMMA MoveIsMove ==
  ASSUME ListInv, ShownInv, mem' \in Mem, NEW e \in Entries, NEW x \in Nodes,
         list_move(e, x) \/ list_move_tail(e, x)
  PROVE  ShownInv' /\ Lists!Move(e, x) /\ call' # <<>>
<1> DEFINE m1 == ListDel(mem, e)
           o1 == [owner EXCEPT ![e] = NULL]
           L1 == Lists!Without(e)
<1>1. /\ owner[e] # NULL /\ owner[x] # NULL /\ x # e /\ owner' = [owner EXCEPT ![e] = owner[x]]
      /\ Lists!Held(e) /\ e \in Nodes \ Heads
  BY ShownAt, Pointers DEF list_move, list_move_tail, Linked
<1>2. m1 \in Mem
  BY <1>1, Pointers, ListDelMem DEF Linked
<1>3. Rings(mem, owner) /\ Stands(mem.next, owner, Shown)
  BY ShownAt
<1>4. Rings(m1, o1)
  BY <1>1, <1>2, <1>3, DelRings
<1>5. Stands(m1.next, o1, L1)
  BY <1>1, <1>3, WithoutShown, DelStands
<1>6. o1[e] = NULL /\ o1[x] = owner[x] /\ owner' = [o1 EXCEPT ![e] = o1[x]]
  BY <1>1, Pointers DEF Owners
<1>7. CASE list_move(e, x)
  <2>1. mem' = AddFirst(m1, e, x)
    BY <1>7 DEF list_move
  <2> HIDE DEF m1, o1, L1
  <2>2. Stands(AddFirst(m1, e, x).next, [o1 EXCEPT ![e] = o1[x]], Lists!After(L1, e, x))
    BY <1>1, <1>4, <1>5, <1>6, AddFirstStands
  <2>3. Stands(mem'.next, owner', Lists!After(L1, e, x))
    BY <1>6, <2>1, <2>2
  <2>4. ShownInv' /\ Shown' = Lists!After(L1, e, x)
    BY <2>3, ShownNext
  <2>5. call' = <<"list_move", e, x>> /\ call' # <<>>
    BY <1>7, Triple DEF list_move, Calls
  <2>6. QED BY <1>1, <2>4, <2>5 DEF Lists!Move, Shown, L1
<1>8. CASE list_move_tail(e, x)
  <2>1. mem' = AddLast(m1, e, x)
    BY <1>8 DEF list_move_tail
  <2> HIDE DEF m1, o1, L1
  <2>2. Stands(AddLast(m1, e, x).next, [o1 EXCEPT ![e] = o1[x]], Lists!Before(L1, e, x))
    BY <1>1, <1>4, <1>5, <1>6, AddLastStands
  <2>3. Stands(mem'.next, owner', Lists!Before(L1, e, x))
    BY <1>6, <2>1, <2>2
  <2>4. ShownInv' /\ Shown' = Lists!Before(L1, e, x)
    BY <2>3, ShownNext
  <2>5. call' = <<"list_move_tail", e, x>> /\ call' # <<>>
    BY <1>8, Triple DEF list_move_tail, Calls
  <2>6. QED BY <1>1, <2>4, <2>5 DEF Lists!Move, Shown, L1
<1>9. QED BY <1>7, <1>8

LEMMA InitIsRenew ==
  ASSUME ListInv, ShownInv, mem' \in Mem, NEW h \in Heads, INIT_LIST_HEAD(h)
  PROVE  ShownInv' /\ Lists!Renew(h) /\ call' # <<>>
<1>1. owner[h] = NULL /\ mem' = InitListHead(mem, h) /\ owner' = [owner EXCEPT ![h] = h]
  BY DEF INIT_LIST_HEAD, Linked
<1>2. Stands(InitListHead(mem, h).next, [owner EXCEPT ![h] = h], [Shown EXCEPT ![h] = <<>>])
  BY <1>1, ShownAt, InitStands
<1>3. ShownInv' /\ Shown' = [Shown EXCEPT ![h] = <<>>]
  BY <1>1, <1>2, ShownNext
<1>4. call' = <<"INIT_LIST_HEAD", h>> /\ call' # <<>>
  BY Pair DEF INIT_LIST_HEAD, Calls
<1>5. QED BY <1>3, <1>4 DEF Lists!Renew, Shown

LEMMA RingOfEmpty ==
  ASSUME NEW f, NEW own, NEW h \in Heads, NEW s, Ring(f, own, h, s)
  PROVE  f[h] = h <=> s = <<>>
<1>1. Len(s) \in Nat /\ At(s, h, 0) = h /\ f[At(s, h, 0)] = At(s, h, 0 + 1) /\ s \in Seq(Entries)
  BY RingSeq DEF Ring
<1>2. f[h] = At(s, h, 1)
  BY <1>1
<1>3. CASE s = <<>>
  <2>1. 1 \notin 1..Len(s)
    BY <1>3
  <2>2. QED BY <1>2, <1>3, <2>1 DEF At
<1>4. CASE s # <<>>
  <2>1. 1 \in 1..Len(s)
    BY <1>1, <1>4, EmptySeq
  <2>2. s[1] \in Entries
    BY <1>1, <2>1, ElementOfSeq
  <2>3. s[1] # h
    BY <2>2, ListAssumption
  <2>4. QED BY <1>2, <1>4, <2>1, <2>3 DEF At
<1>5. QED BY <1>3, <1>4

LEMMA SwapIsSwap ==
  ASSUME ListInv, ShownInv, mem' \in Mem, NEW d \in Entries, NEW e \in Entries, list_swap(d, e)
  PROVE  ShownInv' /\ Lists!Swap(d, e) /\ call' # <<>>
<1> DEFINE L2 == [h \in Heads |-> IF Shown[h] = NULL THEN NULL ELSE Lists!Swapped(Shown[h], d, e)]
<1>1. /\ owner[d] # NULL /\ owner[e] # NULL /\ mem' = ListSwap(mem, d, e)
      /\ owner' = [owner EXCEPT ![d] = owner[e], ![e] = owner[d]]
  BY DEF list_swap, Linked
<1>2. Stands(ListSwap(mem, d, e).next, [owner EXCEPT ![d] = owner[e], ![e] = owner[d]], L2)
  BY <1>1, ShownAt, SwapStands
<1>3. ShownInv' /\ Shown' = L2
  BY <1>1, <1>2, ShownNext
<1>4. call' = <<"list_swap", d, e>> /\ call' # <<>>
  BY Triple DEF list_swap, Calls
<1>5. QED BY <1>3, <1>4 DEF Lists!Swap, Shown

LEMMA SpliceShown ==
  ASSUME ListInv, ShownInv, NEW h \in Heads, NEW g \in Heads, owner[h] = h, owner[g] = g, h # g,
         mem.next[h] # h, mem' \in Mem,
         NEW L2, Spliced(mem, owner, Shown, h, g, mem'.next, owner', L2)
  PROVE  ShownInv' /\ Shown' = L2
<1>1. Rings(mem, owner) /\ Stands(mem.next, owner, Shown)
  BY ShownAt
<1>2. Stands(mem'.next, owner', L2)
  BY <1>1, SpliceStands
<1>3. QED BY <1>2, ShownNext

LEMMA SpliceIsSplice ==
  ASSUME ListInv, ShownInv, mem' \in Mem, NEW h \in Heads, NEW g \in Heads,
         list_splice(h, g) \/ list_splice_init(h, g)
  PROVE  ShownInv' /\ g \in Heads \ {h} /\ Lists!Splice(h, g) /\ call' # <<>>
<1>1. owner[h] = h /\ owner[g] = g /\ h # g /\ Shown[h] # NULL
  BY ShownAt DEF list_splice, list_splice_init
<1>2. /\ list_splice(h, g) => call' = <<"list_splice", h, g>>
      /\ list_splice_init(h, g) => call' = <<"list_splice_init", h, g>>
  BY Triple DEF list_splice, list_splice_init, Calls
<1>3. call' # <<>>
  BY <1>2
<1>4. Ring(mem.next, owner, h, Shown[h]) /\ Shown[g] \in Seq(Entries) /\ h \in Nodes /\ g \in Nodes
  BY <1>1, ShownAt, StandsAt, Pointers
<1>5. CASE list_empty(h)
  <2>1. Shown[h] = <<>>
    BY <1>4, <1>5, RingOfEmpty DEF list_empty
  <2>2. mem' = mem /\ owner' = owner
    BY <1>5 DEF list_splice, list_splice_init
  <2>3. ShownInv' /\ Shown' = Shown
    BY <2>2, ShownAt, ShownNext
  <2>4. <<>> \o Shown[g] = Shown[g]
    BY <1>4, ConcatEmptySeq
  <2>5. [Shown EXCEPT ![g] = Shown[h] \o @, ![h] = <<>>] = Shown
    BY <2>1, <2>4 DEF Shown
  <2>6. [Shown EXCEPT ![g] = Shown[h] \o @, ![h] = IF @ = <<>> THEN <<>> ELSE NULL] = Shown
    BY <1>1, <2>1, <2>5 DEF Shown
  <2>7. QED BY <1>1, <1>2, <1>3, <2>3, <2>5, <2>6 DEF Lists!Splice, Shown
<1>6. CASE ~list_empty(h)
  <2>1. mem.next[h] # h /\ Shown[h] # <<>>
    BY <1>4, <1>6, RingOfEmpty DEF list_empty
  <2>2. ListSplice(mem, h, g) \in Mem
    BY <1>1, <1>4, Pointers, ListSpliceMem DEF Linked
  <2>3. \A z \in Nodes \ {h} : /\ mem'.next[z] = ListSplice(mem, h, g).next[z]
                               /\ owner'[z] = IF owner[z] = h THEN g ELSE owner[z]
    <3>1. \A z \in Nodes \ {h} : owner'[z] = IF owner[z] = h THEN g ELSE owner[z]
      BY <1>6 DEF list_splice, list_splice_init, Moved
    <3>2. \/ mem' = ListSplice(mem, h, g)
          \/ mem' = InitListHead(ListSplice(mem, h, g), h)
      BY <1>6 DEF list_splice, list_splice_init
    <3>3. \A z \in Nodes \ {h} : InitListHead(ListSplice(mem, h, g), h).next[z] = ListSplice(mem, h, g).next[z]
      BY <1>4, <2>2, InitListHeadMem
    <3>4. QED BY <3>1, <3>2, <3>3
  <2>4. CASE list_splice(h, g)
    <3> DEFINE L2 == [x \in Heads |-> IF x = h THEN NULL
                                      ELSE IF x = g THEN Shown[h] \o Shown[g] ELSE Shown[x]]
    <3>1. owner'[h] = NULL
      BY <1>4, <1>6, <2>4 DEF list_splice, Moved
    <3>2. /\ L2 = [x \in Heads |-> L2[x]]
          /\ \A x \in Heads \ {h} : L2[x] = IF x = g THEN Shown[h] \o Shown[g] ELSE Shown[x]
          /\ L2[h] = NULL
          /\ [Shown EXCEPT ![g] = Shown[h] \o @, ![h] = IF @ = <<>> THEN <<>> ELSE NULL] = L2
      BY <1>1, <2>1 DEF Shown
    <3> HIDE DEF L2
    <3>3. ShownInv' /\ Shown' = L2
      <4>1. Spliced(mem, owner, Shown, h, g, mem'.next, owner', L2)
        BY <2>3, <3>1, <3>2 DEF Spliced
      <4>2. QED BY <1>1, <2>1, <4>1, SpliceShown
    <3>4. QED BY <1>1, <1>2, <1>3, <2>4, <3>2, <3>3 DEF Lists!Splice, Shown
  <2>5. CASE list_splice_init(h, g)
    <3> DEFINE L2 == [x \in Heads |-> IF x = h THEN <<>>
                                      ELSE IF x = g THEN Shown[h] \o Shown[g] ELSE Shown[x]]
    <3>1. owner'[h] = h /\ mem'.next[h] = h
      BY <1>4, <1>6, <2>2, <2>5, InitListHeadMem DEF list_splice_init, Moved
    <3>2. /\ L2 = [x \in Heads |-> L2[x]]
          /\ \A x \in Heads \ {h} : L2[x] = IF x = g THEN Shown[h] \o Shown[g] ELSE Shown[x]
          /\ L2[h] = <<>>
          /\ [Shown EXCEPT ![g] = Shown[h] \o @, ![h] = <<>>] = L2
      BY <1>1 DEF Shown
    <3> HIDE DEF L2
    <3>3. ShownInv' /\ Shown' = L2
      <4>1. Spliced(mem, owner, Shown, h, g, mem'.next, owner', L2)
        BY <2>3, <3>1, <3>2 DEF Spliced
      <4>2. QED BY <1>1, <2>1, <4>1, SpliceShown
    <3>4. QED BY <1>1, <1>2, <1>3, <2>5, <3>2, <3>3 DEF Lists!Splice, Shown
  <2>6. QED BY <2>4, <2>5
<1>7. QED BY <1>5, <1>6

\* Walking changes no list.
LEMMA StillShown ==
  ASSUME ListInv, ShownInv, mem' \in Mem, UNCHANGED <<mem, owner, call>>
  PROVE  ShownInv' /\ UNCHANGED <<Shown, call>>
BY ShownAt, ShownNext

LEMMA EmptyShown == ListInit => ShownInv /\ Lists!SeqInit
<1> SUFFICES ASSUME ListInit PROVE ShownInv /\ Lists!SeqInit
  OBVIOUS
<1>1. \A h \in Heads : h \in Nodes /\ owner[h] = h /\ mem.next[h] = h
  BY DEF ListInit, Nodes
<1>2. \A h \in Heads : \A z \in Entries : owner[z] # h
  BY ListAssumption DEF ListInit, Nodes
<1>3. \A h \in Heads : Order(h) = <<>>
  BY <1>1 DEF Order, list_empty
<1>4. Shown = [h \in Heads |-> <<>>]
  BY <1>1, <1>3 DEF Shown
<1>5. \A h \in Heads : Ring(mem.next, owner, h, <<>>)
  BY <1>1, <1>2, RingEmpty
<1>6. Stands(mem.next, owner, [h \in Heads |-> <<>>])
  BY <1>1, <1>5 DEF Stands
<1>7. call = <<>>
  BY DEF ListInit
<1>8. QED BY <1>4, <1>6, <1>7 DEF ShownInv, Lists!SeqInit, Shown

LEMMA ShownStep ==
  ASSUME ListInv, ShownInv, [ListNext]_listVars
  PROVE  ShownInv' /\ [Lists!SeqNext]_(Lists!seqVars)
<1>1. mem' \in Mem
  BY ListNextInv DEF ListInv, Rings
<1>2. Nodes = Heads \cup Entries
  BY DEF Nodes
<1>3. ASSUME NEW e \in Entries, list_del(e) \/ list_del_init(e)
      PROVE  ShownInv' /\ [Lists!SeqNext]_(Lists!seqVars)
  BY <1>1, <1>3, DelIsDel DEF Lists!SeqNext
<1>4. ASSUME NEW e \in Entries, NEW x \in Nodes, list_add(e, x) \/ list_add_tail(e, x)
      PROVE  ShownInv' /\ [Lists!SeqNext]_(Lists!seqVars)
  BY <1>1, <1>2, <1>4, AddIsAdd DEF Lists!SeqNext
<1>5. ASSUME NEW e \in Entries, NEW x \in Nodes, list_move(e, x) \/ list_move_tail(e, x)
      PROVE  ShownInv' /\ [Lists!SeqNext]_(Lists!seqVars)
  BY <1>1, <1>2, <1>5, MoveIsMove DEF Lists!SeqNext
<1>6. ASSUME NEW d \in Entries, NEW e \in Entries, list_swap(d, e)
      PROVE  ShownInv' /\ [Lists!SeqNext]_(Lists!seqVars)
  BY <1>1, <1>6, SwapIsSwap DEF Lists!SeqNext
<1>7. ASSUME NEW h \in Heads, INIT_LIST_HEAD(h)
      PROVE  ShownInv' /\ [Lists!SeqNext]_(Lists!seqVars)
  BY <1>1, <1>7, InitIsRenew DEF Lists!SeqNext
<1>8. ASSUME NEW h \in Heads, NEW g \in Heads, list_splice(h, g) \/ list_splice_init(h, g)
      PROVE  ShownInv' /\ [Lists!SeqNext]_(Lists!seqVars)
  BY <1>1, <1>8, SpliceIsSplice DEF Lists!SeqNext
<1>9. ASSUME UNCHANGED <<mem, owner, call>>
      PROVE  ShownInv' /\ [Lists!SeqNext]_(Lists!seqVars)
  BY <1>1, <1>9, StillShown DEF Lists!seqVars, Shown
<1>10. CASE list_for_each_safe
  BY <1>9, <1>10 DEF list_for_each_safe, walk_begins, walk_continues, walk_ends
<1>11. CASE UNCHANGED listVars
  BY <1>9, <1>11 DEF listVars
<1>12. QED BY <1>3, <1>4, <1>5, <1>6, <1>7, <1>8, <1>10, <1>11 DEF ListNext

\* Every head stands for a sequence, and each call does to the sequences what
\* its name says, for any set of heads and of nodes (list.h 29 to 231).
THEOREM ListImplementsSequences == ListSpec => ImplementsLists
<1>1. ListInv /\ ShownInv /\ [ListNext]_listVars => ShownInv' /\ [Lists!SeqNext]_(Lists!seqVars)
  BY ShownStep
<1>2. QED BY <1>1, EmptyShown, ListInvariant, PTL DEF ListSpec, ImplementsLists, Lists!SeqSpec
=============================================================================
