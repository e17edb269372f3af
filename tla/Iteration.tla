----------------------------- MODULE Iteration -----------------------------
(***************************************************************************)
(* Induction over the naturals for a set of numbers instead of a           *)
(* predicate, and the functions that a recursive definition over numbers   *)
(* defines: they exist, so that the definition means what it says.         *)
(***************************************************************************)
EXTENDS Walks, SequencesExt, WellFoundedInduction, SequenceTheorems, TLAPS

LEMMA Inductive ==
  ASSUME NEW S \in SUBSET Nat, 0 \in S, \A k \in S : k + 1 \in S
  PROVE  S = Nat
<1> SUFFICES ASSUME Nat \ S # {} PROVE FALSE
  OBVIOUS
<1>1. PICK m \in Nat \ S : \A y \in Nat \ S : ~ (<<y, m>> \in OpToRel(<, Nat))
  BY NatLessThanWellFounded, WFMin
<1>2. \A y \in Nat \ S : ~ (y < m)
  BY <1>1 DEF OpToRel
<1>3. m # 0 /\ m - 1 \in Nat /\ m - 1 < m /\ m = (m - 1) + 1
  OBVIOUS
<1>4. m - 1 \in S
  BY <1>2, <1>3
<1>5. QED BY <1>3, <1>4

\* A set of numbers has a least one.
LEMMA Least ==
  ASSUME NEW S \in SUBSET Nat, S # {}
  PROVE  \E k \in S : \A j \in S : k <= j
<1>1. PICK k \in S : \A j \in S : ~ (<<j, k>> \in OpToRel(<, Nat))
  BY NatLessThanWellFounded, WFMin
<1>2. \A j \in S : ~ (j < k)
  BY <1>1 DEF OpToRel
<1>3. QED BY <1>2

\* g goes from a through the steps up to the n-th.
Steps(g, n, A, a, step) ==
  g \in [0..n -> A] /\ g[0] = a /\ \A k \in 1..n : g[k] = step[k][g[k - 1]]

LEMMA StepsExist ==
  ASSUME NEW n \in Nat, NEW A, NEW a \in A, NEW step \in [1..n -> [A -> A]]
  PROVE  \E g : Steps(g, n, A, a, step)
<1> DEFINE S == {j \in Nat : j <= n => \E g : Steps(g, j, A, a, step)}
<1>1. 0 \in S
  <2>1. Steps([k \in 0..0 |-> a], 0, A, a, step)
    BY DEF Steps
  <2>2. QED BY <2>1
<1>2. ASSUME NEW j \in S PROVE j + 1 \in S
  <2>1. SUFFICES ASSUME j + 1 <= n PROVE \E g : Steps(g, j + 1, A, a, step)
    OBVIOUS
  <2>2. j \in Nat /\ j <= n /\ j \in 0..j /\ j + 1 \in 1..n
    BY <2>1
  <2>3. PICK g : Steps(g, j, A, a, step)
    BY <2>2
  <2> DEFINE g2 == [k \in 0..j + 1 |-> IF k = j + 1 THEN step[j + 1][g[j]] ELSE g[k]]
  <2>4. g \in [0..j -> A] /\ g[j] \in A /\ step[j + 1] \in [A -> A] /\ step[j + 1][g[j]] \in A
    BY <2>2, <2>3 DEF Steps
  <2>5. \A k \in 0..j + 1 : k = j + 1 \/ k \in 0..j
    BY <2>2
  <2>6. g2 \in [0..j + 1 -> A]
    BY <2>4, <2>5
  <2>7. g2[0] = a
    BY <2>2, <2>3 DEF Steps
  <2>8. ASSUME NEW k \in 1..j + 1 PROVE g2[k] = step[k][g2[k - 1]]
    <3>1. k - 1 \in 0..j + 1 /\ k - 1 # j + 1 /\ k \in 0..j + 1
      BY <2>2, <2>8
    <3>2. CASE k = j + 1
      BY <2>2, <3>1, <3>2
    <3>3. CASE k # j + 1
      <4>1. k \in 1..j
        BY <2>2, <3>3
      <4>2. QED BY <2>3, <3>1, <3>3, <4>1 DEF Steps
    <3>4. QED BY <3>2, <3>3
  <2>9. Steps(g2, j + 1, A, a, step)
    BY <2>6, <2>7, <2>8 DEF Steps
  <2>10. QED BY <2>9
<1>3. S = Nat
  <2> HIDE DEF S
  <2>1. S \in SUBSET Nat
    BY DEF S
  <2>2. QED BY <1>1, <1>2, <2>1, Inductive
<1>4. n \in S
  <2> HIDE DEF S
  <2> QED BY <1>3
<1>5. QED BY <1>4

LEMMA StepsAgree ==
  ASSUME NEW n \in Nat, NEW m \in Nat, n <= m, NEW A, NEW a, NEW step, NEW step2,
         \A k \in 1..n : step[k] = step2[k],
         NEW g, Steps(g, n, A, a, step), NEW g2, Steps(g2, m, A, a, step2)
  PROVE  g[n] = g2[n]
<1> DEFINE S == {k \in Nat : k <= n => g[k] = g2[k]}
<1>1. 0 \in S
  BY DEF Steps
<1>2. ASSUME NEW k \in S PROVE k + 1 \in S
  <2>1. SUFFICES ASSUME k + 1 <= n PROVE g[k + 1] = g2[k + 1]
    OBVIOUS
  <2>2. k \in Nat /\ k + 1 \in 1..n /\ k + 1 \in 1..m /\ (k + 1) - 1 = k /\ k <= n
    BY <2>1
  <2>3. g[k] = g2[k]
    BY <2>2
  <2>4. g[k + 1] = step[k + 1][g[k]] /\ g2[k + 1] = step2[k + 1][g2[k]]
    BY <2>2 DEF Steps
  <2>5. QED BY <2>2, <2>3, <2>4
<1>3. S = Nat
  <2> HIDE DEF S
  <2>1. S \in SUBSET Nat
    BY DEF S
  <2>2. QED BY <1>1, <1>2, <2>1, Inductive
<1>4. QED BY <1>3

\* One step again and again.
LEMMA IterationExists ==
  ASSUME NEW A, NEW a \in A, NEW step \in [A -> A]
  PROVE  \E g \in [Nat -> A] : g = [k \in Nat |-> IF k = 0 THEN a ELSE step[g[k - 1]]]
<1> DEFINE Each(n) == [k \in 1..n |-> step]
           G(n) == CHOOSE g : Steps(g, n, A, a, Each(n))
           g == [n \in Nat |-> G(n)[n]]
<1>1. ASSUME NEW n \in Nat PROVE Steps(G(n), n, A, a, Each(n))
  <2>1. Each(n) \in [1..n -> [A -> A]]
    OBVIOUS
  <2> HIDE DEF Each
  <2>2. \E k : Steps(k, n, A, a, Each(n))
    BY <2>1, StepsExist
  <2>3. QED BY <2>2
<1> HIDE DEF G
<1>2. ASSUME NEW n \in Nat PROVE g[n] \in A
  <2>1. n \in 0..n
    OBVIOUS
  <2>2. QED BY <1>1, <2>1 DEF Steps
<1>3. g[0] = a
  BY <1>1 DEF Steps
<1>4. ASSUME NEW k \in Nat, k # 0 PROVE g[k] = step[g[k - 1]]
  <2>1. k - 1 \in Nat /\ k - 1 <= k /\ k \in 1..k
    BY <1>4
  <2>2. Each(k)[k] = step /\ \A j \in 1..k - 1 : Each(k - 1)[j] = Each(k)[j]
    BY <2>1
  <2> HIDE DEF Each
  <2>3. G(k)[k] = step[G(k)[k - 1]]
    BY <1>1, <2>1, <2>2 DEF Steps
  <2>4. G(k - 1)[k - 1] = G(k)[k - 1]
    BY <1>1, <2>1, <2>2, StepsAgree
  <2>5. QED BY <2>1, <2>3, <2>4
<1>5. g \in [Nat -> A]
  BY <1>2
<1>6. g = [k \in Nat |-> IF k = 0 THEN a ELSE step[g[k - 1]]]
  <2>1. \A k \in Nat : g[k] = IF k = 0 THEN a ELSE step[g[k - 1]]
    BY <1>3, <1>4
  <2> HIDE DEF g
  <2>2. QED BY <1>5, <2>1
<1>7. QED BY <1>5, <1>6

\* The least number of a set is what Min says.
LEMMA MinIs ==
  ASSUME NEW S \in SUBSET Nat, S # {}
  PROVE  Min(S) \in S /\ \A y \in S : Min(S) <= y
  BY Least DEF Min

\* The elements of a sequence, and of two after each other.
LEMMA ToSetOf ==
  ASSUME NEW A, NEW s \in Seq(A)
  PROVE  /\ Len(s) \in Nat /\ DOMAIN s = 1..Len(s) /\ \A k \in 1..Len(s) : s[k] \in A
         /\ ToSet(s) = {s[k] : k \in 1..Len(s)} /\ ToSet(s) \subseteq A
BY DEF ToSet

LEMMA AppendSet ==
  ASSUME NEW A, NEW s \in Seq(A), NEW x \in A
  PROVE  \A y : y \in ToSet(Append(s, x)) <=> y \in ToSet(s) \/ y = x
<1>1. Len(s) \in Nat /\ DOMAIN s = 1..Len(s) /\ DOMAIN Append(s, x) = 1..Len(s) + 1
  OBVIOUS
<1>2. \A i \in 1..Len(s) : Append(s, x)[i] = s[i]
  OBVIOUS
<1>3. Append(s, x)[Len(s) + 1] = x
  OBVIOUS
<1>4. \A i \in 1..Len(s) + 1 : i \in 1..Len(s) \/ i = Len(s) + 1
  BY <1>1
<1>5. \A i \in 1..Len(s) : i \in 1..Len(s) + 1
  BY <1>1
<1>6. Len(s) + 1 \in 1..Len(s) + 1
  BY <1>1
<1> DEFINE a == Append(s, x)
<1>7. \A i \in DOMAIN a : a[i] = x \/ \E j \in DOMAIN s : a[i] = s[j]
  BY <1>1, <1>2, <1>3, <1>4
<1>8. \A j \in DOMAIN s : \E i \in DOMAIN a : a[i] = s[j]
  BY <1>1, <1>2, <1>5
<1>9. \E i \in DOMAIN a : a[i] = x
  BY <1>1, <1>3, <1>6
<1> HIDE DEF a
<1>10. \A y : /\ y \in ToSet(a) <=> \E i \in DOMAIN a : y = a[i]
              /\ y \in ToSet(s) <=> \E i \in DOMAIN s : y = s[i]
  BY Zenon DEF ToSet
<1>11. QED BY <1>7, <1>8, <1>9, <1>10 DEF a

LEMMA ConcatIs ==
  ASSUME NEW A, NEW s \in Seq(A), NEW t \in Seq(A)
  PROVE  /\ s \o t \in Seq(A) /\ Len(s \o t) = Len(s) + Len(t)
         /\ \A k \in 1..Len(s) : (s \o t)[k] = s[k]
         /\ \A k \in 1..Len(t) : (s \o t)[Len(s) + k] = t[k]
         /\ \A k \in 1..Len(s) + Len(t) : k \in 1..Len(s) \/ k - Len(s) \in 1..Len(t)
         /\ ToSet(s \o t) = ToSet(s) \cup ToSet(t)
<1> DEFINE c == s \o t
           m == Len(s)
           n == Len(t)
<1>1. m \in Nat /\ n \in Nat /\ DOMAIN s = 1..m /\ DOMAIN t = 1..n
  BY ToSetOf
<1>2. c \in Seq(A) /\ Len(c) = m + n
  BY ConcatProperties
<1>3. \A k \in 1..m + n : c[k] = IF k <= m THEN s[k] ELSE t[k - m]
  BY ConcatProperties
<1>4. DOMAIN c = 1..m + n
  BY <1>2, ToSetOf
<1> HIDE DEF c, m, n
<1>5. \A k \in 1..m : c[k] = s[k]
  <2> TAKE k \in 1..m
  <2>1. k \in 1..m + n /\ k <= m
    BY <1>1
  <2>2. QED BY <1>3, <2>1
<1>6. \A k \in 1..n : c[m + k] = t[k]
  <2> TAKE k \in 1..n
  <2>1. m + k \in 1..m + n /\ ~ (m + k <= m) /\ (m + k) - m = k
    BY <1>1
  <2>2. QED BY <1>3, <2>1
<1>7. \A k \in 1..m + n : k \in 1..m \/ k - m \in 1..n
  BY <1>1
<1>8. ToSet(c) = ToSet(s) \cup ToSet(t)
  <2>1. ASSUME NEW x \in ToSet(c) PROVE x \in ToSet(s) \cup ToSet(t)
    <3>1. PICK k \in 1..m + n : x = c[k]
      BY <1>4 DEF ToSet
    <3>2. CASE k \in 1..m
      BY <1>1, <1>5, <3>1, <3>2 DEF ToSet
    <3>3. CASE k - m \in 1..n
      <4>1. m + (k - m) = k
        BY <1>1
      <4>2. QED BY <1>1, <1>6, <3>1, <3>3, <4>1 DEF ToSet
    <3>4. QED BY <1>7, <3>2, <3>3
  <2>2. ASSUME NEW x \in ToSet(s) PROVE x \in ToSet(c)
    <3>1. PICK k \in 1..m : x = s[k]
      BY <1>1 DEF ToSet
    <3>2. k \in 1..m + n
      BY <1>1
    <3>3. QED BY <1>4, <1>5, <3>1, <3>2 DEF ToSet
  <2>3. ASSUME NEW x \in ToSet(t) PROVE x \in ToSet(c)
    <3>1. PICK k \in 1..n : x = t[k]
      BY <1>1 DEF ToSet
    <3>2. m + k \in 1..m + n
      BY <1>1
    <3>3. QED BY <1>4, <1>6, <3>1, <3>2 DEF ToSet
  <2>4. QED BY <2>1, <2>2, <2>3
<1>9. QED BY <1>2, <1>5, <1>6, <1>7, <1>8 DEF c, m, n

-----------------------------------------------------------------------------
(* Recursive functions.  phi computes the values of a function from its    *)
(* values at places of a lower rank.                                       *)

WellRanked(D, A, a, n, rank, phi) ==
  /\ a \in A /\ n \in Nat /\ rank \in [D -> 0..n] /\ phi \in [[D -> A] -> [D -> A]]
  /\ \A f, g \in [D -> A] : \A x \in D :
       (\A y \in D : rank[y] < rank[x] => f[y] = g[y]) => phi[f][x] = phi[g][x]

LEMMA FixedPoint ==
  ASSUME NEW D, NEW A, NEW a, NEW n, NEW rank, NEW phi, WellRanked(D, A, a, n, rank, phi)
  PROVE  \E f \in [D -> A] : f = phi[f]
<1>0. /\ a \in A /\ n \in Nat /\ rank \in [D -> 0..n] /\ phi \in [[D -> A] -> [D -> A]]
      /\ \A f, g \in [D -> A] : \A x \in D :
           (\A y \in D : rank[y] < rank[x] => f[y] = g[y]) => phi[f][x] = phi[g][x]
  BY DEF WellRanked
<1> DEFINE B == [D -> A]
           N == n + 2
           step == [k \in 1..N |-> phi]
           start == [x \in D |-> a]
<1>1. start \in B /\ N \in Nat /\ step \in [1..N -> [B -> B]] /\ \A k \in 1..N : step[k] = phi
  BY <1>0
<1> HIDE DEF B, N, step, start
<1>2. PICK g : Steps(g, N, B, start, step)
  BY <1>1, StepsExist
<1>3. \A k \in 0..N : g[k] \in B
  BY <1>2 DEF Steps
<1>4. \A k \in 1..N : g[k] = phi[g[k - 1]]
  BY <1>1, <1>2 DEF Steps
<1> DEFINE S == {k \in Nat : k <= n + 1 => \A x \in D : rank[x] < k => g[k][x] = g[k + 1][x]}
<1>5. 0 \in S
  BY <1>0
<1>6. ASSUME NEW k \in S PROVE k + 1 \in S
  <2>1. SUFFICES ASSUME k + 1 <= n + 1, NEW x \in D, rank[x] < k + 1
                 PROVE  g[k + 1][x] = g[(k + 1) + 1][x]
    OBVIOUS
  <2>2. /\ k \in Nat /\ k <= n + 1 /\ k \in 0..N /\ k + 1 \in 0..N /\ k + 1 \in 1..N
        /\ (k + 1) + 1 \in 1..N /\ (k + 1) - 1 = k /\ ((k + 1) + 1) - 1 = k + 1
    BY <1>0, <2>1 DEF N
  <2>3. g[k + 1] = phi[g[k]] /\ g[(k + 1) + 1] = phi[g[k + 1]] /\ g[k] \in B /\ g[k + 1] \in B
    BY <1>3, <1>4, <2>2
  <2>4. \A y \in D : rank[y] < rank[x] => g[k][y] = g[k + 1][y]
    <3> SUFFICES ASSUME NEW y \in D, rank[y] < rank[x] PROVE g[k][y] = g[k + 1][y]
      OBVIOUS
    <3>1. rank[y] < k
      BY <1>0, <2>1, <2>2
    <3>2. QED BY <2>2, <3>1
  <2> HIDE DEF S
  <2>5. QED BY <1>0, <2>3, <2>4 DEF B
<1> HIDE DEF S
<1>7. S = Nat
  <2>1. S \in SUBSET Nat
    BY DEF S
  <2>2. QED BY <1>5, <1>6, <2>1, Inductive
<1>8. n + 1 \in S
  BY <1>0, <1>7
<1>9. \A x \in D : rank[x] < n + 1 /\ rank[x] \in Nat
  BY <1>0
<1>10. \A x \in D : g[n + 1][x] = g[(n + 1) + 1][x]
  BY <1>8, <1>9 DEF S
<1>11. /\ n + 1 \in 0..N /\ (n + 1) + 1 \in 1..N /\ (n + 1) + 1 \in 0..N /\ ((n + 1) + 1) - 1 = n + 1
  BY <1>0 DEF N
<1>12. g[n + 1] \in B /\ g[(n + 1) + 1] \in B /\ g[(n + 1) + 1] = phi[g[n + 1]]
  BY <1>3, <1>4, <1>11
<1>13. g[n + 1] = g[(n + 1) + 1]
  BY <1>10, <1>12 DEF B
<1>14. QED BY <1>12, <1>13 DEF B

\* The same on the naturals, where the rank of a number is itself.
Causal(A, phi) ==
  /\ phi \in [[Nat -> A] -> [Nat -> A]]
  /\ \A f, g \in [Nat -> A] : \A x \in Nat :
       (\A y \in 0..x-1 : f[y] = g[y]) => phi[f][x] = phi[g][x]

LEMMA FixedPointOnNat ==
  ASSUME NEW A, NEW a \in A, NEW phi, Causal(A, phi)
  PROVE  \E f \in [Nat -> A] : f = phi[f]
<1> DEFINE B == [Nat -> A]
           start == [x \in Nat |-> a]
<1>0. ASSUME NEW f \in B, NEW g \in B, NEW x \in Nat, \A y \in 0..x-1 : f[y] = g[y]
      PROVE  phi[f][x] = phi[g][x]
  BY <1>0 DEF Causal
<1>1. start \in B /\ phi \in [B -> B]
  BY DEF Causal
<1> HIDE DEF B, start
<1>2. PICK g \in [Nat -> B] : g = [k \in Nat |-> IF k = 0 THEN start ELSE phi[g[k - 1]]]
  BY <1>1, IterationExists
<1>3. ASSUME NEW k \in Nat PROVE g[k] \in B /\ g[k + 1] = phi[g[k]]
  <2>1. k + 1 \in Nat /\ k + 1 # 0 /\ (k + 1) - 1 = k
    OBVIOUS
  <2>2. QED BY <1>2, <2>1
<1> DEFINE S == {k \in Nat : \A x \in 0..k-1 : g[k][x] = g[k + 1][x]}
<1>4. 0 \in S
  OBVIOUS
<1>5. ASSUME NEW k \in S PROVE k + 1 \in S
  <2>1. k \in Nat /\ k + 1 \in Nat
    OBVIOUS
  <2>2. SUFFICES ASSUME NEW x \in 0..k PROVE g[k + 1][x] = g[(k + 1) + 1][x]
    BY <2>1
  <2>3. g[k + 1] = phi[g[k]] /\ g[(k + 1) + 1] = phi[g[k + 1]] /\ g[k] \in B /\ g[k + 1] \in B
    BY <1>3, <2>1
  <2>4. \A y \in 0..x-1 : g[k][y] = g[k + 1][y]
    BY <2>1
  <2> HIDE DEF S
  <2>5. x \in Nat
    BY <2>1
  <2>6. QED BY <1>0, <2>3, <2>4, <2>5
<1>6. S = Nat
  <2>1. S \in SUBSET Nat
    OBVIOUS
  <2> HIDE DEF S
  <2>2. QED BY <1>4, <1>5, <2>1, Inductive
<1>7. ASSUME NEW k \in Nat, NEW x \in 0..k-1 PROVE g[k][x] = g[k + 1][x]
  BY <1>6
<1> HIDE DEF S
<1>8. ASSUME NEW x \in Nat PROVE \A d \in Nat : g[(x + 1) + d][x] = g[x + 1][x]
  <2> DEFINE T == {d \in Nat : g[(x + 1) + d][x] = g[x + 1][x]}
  <2>1. 0 \in T
    OBVIOUS
  <2>2. ASSUME NEW d \in T PROVE d + 1 \in T
    <3>1. /\ d \in Nat /\ (x + 1) + d \in Nat /\ x \in 0..((x + 1) + d) - 1
          /\ (x + 1) + (d + 1) = ((x + 1) + d) + 1 /\ d + 1 \in Nat
      OBVIOUS
    <3>2. g[(x + 1) + d][x] = g[((x + 1) + d) + 1][x]
      BY <1>7, <3>1
    <3>3. QED BY <3>1, <3>2
  <2>3. T = Nat
    <3>1. T \in SUBSET Nat
      OBVIOUS
    <3> HIDE DEF T
    <3>2. QED BY <2>1, <2>2, <3>1, Inductive
  <2>4. QED BY <2>3
<1> DEFINE f == [x \in Nat |-> g[x + 1][x]]
<1>9. f \in B
  <2>1. \A x \in Nat : g[x + 1][x] \in A
    BY <1>3 DEF B
  <2>2. QED BY <2>1 DEF B
<1>10. ASSUME NEW x \in Nat PROVE f[x] = phi[f][x]
  <2>1. \A y \in 0..x-1 : f[y] = g[x][y]
    <3> TAKE y \in 0..x-1
    <3>1. y \in Nat /\ x - (y + 1) \in Nat /\ (y + 1) + (x - (y + 1)) = x
      OBVIOUS
    <3>2. g[(y + 1) + (x - (y + 1))][y] = g[y + 1][y]
      BY <1>8, <3>1
    <3>3. QED BY <3>1, <3>2
  <2>2. f[x] = phi[g[x]][x] /\ g[x] \in B
    BY <1>3
  <2> HIDE DEF f
  <2>3. phi[f][x] = phi[g[x]][x]
    BY <1>0, <1>9, <2>1, <2>2
  <2>4. QED BY <2>2, <2>3
<1>11. phi[f] \in B
  BY <1>1, <1>9
<1> HIDE DEF f
<1>12. f = phi[f]
  BY <1>9, <1>10, <1>11 DEF B
<1>13. QED BY <1>9, <1>12 DEF B

\* What holds at 0, and at a number if it holds at all higher ones.
LEMMA FromTheEnd ==
  ASSUME NEW n \in Nat, NEW P, 0 \in P, \A m \in 1..n : (\A k \in m + 1..n : k \in P) => m \in P
  PROVE  \A m \in 0..n : m \in P
<1> DEFINE T == {k \in Nat : k < n /\ n - k \notin P}
<1>1. T = {}
  <2>1. SUFFICES ASSUME T # {} PROVE FALSE
    OBVIOUS
  <2>2. PICK k \in T : \A j \in T : k <= j
    <3>1. T \in SUBSET Nat
      OBVIOUS
    <3> HIDE DEF T
    <3>2. QED BY <2>1, <3>1, Least
  <2>3. n - k \in 1..n /\ n - k \notin P
    OBVIOUS
  <2>4. ASSUME NEW m \in (n - k) + 1..n PROVE m \in P
    <3>1. n - m \in Nat /\ n - m < n /\ n - (n - m) = m /\ ~ (k <= n - m)
      BY <2>3
    <3>2. QED BY <2>2, <3>1
  <2>5. QED BY <2>3, <2>4
<1>2. SUFFICES ASSUME NEW m \in 1..n PROVE m \in P
  OBVIOUS
<1>3. n - m \in Nat /\ n - m < n /\ n - (n - m) = m
  OBVIOUS
<1>4. QED BY <1>1, <1>3

-----------------------------------------------------------------------------
(* Sequences without one of their elements.                                *)

LEMMA RemoveAtIs ==
  ASSUME NEW A, NEW s \in Seq(A), NEW i \in 1..Len(s)
  PROVE  /\ RemoveAt(s, i) \in Seq(A) /\ Len(RemoveAt(s, i)) = Len(s) - 1
         /\ \A j \in 1..Len(s) - 1 : RemoveAt(s, i)[j] = IF j < i THEN s[j] ELSE s[j + 1]
<1> DEFINE a == RemoveAt(s, i)
           n == Len(s)
<1>1. n \in Nat /\ DOMAIN s = 1..n /\ i \in Nat /\ 1 <= i /\ i <= n
  OBVIOUS
<1>2. a = SubSeq(s, 1, i - 1) \o SubSeq(s, i + 1, n)
  BY DEF RemoveAt
<1> DEFINE b == SubSeq(s, 1, i - 1)
           d == SubSeq(s, i + 1, n)
<1>3. b \in Seq(A) /\ Len(b) = i - 1 /\ \A j \in 1..i - 1 : b[j] = s[j]
  BY <1>1
<1>4. d \in Seq(A) /\ Len(d) = n - i /\ \A j \in 1..n - i : d[j] = s[j + i]
  <2>1. \A j \in i + 1..n : s[j] \in A
    BY <1>1
  <2>2. /\ d \in Seq(A) /\ Len(d) = IF i + 1 <= n THEN n - (i + 1) + 1 ELSE 0
        /\ \A j \in 1..n - (i + 1) + 1 : d[j] = s[(i + 1) + j - 1]
    <3>1. i + 1 \in Int /\ n \in Int
      BY <1>1
    <3> HIDE DEF n
    <3>2. QED BY <2>1, <3>1, SubSeqProperties
  <2>3. n - (i + 1) + 1 = n - i /\ (~ (i + 1 <= n) => n - i = 0)
        /\ \A j \in 1..n - i : (i + 1) + j - 1 = j + i
    <3> HIDE DEF n
    <3> QED BY <1>1
  <2> HIDE DEF d, n
  <2>4. QED BY <2>2, <2>3
<1> HIDE DEF b, d
<1>5. a = b \o d
  BY <1>2 DEF b, d
<1>6. a \in Seq(A) /\ Len(a) = n - 1
  <2>1. b \o d \in Seq(A) /\ Len(b \o d) = Len(b) + Len(d)
    BY <1>3, <1>4, ConcatProperties
  <2> HIDE DEF a, n
  <2>2. QED BY <1>1, <1>3, <1>4, <1>5, <2>1
<1>7. \A j \in 1..n - 1 : a[j] = IF j <= i - 1 THEN b[j] ELSE d[j - (i - 1)]
  <2>1. Len(b) + Len(d) = n - 1
    BY <1>1, <1>3, <1>4
  <2>2. \A j \in 1..Len(b) + Len(d) : (b \o d)[j] = IF j <= Len(b) THEN b[j] ELSE d[j - Len(b)]
    BY <1>3, <1>4, ConcatProperties
  <2> HIDE DEF a, n
  <2>3. QED BY <1>3, <1>5, <2>1, <2>2
<1>8. \A j \in 1..n - 1 : a[j] = IF j < i THEN s[j] ELSE s[j + 1]
  <2> SUFFICES ASSUME NEW j \in 1..n - 1 PROVE a[j] = IF j < i THEN s[j] ELSE s[j + 1]
    OBVIOUS
  <2> HIDE DEF a, n
  <2>1. CASE j < i
    <3>1. j <= i - 1 /\ j \in 1..i - 1
      BY <1>1, <2>1
    <3>2. QED BY <1>3, <1>7, <2>1, <3>1
  <2>2. CASE ~ (j < i)
    <3>1. ~ (j <= i - 1) /\ j - (i - 1) \in 1..n - i /\ (j - (i - 1)) + i = j + 1
      BY <1>1, <2>2
    <3>2. QED BY <1>4, <1>7, <2>2, <3>1
  <2>3. QED BY <2>1, <2>2
<1> HIDE DEF a, n
<1>9. QED BY <1>6, <1>8 DEF a, n

-----------------------------------------------------------------------------
(* Lines of nodes.  A walk along a line meets the line.                    *)

From(n, C) ==
  CHOOSE f : f = [e \in C |-> <<e>> \o (IF n[e] \in C THEN f[n[e]] ELSE <<>>)]

LEMMA WalkIsFrom ==
  ASSUME NEW x, NEW n, NEW C
  PROVE  Walk(x, n, C) = IF x \in C THEN From(n, C)[x] ELSE <<>>
BY DEF Walk, From

LEMMA LineFacts ==
  ASSUME NEW s, NEW x, NEW n, NEW C, Line(s, x, n, C)
  PROVE  /\ s \in Seq(C) /\ Len(s) \in Nat /\ DOMAIN s = 1..Len(s)
         /\ \A i \in 1..Len(s) : s[i] \in C
         /\ \A e \in C : \E i \in 1..Len(s) : e = s[i]
         /\ \A i, j \in 1..Len(s) : s[i] = s[j] => i = j
         /\ s = <<>> <=> Len(s) = 0
         /\ Len(s) = 0 => x \notin C /\ C = {}
         /\ Len(s) # 0 => x = s[1] /\ x \in C /\ n[s[Len(s)]] \notin C
         /\ \A i \in 1..Len(s)-1 : n[s[i]] = s[i + 1]
<1>1. s \in Seq(C) /\ \A e \in C : \E i \in 1..Len(s) : e = s[i]
  BY DEF Line
<1>2. Len(s) \in Nat /\ DOMAIN s = 1..Len(s) /\ (s = <<>> <=> Len(s) = 0)
  BY <1>1
<1>3. \A i \in 1..Len(s) : s[i] \in C
  BY <1>1, <1>2
<1>4. Len(s) # 0 => 1 \in 1..Len(s)
  BY <1>2
<1>5. QED BY <1>1, <1>2, <1>3, <1>4 DEF Line

LEMMA WalkAlong ==
  ASSUME NEW s, NEW x, NEW n, NEW C, Line(s, x, n, C)
  PROVE  Walk(x, n, C) = s
<1> DEFINE N == Len(s)
           at(e) == CHOOSE i \in 1..N : e = s[i]
           f == [e \in C |-> SubSeq(s, at(e), N)]
<1>1. /\ s \in Seq(C) /\ N \in Nat
      /\ \A i \in 1..N : s[i] \in C
      /\ \A e \in C : \E i \in 1..N : e = s[i]
      /\ \A i, j \in 1..N : s[i] = s[j] => i = j
      /\ s = <<>> <=> N = 0
      /\ N = 0 => x \notin C
      /\ N # 0 => x = s[1] /\ x \in C /\ n[s[N]] \notin C
      /\ \A i \in 1..N-1 : n[s[i]] = s[i + 1]
  BY LineFacts
<1>2. ASSUME NEW i \in 1..N PROVE f[s[i]] = SubSeq(s, i, N)
  <2> HIDE DEF N
  <2>1. at(s[i]) \in 1..N /\ s[i] = s[at(s[i])]
    OBVIOUS
  <2>2. at(s[i]) = i
    <3> HIDE DEF at
    <3> QED BY <1>1, <2>1
  <2> HIDE DEF at
  <2>3. QED BY <1>1, <2>2
<1> HIDE DEF at
<1>a. f = [e \in C |-> f[e]]
  OBVIOUS
<1> HIDE DEF f
<1>3. ASSUME NEW i \in 1..N
      PROVE  f[s[i]] = <<s[i]>> \o (IF n[s[i]] \in C THEN f[n[s[i]]] ELSE <<>>)
  <2>1. f[s[i]] = <<s[i]>> \o SubSeq(s, i + 1, N)
    <3>1. i \in 1..Len(s) /\ Len(s) \in i..Len(s) /\ s \in Seq(C)
      BY <1>1
    <3>2. SubSeq(s, i, Len(s)) = <<s[i]>> \o SubSeq(s, i + 1, Len(s))
      BY <3>1, SubSeqRecursiveFirst
    <3>3. QED BY <1>2, <3>2
  <2>2. CASE i = N
    <3>1. SubSeq(s, i + 1, N) = <<>>
      <4>1. N < i + 1 /\ N \in Int /\ i + 1 \in Int
        BY <1>1, <2>2
      <4> HIDE DEF N
      <4>2. QED BY <4>1, SubSeqEmpty
    <3>2. n[s[i]] \notin C
      BY <1>1, <2>2
    <3>3. QED BY <2>1, <3>1, <3>2
  <2>3. CASE i # N
    <3>1. i \in 1..N - 1 /\ i + 1 \in 1..N
      BY <1>1, <2>3
    <3>2. n[s[i]] = s[i + 1] /\ s[i + 1] \in C
      BY <1>1, <3>1
    <3>3. f[s[i + 1]] = SubSeq(s, i + 1, N)
      BY <1>2, <3>1
    <3>4. QED BY <2>1, <3>2, <3>3
  <2>4. QED BY <2>2, <2>3
<1>4. f = [e \in C |-> <<e>> \o (IF n[e] \in C THEN f[n[e]] ELSE <<>>)]
  <2>1. \A e \in C : f[e] = <<e>> \o (IF n[e] \in C THEN f[n[e]] ELSE <<>>)
    <3> SUFFICES ASSUME NEW e \in C
                 PROVE  f[e] = <<e>> \o (IF n[e] \in C THEN f[n[e]] ELSE <<>>)
      OBVIOUS
    <3>1. PICK i \in 1..N : e = s[i]
      BY <1>1
    <3>2. QED BY <1>3, <3>1
  <2>2. QED BY <1>a, <2>1
<1> DEFINE g == From(n, C)
<1>5. g = [e \in C |-> <<e>> \o (IF n[e] \in C THEN g[n[e]] ELSE <<>>)]
  <2>1. \E h : h = [e \in C |-> <<e>> \o (IF n[e] \in C THEN h[n[e]] ELSE <<>>)]
    BY <1>4
  <2>2. QED BY <2>1, Zenon DEF From
<1> HIDE DEF g
<1>6. \A e \in C : g[e] = <<e>> \o (IF n[e] \in C THEN g[n[e]] ELSE <<>>)
  BY <1>5
<1> DEFINE S == {k \in Nat : k < N => g[s[N - k]] = f[s[N - k]]}
<1>7. 0 \in S
  <2> SUFFICES ASSUME 0 < N PROVE g[s[N]] = f[s[N]]
    BY <1>1
  <2>1. N \in 1..N /\ s[N] \in C /\ n[s[N]] \notin C
    BY <1>1
  <2>2. g[s[N]] = <<s[N]>> \o <<>>
    BY <1>6, <2>1
  <2>3. f[s[N]] = <<s[N]>> \o <<>>
    BY <1>3, <2>1
  <2>4. QED BY <2>2, <2>3
<1>8. ASSUME NEW k \in S PROVE k + 1 \in S
  <2>0. k \in Nat
    OBVIOUS
  <2>1. SUFFICES ASSUME k + 1 < N PROVE g[s[N - (k + 1)]] = f[s[N - (k + 1)]]
    BY <2>0
  <2> DEFINE i == N - (k + 1)
  <2>2. i \in 1..N - 1 /\ i \in 1..N /\ i + 1 = N - k /\ i + 1 \in 1..N /\ k < N
    <3> HIDE DEF N
    <3> QED BY <1>1, <2>0, <2>1
  <2>3. g[s[i + 1]] = f[s[i + 1]]
    BY <2>2
  <2> HIDE DEF i, S
  <2>4. n[s[i]] = s[i + 1] /\ s[i + 1] \in C /\ s[i] \in C
    BY <1>1, <2>2
  <2>5. g[s[i]] = <<s[i]>> \o g[s[i + 1]]
    BY <1>6, <2>4
  <2>6. f[s[i]] = <<s[i]>> \o f[s[i + 1]]
    BY <1>3, <2>2, <2>4
  <2>7. g[s[i]] = f[s[i]]
    BY <2>3, <2>5, <2>6
  <2>8. QED BY <2>7 DEF i
<1>9. S = Nat
  <2>1. S \in SUBSET Nat
    BY DEF S
  <2> HIDE DEF S
  <2>2. QED BY <1>7, <1>8, <2>1, Inductive
<1>10. CASE N = 0
  <2>1. Walk(x, n, C) = <<>> /\ s = <<>>
    BY <1>1, <1>10, WalkIsFrom
  <2>2. QED BY <2>1
<1>11. CASE N # 0
  <2>1. N - 1 \in Nat /\ N - 1 < N /\ N - (N - 1) = 1 /\ 1 \in 1..N
    BY <1>1, <1>11
  <2>2. N - 1 \in S
    <3> HIDE DEF S
    <3> QED BY <1>9, <2>1
  <2>3. g[s[1]] = f[s[1]]
    BY <2>1, <2>2
  <2>4. f[s[1]] = SubSeq(s, 1, N)
    BY <1>2, <2>1
  <2>5. SubSeq(s, 1, N) = s
    BY <1>1, SubSeqFull
  <2>6. Walk(x, n, C) = g[s[1]]
    BY <1>1, <1>11, WalkIsFrom DEF g
  <2>7. QED BY <2>3, <2>4, <2>5, <2>6
<1>12. QED BY <1>10, <1>11

LEMMA LineEmpty ==
  ASSUME NEW x, NEW n
  PROVE  Line(<<>>, x, n, {})
BY DEF Line

\* A node that is put behind the last one ends the line.
LEMMA LineAppend ==
  ASSUME NEW s, NEW x, NEW n, NEW C, Line(s, x, n, C), NEW e, e \notin C, NEW x2, NEW n2,
         n2[e] \notin C \cup {e},
         \A c \in C : n2[c] = IF c = s[Len(s)] THEN e ELSE n[c],
         x2 = IF s = <<>> THEN e ELSE x
  PROVE  Line(Append(s, e), x2, n2, C \cup {e})
<1> DEFINE N == Len(s)
           D == C \cup {e}
           a == Append(s, e)
<1>1. /\ s \in Seq(C) /\ N \in Nat
      /\ \A i \in 1..N : s[i] \in C
      /\ \A c \in C : \E i \in 1..N : c = s[i]
      /\ \A i, j \in 1..N : s[i] = s[j] => i = j
      /\ s = <<>> <=> N = 0
      /\ N # 0 => x = s[1] /\ n[s[N]] \notin C
      /\ \A i \in 1..N-1 : n[s[i]] = s[i + 1]
  BY LineFacts
<1>2. s \in Seq(D) /\ e \in D
  BY <1>1
<1> HIDE DEF D
<1>3. /\ a \in Seq(D) /\ a # <<>> /\ Len(a) = N + 1 /\ a[N + 1] = e
      /\ \A i \in 1..N : a[i] = s[i]
  BY <1>2, AppendProperties
<1> HIDE DEF a
<1>4. \A i \in 1..N : n2[s[i]] = IF i = N THEN e ELSE s[i + 1]
  <2> SUFFICES ASSUME NEW i \in 1..N PROVE n2[s[i]] = IF i = N THEN e ELSE s[i + 1]
    OBVIOUS
  <2>1. CASE i = N
    BY <1>1, <2>1
  <2>2. CASE i # N
    <3>1. i \in 1..N - 1 /\ N \in 1..N
      BY <1>1, <2>2
    <3>2. s[i] # s[N]
      BY <1>1, <2>2, <3>1
    <3>3. QED BY <1>1, <2>2, <3>1, <3>2
  <2>3. QED BY <2>1, <2>2
<1>5. \A i \in 1..N + 1 : i = N + 1 \/ i \in 1..N
  BY <1>1
<1>6. \A c \in D : \E i \in 1..Len(a) : c = a[i]
  <2>1. ASSUME NEW c \in C PROVE \E i \in 1..Len(a) : c = a[i]
    <3>1. PICK i \in 1..N : c = s[i]
      BY <1>1
    <3>2. i \in 1..N + 1
      BY <1>1
    <3>3. QED BY <1>3, <3>1, <3>2
  <2>2. N + 1 \in 1..N + 1
    BY <1>1
  <2>3. QED BY <1>3, <2>1, <2>2 DEF D
<1>7. \A i, j \in 1..Len(a) : a[i] = a[j] => i = j
  <2> HIDE DEF N
  <2>1. ASSUME NEW i \in 1..N PROVE a[i] # e
    <3>1. a[i] = s[i]
      BY <1>3
    <3>2. s[i] \in C
      BY <1>1
    <3>3. QED BY <3>1, <3>2
  <2>2. QED BY <1>1, <1>3, <1>5, <2>1
<1>8. x2 = a[1]
  <2>1. CASE N = 0
    BY <1>1, <1>3, <2>1
  <2>2. CASE N # 0
    BY <1>1, <1>3, <2>2
  <2>3. QED BY <2>1, <2>2
<1>9. n2[a[Len(a)]] \notin D
  BY <1>3 DEF D
<1>10. \A i \in 1..Len(a)-1 : n2[a[i]] = a[i + 1]
  <2> HIDE DEF N
  <2>0. Len(a) - 1 = N
    BY <1>1, <1>3
  <2> SUFFICES ASSUME NEW i \in 1..N PROVE n2[a[i]] = a[i + 1]
    BY <2>0
  <2>1. n2[a[i]] = IF i = N THEN e ELSE s[i + 1]
    BY <1>3, <1>4
  <2>2. i # N => i + 1 \in 1..N
    BY <1>1
  <2>3. QED BY <1>3, <2>1, <2>2
<1>11. Line(a, x2, n2, D)
  <2> HIDE DEF N
  <2>1. QED BY <1>3, <1>6, <1>7, <1>8, <1>9, <1>10 DEF Line
<1>12. QED BY <1>11 DEF a, D

\* A node is passed over.
LEMMA LineRemove ==
  ASSUME NEW s, NEW x, NEW n, NEW C, Line(s, x, n, C), NEW k \in 1..Len(s), NEW x2, NEW n2,
         x2 = IF k = 1 THEN n[s[k]] ELSE x,
         \A c \in C \ {s[k]} : n2[c] = IF n[c] = s[k] THEN n[s[k]] ELSE n[c]
  PROVE  Line(RemoveAt(s, k), x2, n2, C \ {s[k]})
<1> DEFINE N == Len(s)
           D == C \ {s[k]}
           a == RemoveAt(s, k)
<1>1. /\ s \in Seq(C) /\ N \in Nat /\ k \in 1..N /\ N # 0
      /\ \A i \in 1..N : s[i] \in C
      /\ \A c \in C : \E i \in 1..N : c = s[i]
      /\ \A i, j \in 1..N : s[i] = s[j] => i = j
      /\ x = s[1] /\ n[s[N]] \notin C
      /\ \A i \in 1..N-1 : n[s[i]] = s[i + 1]
  BY LineFacts
<1>2. /\ a \in Seq(C) /\ Len(a) = N - 1
      /\ \A j \in 1..N - 1 : a[j] = IF j < k THEN s[j] ELSE s[j + 1]
  BY <1>1, RemoveAtIs
<1> HIDE DEF a
<1>a. \A i \in 1..N : i # k => s[i] \in D /\ n2[s[i]] = IF n[s[i]] = s[k] THEN n[s[k]] ELSE n[s[i]]
  BY <1>1
<1> HIDE DEF D
<1>b. D \subseteq C /\ \A c \in D : c \in C /\ c # s[k]
  BY DEF D
<1>3. a \in Seq(D)
  <2> HIDE DEF N
  <2>1. \A j \in 1..N - 1 : a[j] \in D
    <3> SUFFICES ASSUME NEW j \in 1..N - 1 PROVE a[j] \in D
      OBVIOUS
    <3>1. j \in 1..N /\ j + 1 \in 1..N
      BY <1>1
    <3>2. CASE j < k
      <4>1. j # k /\ a[j] = s[j]
        BY <1>1, <1>2, <3>1, <3>2
      <4>2. QED BY <1>a, <3>1, <4>1
    <3>3. CASE ~ (j < k)
      <4>1. j + 1 # k /\ a[j] = s[j + 1]
        BY <1>1, <1>2, <3>1, <3>3
      <4>2. QED BY <1>a, <3>1, <4>1
    <3>4. QED BY <3>2, <3>3
  <2>2. QED BY <1>1, <1>2, <2>1
<1>4. \A c \in D : \E j \in 1..Len(a) : c = a[j]
  <2> SUFFICES ASSUME NEW c \in D PROVE \E j \in 1..Len(a) : c = a[j]
    OBVIOUS
  <2> HIDE DEF N
  <2>1. PICK i \in 1..N : c = s[i]
    BY <1>1, <1>b
  <2>2. i # k
    BY <1>b, <2>1
  <2>3. CASE i < k
    <3>1. i \in 1..N - 1
      BY <1>1, <2>3
    <3>2. QED BY <1>2, <2>1, <2>3, <3>1
  <2>4. CASE i > k
    <3>1. i - 1 \in 1..N - 1 /\ ~ (i - 1 < k) /\ (i - 1) + 1 = i
      BY <1>1, <2>4
    <3>2. a[i - 1] = s[i]
      BY <1>2, <3>1
    <3>3. QED BY <1>2, <2>1, <3>1, <3>2
  <2>5. QED BY <1>1, <2>2, <2>3, <2>4
<1>5. \A i, j \in 1..Len(a) : a[i] = a[j] => i = j
  <2> HIDE DEF N
  <2> SUFFICES ASSUME NEW i \in 1..N - 1, NEW j \in 1..N - 1, a[i] = a[j] PROVE i = j
    BY <1>2
  <2> DEFINE p(l) == IF l < k THEN l ELSE l + 1
  <2>1. p(i) \in 1..N /\ p(j) \in 1..N /\ (p(i) = p(j) => i = j)
    BY <1>1
  <2>2. a[i] = s[p(i)] /\ a[j] = s[p(j)]
    BY <1>2
  <2> HIDE DEF p
  <2>3. QED BY <1>1, <2>1, <2>2
<1>6. \A i \in 1..N - 1 : n[s[i]] = s[k] <=> i + 1 = k
  <2> HIDE DEF N
  <2> SUFFICES ASSUME NEW i \in 1..N - 1 PROVE n[s[i]] = s[k] <=> i + 1 = k
    OBVIOUS
  <2>1. i + 1 \in 1..N /\ n[s[i]] = s[i + 1]
    BY <1>1
  <2>2. QED BY <1>1, <2>1
<1>7. \A i \in 1..N - 1 : i # k => n2[s[i]] = IF i + 1 = k THEN n[s[k]] ELSE s[i + 1]
  <2> HIDE DEF N
  <2> SUFFICES ASSUME NEW i \in 1..N - 1, i # k
               PROVE  n2[s[i]] = IF i + 1 = k THEN n[s[k]] ELSE s[i + 1]
    OBVIOUS
  <2>1. i \in 1..N
    BY <1>1
  <2>2. QED BY <1>1, <1>6, <1>a, <2>1
<1>8. k # N => n2[s[N]] = n[s[N]]
  <2> HIDE DEF N
  <2>1. N \in 1..N /\ n[s[N]] # s[k]
    BY <1>1
  <2>2. QED BY <1>1, <1>a, <2>1
<1>9. CASE N = 1
  <2>1. k = 1 /\ a = <<>>
    BY <1>1, <1>2, <1>9
  <2>2. x2 \notin D
    BY <1>1, <1>9, <1>b, <2>1
  <2>3. Line(a, x2, n2, D)
    <3> HIDE DEF N
    <3>1. QED BY <1>2, <1>3, <1>4, <1>5, <1>9, <2>1, <2>2 DEF Line
  <2>4. QED BY <2>3 DEF a, D
<1>10. CASE N # 1
  <2> HIDE DEF N
  <2>1. 1 \in 1..N - 1 /\ N - 1 \in 1..N - 1 /\ a # <<>> /\ 1 \in 1..N
    BY <1>1, <1>2, <1>10
  <2>2. x2 = a[1]
    <3>1. a[1] = IF 1 < k THEN s[1] ELSE s[2]
      BY <1>2, <2>1
    <3>2. n[s[1]] = s[2]
      BY <1>1, <2>1
    <3>3. QED BY <1>1, <3>1, <3>2
  <2>3. n2[a[N - 1]] \notin D
    <3>1. CASE k = N
      <4>1. a[N - 1] = s[N - 1]
        BY <1>1, <1>2, <2>1, <3>1
      <4>2. n2[s[N - 1]] = n[s[N]]
        BY <1>1, <1>7, <2>1, <3>1
      <4>3. QED BY <1>1, <1>b, <4>1, <4>2
    <3>2. CASE k # N
      <4>1. a[N - 1] = s[N]
        BY <1>1, <1>2, <2>1, <3>2
      <4>2. QED BY <1>1, <1>8, <1>b, <3>2, <4>1
    <3>3. QED BY <3>1, <3>2
  <2>4. \A j \in 1..(N - 1) - 1 : n2[a[j]] = a[j + 1]
    <3> SUFFICES ASSUME NEW j \in 1..(N - 1) - 1 PROVE n2[a[j]] = a[j + 1]
      OBVIOUS
    <3>1. j \in 1..N - 1 /\ j + 1 \in 1..N - 1 /\ (j + 1) + 1 = j + 2
      BY <1>1
    <3>2. a[j] = (IF j < k THEN s[j] ELSE s[j + 1]) /\ a[j + 1] = IF j + 1 < k THEN s[j + 1] ELSE s[j + 2]
      BY <1>2, <3>1
    <3>3. n2[s[j]] = (IF j + 1 = k THEN n[s[k]] ELSE s[j + 1]) \/ j = k
      BY <1>7, <3>1
    <3>4. n2[s[j + 1]] = (IF j + 2 = k THEN n[s[k]] ELSE s[j + 2]) \/ j + 1 = k
      BY <1>7, <3>1
    <3>5. CASE j + 1 < k
      BY <1>1, <3>1, <3>2, <3>3, <3>5
    <3>6. CASE j + 1 = k
      <4>1. n[s[k]] = s[j + 2]
        BY <1>1, <3>1, <3>6
      <4>2. QED BY <1>1, <3>1, <3>2, <3>3, <3>6, <4>1
    <3>7. CASE j + 1 > k
      BY <1>1, <3>1, <3>2, <3>4, <3>7
    <3>8. QED BY <1>1, <3>1, <3>5, <3>6, <3>7
  <2>5. Line(a, x2, n2, D)
    BY <1>2, <1>3, <1>4, <1>5, <2>1, <2>2, <2>3, <2>4 DEF Line
  <2>6. QED BY <2>5 DEF a, D
<1>11. QED BY <1>9, <1>10

LEMMA RemoveAtFirst ==
  ASSUME NEW A, NEW s \in Seq(A), s # <<>>
  PROVE  RemoveAt(s, 1) = Tail(s)
<1> DEFINE a == RemoveAt(s, 1)
           t == Tail(s)
<1>1. Len(s) \in Nat /\ 1 \in 1..Len(s)
  OBVIOUS
<1>2. a \in Seq(A) /\ Len(a) = Len(s) - 1 /\ \A j \in 1..Len(s) - 1 : a[j] = IF j < 1 THEN s[j] ELSE s[j + 1]
  BY <1>1, RemoveAtIs
<1>3. t \in Seq(A) /\ Len(t) = Len(s) - 1 /\ \A j \in 1..Len(t) : t[j] = s[j + 1]
  BY HeadTailProperties
<1> HIDE DEF a, t
<1>4. \A j \in 1..Len(a) : a[j] = t[j]
  BY <1>1, <1>2, <1>3
<1>5. a = t
  BY <1>2, <1>3, <1>4, SeqEqual
<1>6. QED BY <1>5 DEF a, t

=============================================================================
